CONSTANTS
    Streams = {s1}
    StreamIds = {i1}
    Agents = {a1, a2}
    Fallback = {a2}
    P2PModes = {"forbidden", "required"}
    RelayModes = {"splice", "forward"}
    Relays = {1, 2, 3, 4}
    Self = 1
    RegionOf <- TwoRegions
    NoEndpoint = {4}
    FirstFleet = {1, 2, 4}
    MaxChanges = 1
SPECIFICATION FleetSpec
INVARIANTS  SameOrder
PROPERTIES RequiredEnforced DepartedReleased SuccessorsFollow
CHECK_DEADLOCK FALSE
