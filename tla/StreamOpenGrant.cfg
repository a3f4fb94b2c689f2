CONSTANTS
    Streams = {s1}
    StreamIds = {i1}
    Agents = {a1, a2}
    Fallback = {}
    P2PModes = {"allowed"}
    RelayModes = {"forward"}
SPECIFICATION Spec
INVARIANTS GrantBacked
CHECK_DEADLOCK FALSE
