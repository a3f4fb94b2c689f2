CONSTANTS
    Streams = {s1, s2}
    StreamIds = {i1}
    Agents = {a1, a2}
    Fallback = {}
    P2PModes = {"required"}
    RelayModes = {"splice", "forward"}
SPECIFICATION Spec
INVARIANTS OneVerdict NothingLeaks PairHeld
SYMMETRY Symmetric
CHECK_DEADLOCK FALSE
