CONSTANTS
    Calls = {c1, c2, c3}
    PeerOf <- OnePeer
SPECIFICATION Spec
SYMMETRY CallSymmetry
INVARIANTS NoConnLeaks FailedNotReused
CHECK_DEADLOCK FALSE
