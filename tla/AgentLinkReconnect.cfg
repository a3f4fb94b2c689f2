CONSTANTS
    Links = {l1, l2}
    Uris = {a1, a2}
SPECIFICATION Spec
SYMMETRY LinkSymmetry
INVARIANTS ConnectedFindable
CHECK_DEADLOCK FALSE
