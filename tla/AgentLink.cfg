CONSTANTS
    Links = {l1, l2}
    Uris = {a1, a2}
SPECIFICATION Spec
SYMMETRY LinkSymmetry
INVARIANTS LoneFindable AckedResolvable NoDeadProvider DrainedCut
PROPERTIES GrantKept
CHECK_DEADLOCK FALSE
