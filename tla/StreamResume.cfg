CONSTANTS
    h1 = h1
    h2 = h2
    h3 = h3
    h4 = h4
    s1 = s1
    a1 = a1
    a2 = a2
    Halves = {h1, h2, h3, h4}
    Opens = {o1}
    StreamIds = {s1}
    Agents = {a1, a2}
    Arrivals <- FourHalves
SPECIFICATION FairSpec
INVARIANTS SendIsSafe SplicePaired ResumedPairRouted
PROPERTIES ImplementsRendezvous WindowCloses
CHECK_DEADLOCK FALSE
