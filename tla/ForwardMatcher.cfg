CONSTANTS
    Halves = {h1, h2, h3, h4}
    StreamIds = {s1}
    NoHalf = NoHalf
SPECIFICATION FairSpec
INVARIANTS ClosedOnce OneOutcome
PROPERTIES HandlerReturns ImplementsRendezvous
CHECK_DEADLOCK FALSE
