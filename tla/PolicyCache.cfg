CONSTANTS
    RulePool <- TwoRules
    Keys <- TwoKeys
    Evals = {e1}
    TTL = 1
    Capacity = 1
    MaxChanges = 2
    MaxBreaks = 1
    MaxLength = 4
SPECIFICATION FairSpec
INVARIANTS CacheBounded StaleOnlyStraddling EnforcedAsWritten
PROPERTIES EngineConverges EventuallyEnforced
