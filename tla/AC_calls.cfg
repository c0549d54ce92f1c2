SPECIFICATION FairSpec
CONSTANTS
    c1 = c1
    c2 = c2
    Nobody = Nobody
    Callers <- TwoCallers
    Attempts = 2
    MaxTokens = 2
    MaxRevocations = 1
    MaxCalls = 2
INVARIANTS NeverTwice ConflictIsOwn
PROPERTIES CallsEnd
CHECK_DEADLOCK FALSE
