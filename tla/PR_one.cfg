SPECIFICATION Spec
CONSTANTS
    r1 = r1
    r2 = r2
    p0 = p0
    p1 = p1
    p2 = p2
    NoRow = NoRow
    NoId = NoId
    NoRun = NoRun
    Runs <- OneRun
    Prefixes <- TwoPrefixes
    Kind <- OneKind
    Prefix <- OnePrefix
    Input <- OneInput
    Manual <- ByHand
    Watched <- OneRun
    Uploads = 1
    RawKey = p0
    MaxIds = 4
    MaxDeletes = 4
    MaxClears = 1
    MaxCrashes = 1
INVARIANTS LinkSound VerdictEarned CompletedHasOutput WholeWhenRegistered
PROPERTIES FinalStatus DeletionSticks LedgerSpec
CHECK_DEADLOCK FALSE
