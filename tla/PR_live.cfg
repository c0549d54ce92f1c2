SPECIFICATION FairSpec
CONSTANTS
    r1 = r1
    r2 = r2
    p0 = p0
    p1 = p1
    p2 = p2
    NoRow = NoRow
    NoId = NoId
    NoRun = NoRun
    Runs <- TwoRuns
    Prefixes <- ThreePrefixes
    Kind <- GenKind
    Prefix <- MixedPrefix
    Input <- GenInput
    Manual <- Nothing
    Watched <- Nothing
    Uploads = 0
    RawKey = p0
    MaxIds = 4
    MaxDeletes = 2
    MaxClears = 0
    MaxCrashes = 1
PROPERTIES NoRunStuck
CHECK_DEADLOCK FALSE
