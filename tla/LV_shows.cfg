SPECIFICATION FairSpec
CONSTANTS
    s1 = s1
    s2 = s2
    i1 = i1
    i2 = i2
    NoStream = NoStream
    Streams <- TwoStreams
    Starts <- OneStart
    MaxTries = 2
    MaxLines = 2
    MaxPages = 2
    MaxWipes = 1
INVARIANTS NoHole
PROPERTIES EndOfLog LiveEnds StreamCloses
CHECK_DEADLOCK FALSE
