SPECIFICATION Spec
CONSTANTS
    s1 = s1
    s2 = s2
    i1 = i1
    i2 = i2
    NoStream = NoStream
    Streams <- TwoStreams
    Starts <- TwoStarts
    MaxTries = 1
    MaxLines = 1
    MaxPages = 1
    MaxWipes = 0
INVARIANTS Aborts
CHECK_DEADLOCK FALSE
