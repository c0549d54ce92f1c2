SPECIFICATION FairSpec
CONSTANTS
    q1 = q1
    q2 = q2
    Requests <- TwoRequests
    MaxRuns = 2
    MaxNotFound = 2
    MaxPipeline = 2
INVARIANTS HonestVerdict NoDeadEnd
PROPERTIES PollingEnds
CHECK_DEADLOCK FALSE
