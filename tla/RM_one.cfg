SPECIFICATION MonitorFairSpec
CONSTANTS
    p1 = p1
    p2 = p2
    p3 = p3
    Runs <- OneRun
    Process <- SameProcess
    Polls <- ThreePolls
    MaxClears = 1
    MaxReloads = 1
INVARIANTS ToldOnce KeepsPolling
PROPERTIES EndIsTold
CHECK_DEADLOCK FALSE
