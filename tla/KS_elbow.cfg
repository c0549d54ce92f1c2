SPECIFICATION PreprocessingSpec
CONSTANTS
    k1 = k1
    k2 = k2
    k3 = k3
    k4 = k4
    Cells <- OneCell
    Nameless = {}
    Kpis <- FourKpis
    LastHour = 4
    Hint <- FourHints
    ImputeGap = 1
    Tables <- SparseTables
    Configs <- Elbowed
    Percentile = 10
    BreadthFloor = 5
    MaxDrop = 25
    NoFloor <- NoLimit
    Null = Null
    Version <- MCVersion
    ReportNames <- MCReportNames
    Results <- MCResults
    RawInputs <- NoRaw
INVARIANTS ElbowIsHealthy
CHECK_DEADLOCK FALSE
