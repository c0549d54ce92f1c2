SPECIFICATION PreprocessingSpec
CONSTANTS
    k1 = k1
    k2 = k2
    k3 = k3
    k4 = k4
    Cells <- ThreeCells
    Nameless <- MCNameless
    Kpis <- FourKpis
    LastHour = 4
    Hint <- FourHints
    ImputeGap = 1
    Tables <- RaggedTables
    Configs <- Arguments
    Percentile = 67
    BreadthFloor = 100
    MaxDrop = 34
    NoFloor <- NoLimit
    Null = Null
    Version <- MCVersion
    ReportNames <- MCReportNames
    Results <- MCResults
    RawInputs <- MCRawInputs
INVARIANTS ConfigInForce GoodIsWhole FloorIsMet TensorIsFull
CHECK_DEADLOCK FALSE
