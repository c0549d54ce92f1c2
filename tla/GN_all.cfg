SPECIFICATION Spec
CONSTANTS
    Columns <- MCColumns
    ConfigNames <- MCConfigNames
    MetaNames <- MCMetaNames
    SeqLen = 7
    DayHours = 1
    Holidays <- MCHolidays
    MinUnits = 4
    Config <- MCConfig
    SnapshotGap = 2
    MaxTrainings = 2
    None = None
    Confs <- MCConfs
    Retries = 1
    NoCell = ""
    ObjectName <- MCObjectName
    RealKpis <- MCRealKpis
    RealSamples <- MCRealSamples
    SynthSamples <- MCSynthSamples
    MinPairs = 2
    Missing = Missing
INVARIANTS FinishedIsWhole BestIsAnnealed HoldoutIsFair Reloadable MetadataNamesOutputs ColumnsAreTrue CalendarAgrees SummaryIsHonest
CHECK_DEADLOCK FALSE
