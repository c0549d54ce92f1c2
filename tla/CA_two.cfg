SPECIFICATION Spec
CONSTANTS
    Null = Null
    r1 = r1
    r2 = r2
    d1 = d1
    w1 = w1
    w2 = w2
    f1 = f1
    Requests <- TwoRequests
    Datasets <- OneDataset
    Weights <- TwoWeights
    Files <- OneFile
    Bodies <- SomeBodies
    Buckets <- SomeBuckets
    MaxModels = 2
    MaxRuns = 1
SYMMETRY Alike
INVARIANTS ReferencesHold AcceptedIsKnown
PROPERTIES NoHalfPatch
CHECK_DEADLOCK FALSE
