SPECIFICATION Spec
CONSTANTS
    l1 = l1
    l2 = l2
    Nothing = Nothing
    Loops <- TwoLoops
    Datasets <- OneDataset
    d1 = d1
    Chunks = 2
    MaxLost = 1
SYMMETRY LoopsAlike
INVARIANTS CompletedIsWhole ListedIsStored CancelHolds VisualizedOnce
CHECK_DEADLOCK FALSE
