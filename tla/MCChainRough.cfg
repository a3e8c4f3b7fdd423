SPECIFICATION Spec
CONSTANTS
    NumBlocks = 6
    NumWitnesses = 2
    Honest = FALSE
    MaxBad = 1
    InOrder = FALSE
    Transactions = TRUE
    Local <- NoLocal
    InitSize = 10
    MaxUndoHistory = 10
    UndoWindow = 10
    RollBackHeights = {0}
    MaxStops = 0
INVARIANTS HistoryReachesIrreversible
PROPERTIES FailedSwitchUnwound
