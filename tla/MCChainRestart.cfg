SPECIFICATION Spec
CONSTANTS
    NumBlocks = 6
    NumWitnesses = 3
    Honest = FALSE
    MaxBad = 0
    InOrder = TRUE
    Transactions = FALSE
    Local = 1
    InitSize = 10
    MaxUndoHistory = 10
    UndoWindow = 1
    RollBackHeights = {0, 2}
    MaxStops = 1
INVARIANT OpenSucceeds
PROPERTIES RestartRecovers
