SPECIFICATION Spec
CONSTANTS
    NumBlocks = 7
    NumWitnesses = 3
    Honest = FALSE
    MaxBad = 0
    InOrder = TRUE
    Transactions = FALSE
    Local <- NoLocal
    InitSize = 10
    MaxUndoHistory = 10
    UndoWindow = 10
    RollBackHeights = {0}
    MaxStops = 0
INVARIANTS BlockDbMirrorsChain  ForkTreeLinked
 
