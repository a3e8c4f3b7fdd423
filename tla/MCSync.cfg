SPECIFICATION MCSpec
CONSTANTS
    NumBlocks = 4
    NumWitnesses = 4
    Honest = FALSE
    MaxBad = 1
    Peers = {1, 2}
    IdLimit = 2
    MinIds = 2
    MaxPerPeer = 2
    MaxHandling = 1
    MaxPrefetch = 1
    MaxConnects = 2
    MaxUpsets = 1
INVARIANTS RequestsExact  
 
CHECK_DEADLOCK FALSE
