SPECIFICATION Spec
CONSTANTS
    again = again
    first = first
    then = then
    other = other
    Tx <- MCTx
    Input <- MCInput
    Output <- MCOutput
    Funds <- MCFunds
    Expiration <- MCExpiration
    MaxLife = 2
    Delegated <- MCDelegated
    Limit = 1
    BlockTxs = 2
    PeerBlocks <- MCPeerBlocks
    MaxTime = 3
    MaxPop = 2
INVARIANTS AppliedOnce PoolConsistent
 
