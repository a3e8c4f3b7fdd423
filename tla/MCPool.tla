------------------------------- MODULE MCPool -------------------------------
(***************************************************************************)
(* A pool with a transaction that could be repeated, one that depends on   *)
(* another, and one that excludes it.                                      *)
(***************************************************************************)
EXTENDS TransactionPool, TLC

CONSTANTS again, first, then, other

MCTx == {again, first, then, other}

MCInput == again :> "fee" @@ first :> "a" @@ then :> "b" @@ other :> "a"

MCOutput == again :> "fee" @@ first :> "b" @@ then :> "c" @@ other :> "d"

MCFunds == {"fee", "a"}

MCExpiration == again :> 2 @@ first :> 2 @@ then :> 3 @@ other :> 1

MCDelegated == {again}

MCPeerBlocks == {<<>>, <<again>>, <<other>>, <<first, then>>}
=============================================================================
