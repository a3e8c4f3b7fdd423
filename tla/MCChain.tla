------------------------------ MODULE MCChain -------------------------------
(***************************************************************************)
(* Small instances of the chain database of one node.                      *)
(***************************************************************************)
EXTENDS ChainDatabase

\* No witness is local: the slots are taken by witnesses 0 .. NumWitnesses - 1.
NoLocal == NumWitnesses
=============================================================================
