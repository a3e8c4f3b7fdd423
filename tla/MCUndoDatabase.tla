--------------------------- MODULE MCUndoDatabase ---------------------------
(***************************************************************************)
(* Small instance of the undo log.                                         *)
(***************************************************************************)
EXTENDS UndoDatabase, TLC

CONSTANT MaxStack    \* bound: states on the stack

StackBound == size <= MaxStack

Symmetric == Permutations(Value)
=============================================================================
