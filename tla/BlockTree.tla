------------------------------ MODULE BlockTree -----------------------------
(***************************************************************************)
(* The blocks that a run of the network produces.                          *)
(*                                                                         *)
(* One block is signed in each slot, so a block is named by its slot; its  *)
(* parent is a block of an earlier slot.  The first one, which starts the  *)
(* chain from the genesis state (written 0), is an ancestor of all others. *)
(* Which blocks exist is decided at the start and hidden from the node,    *)
(* which learns of them one at a time and in any order.                    *)
(***************************************************************************)
EXTENDS Integers, Sequences, FiniteSets, FiniteSetsExt

CONSTANTS
    NumBlocks,      \* bound: slots in which a block is signed
    NumWitnesses,   \* active witnesses; they take the slots in turn
    Honest,         \* whether witnesses leave a fork only for a longer one
    MaxBad          \* bound: blocks that fail to apply

ASSUME TreeAssumption ==
    /\ NumBlocks \in Nat
    /\ NumWitnesses \in Nat \ {0}
    /\ Honest \in BOOLEAN
    /\ MaxBad \in Nat

VARIABLES
    path,   \* path[b]: the chain of blocks from genesis up to block b
    bad     \* the blocks that some check of apply_block() rejects

tree == <<path, bad>>

Block == 1 .. NumBlocks

Genesis == 0

Num(b) == Len(path[b])

Prev(b) == IF Num(b) <= 1 THEN Genesis ELSE path[b][Num(b) - 1]

\* get_scheduled_witness(), for a schedule that is not shuffled again.
Witness(b) == b % NumWitnesses

\* The path of every block, given its parent: those of the first n blocks.
PathsOf(parent) ==
    LET upTo[n \in 0 .. NumBlocks] ==
            IF n = 0 THEN [b \in 0 .. NumBlocks |-> <<>>]
            ELSE [upTo[n - 1] EXCEPT ![n] = Append(upTo[n - 1][parent[n]], n)]
    IN  upTo[NumBlocks]

\* A witness signs a block on top of its head; it has the blocks it signed
\* before, and left their fork only if another one was longer.
FollowsLongest(b) ==
    \A c \in 1 .. b - 1 :
        Witness(c) = Witness(b) =>
            (\E i \in 1 .. Num(b) : path[b][i] = c) \/ Num(c) < Num(b) - 1

TreeInit ==
    /\ \E parent \in [Block -> 0 .. NumBlocks - 1] :
          /\ \A b \in Block : parent[b] < b /\ (b > 1 => parent[b] >= 1)
          /\ path = PathsOf(parent)
    /\ Honest => \A b \in Block : FollowsLongest(b)
    /\ bad \in { s \in SUBSET Block : Cardinality(s) <= MaxBad }

-----------------------------------------------------------------------------
\* witness_object::last_confirmed_block_num of witness w on the chain to b.
LastConfirmed(b, w) ==
    Max({0} \cup { Num(c) : c \in { path[b][i] : i \in 1 .. Num(b) }
                                  \cap { x \in Block : Witness(x) = w } })

\* Mutant: off by one witness.
OffsetOneMore == (3000 * NumWitnesses) \div 10000 + 1

\* update_last_irreversible_block(): the element that stands at 30% of the
\* active witnesses sorted by the last block they confirmed.
Offset == (3000 * NumWitnesses) \div 10000

LastIrreversible(b) ==
    LET W == 0 .. NumWitnesses - 1
    IN  CHOOSE n \in 0 .. NumBlocks :
            /\ \E w \in W : LastConfirmed(b, w) = n
            /\ Cardinality({ w \in W : LastConfirmed(b, w) < n }) <= Offset
            /\ Cardinality({ w \in W : LastConfirmed(b, w) <= n }) > Offset
=============================================================================
