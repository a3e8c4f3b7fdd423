----------------------------- MODULE ForkDatabase ---------------------------
(***************************************************************************)
(* graphene::chain::fork_database, as operations on a record               *)
(*                                                                         *)
(*    index      - the blocks in _index                                    *)
(*    linked     - those whose weak pointer prev can be locked             *)
(*    head       - the block of _head, Genesis when _head is null          *)
(*    held       - whether the item _head holds is the one in _index       *)
(*    headLinked - whether the item _head holds has a live prev            *)
(*                                                                         *)
(* _head is a shared pointer, so the item it holds outlives its removal    *)
(* from _index.  A weak pointer dies with the item it points to, and is    *)
(* not repaired when the same block is pushed again.  _unlinked_index is   *)
(* never filled.                                                           *)
(***************************************************************************)
EXTENDS BlockTree

\* reset(), and the fork database of a node that starts.
NoFork == [index |-> {}, linked |-> {}, head |-> Genesis,
           held |-> FALSE, headLinked |-> FALSE]

\* The blocks `gone' leave _index; the items that die with it are no longer
\* anybody's prev.
Erase(f, gone) ==
    LET dead == IF f.held THEN gone \ {f.head} ELSE gone
    IN  [ index      |-> f.index \ gone,
          linked     |-> { b \in f.linked \ gone : Prev(b) \notin dead },
          head       |-> f.head,
          held       |-> f.held /\ f.head \notin gone,
          headLinked |-> f.headLinked /\ Prev(f.head) \notin dead ]

\* _head = an item of block h; if nothing else held the old head, it dies.
MoveHead(f, h, indexed, live) ==
    LET dead == {f.head} \ f.index
    IN  [ index      |-> f.index,
          linked     |-> { b \in f.linked : Prev(b) \notin dead },
          head       |-> h,
          held       |-> indexed,
          headLinked |-> live /\ Prev(h) \notin dead ]

remove(f, b) == Erase(f, {b} \cap f.index)

\* set_head() with the item of _index, or the head again.
set_head(f, b) == MoveHead(f, b, b \in f.index, b \in f.linked)

start_block(f, b) ==
    MoveHead([f EXCEPT !.index = f.index \cup {b}], b, TRUE, FALSE)

TooOld(f, n) == { b \in f.index : Num(b) < n }

set_max_size(f, max_size) ==
    IF f.head = Genesis THEN f
    ELSE Erase(f, TooOld(f, Num(f.head) - max_size))

\* pop_block() asserts that there is a head and that its prev is alive.
CanPop(f) == f.head # Genesis /\ f.headLinked

pop_block(f) == set_head(f, Prev(f.head))

\* Mutant: only a block higher than the head is kept.
OnlyHigher(f, b, max_size) ==
    f.head = Genesis \/ /\ Num(b) > Num(f.head)
                        /\ Prev(b) # Genesis => Prev(b) \in f.index

\* The assertions of _push_block().
Acceptable(f, b, max_size) ==
    f.head = Genesis \/ /\ Num(b) > Num(f.head) - max_size
                        /\ Prev(b) # Genesis => Prev(b) \in f.index

\* Mutant: only the item that becomes the head is linked.
PushUnlinked(f, b, max_size) ==
    LET higher == f.head # Genesis /\ Num(b) > Num(f.head)
        links == f.head # Genesis /\ Prev(b) # Genesis
        g == [f EXCEPT !.index = f.index \cup {b},
                       !.linked = IF links /\ higher THEN f.linked \cup {b}
                                  ELSE f.linked]
    IN  IF f.head = Genesis \/ higher
        THEN Erase(MoveHead(g, b, b \notin f.index, links),
                   TooOld(g, Num(b) - max_size))
        ELSE g

\* push_block() of an acceptable block; .head is the item it returns.  The
\* item of a block that is in _index already can become _head all the same.
push_block(f, b, max_size) ==
    LET links == f.head # Genesis /\ Prev(b) # Genesis
        known == b \in f.index
        g == [f EXCEPT !.index = f.index \cup {b},
                       !.linked = IF links /\ ~known THEN f.linked \cup {b}
                                  ELSE f.linked]
    IN  IF f.head = Genesis
        THEN MoveHead(g, b, TRUE, links)
        ELSE IF Num(b) > Num(f.head)
        THEN Erase(MoveHead(g, b, ~known, links), TooOld(g, Num(b) - max_size))
        ELSE g

\* fetch_branch_from(x, y), y being the lower one: both walk down to y's
\* height and then together until they have the same parent, the blocks at
\* height Meet(x, y).  If y is an ancestor of x it is in both branches.
Meet(x, y) ==
    Max({ i \in 1 .. Num(y) :
            i = 1 \/ path[x][i - 1] = path[y][i - 1] })

Lockable(f, b) ==
    b \in f.linked \/ (b = f.head /\ b \notin f.index /\ f.headLinked)

CanFetchBranch(f, x, y) ==
    /\ x \in f.index
    /\ y \in f.index
    /\ \A i \in Meet(x, y) + 1 .. Num(x) : Lockable(f, path[x][i])
    /\ \A i \in Meet(x, y) + 1 .. Num(y) : Lockable(f, path[y][i])

\* The branch of b from its i-th block on, oldest first.
Branch(b, i) == SubSeq(path[b], i, Num(b))
=============================================================================
