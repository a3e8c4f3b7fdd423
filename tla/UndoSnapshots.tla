---------------------------- MODULE UndoSnapshots ---------------------------
(***************************************************************************)
(* What the undo log promises: a stack of snapshots of the whole database. *)
(* Opening a session saves the database, abandoning it (or popping a       *)
(* committed block) puts the newest snapshot back, keeping it forgets that *)
(* snapshot.  Old snapshots may be forgotten, those of open sessions never.*)
(***************************************************************************)
EXTENDS Integers, Sequences

CONSTANT Database    \* the contents a database may have

VARIABLES
    db,       \* the contents
    saved,    \* the snapshots, oldest first
    open      \* how many sessions are open; they own the newest snapshots

Init ==
    /\ db \in Database
    /\ saved = <<>>
    /\ open = 0

Forget == SubSeq(saved, 1, Len(saved) - 1)

\* Any change.  The first one ever made also saves where it started from.
Change ==
    /\ db' \in Database
    /\ saved' \in {saved, IF saved = <<>> THEN <<db>> ELSE saved}
    /\ UNCHANGED open

Begin ==
    /\ \E k \in 0 .. Len(saved) - open :
          saved' = Append(SubSeq(saved, k + 1, Len(saved)), db)
    /\ open' = open + 1
    /\ UNCHANGED db

Abandon ==
    /\ open > 0
    /\ db' = saved[Len(saved)]
    /\ saved' = Forget
    /\ open' = open - 1

Keep ==
    /\ open > 0
    /\ saved' = Forget
    /\ open' = open - 1
    /\ UNCHANGED db

Commit ==
    /\ open > 0
    /\ open' = open - 1
    /\ UNCHANGED <<db, saved>>

TakeBack ==
    /\ open = 0
    /\ saved # <<>>
    /\ db' = saved[Len(saved)]
    /\ saved' = Forget
    /\ UNCHANGED open

Next == Change \/ Begin \/ Abandon \/ Keep \/ Commit \/ TakeBack

Spec == Init /\ [][Next]_<<db, saved, open>>
=============================================================================
