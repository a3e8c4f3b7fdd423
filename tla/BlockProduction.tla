--------------------------- MODULE BlockProduction --------------------------
(***************************************************************************)
(* How a node produces a block: the loop of the witness plugin, and the    *)
(* three threads of a block that is being built.                           *)
(*                                                                         *)
(*    the chain thread      polls in _try_apply_block() until the next is  *)
(*                          done, and tells it to stop when the slot is    *)
(*                          over;                                          *)
(*    the applying thread   takes the pending transactions one by one, and *)
(*                          polls in start_evaluate() until the next is    *)
(*                          done or its time is over;                      *)
(*    the operation thread  evaluates and applies one operation.           *)
(*                                                                         *)
(* They share the flags canstop, stopped, exp and success without a lock;  *)
(* each read and each write of one is a step.  A transaction has one       *)
(* operation, which writes its changes to the database one after the       *)
(* other; one that fails throws after the first.  A database is the        *)
(* sequence of the changes in it.                                          *)
(***************************************************************************)
EXTENDS Integers, Sequences, SequencesExt

CONSTANTS
    Interval,    \* block_interval()
    Schedule,    \* current_shuffled_witnesses
    Mine,        \* _witnesses
    Keys,        \* those of them whose private key is there
    Pending,     \* the transactions that _generate_block() takes
    Failing,     \* those whose operation throws
    Writes,      \* changes that an operation makes
    MaxTxs,      \* transactions that maximum_block_size has room for
    MaxTime      \* bound: seconds

ASSUME ProductionAssumption ==
    /\ Interval \in Nat \ {0} /\ Writes \in Nat \ {0}
    /\ MaxTxs \in Nat /\ MaxTime \in Nat
    /\ Len(Schedule) > 0 /\ Keys \subseteq Mine
    /\ Pending \in Seq(Range(Pending)) /\ Failing \subseteq Range(Pending)

VARIABLES
    now,       \* the clock, rounded as maybe_produce_block() does
    head,      \* head_block_time()
    wake,      \* when the loop is scheduled
    enabled,   \* _production_enabled
    phase,     \* of the chain thread: "idle", "applying", "sealing"
    slot,      \* timestamp of the block being built
    start,     \* when _try_apply_block() was called
    queue,     \* temp: the transactions still to be tried
    block,     \* next_block.transactions
    db,        \* the changes of this block in the database
    applier,   \* where the applying thread is
    mark,      \* length of db when the session of the transaction started
    worker,    \* where the operation thread is, and
    written,   \*   the changes it has made
    canstop, stopped, exp, success,
    late,      \* history: transactions taken after canstop was set
    signed     \* history: the last block produced, with the changes it made

flags == <<canstop, stopped, exp, success>>
plugin == <<now, head, wake, enabled, phase, slot, start>>
vars == <<plugin, queue, block, db, applier, mark, worker, written, flags,
          late, signed>>

Init ==
    /\ now = 0 /\ head = 0 /\ wake = 1 /\ enabled \in BOOLEAN
    /\ phase = "idle" /\ slot = 0 /\ start = 0
    /\ queue = <<>> /\ block = <<>> /\ db = <<>>
    /\ applier = "none" /\ mark = 0
    /\ worker = "none" /\ written = 0
    /\ canstop = FALSE /\ stopped = FALSE /\ exp = FALSE /\ success = FALSE
    /\ late = 0 /\ signed = <<>>

-----------------------------------------------------------------------------
(***************************************************************************)
(* The slots, and the loop of the plugin in the chain thread.              *)
(***************************************************************************)
\* Mutant: slot 1 is the slot of the head block.
GetSlotTimeOfHead(n) == (head \div Interval) * Interval + (n - 1) * Interval

GetSlotTime(n) == (head \div Interval) * Interval + n * Interval

GetSlotAtTime(when) ==
    IF when < GetSlotTime(1) THEN 0
    ELSE (when - GetSlotTime(1)) \div Interval + 1

GetScheduledWitness(n) ==
    Schedule[((head \div Interval + n) % Len(Schedule)) + 1]

Tick ==
    /\ now < MaxTime
    /\ now' = now + 1
    /\ UNCHANGED <<head, wake, enabled, phase, slot, start, queue, block, db,
                   applier, mark, worker, written, flags, late, signed>>

\* A block of another witness is pushed while this node waits.
ReceiveBlock(n) ==
    /\ phase = "idle"
    /\ n \in 1 .. GetSlotAtTime(now + 1)
    /\ GetScheduledWitness(n) \notin Mine
    /\ head' = GetSlotTime(n)
    /\ UNCHANGED <<now, wake, enabled, phase, slot, start, queue, block, db,
                   applier, mark, worker, written, flags, late, signed>>

\* A block of another witness makes another fork longer, the head of which may
\* be earlier or later.
SwitchForks(t) ==
    /\ phase = "idle"
    /\ t % Interval = 0 /\ t <= now + 1
    /\ Schedule[((t \div Interval) % Len(Schedule)) + 1] \notin Mine
    /\ head' = t
    /\ UNCHANGED <<now, wake, enabled, phase, slot, start, queue, block, db,
                   applier, mark, worker, written, flags, late, signed>>

\* schedule_production_loop(): the next second, or the one after it if there
\* are less than 50 ms to go; a loop that ran in the second half of a second
\* runs again in what it takes for the same one.
Reschedule == wake' \in now .. now + 2

Synced == enabled \/ GetSlotTime(1) >= now

\* maybe_produce_block(), when it returns without a block: not_synced,
\* not_time_yet, not_my_turn, no_private_key or lag.
Declines ==
    LET n == GetSlotAtTime(now)
    IN  \/ ~Synced
        \/ n = 0
        \/ GetScheduledWitness(n) \notin Keys
        \/ GetSlotTime(n) # now

DeclineBlock ==
    /\ phase = "idle" /\ wake <= now
    /\ Declines
    /\ enabled' = Synced
    /\ Reschedule
    /\ UNCHANGED <<now, head, phase, slot, start, queue, block, db, applier,
                   mark, worker, written, flags, late, signed>>

\* generate_block(), up to the start of the applying thread.
StartBlock ==
    /\ phase = "idle" /\ wake <= now
    /\ ~Declines
    /\ enabled' = TRUE
    /\ phase' = "applying" /\ slot' = now /\ start' = now
    /\ queue' = Pending /\ block' = <<>> /\ db' = <<>>
    /\ applier' = "next" /\ canstop' = FALSE /\ stopped' = FALSE
    /\ late' = 0 /\ signed' = <<>>
    /\ UNCHANGED <<now, head, wake, mark, worker, written, exp, success>>

\* The loop that waits for the applying thread.
SlotIsOver ==
    /\ phase = "applying" /\ ~canstop
    /\ now - start > Interval
    /\ canstop' = TRUE
    /\ UNCHANGED <<plugin, queue, block, db, applier, mark, worker, written,
                   stopped, exp, success, late, signed>>

AppliedAll ==
    /\ phase = "applying" /\ stopped
    /\ phase' = "sealing"
    /\ UNCHANGED <<now, head, wake, enabled, slot, start, queue, block, db,
                   applier, mark, worker, written, flags, late, signed>>

\* The rest of _validate_block(): the block is signed and committed, or one
\* of the steps throws and the session of the block is undone.
SealBlock(ok) ==
    /\ phase = "sealing"
    /\ phase' = "idle"
    /\ IF ok
       THEN /\ head' = slot
            /\ signed' = <<[txs |-> block, db |-> db]>>
       ELSE UNCHANGED <<head, signed>>
    /\ Reschedule
    /\ slot' = 0 /\ start' = 0 /\ late' = 0
    /\ queue' = <<>> /\ block' = <<>> /\ db' = <<>>
    /\ applier' = "none" /\ mark' = 0 /\ worker' = "none" /\ written' = 0
    /\ canstop' = FALSE /\ stopped' = FALSE /\ exp' = FALSE /\ success' = FALSE
    /\ UNCHANGED <<now, enabled>>

-----------------------------------------------------------------------------
(***************************************************************************)
(* The applying thread.                                                    *)
(***************************************************************************)
Full == Len(block) > MaxTxs

\* Mutant: the thread ends when the block is full, and does not say so.
EndLoopQuietly ==
    /\ applier = "next"
    /\ queue = <<>> \/ canstop \/ Full
    /\ applier' = "ended"
    /\ stopped' = ~Full
    /\ UNCHANGED <<plugin, queue, block, db, mark, worker, written, canstop,
                   exp, success, late, signed>>

EndLoop ==
    /\ applier = "next"
    /\ queue = <<>> \/ canstop \/ Full
    /\ applier' = "ended"
    /\ stopped' = TRUE
    /\ UNCHANGED <<plugin, queue, block, db, mark, worker, written, canstop,
                   exp, success, late, signed>>

\* Mutant: the thread does not look at canstop.
StartOperationLate ==
    /\ applier = "next"
    /\ queue # <<>> /\ ~Full
    /\ mark' = Len(db)
    /\ worker' = "run" /\ written' = 0
    /\ exp' = FALSE /\ success' = FALSE
    /\ applier' = "poll"
    /\ UNCHANGED <<plugin, queue, block, db, canstop, stopped, late, signed>>

\* apply_transaction() of the next one, up to the thread of its operation.
StartOperation ==
    /\ applier = "next"
    /\ queue # <<>> /\ ~canstop /\ ~Full
    /\ mark' = Len(db)
    /\ worker' = "run" /\ written' = 0
    /\ exp' = FALSE /\ success' = FALSE
    /\ applier' = "poll"
    /\ UNCHANGED <<plugin, queue, block, db, canstop, stopped, late, signed>>

\* The loop of start_evaluate() ends: the operation is done, or its time is
\* over, which can be at any moment.
EndPoll ==
    /\ applier = "poll"
    /\ applier' = "exception?"
    /\ UNCHANGED <<plugin, queue, block, db, mark, worker, written, flags,
                   late, signed>>

ReadException ==
    /\ applier = "exception?"
    /\ applier' = IF exp THEN "join" ELSE "success?"
    /\ UNCHANGED <<plugin, queue, block, db, mark, worker, written, flags,
                   late, signed>>

\* The changes are merged and the transaction goes into the block.
ReadSuccess ==
    /\ applier = "success?"
    /\ IF success
       THEN /\ applier' = "next"
            /\ block' = Append(block, Head(queue))
            /\ queue' = Tail(queue)
            /\ late' = late + (IF canstop THEN 1 ELSE 0)
       ELSE applier' = "join" /\ UNCHANGED <<block, queue, late>>
    /\ UNCHANGED <<plugin, db, mark, worker, written, flags, signed>>

\* Mutant: the operation thread is interrupted and left alone.
JoinNobody ==
    /\ applier = "join"
    /\ applier' = "next"
    /\ db' = SubSeq(db, 1, mark)
    /\ queue' = Tail(queue)
    /\ UNCHANGED <<plugin, block, mark, worker, written, flags, late, signed>>

\* Mutant: the changes of a transaction that failed stay.
JoinKeeps ==
    /\ applier = "join" /\ worker = "done"
    /\ applier' = "next"
    /\ queue' = Tail(queue)
    /\ UNCHANGED <<plugin, block, db, mark, worker, written, flags, late, signed>>

\* The operation thread is interrupted, which no operation notices, and
\* joined; the exception goes up to the loop, which undoes the session.
Join ==
    /\ applier = "join" /\ worker = "done"
    /\ applier' = "next"
    /\ db' = SubSeq(db, 1, mark)
    /\ queue' = Tail(queue)
    /\ UNCHANGED <<plugin, block, mark, worker, written, flags, late, signed>>

-----------------------------------------------------------------------------
(***************************************************************************)
(* The operation thread.  It works on the transaction it was started for,  *)
(* the first of the queue.                                                 *)
(***************************************************************************)
Write ==
    /\ worker = "run" /\ written < Writes
    /\ db' = Append(db, Head(queue))
    /\ written' = written + 1
    /\ worker' = IF Head(queue) \in Failing THEN "thrown" ELSE worker
    /\ UNCHANGED <<plugin, queue, block, applier, mark, flags, late, signed>>

Catch ==
    /\ worker = "thrown"
    /\ exp' = TRUE
    /\ worker' = "caught"
    /\ UNCHANGED <<plugin, queue, block, db, applier, mark, written, canstop,
                   stopped, success, late, signed>>

Finish ==
    /\ worker = "caught" \/ (worker = "run" /\ written = Writes)
    /\ success' = TRUE
    /\ worker' = "done"
    /\ UNCHANGED <<plugin, queue, block, db, applier, mark, written, canstop,
                   stopped, exp, late, signed>>

-----------------------------------------------------------------------------
ChainThread == SlotIsOver \/ AppliedAll \/ \E ok \in BOOLEAN : SealBlock(ok)
ApplyingThread ==
    EndLoop \/ StartOperation \/ EndPoll \/ ReadException \/ ReadSuccess \/ Join
OperationThread == Write \/ Catch \/ Finish

Next ==
    \/ Tick
    \/ \E n \in 1 .. MaxTime : ReceiveBlock(n) \/ SwitchForks(n)
    \/ DeclineBlock \/ StartBlock
    \/ ChainThread \/ ApplyingThread \/ OperationThread

\* The scheduler of the system runs each thread; every operation ends.
Spec ==
    /\ Init /\ [][Next]_vars
    /\ WF_vars(ChainThread)
    /\ WF_vars(ApplyingThread)
    /\ WF_vars(OperationThread)

-----------------------------------------------------------------------------
(***************************************************************************)
(* Properties.                                                             *)
(***************************************************************************)
\* The database has one writer: while an operation thread is under way, the
\* applying thread waits for it, and while that one is, the chain thread waits.
\* Nothing is sealed or undone under a thread that still writes.
OneWriter ==
    /\ worker \in {"run", "thrown", "caught"} =>
           applier \in {"poll", "exception?", "success?", "join"}
    /\ applier \notin {"none", "ended"} => phase = "applying"

\* The changes are those of the transactions, in their order: each has made
\* at least one, and at[i] of them are there after the first i.
Explains(txs, changes) ==
    \E at \in [0 .. Len(txs) -> 0 .. Len(changes)] :
        /\ at[0] = 0 /\ at[Len(txs)] = Len(changes)
        /\ \A i \in 1 .. Len(txs) :
              /\ at[i] - at[i - 1] \in 1 .. Writes
              /\ \A j \in at[i - 1] + 1 .. at[i] : changes[j] = txs[i]

\* Every change in a block that was signed is one of a transaction in it, in
\* the order of the block, and every transaction in it has left changes:
\* nothing of one that failed or was late is committed with it.
BlockExplainsState == \A b \in Range(signed) : Explains(b.txs, b.db)

\* When the slot is over, at most one more transaction gets into the block.
StopsAfterSlot == late <= 1

\* A block that is begun is finished, and the loop goes on.
ProductionEnds == phase # "idle" ~> phase = "idle"

\* The assertion of maybe_produce_block(), `now > db.head_block_time()', still
\* holds when the block is signed: its timestamp is after that of its parent,
\* whatever blocks and forks have come before.
TimestampsIncrease == [][signed' \notin {signed, <<>>} => head < slot]_vars
=============================================================================
