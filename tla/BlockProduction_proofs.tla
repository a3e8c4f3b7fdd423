----------------------- MODULE BlockProduction_proofs -----------------------
(***************************************************************************)
(* Proofs about block production: any number of pending transactions, any  *)
(* number of changes in each, any schedule, and any interleaving of the    *)
(* three threads.                                                          *)
(***************************************************************************)
EXTENDS BlockProduction, SequenceTheorems, TLAPS

Tx == Range(Pending)

Block == [txs : Seq(Tx), db : Seq(Tx)]

TypeOK ==
    /\ now \in Nat /\ head \in Nat /\ wake \in Nat /\ enabled \in BOOLEAN
    /\ phase \in {"idle", "applying", "sealing"}
    /\ slot \in Nat /\ start \in Nat
    /\ queue \in Seq(Tx) /\ block \in Seq(Tx) /\ db \in Seq(Tx)
    /\ applier \in {"none", "next", "poll", "exception?", "success?", "join",
                    "ended"}
    /\ worker \in {"none", "run", "thrown", "caught", "done"}
    /\ mark \in Nat /\ written \in 0 .. Writes
    /\ canstop \in BOOLEAN /\ stopped \in BOOLEAN
    /\ exp \in BOOLEAN /\ success \in BOOLEAN
    /\ late \in Nat
    /\ signed \in Seq(Block)

\* The applying thread is in apply_transaction().
Busy == applier \in {"poll", "exception?", "success?", "join"}

\* Who waits for whom: the chain thread for `stopped', the applying thread for
\* the operation thread, of which `success' says that it is done with at least
\* one change.
ThreadsOK ==
    /\ phase = "idle" <=> applier = "none"
    /\ phase = "sealing" => applier = "ended"
    /\ stopped => applier = "ended"
    /\ worker \in {"run", "thrown", "caught"} => Busy
    /\ Busy => queue # <<>>
    /\ success => worker = "done"
    /\ worker \in {"thrown", "caught", "done"} => written >= 1

\* Between two transactions the block explains the database; within one, it
\* explains what was there before, and the rest are changes of that one.
ChangesOK ==
    /\ applier \in {"next", "ended"} => Explains(block, db)
    /\ Busy => /\ Len(db) = mark + written
               /\ Explains(block, SubSeq(db, 1, mark))
               /\ \A j \in mark + 1 .. Len(db) : db[j] = Head(queue)

\* After the one transaction that was under way when canstop was set, the
\* applying thread begins no other.
LateOK == late <= 1 /\ (late = 1 => canstop /\ ~Busy)

\* The block being built is for a later slot than that of the head.
SlotOK == phase # "idle" => head < slot

\* The inductive invariant.
IInv ==
    /\ TypeOK /\ ThreadsOK /\ ChangesOK /\ LateOK /\ SlotOK
    /\ BlockExplainsState
-----------------------------------------------------------------------------
(***************************************************************************)
(* Slots.                                                                  *)
(***************************************************************************)
\* get_slot_time(n) is a time after the head block, for every n > 0.
LEMMA SlotTimeAfterHead ==
    ASSUME head \in Nat, NEW n \in Nat \ {0}
    PROVE  GetSlotTime(n) \in Nat /\ head < GetSlotTime(n)
<1> DEFINE q == head \div Interval
<1>1. Interval \in Nat \ {0}
  BY ProductionAssumption
<1>2. q \in Nat /\ head < q * Interval + Interval
  BY <1>1
<1> HIDE DEF q
<1>3. q * Interval \in Nat /\ n * Interval \in Nat
  BY <1>1, <1>2
<1>4. n * Interval >= Interval
  <2>1. n * Interval = (n - 1) * Interval + Interval
    BY <1>1
  <2>2. (n - 1) * Interval \in Nat
    BY <1>1
  <2> QED
    BY <1>1, <2>1, <2>2
<1>5. GetSlotTime(n) = q * Interval + n * Interval
  BY DEF GetSlotTime, q
<1> QED
  BY <1>1, <1>2, <1>3, <1>4, <1>5

\* get_slot_at_time() returns a slot number.
LEMMA SlotAtTimeType ==
    ASSUME head \in Nat, NEW t \in Nat
    PROVE  GetSlotAtTime(t) \in Nat
<1>1. GetSlotTime(1) \in Nat
  BY SlotTimeAfterHead
<1>2. Interval \in Nat \ {0}
  BY ProductionAssumption
<1>3. ASSUME t >= GetSlotTime(1)
      PROVE  (t - GetSlotTime(1)) \div Interval \in Nat
  <2>1. t - GetSlotTime(1) \in Nat
    BY <1>1, <1>3
  <2> QED
    BY <1>2, <2>1
<1> QED
  BY <1>1, <1>3 DEF GetSlotAtTime

-----------------------------------------------------------------------------
(***************************************************************************)
(* What explains a database.                                               *)
(***************************************************************************)
\* An empty block explains an empty database.
LEMMA NothingExplained == Explains(<<>>, <<>>)
<1> DEFINE at == [i \in 0 .. 0 |-> 0]
<1>1. at \in [0 .. Len(<<>>) -> 0 .. Len(<<>>)]
  OBVIOUS
<1>2. at[0] = 0 /\ at[Len(<<>>)] = Len(<<>>)
  OBVIOUS
<1>3. \A i \in 1 .. Len(<<>>) : FALSE
  OBVIOUS
<1> HIDE DEF at
<1> QED
  BY <1>1, <1>2, <1>3 DEF Explains

\* Merging the changes of one more transaction: the block with it explains the
\* database with them.
LEMMA ExplainsAppend ==
    ASSUME NEW S, NEW txs \in Seq(S), NEW d \in Seq(S), NEW x \in S,
           NEW m \in Nat, NEW w \in 1 .. Writes, Len(d) = m + w,
           Explains(txs, SubSeq(d, 1, m)),
           \A j \in m + 1 .. Len(d) : d[j] = x
    PROVE  Explains(Append(txs, x), d)
<1> DEFINE e == SubSeq(d, 1, m)
           n == Len(txs)
           ts == Append(txs, x)
<1>1. /\ n \in Nat /\ Len(d) \in Nat /\ m <= Len(d)
      /\ e \in Seq(S) /\ Len(e) = m
      /\ \A j \in 1 .. m : e[j] = d[j]
      /\ w \in Nat
  BY ProductionAssumption
<1>2. /\ Len(ts) = n + 1 /\ ts[n + 1] = x
      /\ \A i \in 1 .. n : ts[i] = txs[i]
  OBVIOUS
<1>3. PICK at \in [0 .. n -> 0 .. Len(e)] :
          /\ at[0] = 0 /\ at[n] = Len(e)
          /\ \A i \in 1 .. n :
                /\ at[i] - at[i - 1] \in 1 .. Writes
                /\ \A j \in at[i - 1] + 1 .. at[i] : e[j] = txs[i]
  BY DEF Explains
<1> HIDE DEF e, n, ts
<1> DEFINE up == [i \in 0 .. n + 1 |-> IF i = n + 1 THEN Len(d) ELSE at[i]]
<1>4. /\ up \in [0 .. n + 1 -> 0 .. Len(d)]
      /\ up[n + 1] = Len(d)
      /\ \A i \in 0 .. n : up[i] = at[i]
  BY <1>1, <1>3
<1> HIDE DEF up
<1>5. ASSUME NEW i \in 1 .. n + 1
      PROVE  /\ up[i] - up[i - 1] \in 1 .. Writes
             /\ \A j \in up[i - 1] + 1 .. up[i] : d[j] = ts[i]
  <2>1. CASE i = n + 1
    <3>1. up[i] = m + w /\ up[i - 1] = m
      BY <1>1, <1>3, <1>4, <2>1
    <3> QED
      BY <1>1, <1>2, <2>1, <3>1
  <2>2. CASE i \in 1 .. n
    <3>1. /\ up[i] = at[i] /\ up[i - 1] = at[i - 1]
          /\ at[i] \in 0 .. m /\ at[i - 1] \in 0 .. m
      BY <1>1, <1>3, <1>4, <2>2
    <3>2. \A j \in at[i - 1] + 1 .. at[i] : j \in 1 .. m /\ e[j] = txs[i]
      BY <1>1, <1>3, <2>2, <3>1
    <3> QED
      BY <1>1, <1>2, <1>3, <2>2, <3>1, <3>2
  <2> QED
    BY <1>1, <2>1, <2>2
<1>6. up[0] = 0 /\ up[Len(ts)] = Len(d)
  BY <1>1, <1>2, <1>3, <1>4
<1>7. Explains(ts, d)
  BY <1>2, <1>4, <1>5, <1>6 DEF Explains
<1> QED
  BY <1>7 DEF ts
-----------------------------------------------------------------------------
(***************************************************************************)
(* The invariant is inductive.                                             *)
(***************************************************************************)
\* It holds before the first block.
LEMMA InitIInv == Init => IInv
<1> SUFFICES ASSUME Init PROVE IInv
  OBVIOUS
<1> USE DEF Init
<1>1. TypeOK
  <2>1. 0 \in Nat /\ 1 \in Nat /\ 0 \in 0 .. Writes
    BY ProductionAssumption
  <2>2. <<>> \in Seq(Tx) /\ <<>> \in Seq(Block)
    OBVIOUS
  <2> QED
    BY <2>1, <2>2, Zenon DEF TypeOK
<1>2. ThreadsOK /\ LateOK /\ SlotOK
  BY DEF ThreadsOK, LateOK, SlotOK, Busy
<1>3. ChangesOK
  BY DEF ChangesOK, Busy
<1>4. BlockExplainsState
  BY DEF BlockExplainsState, Range
<1> QED
  BY <1>1, <1>2, <1>3, <1>4 DEF IInv

\* The clock, the blocks of others and the loop of the plugin while no block
\* is being built.
LEMMA WaitingIInv ==
    ASSUME IInv,
           \/ Tick
           \/ \E n \in 1 .. MaxTime : ReceiveBlock(n) \/ SwitchForks(n)
           \/ DeclineBlock
    PROVE  IInv'
<1>1. /\ UNCHANGED <<phase, slot, start, queue, block, db, applier, mark,
                     worker, written, flags, late, signed>>
      /\ head' = head \/ phase = "idle"
  BY DEF Tick, ReceiveBlock, SwitchForks, DeclineBlock
<1>2. now' \in Nat /\ head' \in Nat /\ wake' \in Nat /\ enabled' \in BOOLEAN
  <2>1. CASE Tick
    BY <2>1 DEF Tick, IInv, TypeOK
  <2>2. ASSUME NEW n \in 1 .. MaxTime, ReceiveBlock(n)
        PROVE  head' \in Nat /\ UNCHANGED <<now, wake, enabled>>
    BY <2>2, SlotTimeAfterHead, ProductionAssumption
       DEF ReceiveBlock, IInv, TypeOK
  <2>3. ASSUME NEW n \in 1 .. MaxTime, SwitchForks(n)
        PROVE  head' \in Nat /\ UNCHANGED <<now, wake, enabled>>
    BY <2>3, ProductionAssumption DEF SwitchForks, IInv, TypeOK
  <2>4. CASE DeclineBlock
    BY <2>4 DEF DeclineBlock, Reschedule, Synced, IInv, TypeOK
  <2> QED
    BY <2>1, <2>2, <2>3, <2>4 DEF IInv, TypeOK
<1>3. TypeOK'
  BY <1>1, <1>2 DEF IInv, TypeOK, flags
<1>4. (ThreadsOK /\ LateOK)'
  BY <1>1 DEF IInv, ThreadsOK, LateOK, Busy, flags
<1>5. ChangesOK'
  BY <1>1 DEF IInv, ChangesOK, Busy
<1>6. (SlotOK /\ BlockExplainsState)'
  BY <1>1 DEF IInv, SlotOK, BlockExplainsState
<1> QED
  BY <1>3, <1>4, <1>5, <1>6 DEF IInv

\* generate_block(): the slot that is due is after the head.
LEMMA StartBlockIInv ==
    ASSUME IInv, StartBlock
    PROVE  IInv'
<1> USE DEF StartBlock
<1>1. worker = "none" \/ worker = "done"
  BY DEF IInv, TypeOK, ThreadsOK, Busy
<1>2. TypeOK'
  <2>1. Pending \in Seq(Tx) /\ 0 \in Nat
    BY ProductionAssumption DEF Tx
  <2>2. <<>> \in Seq(Tx) /\ <<>> \in Seq(Block)
    OBVIOUS
  <2> QED
    BY <2>1, <2>2, Zenon DEF IInv, TypeOK
<1>3. ThreadsOK'
  BY <1>1 DEF IInv, ThreadsOK, Busy
<1>4. ChangesOK'
  BY NothingExplained DEF ChangesOK, Busy
<1>5. LateOK'
  BY DEF LateOK
<1>6. SlotOK'
  <2> DEFINE n == GetSlotAtTime(now)
  <2>1. n # 0 /\ GetSlotTime(n) = now
    BY DEF Declines
  <2>2. n \in Nat
    BY SlotAtTimeType DEF IInv, TypeOK
  <2> HIDE DEF n
  <2>3. head < now
    BY <2>1, <2>2, SlotTimeAfterHead DEF IInv, TypeOK
  <2> QED
    BY <2>3 DEF SlotOK
<1>7. BlockExplainsState'
  BY DEF BlockExplainsState, Range
<1> QED
  BY <1>2, <1>3, <1>4, <1>5, <1>6, <1>7 DEF IInv

\* The chain thread sets canstop, or leaves its loop.
LEMMA WaitForApplierIInv ==
    ASSUME IInv, SlotIsOver \/ AppliedAll
    PROVE  IInv'
<1> USE DEF SlotIsOver, AppliedAll, plugin, flags, IInv
<1>1. TypeOK'
  BY DEF TypeOK
<1>2. ThreadsOK'
  BY DEF ThreadsOK, Busy
<1>3. ChangesOK'
  BY DEF ChangesOK, Busy
<1>4. (LateOK /\ SlotOK)'
  BY DEF LateOK, SlotOK, Busy, TypeOK
<1>5. BlockExplainsState'
  BY DEF BlockExplainsState
<1> QED
  BY <1>1, <1>2, <1>3, <1>4, <1>5

\* What is signed is what the applying thread has left.
LEMMA SealBlockIInv ==
    ASSUME IInv, NEW ok \in BOOLEAN, SealBlock(ok)
    PROVE  IInv'
<1> USE DEF SealBlock
<1>1. Explains(block, db)
  BY DEF IInv, ThreadsOK, ChangesOK
<1> DEFINE b == [txs |-> block, db |-> db]
<1>2. b \in Block /\ Explains(b.txs, b.db)
  BY <1>1 DEF IInv, TypeOK, Block
<1>3. signed' = <<b>> \/ signed' = signed
  OBVIOUS
<1> HIDE DEF b
<1>4. /\ <<b>> \in Seq(Block)
      /\ \A c \in Range(<<b>>) : c = b
  BY <1>2 DEF Range
<1>5. TypeOK'
  <2>1. signed' \in Seq(Block)
    BY <1>3, <1>4 DEF IInv, TypeOK
  <2>2. wake' \in Nat /\ head' \in Nat
    BY DEF IInv, TypeOK, Reschedule
  <2>3. 0 \in 0 .. Writes
    BY ProductionAssumption
  <2>4. 0 \in Nat /\ <<>> \in Seq(Tx)
    OBVIOUS
  <2> QED
    BY <2>1, <2>2, <2>3, <2>4, Zenon DEF IInv, TypeOK
<1>6. ThreadsOK'
  BY DEF ThreadsOK, Busy
<1>7. ChangesOK'
  BY DEF ChangesOK, Busy
<1>8. (LateOK /\ SlotOK)'
  BY DEF LateOK, SlotOK
<1>9. BlockExplainsState'
  BY <1>2, <1>3, <1>4 DEF IInv, BlockExplainsState
<1> QED
  BY <1>5, <1>6, <1>7, <1>8, <1>9 DEF IInv
\* The applying thread ends: the block explains the database.
LEMMA EndLoopIInv ==
    ASSUME IInv, EndLoop
    PROVE  IInv'
<1> USE DEF EndLoop, plugin, IInv
<1>1. TypeOK'
  BY Zenon DEF TypeOK
<1>2. ThreadsOK'
  BY DEF ThreadsOK, Busy
<1>3. ChangesOK'
  BY DEF ChangesOK, Busy
<1>4. (LateOK /\ SlotOK)'
  BY DEF LateOK, SlotOK, Busy
<1>5. BlockExplainsState'
  BY DEF BlockExplainsState
<1> QED
  BY <1>1, <1>2, <1>3, <1>4, <1>5

\* apply_transaction() begins with the database the block explains, and only
\* while canstop is not set.
LEMMA StartOperationIInv ==
    ASSUME IInv, StartOperation
    PROVE  IInv'
<1> USE DEF StartOperation, plugin, IInv
<1>1. /\ Len(db) \in Nat /\ SubSeq(db, 1, Len(db)) = db
      /\ Len(db) = Len(db) + 0
      /\ \A j \in Len(db) + 1 .. Len(db) : FALSE
  BY DEF TypeOK
<1>2. TypeOK'
  <2>1. 0 \in 0 .. Writes
    BY ProductionAssumption
  <2> QED
    BY <1>1, <2>1, Zenon DEF TypeOK
<1>3. ThreadsOK'
  BY DEF ThreadsOK, Busy
<1>4. ChangesOK'
  <2>1. Explains(block, db)
    BY DEF ChangesOK
  <2> QED
    BY <1>1, <2>1 DEF ChangesOK
<1>5. (LateOK /\ SlotOK)'
  BY DEF LateOK, SlotOK, TypeOK
<1>6. BlockExplainsState'
  BY DEF BlockExplainsState
<1> QED
  BY <1>2, <1>3, <1>4, <1>5, <1>6

\* start_evaluate() reads the flags.
LEMMA ReadFlagsIInv ==
    ASSUME IInv, EndPoll \/ ReadException
    PROVE  IInv'
<1> USE DEF EndPoll, ReadException, plugin, flags, IInv
<1>1. /\ applier' \in {"exception?", "join", "success?"}
      /\ applier \in {"poll", "exception?"}
      /\ UNCHANGED <<plugin, queue, block, db, mark, worker, written, flags,
                     late, signed>>
  OBVIOUS
<1> HIDE DEF EndPoll, ReadException
<1>2. TypeOK'
  <2>1. applier' \in {"none", "next", "poll", "exception?", "success?", "join",
                      "ended"}
    BY <1>1
  <2> QED
    BY <1>1, <2>1, Zenon DEF TypeOK
<1>3. ThreadsOK'
  BY <1>1 DEF ThreadsOK, Busy
<1>4. ChangesOK'
  BY <1>1 DEF ChangesOK, Busy
<1>5. (LateOK /\ SlotOK)'
  BY <1>1 DEF LateOK, SlotOK, Busy
<1>6. BlockExplainsState'
  BY <1>1 DEF BlockExplainsState
<1> QED
  BY <1>2, <1>3, <1>4, <1>5, <1>6

\* A transaction goes into the block when its operation thread is done, so
\* with all the changes it has made.
LEMMA ReadSuccessIInv ==
    ASSUME IInv, ReadSuccess
    PROVE  IInv'
<1> USE DEF ReadSuccess, plugin, flags, IInv
<1>1. /\ applier = "success?" /\ Busy /\ queue # <<>>
      /\ queue \in Seq(Tx) /\ Head(queue) \in Tx /\ Tail(queue) \in Seq(Tx)
      /\ block \in Seq(Tx)
  BY DEF TypeOK, ThreadsOK, Busy
<1>2. CASE ~success
  <2>1. /\ applier' = "join"
        /\ UNCHANGED <<plugin, queue, block, db, mark, worker, written, flags,
                       late, signed>>
    BY <1>2
  <2> HIDE DEF ReadSuccess
  <2>2. TypeOK'
    BY <2>1, Zenon DEF TypeOK
  <2>3. ThreadsOK'
    BY <1>1, <2>1 DEF ThreadsOK, Busy
  <2>4. ChangesOK'
    BY <1>1, <2>1 DEF ChangesOK, Busy
  <2>5. (LateOK /\ SlotOK)'
    BY <1>1, <2>1 DEF LateOK, SlotOK
  <2>6. BlockExplainsState'
    BY <2>1 DEF BlockExplainsState
  <2> QED
    BY <2>2, <2>3, <2>4, <2>5, <2>6
<1>3. CASE success
  <2>1. /\ applier' = "next"
        /\ block' = Append(block, Head(queue))
        /\ queue' = Tail(queue)
        /\ late' = late + (IF canstop THEN 1 ELSE 0)
        /\ UNCHANGED <<plugin, db, mark, worker, written, flags, signed>>
    BY <1>3
  <2> HIDE DEF ReadSuccess
  <2>2. worker = "done" /\ written \in 1 .. Writes
    BY <1>3, ProductionAssumption DEF ThreadsOK, TypeOK
  <2>3. TypeOK'
    <3>1. block' \in Seq(Tx) /\ late' \in Nat
      BY <1>1, <2>1 DEF TypeOK
    <3> QED
      BY <1>1, <2>1, <3>1, Zenon DEF TypeOK
  <2>4. ThreadsOK'
    BY <1>1, <2>1, <2>2 DEF ThreadsOK, Busy
  <2>5. ChangesOK'
    <3>1. Explains(Append(block, Head(queue)), db)
      <4>1. /\ Len(db) = mark + written
            /\ Explains(block, SubSeq(db, 1, mark))
            /\ \A j \in mark + 1 .. Len(db) : db[j] = Head(queue)
            /\ db \in Seq(Tx) /\ mark \in Nat
        BY <1>1 DEF ChangesOK, TypeOK
      <4> HIDE DEF IInv
      <4> QED
        BY <1>1, <2>2, <4>1, ExplainsAppend
    <3> QED
      BY <2>1, <3>1 DEF ChangesOK, Busy
  <2>6. LateOK'
    <3>1. late = 0
      BY <1>1 DEF LateOK, TypeOK
    <3> QED
      BY <2>1, <3>1 DEF LateOK, Busy
  <2>7. SlotOK'
    BY <2>1 DEF SlotOK
  <2>8. BlockExplainsState'
    BY <2>1 DEF BlockExplainsState
  <2> QED
    BY <2>3, <2>4, <2>5, <2>6, <2>7, <2>8
<1> QED
  BY <1>2, <1>3

\* A transaction that failed or was late is undone after its thread is joined.
LEMMA JoinIInv ==
    ASSUME IInv, Join
    PROVE  IInv'
<1> USE DEF Join, plugin, flags, IInv
<1>1. /\ Busy /\ queue # <<>> /\ Tail(queue) \in Seq(Tx)
      /\ SubSeq(db, 1, mark) \in Seq(Tx)
      /\ Explains(block, SubSeq(db, 1, mark))
  <2>1. Busy
    BY DEF Busy
  <2>2. queue # <<>> /\ queue \in Seq(Tx)
    BY <2>1 DEF ThreadsOK, TypeOK
  <2>3. SubSeq(db, 1, mark) \in Seq(Tx)
    <3>1. /\ db \in Seq(Tx) /\ mark \in Nat /\ written \in Nat
          /\ Len(db) = mark + written
      BY <2>1, ProductionAssumption DEF TypeOK, ChangesOK
    <3> QED
      BY <3>1
  <2> QED
    BY <2>1, <2>2, <2>3 DEF ChangesOK
<1>2. TypeOK'
  BY <1>1, Zenon DEF TypeOK
<1>3. ThreadsOK'
  BY DEF ThreadsOK, Busy
<1>4. ChangesOK'
  BY <1>1 DEF ChangesOK, Busy
<1>5. (LateOK /\ SlotOK)'
  BY <1>1 DEF LateOK, SlotOK, TypeOK
<1>6. BlockExplainsState'
  BY DEF BlockExplainsState
<1> QED
  BY <1>2, <1>3, <1>4, <1>5, <1>6

\* A change is one of the transaction under way.
LEMMA WriteIInv ==
    ASSUME IInv, Write
    PROVE  IInv'
<1> USE DEF Write, plugin, flags, IInv
<1>1. Busy /\ queue # <<>>
  BY DEF ThreadsOK
<1>2. /\ queue \in Seq(Tx) /\ Head(queue) \in Tx
      /\ db \in Seq(Tx) /\ mark \in Nat /\ written \in Nat /\ Writes \in Nat
      /\ Len(db) = mark + written
  BY <1>1, ProductionAssumption DEF TypeOK, ChangesOK
<1>3. /\ db' \in Seq(Tx) /\ Len(db') = Len(db) + 1
      /\ db'[Len(db) + 1] = Head(queue)
      /\ \A j \in 1 .. Len(db) : db'[j] = db[j]
  BY <1>2
<1>4. written' \in 0 .. Writes /\ written' >= 1 /\ Len(db') = mark + written'
  BY <1>2, <1>3
<1>5. worker' \in {"run", "thrown"}
  OBVIOUS
<1>6. TypeOK'
  <2>1. worker' \in {"none", "run", "thrown", "caught", "done"}
    BY <1>5
  <2> QED
    BY <1>3, <1>4, <2>1, Zenon DEF TypeOK
<1>7. ThreadsOK'
  BY <1>1, <1>4, <1>5 DEF ThreadsOK, Busy
<1>8. ChangesOK'
  <2>1. SubSeq(db', 1, mark) = SubSeq(db, 1, mark)
    BY <1>2, <1>3
  <2>2. \A j \in mark + 1 .. Len(db') : db'[j] = Head(queue)
    <3> SUFFICES ASSUME NEW j \in mark + 1 .. Len(db) + 1
                 PROVE  db'[j] = Head(queue)
      BY <1>3
    <3>1. CASE j = Len(db) + 1
      BY <1>3, <3>1
    <3>2. CASE j \in mark + 1 .. Len(db)
      BY <1>1, <1>2, <1>3, <3>2 DEF ChangesOK
    <3> QED
      BY <1>2, <3>1, <3>2
  <2>3. Explains(block, SubSeq(db, 1, mark))
    BY <1>1 DEF ChangesOK
  <2> QED
    BY <1>1, <1>4, <2>1, <2>2, <2>3 DEF ChangesOK, Busy
<1>9. (LateOK /\ SlotOK)'
  BY DEF LateOK, SlotOK, Busy
<1>10. BlockExplainsState'
  BY DEF BlockExplainsState
<1> QED
  BY <1>6, <1>7, <1>8, <1>9, <1>10

\* The operation thread reports an exception, and then that it is done.
LEMMA ReportIInv ==
    ASSUME IInv, Catch \/ Finish
    PROVE  IInv'
<1> USE DEF plugin, flags, IInv
<1>1. /\ worker \in {"run", "thrown", "caught"}
      /\ worker' \in {"caught", "done"}
      /\ success' => worker' = "done"
      /\ written >= 1
      /\ exp' \in BOOLEAN /\ success' \in BOOLEAN
      /\ UNCHANGED <<plugin, queue, block, db, applier, mark, written, canstop,
                     stopped, late, signed>>
  <2>1. CASE Catch
    BY <2>1 DEF Catch, ThreadsOK, TypeOK
  <2>2. CASE Finish
    BY <2>2, ProductionAssumption DEF Finish, ThreadsOK, TypeOK
  <2> QED
    BY <2>1, <2>2
<1>2. TypeOK'
  <2>1. worker' \in {"none", "run", "thrown", "caught", "done"}
    BY <1>1
  <2> QED
    BY <1>1, <2>1, Zenon DEF TypeOK
<1>3. ThreadsOK'
  BY <1>1 DEF ThreadsOK, Busy
<1>4. ChangesOK'
  BY <1>1 DEF ChangesOK, Busy
<1>5. (LateOK /\ SlotOK)'
  BY <1>1 DEF LateOK, SlotOK, Busy
<1>6. BlockExplainsState'
  BY <1>1 DEF BlockExplainsState
<1> QED
  BY <1>2, <1>3, <1>4, <1>5, <1>6

\* Every step keeps the invariant.
LEMMA NextIInv == IInv /\ [Next]_vars => IInv'
<1> SUFFICES ASSUME IInv, [Next]_vars PROVE IInv'
  OBVIOUS
<1>1. CASE UNCHANGED vars
  BY <1>1 DEF vars, plugin, flags, IInv, TypeOK, ThreadsOK, ChangesOK, LateOK,
              SlotOK, BlockExplainsState, Busy
<1>2. CASE Next
  <2>1. CASE \/ Tick
             \/ \E n \in 1 .. MaxTime : ReceiveBlock(n) \/ SwitchForks(n)
             \/ DeclineBlock
    BY <2>1, WaitingIInv
  <2>2. CASE StartBlock \/ ChainThread
    BY <2>2, StartBlockIInv, WaitForApplierIInv, SealBlockIInv DEF ChainThread
  <2>3. CASE ApplyingThread
    BY <2>3, EndLoopIInv, StartOperationIInv, ReadFlagsIInv, ReadSuccessIInv,
       JoinIInv DEF ApplyingThread
  <2>4. CASE OperationThread
    BY <2>4, WriteIInv, ReportIInv DEF OperationThread
  <2> QED
    BY <1>2, <2>1, <2>2, <2>3, <2>4 DEF Next
<1> QED
  BY <1>1, <1>2

-----------------------------------------------------------------------------
(***************************************************************************)
(* The theorems.                                                           *)
(***************************************************************************)
\* Types, and what the three threads know of each other, hold in every
\* reachable state.
THEOREM ProductionInvariant == Spec => []IInv
  BY InitIInv, NextIInv, PTL DEF Spec

\* Only one of the three threads of generate_block() changes the database:
\* each waits in its polling loop or in join() while the one it started runs.
THEOREM ThereIsOneWriter == Spec => []OneWriter
<1>1. IInv => OneWriter
  BY DEF IInv, TypeOK, ThreadsOK, OneWriter, Busy
<1> QED
  BY <1>1, ProductionInvariant, PTL

\* Whatever is read of the flags and when, a signed block commits the changes
\* of its transactions, in their order, and no others.
THEOREM BlocksExplainState == Spec => []BlockExplainsState
<1>1. IInv => BlockExplainsState
  BY DEF IInv
<1> QED
  BY <1>1, ProductionInvariant, PTL

\* After _try_apply_block() has set canstop, at most one more transaction goes
\* into the block.
THEOREM ItStopsAfterSlot == Spec => []StopsAfterSlot
<1>1. IInv => StopsAfterSlot
  BY DEF IInv, LateOK, StopsAfterSlot
<1> QED
  BY <1>1, ProductionInvariant, PTL

\* A block is signed with a timestamp after that of the head, as
\* maybe_produce_block() asserts before it starts.
THEOREM BlockTimesIncrease == Spec => TimestampsIncrease
<1>1. ASSUME IInv, [Next]_vars
      PROVE  [signed' \notin {signed, <<>>} => head < slot]_vars
  <2> SUFFICES ASSUME Next, signed' # signed, signed' # <<>>
               PROVE  head < slot
    BY <1>1
  <2>1. PICK ok \in BOOLEAN : SealBlock(ok)
    BY DEF Next, Tick, ReceiveBlock, SwitchForks, DeclineBlock, StartBlock,
           ChainThread, SlotIsOver, AppliedAll, ApplyingThread, EndLoop,
           StartOperation, EndPoll, ReadException, ReadSuccess, Join,
           OperationThread, Write, Catch, Finish
  <2> QED
    BY <1>1, <2>1 DEF SealBlock, IInv, SlotOK
<1> QED
  BY <1>1, ProductionInvariant, PTL DEF Spec, TimestampsIncrease
=============================================================================
