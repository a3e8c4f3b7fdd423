------------------------- MODULE UndoDatabase_proofs ------------------------
(***************************************************************************)
(* Proofs about the undo log, for any indexes, values and bounds.          *)
(***************************************************************************)
EXTENDS UndoDatabase, SequenceTheorems, TLAPS

USE DEF Instance, Slot

\* The inductive invariant: the types, and the three properties of the log
\* that need each other.
IInv == TypeOK /\ OpenSessionsKept /\ LogExact /\ FreshIds

-----------------------------------------------------------------------------
(***************************************************************************)
(* One undo state: what recording, restoring and merging do to it.         *)
(***************************************************************************)
\* An empty undo state is exact for a database that has not changed.
LEMMA EmptyStateExact ==
    ASSUME NEW d \in Database
    PROVE  EmptyState \in undo_state /\ StateExact(EmptyState, d, d)
  BY NoneAssumption DEF EmptyState, NoObject, undo_state, Database, StateExact,
                        ObjectLogged, NextIdLogged

\* on_create keeps a state exact, given that the new id was free.
LEMMA OnCreateExact ==
    ASSUME NEW st \in undo_state, NEW b \in Database, NEW a \in Database,
           NEW c \in Database, NEW x \in Index, NEW v \in Value,
           StateExact(st, b, a),
           AllottedIdsBelowNext(a), AllottedIdsBelowNext(b),
           a.next_id[x] < MaxInstance,
           c.objects = [a.objects EXCEPT ![<<x, a.next_id[x]>>] = v],
           c.next_id = [a.next_id EXCEPT ![x] = @ + 1]
    PROVE  /\ OnCreate(st, <<x, a.next_id[x]>>) \in undo_state
           /\ StateExact(OnCreate(st, <<x, a.next_id[x]>>), b, c)
           /\ AllottedIdsBelowNext(c)
<1> DEFINE id == <<x, a.next_id[x]>>
           s == OnCreate(st, id)
<1>1. /\ id \in ObjectId
      /\ id[1] = x
      /\ id[2] = a.next_id[x]
      /\ a.next_id[x] \in Instance
  BY BoundAssumption DEF ObjectId, Database
<1>2. s \in undo_state
  BY <1>1 DEF OnCreate, undo_state
<1>3. /\ s.new_ids = st.new_ids \cup {id}
      /\ s.old_values = st.old_values
      /\ s.removed = st.removed
      /\ \A y \in Index : s.old_index_next_ids[y] =
            IF y = x /\ st.old_index_next_ids[y] = None
            THEN a.next_id[x] ELSE st.old_index_next_ids[y]
  BY <1>1 DEF OnCreate
<1>4. /\ c.objects[id] = v
      /\ \A i \in ObjectId : i # id => c.objects[i] = a.objects[i]
      /\ c.next_id[x] = a.next_id[x] + 1
      /\ \A y \in Index : y # x => c.next_id[y] = a.next_id[y]
  BY <1>1 DEF Database
<1> HIDE DEF s, id
<1>5. /\ b.next_id[x] <= a.next_id[x]
      /\ a.objects[id] = None
      /\ b.objects[id] = None
  BY <1>1 DEF AllottedIdsBelowNext, Database, StateExact, NextIdLogged
<1>6. ASSUME NEW i \in ObjectId PROVE ObjectLogged(s, b, c, i)
  <2> ObjectLogged(st, b, a, i)
    BY DEF StateExact
  <2>1. CASE i = id
    BY <2>1, <1>1, <1>3, <1>4, <1>5, NoneAssumption DEF ObjectLogged
  <2>2. CASE i # id
    BY <2>2, <1>3, <1>4 DEF ObjectLogged
  <2> QED BY <2>1, <2>2
<1>7. ASSUME NEW y \in Index PROVE NextIdLogged(s, b, c, y)
  <2> NextIdLogged(st, b, a, y)
    BY DEF StateExact
  <2> QED BY <1>1, <1>3, <1>4, NoneAssumption, BoundAssumption
          DEF NextIdLogged, Database
<1>8. AllottedIdsBelowNext(c)
  BY <1>1, <1>4, BoundAssumption DEF AllottedIdsBelowNext, Database, ObjectId
<1> QED BY <1>2, <1>6, <1>7, <1>8 DEF StateExact, s, id

\* on_modify keeps a state exact: a is the database with the object changed.
LEMMA OnModifyExact ==
    ASSUME NEW st \in undo_state, NEW b \in Database, NEW a \in Database,
           NEW c \in Database, NEW id \in ObjectId, NEW v \in Value,
           StateExact(st, b, a), a.objects[id] # None,
           c.objects = [a.objects EXCEPT ![id] = v], c.next_id = a.next_id
    PROVE  /\ OnModify(st, id, a.objects[id]) \in undo_state
           /\ StateExact(OnModify(st, id, a.objects[id]), b, c)
<1> DEFINE s == OnModify(st, id, a.objects[id])
<1>1. s \in undo_state
  BY DEF OnModify, undo_state, Database
<1>2. /\ s.new_ids = st.new_ids
      /\ s.removed = st.removed
      /\ s.old_index_next_ids = st.old_index_next_ids
      /\ s.old_values[id] = IF id \in st.new_ids \/ st.old_values[id] # None
                            THEN st.old_values[id] ELSE a.objects[id]
      /\ \A i \in ObjectId : i # id => s.old_values[i] = st.old_values[i]
  BY DEF OnModify, undo_state
<1>3. /\ c.objects[id] = v
      /\ \A i \in ObjectId : i # id => c.objects[i] = a.objects[i]
  BY DEF Database
<1> HIDE DEF s
<1>4. ASSUME NEW i \in ObjectId PROVE ObjectLogged(s, b, c, i)
  <2> ObjectLogged(st, b, a, i)
    BY DEF StateExact
  <2> QED BY <1>2, <1>3, NoneAssumption DEF ObjectLogged
<1>5. ASSUME NEW x \in Index PROVE NextIdLogged(s, b, c, x)
  BY <1>2 DEF StateExact, NextIdLogged
<1> QED BY <1>1, <1>4, <1>5 DEF StateExact, s

\* on_remove keeps a state exact: c is the database without the object.
LEMMA OnRemoveExact ==
    ASSUME NEW st \in undo_state, NEW b \in Database, NEW a \in Database,
           NEW c \in Database, NEW id \in ObjectId,
           StateExact(st, b, a), a.objects[id] # None,
           c.objects = [a.objects EXCEPT ![id] = None], c.next_id = a.next_id
    PROVE  /\ OnRemove(st, id, a.objects[id]) \in undo_state
           /\ StateExact(OnRemove(st, id, a.objects[id]), b, c)
<1> DEFINE s == OnRemove(st, id, a.objects[id])
<1>1. s \in undo_state
  BY DEF OnRemove, undo_state, Database
<1>2. /\ s.new_ids = st.new_ids \ {id}
      /\ s.old_index_next_ids = st.old_index_next_ids
      /\ id \in st.new_ids =>
            s.old_values[id] = st.old_values[id] /\ s.removed[id] = st.removed[id]
      /\ (id \notin st.new_ids /\ st.old_values[id] # None) =>
            s.old_values[id] = None /\ s.removed[id] = st.old_values[id]
      /\ (id \notin st.new_ids /\ st.old_values[id] = None) =>
            /\ s.old_values[id] = None
            /\ s.removed[id] = IF st.removed[id] # None THEN st.removed[id]
                               ELSE a.objects[id]
      /\ \A i \in ObjectId : i # id => /\ s.old_values[i] = st.old_values[i]
                                       /\ s.removed[i] = st.removed[i]
  BY DEF OnRemove, undo_state
<1>3. /\ c.objects[id] = None
      /\ \A i \in ObjectId : i # id => c.objects[i] = a.objects[i]
  BY DEF Database
<1> HIDE DEF s
<1>4. ASSUME NEW i \in ObjectId PROVE ObjectLogged(s, b, c, i)
  <2> ObjectLogged(st, b, a, i)
    BY DEF StateExact
  <2> QED BY <1>2, <1>3, NoneAssumption DEF ObjectLogged
<1>5. ASSUME NEW x \in Index PROVE NextIdLogged(s, b, c, x)
  BY <1>2 DEF StateExact, NextIdLogged
<1> QED BY <1>1, <1>4, <1>5 DEF StateExact, s

\* Restoring from an exact state gives back the database it was opened in.
LEMMA RestoreExact ==
    ASSUME NEW st \in undo_state, NEW b \in Database, db \in Database,
           StateExact(st, b, db)
    PROVE  RestoreObjects(st) = b.objects /\ RestoreNextId(st) = b.next_id
<1>1. \A id \in ObjectId : RestoreObjects(st)[id] = b.objects[id]
  BY DEF StateExact, ObjectLogged, RestoreObjects, db
<1>2. \A x \in Index : RestoreNextId(st)[x] = b.next_id[x]
  BY DEF StateExact, NextIdLogged, RestoreNextId, db
<1> QED BY <1>1, <1>2 DEF RestoreObjects, RestoreNextId, Database

\* merge() composes: if A leads from b to m and B from m to c, what it leaves
\* leads from b to c.
LEMMA ComposeExact ==
    ASSUME NEW A \in undo_state, NEW B \in undo_state, NEW b \in Database,
           NEW m \in Database, NEW c \in Database,
           StateExact(A, b, m), StateExact(B, m, c),
           AllottedIdsBelowNext(b), AllottedIdsBelowNext(m)
    PROVE  Compose(A, B) \in undo_state /\ StateExact(Compose(A, B), b, c)
<1> DEFINE s == Compose(A, B)
<1>1. s \in undo_state
  BY DEF Compose, undo_state
<1>2. ASSUME NEW id \in ObjectId
      PROVE  ObjectLogged(s, b, c, id)
  <2> DEFINE old == IF /\ B.old_values[id] # None
                       /\ id \notin A.new_ids
                       /\ A.old_values[id] = None
                    THEN B.old_values[id] ELSE A.old_values[id]
             new == id \in A.new_ids \/ id \in B.new_ids
             del == B.removed[id] # None
  <2>1. /\ s.old_values[id] = IF del /\ ~new THEN None ELSE old
        /\ id \in s.new_ids <=> new /\ ~del
        /\ s.removed[id] = IF del /\ ~new
                           THEN IF old # None THEN old ELSE B.removed[id]
                           ELSE A.removed[id]
    BY DEF Compose
  <2>2. ObjectLogged(A, b, m, id) /\ ObjectLogged(B, m, c, id)
    BY DEF StateExact
  <2>3. id \in B.new_ids => b.objects[id] = None /\ b.next_id[id[1]] <= id[2]
    <3>1. id[1] \in Index /\ id[2] \in Int
      BY BoundAssumption DEF ObjectId
    <3>2. b.next_id[id[1]] \in Int /\ m.next_id[id[1]] \in Int
      BY <3>1, BoundAssumption DEF Database
    <3>3. b.next_id[id[1]] <= m.next_id[id[1]]
      BY <3>1, <3>2 DEF StateExact, NextIdLogged
    <3> QED BY <2>2, <3>1, <3>2, <3>3 DEF ObjectLogged, AllottedIdsBelowNext
  <2> HIDE DEF s
  <2> QED BY <2>1, <2>2, <2>3 DEF ObjectLogged
<1>3. ASSUME NEW x \in Index PROVE NextIdLogged(s, b, c, x)
  <2>1. s.old_index_next_ids[x] = IF A.old_index_next_ids[x] = None
                                  THEN B.old_index_next_ids[x]
                                  ELSE A.old_index_next_ids[x]
    BY DEF Compose
  <2>2. NextIdLogged(A, b, m, x) /\ NextIdLogged(B, m, c, x)
    BY DEF StateExact
  <2>3. b.next_id[x] \in Int /\ m.next_id[x] \in Int /\ c.next_id[x] \in Int
    BY BoundAssumption DEF Database
  <2> HIDE DEF s
  <2> QED BY <2>1, <2>2, <2>3 DEF NextIdLogged
<1> QED BY <1>1, <1>2, <1>3 DEF StateExact
-----------------------------------------------------------------------------
(***************************************************************************)
(* The stack as a sequence.                                                *)
(***************************************************************************)
\* The elements of a part of a sequence.
LEMMA SubSeqElements ==
    ASSUME NEW S, NEW seq \in Seq(S), NEW m \in Int, NEW n \in Int,
           1 <= m, m <= n + 1, n <= Len(seq)
    PROVE  /\ SubSeq(seq, m, n) \in Seq(S)
           /\ Len(SubSeq(seq, m, n)) = n - m + 1
           /\ \A i \in 1 .. n - m + 1 : SubSeq(seq, m, n)[i] = seq[m + i - 1]
  BY LenProperties, ElementOfSeq

\* Dropping the newest element.
LEMMA PopBackElements ==
    ASSUME NEW S, NEW seq \in Seq(S), seq # <<>>
    PROVE  /\ PopBack(seq) \in Seq(S)
           /\ Len(PopBack(seq)) = Len(seq) - 1
           /\ \A i \in 1 .. Len(seq) - 1 : PopBack(seq)[i] = seq[i]
<1>1. Len(seq) \in Nat /\ Len(seq) > 0
  BY EmptySeq, LenProperties
<1> DEFINE n == Len(seq) - 1
<1>2. n \in Int /\ 1 <= n + 1 /\ n <= Len(seq)
  BY <1>1
<1>3. PopBack(seq) = SubSeq(seq, 1, n)
  BY DEF PopBack
<1> HIDE DEF n
<1>4. /\ SubSeq(seq, 1, n) \in Seq(S)
      /\ Len(SubSeq(seq, 1, n)) = n
      /\ \A i \in 1 .. n : SubSeq(seq, 1, n)[i] = seq[i]
  BY <1>2, SubSeqElements
<1> QED BY <1>3, <1>4 DEF n

\* How many of the oldest elements trimming drops.
Dropped == IF size > max_size THEN size - max_size ELSE 0

\* Dropping the oldest elements leaves the newest ones in their order.
LEMMA TrimElements ==
    ASSUME NEW S, NEW seq \in Seq(S), Len(seq) = size, max_size \in Nat
    PROVE  /\ Dropped \in 0 .. size
           /\ Trim(seq) = SubSeq(seq, Dropped + 1, size)
           /\ Trim(seq) \in Seq(S)
           /\ Len(Trim(seq)) = size - Dropped
           /\ \A i \in 1 .. size - Dropped : Trim(seq)[i] = seq[i + Dropped]
<1>1. size \in Nat
  BY LenProperties
<1>2. Dropped \in 0 .. size
  BY <1>1 DEF Dropped
<1>3. Trim(seq) = SubSeq(seq, Dropped + 1, size)
  BY <1>1, SubSeqFull DEF Trim, Dropped
<1>4. /\ SubSeq(seq, Dropped + 1, size) \in Seq(S)
      /\ Len(SubSeq(seq, Dropped + 1, size)) = size - Dropped
      /\ \A i \in 1 .. size - Dropped :
            SubSeq(seq, Dropped + 1, size)[i] = seq[i + Dropped]
  BY <1>1, <1>2, SubSeqElements
<1> QED BY <1>2, <1>3, <1>4

-----------------------------------------------------------------------------
(***************************************************************************)
(* The inductive invariant.                                                *)
(***************************************************************************)
\* Facts about the newest state that every rollback and change starts from.
LEMMA NewestState ==
    ASSUME IInv
    PROVE  /\ db \in Database
           /\ size \in Nat /\ Len(before) = size
           /\ \A i \in 1 .. size : stack[i] \in undo_state /\ before[i] \in Database
           /\ stack # <<>> <=> size > 0
           /\ before # <<>> <=> size > 0
           /\ stack # <<>> => /\ size \in 1 .. size
                             /\ StateExact(stack[size], before[size], db)
                             /\ AllottedIdsBelowNext(before[size])
           /\ AllottedIdsBelowNext(db)
<1>1. db \in Database
  BY DEF IInv, TypeOK, db, Database
<1>2. stack \in Seq(undo_state) /\ before \in Seq(Database) /\ Len(before) = size
  BY DEF IInv, TypeOK, OpenSessionsKept
<1>3. /\ size \in Nat
      /\ \A i \in 1 .. size : stack[i] \in undo_state /\ before[i] \in Database
  BY <1>2, LenProperties, ElementOfSeq DEF size
<1>4. /\ stack # <<>> <=> size > 0
      /\ before # <<>> <=> size > 0
  BY <1>2, EmptySeq DEF size
<1>5. AllottedIdsBelowNext(db)
  BY DEF IInv, FreshIds
<1>6. stack # <<>> => /\ size \in 1 .. size
                      /\ StateExact(stack[size], before[size], db)
                      /\ AllottedIdsBelowNext(before[size])
  BY <1>3, <1>4 DEF IInv, LogExact, FreshIds, After
<1> QED BY <1>1, <1>2, <1>3, <1>4, <1>5, <1>6

\* A change of the database that is recorded exactly in the newest state
\* keeps the invariant.
LEMMA RecordStep ==
    ASSUME IInv, NEW st \in undo_state, Record(st),
           db' \in Database, AllottedIdsBelowNext(db'),
           StateExact(st, IF stack = <<>> THEN db ELSE before[size], db'),
           UNCHANGED <<active_sessions, disabled, max_size>>
    PROVE  IInv'
<1> USE NewestState
<1>1. CASE disabled
  <2>1. stack = <<>> /\ stack' = <<>> /\ before' = before /\ before = <<>>
    BY <1>1 DEF Record, IInv, OpenSessionsKept
  <2>2. size = 0 /\ size' = 0
    BY <2>1, EmptySeq DEF size
  <2>3. TypeOK'
    BY <2>1 DEF IInv, TypeOK, db, Database
  <2>4. OpenSessionsKept'
    BY <2>1, <2>2 DEF IInv, OpenSessionsKept
  <2>5. LogExact' /\ FreshIds'
    BY <2>2 DEF LogExact, FreshIds
  <2> QED BY <2>3, <2>4, <2>5 DEF IInv
<1>2. CASE ~disabled /\ stack = <<>>
  <2>1. stack' = <<st>> /\ before' = <<db>> /\ size = 0 /\ size' = 1
    BY <1>2 DEF Record, size
  <2>2. TypeOK'
    BY <2>1 DEF IInv, TypeOK, db, Database
  <2>3. OpenSessionsKept'
    BY <1>2, <2>1 DEF IInv, OpenSessionsKept, TypeOK
  <2>4. LogExact'
    BY <1>2, <2>1 DEF LogExact, After
  <2>5. FreshIds'
    BY <2>1 DEF FreshIds
  <2> QED BY <2>2, <2>3, <2>4, <2>5 DEF IInv
<1>3. CASE ~disabled /\ stack # <<>>
  <2>1. /\ stack' = [stack EXCEPT ![size] = st]
        /\ before' = before
        /\ size \in 1 .. size
    BY <1>3 DEF Record
  <2>2. /\ stack' \in Seq(undo_state)
        /\ size' = size
        /\ \A i \in 1 .. size : stack'[i] = IF i = size THEN st ELSE stack[i]
    BY <2>1, ExceptSeq DEF IInv, TypeOK, size
  <2>3. TypeOK'
    BY <2>1, <2>2 DEF IInv, TypeOK, db, Database
  <2>4. OpenSessionsKept'
    BY <1>3, <2>1, <2>2 DEF IInv, OpenSessionsKept
  <2>5. LogExact'
    <3> SUFFICES ASSUME NEW i \in 1 .. size
                 PROVE  StateExact(stack'[i], before[i], After(i)')
      BY <2>1, <2>2 DEF LogExact
    <3>1. CASE i = size
      BY <3>1, <1>3, <2>2 DEF After
    <3>2. CASE i # size
      BY <3>2, <2>1, <2>2 DEF After, IInv, LogExact
    <3> QED BY <3>1, <3>2
  <2>6. FreshIds'
    BY <2>1, <2>2 DEF IInv, FreshIds
  <2> QED BY <2>3, <2>4, <2>5, <2>6 DEF IInv
<1> QED BY <1>1, <1>2, <1>3

\* A rollback to the newest snapshot keeps the invariant.
LEMMA RestoreStep ==
    ASSUME IInv, stack # <<>>, Restore, active_sessions' \in 0 .. size - 1,
           active_sessions' \in 0 .. MaxDepth, UNCHANGED max_size
    PROVE  /\ IInv'
           /\ db' = before[size]
<1> USE NewestState
<1>1. db' = before[size]
  BY RestoreExact DEF Restore, db, Database
<1>2. /\ stack' \in Seq(undo_state)
      /\ before' \in Seq(Database)
      /\ size' = size - 1
      /\ Len(before') = size - 1
      /\ \A i \in 1 .. size - 1 : stack'[i] = stack[i] /\ before'[i] = before[i]
  BY PopBackElements DEF Restore, IInv, TypeOK, size
<1>3. TypeOK'
  <2>1. db' \in Database
    BY <1>1
  <2>2. objects' \in [ObjectId -> Slot] /\ next_id' \in [Index -> Instance]
    BY <2>1 DEF db, Database
  <2> QED BY <1>2, <2>2 DEF IInv, TypeOK, Restore
<1>4. OpenSessionsKept'
  BY <1>2 DEF OpenSessionsKept, Restore
<1>5. LogExact'
  <2> SUFFICES ASSUME NEW i \in 1 .. size - 1
               PROVE  StateExact(stack'[i], before'[i], After(i)')
    BY <1>2 DEF LogExact
  <2>1. i \in 1 .. size /\ (i # size - 1 => i + 1 \in 1 .. size - 1)
    BY <1>2
  <2>2. After(i)' = After(i)
    BY <2>1, <1>1, <1>2 DEF After
  <2> QED BY <2>1, <2>2, <1>2 DEF IInv, LogExact
<1>6. FreshIds'
  BY <1>1, <1>2 DEF IInv, FreshIds
<1> QED BY <1>1, <1>3, <1>4, <1>5, <1>6 DEF IInv

\* Merging the newest session into the state below it keeps the invariant.
LEMMA MergeStep == IInv /\ Merge => IInv'
<1> SUFFICES ASSUME IInv, Merge PROVE IInv'
  OBVIOUS
<1> USE NewestState
<1>1. /\ active_sessions \in Nat \ {0}
      /\ active_sessions <= size
      /\ size > 0
      /\ ~disabled
      /\ active_sessions' \in 0 .. MaxDepth
      /\ active_sessions' = active_sessions - 1
      /\ UNCHANGED <<objects, next_id, disabled, max_size>>
      /\ db' = db
  BY BoundAssumption DEF IInv, TypeOK, Merge, OpenSessionsKept, db
<1>2. /\ before' \in Seq(Database)
      /\ Len(before') = size - 1
      /\ \A i \in 1 .. size - 1 : before'[i] = before[i]
  BY <1>1, PopBackElements DEF Merge, IInv, TypeOK
<1>3. /\ stack' \in Seq(undo_state)
      /\ size' = size - 1
      /\ \A i \in 1 .. size - 2 : stack'[i] = stack[i]
      /\ size >= 2 => /\ stack'[size - 1] = Compose(stack[size - 1], stack[size])
                      /\ StateExact(stack'[size - 1], before[size - 1], db)
  <2>1. CASE size = 1
    BY <2>1 DEF Merge, size
  <2>2. CASE size # 1
    <3>1. /\ size \in Nat /\ size >= 2
          /\ size - 1 \in 1 .. Len(PopBack(stack))
          /\ PopBack(stack) \in Seq(undo_state)
          /\ Len(PopBack(stack)) = size - 1
          /\ \A i \in 1 .. size - 1 : PopBack(stack)[i] = stack[i]
      <4>1. size \in Nat /\ size >= 2 /\ stack \in Seq(undo_state) /\ stack # <<>>
        BY <1>1, <2>2 DEF IInv, TypeOK
      <4> QED BY <4>1, PopBackElements DEF size
    <3> DEFINE s == Compose(stack[size - 1], stack[size])
    <3>2. stack' = [PopBack(stack) EXCEPT ![size - 1] = s]
      BY <2>2, <3>1 DEF Merge
    <3>3. /\ StateExact(stack[size - 1], before[size - 1], before[size])
          /\ StateExact(stack[size], before[size], db)
          /\ AllottedIdsBelowNext(before[size - 1])
          /\ AllottedIdsBelowNext(before[size])
          /\ stack[size - 1] \in undo_state /\ stack[size] \in undo_state
          /\ before[size - 1] \in Database /\ before[size] \in Database
      BY <3>1 DEF IInv, LogExact, FreshIds, After
    <3>4. s \in undo_state /\ StateExact(s, before[size - 1], db)
      BY <3>3, ComposeExact
    <3> HIDE DEF s
    <3>5. /\ stack' \in Seq(undo_state)
          /\ Len(stack') = size - 1
          /\ \A i \in 1 .. size - 1 :
                stack'[i] = IF i = size - 1 THEN s ELSE PopBack(stack)[i]
      BY <3>1, <3>2, <3>4, ExceptSeq
    <3> QED BY <3>1, <3>4, <3>5 DEF size, s
  <2> QED BY <2>1, <2>2
<1>4. TypeOK'
  BY <1>1, <1>2, <1>3 DEF IInv, TypeOK
<1>5. OpenSessionsKept'
  BY <1>1, <1>2, <1>3 DEF OpenSessionsKept
<1>6. LogExact'
  <2> SUFFICES ASSUME NEW i \in 1 .. size - 1
               PROVE  StateExact(stack'[i], before[i], After(i)')
    BY <1>2, <1>3 DEF LogExact
  <2>1. CASE i = size - 1
    <3>1. size >= 2
      BY <2>1
    <3>2. After(i)' = db
      BY <2>1, <1>1, <1>3 DEF After
    <3> QED BY <2>1, <3>1, <3>2, <1>3
  <2>2. CASE i # size - 1
    <3>1. i \in 1 .. size - 2 /\ i + 1 \in 1 .. size - 1 /\ i \in 1 .. size
      BY <2>2
    <3>2. After(i)' = After(i)
      BY <3>1, <2>2, <1>2, <1>3 DEF After
    <3> QED BY <3>1, <3>2, <1>3 DEF IInv, LogExact
  <2> QED BY <2>1, <2>2
<1>7. FreshIds'
  BY <1>1, <1>2, <1>3 DEF IInv, FreshIds
<1> QED BY <1>4, <1>5, <1>6, <1>7 DEF IInv

\* Opening a session, after trimming, keeps the invariant: what is dropped
\* belongs to no open session.
LEMMA StartStep == IInv /\ StartUndoSession => IInv'
<1> SUFFICES ASSUME IInv, StartUndoSession PROVE IInv'
  OBVIOUS
<1> USE NewestState
<1> DEFINE k == Dropped
<1>1. /\ max_size \in Nat /\ MinSize <= max_size
      /\ active_sessions \in 0 .. MaxDepth - 1
      /\ active_sessions <= size
      /\ ~disabled
      /\ UNCHANGED <<objects, next_id, disabled, max_size>>
      /\ db' = db
  BY BoundAssumption DEF IInv, TypeOK, OpenSessionsKept, StartUndoSession, db
<1>2. /\ k \in 0 .. size
      /\ active_sessions <= size - k
  BY <1>1, BoundAssumption, DepthAssumption DEF Dropped
<1>3. /\ Trim(stack) \in Seq(undo_state)
      /\ Trim(before) \in Seq(Database)
      /\ Len(Trim(stack)) = size - k
      /\ Len(Trim(before)) = size - k
      /\ \A i \in 1 .. size - k : /\ Trim(stack)[i] = stack[i + k]
                                 /\ Trim(before)[i] = before[i + k]
  BY <1>1, TrimElements DEF IInv, TypeOK, size
<1> HIDE DEF k
<1>4. /\ stack' \in Seq(undo_state)
      /\ before' \in Seq(Database)
      /\ size' = size - k + 1
      /\ Len(before') = size - k + 1
      /\ \A i \in 1 .. size - k : stack'[i] = stack[i + k] /\ before'[i] = before[i + k]
      /\ stack'[size - k + 1] = EmptyState
      /\ before'[size - k + 1] = db
  <2>1. stack' = Append(Trim(stack), EmptyState) /\ before' = Append(Trim(before), db)
    BY DEF StartUndoSession
  <2>2. EmptyState \in undo_state /\ db \in Database
    BY EmptyStateExact
  <2>3. size \in Nat /\ size - k \in Nat
    BY <1>2
  <2>4. /\ stack' \in Seq(undo_state)
        /\ Len(stack') = size - k + 1
        /\ \A i \in 1 .. size - k : stack'[i] = Trim(stack)[i]
        /\ stack'[size - k + 1] = EmptyState
    BY ONLY <1>3, <2>1, <2>2, <2>3
  <2>5. /\ before' \in Seq(Database)
        /\ Len(before') = size - k + 1
        /\ \A i \in 1 .. size - k : before'[i] = Trim(before)[i]
        /\ before'[size - k + 1] = db
    BY ONLY <1>3, <2>1, <2>2, <2>3
  <2> QED BY <1>3, <2>4, <2>5 DEF size
<1>5. TypeOK'
  BY <1>1, <1>4, BoundAssumption DEF IInv, TypeOK, StartUndoSession
<1>6. OpenSessionsKept'
  BY <1>1, <1>2, <1>4 DEF OpenSessionsKept, StartUndoSession
<1>7. LogExact'
  <2> SUFFICES ASSUME NEW i \in 1 .. size - k + 1
               PROVE  StateExact(stack'[i], before'[i], After(i)')
    BY <1>4 DEF LogExact
  <2>1. CASE i = size - k + 1
    BY <2>1, <1>1, <1>4, EmptyStateExact DEF After
  <2>2. CASE i # size - k + 1
    <3>1. i \in 1 .. size - k /\ i + k \in 1 .. size
      BY <2>2, <1>2
    <3>2. size \in Nat /\ k \in Nat /\ i \in Nat
      BY <1>2
    <3>3. After(i)' = before'[i + 1]
      BY ONLY <2>2, <3>2, <1>4 DEF After
    <3>4. After(i)' = After(i + k)
      <4>1. CASE i + k = size
        <5>1. i + 1 = size - k + 1
          BY ONLY <3>2, <4>1
        <5>2. After(i + k) = db
          BY ONLY <4>1 DEF After
        <5> QED BY ONLY <3>3, <5>1, <5>2, <1>4
      <4>2. CASE i + k # size
        <5>1. i + 1 \in 1 .. size - k /\ (i + 1) + k = (i + k) + 1
          BY ONLY <3>1, <3>2, <4>2
        <5>2. before'[i + 1] = before[(i + 1) + k]
          BY ONLY <5>1, <1>4
        <5>3. After(i + k) = before[(i + k) + 1]
          BY ONLY <4>2 DEF After
        <5> QED BY ONLY <3>3, <5>1, <5>2, <5>3
      <4> QED BY <4>1, <4>2
    <3> QED BY <3>1, <3>4, <1>4 DEF IInv, LogExact
  <2> QED BY <2>1, <2>2
<1>8. FreshIds'
  <2>1. AllottedIdsBelowNext(db')
    BY <1>1
  <2>2. ASSUME NEW i \in 1 .. size - k + 1 PROVE AllottedIdsBelowNext(before'[i])
    <3>1. CASE i = size - k + 1
      BY <3>1, <1>4
    <3>2. CASE i # size - k + 1
      <4>1. i \in 1 .. size - k /\ i + k \in 1 .. size
        BY <3>2, <1>2
      <4> QED BY <4>1, <1>4 DEF IInv, FreshIds
    <3> QED BY <3>1, <3>2
  <2> QED BY <2>1, <2>2, <1>4 DEF FreshIds
<1> QED BY <1>5, <1>6, <1>7, <1>8 DEF IInv

\* The initial state satisfies the inductive invariant.
LEMMA InitIInv == Init => IInv
<1> SUFFICES ASSUME Init PROVE IInv
  OBVIOUS
<1>1. size = 0 /\ Len(before) = 0
  BY DEF Init, size
<1>2. TypeOK
  <2>1. /\ objects \in [ObjectId -> Slot]
        /\ next_id \in [Index -> Instance]
        /\ active_sessions \in 0 .. MaxDepth
    BY BoundAssumption DEF Init, NoObject
  <2> QED BY <2>1, EmptySeq DEF Init, TypeOK
<1>3. OpenSessionsKept
  BY <1>1 DEF Init, OpenSessionsKept
<1>4. LogExact
  BY <1>1 DEF LogExact
<1>5. FreshIds
  BY <1>1 DEF Init, FreshIds, AllottedIdsBelowNext, db, NoObject
<1> QED BY <1>2, <1>3, <1>4, <1>5 DEF IInv

\* The base of the newest state: where a change must be undone to.
Base == IF stack = <<>> THEN db ELSE before[size]

\* The newest state, or the one that a change is about to open, is exact.
LEMMA NewestExact ==
    ASSUME IInv
    PROVE  /\ Newest \in undo_state
           /\ Base \in Database
           /\ StateExact(Newest, Base, db)
           /\ AllottedIdsBelowNext(Base)
<1> USE NewestState
<1>1. CASE stack = <<>>
  BY <1>1, EmptyStateExact DEF Newest, Base
<1>2. CASE stack # <<>>
  BY <1>2 DEF Newest, Base
<1> QED BY <1>1, <1>2

\* The three kinds of change.
LEMMA ChangeStep ==
    ASSUME IInv,
           \/ \E x \in Index, v \in Value : Create(x, v)
           \/ \E id \in ObjectId, v \in Value : Modify(id, v)
           \/ \E id \in ObjectId : Remove(id)
    PROVE  IInv' /\ db' \in Database
<1> USE NewestState, NewestExact
<1>1. ASSUME NEW x \in Index, NEW v \in Value, Create(x, v)
      PROVE  IInv' /\ db' \in Database
  <2> DEFINE id == <<x, db.next_id[x]>>
  <2>1. /\ db.next_id[x] < MaxInstance
        /\ db'.objects = [db.objects EXCEPT ![id] = v]
        /\ db'.next_id = [db.next_id EXCEPT ![x] = @ + 1]
        /\ Record(OnCreate(Newest, id))
        /\ UNCHANGED <<active_sessions, disabled, max_size>>
    BY <1>1 DEF Create, db
  <2>2. db' \in Database
    <3>1. id \in ObjectId /\ db.next_id[x] + 1 \in Instance
      BY <2>1, BoundAssumption DEF ObjectId, Database
    <3>2. /\ objects' = [objects EXCEPT ![id] = v]
          /\ next_id' = [next_id EXCEPT ![x] = next_id[x] + 1]
          /\ objects \in [ObjectId -> Slot]
          /\ next_id \in [Index -> Instance]
          /\ next_id[x] + 1 \in Instance
      BY <3>1, <1>1 DEF Create, db, IInv, TypeOK
    <3> HIDE DEF id
    <3>3. objects' \in [ObjectId -> Slot] /\ next_id' \in [Index -> Instance]
      BY <3>1, <3>2
    <3> QED BY <3>3 DEF Database, db
  <2>3. /\ OnCreate(Newest, id) \in undo_state
        /\ StateExact(OnCreate(Newest, id), Base, db')
        /\ AllottedIdsBelowNext(db')
    BY <2>1, <2>2, OnCreateExact
  <2> QED BY <2>1, <2>2, <2>3, RecordStep DEF Base
<1>2. ASSUME NEW id \in ObjectId, NEW v \in Value, Modify(id, v)
      PROVE  IInv' /\ db' \in Database
  <2>1. /\ db.objects[id] # None
        /\ db'.objects = [db.objects EXCEPT ![id] = v]
        /\ db'.next_id = db.next_id
        /\ Record(OnModify(Newest, id, db.objects[id]))
        /\ UNCHANGED <<active_sessions, disabled, max_size>>
    BY <1>2 DEF Modify, db
  <2>2. db' \in Database
    BY <2>1 DEF Database, db
  <2>3. /\ OnModify(Newest, id, db.objects[id]) \in undo_state
        /\ StateExact(OnModify(Newest, id, db.objects[id]), Base, db')
    BY <2>1, <2>2, OnModifyExact
  <2>4. AllottedIdsBelowNext(db')
    BY <2>1 DEF AllottedIdsBelowNext, Database
  <2> QED BY <2>1, <2>2, <2>3, <2>4, RecordStep DEF Base
<1>3. ASSUME NEW id \in ObjectId, Remove(id)
      PROVE  IInv' /\ db' \in Database
  <2>1. /\ db.objects[id] # None
        /\ db'.objects = [db.objects EXCEPT ![id] = None]
        /\ db'.next_id = db.next_id
        /\ Record(OnRemove(Newest, id, db.objects[id]))
        /\ UNCHANGED <<active_sessions, disabled, max_size>>
    BY <1>3 DEF Remove, db
  <2>2. db' \in Database
    BY <2>1 DEF Database, db
  <2>3. /\ OnRemove(Newest, id, db.objects[id]) \in undo_state
        /\ StateExact(OnRemove(Newest, id, db.objects[id]), Base, db')
    BY <2>1, <2>2, OnRemoveExact
  <2>4. AllottedIdsBelowNext(db')
    BY <2>1 DEF AllottedIdsBelowNext, Database
  <2> QED BY <2>1, <2>2, <2>3, <2>4, RecordStep DEF Base
<1> QED BY <1>1, <1>2, <1>3

\* Every step keeps the inductive invariant.
LEMMA NextIInv == IInv /\ [Next]_vars => IInv'
<1> SUFFICES ASSUME IInv, [Next]_vars PROVE IInv'
  OBVIOUS
<1> USE NewestState
<1>1. CASE \/ \E x \in Index, v \in Value : Create(x, v)
           \/ \E id \in ObjectId, v \in Value : Modify(id, v)
           \/ \E id \in ObjectId : Remove(id)
  BY <1>1, ChangeStep
<1>2. CASE Enable \/ Disable \/ Commit \/ \E n \in MinSize .. MaxSize : SetMaxSize(n)
  <2>1. UNCHANGED <<objects, next_id, stack, before>> /\ db' = db /\ size' = size
    BY <1>2 DEF Enable, Disable, Commit, SetMaxSize, db, size
  <2>2. TypeOK'
    <3>1. active_sessions' \in 0 .. MaxDepth /\ max_size' \in MinSize .. MaxSize
      BY <1>2, BoundAssumption
         DEF IInv, TypeOK, Enable, Disable, Commit, SetMaxSize
    <3>2. disabled' \in BOOLEAN
      BY <1>2, Zenon DEF IInv, TypeOK, Enable, Disable, Commit, SetMaxSize
    <3> QED BY <2>1, <3>1, <3>2 DEF IInv, TypeOK
  <2>3. OpenSessionsKept'
    BY <1>2, <2>1, BoundAssumption
       DEF IInv, TypeOK, OpenSessionsKept, Enable, Disable, Commit, SetMaxSize
  <2>4. LogExact' /\ FreshIds'
    BY <2>1 DEF IInv, LogExact, FreshIds, After
  <2> QED BY <2>2, <2>3, <2>4 DEF IInv
<1>3. CASE StartUndoSession
  BY <1>3, StartStep
<1>4. CASE Undo
  <2>1. /\ stack # <<>>
        /\ active_sessions' \in 0 .. size - 1
        /\ active_sessions' \in 0 .. MaxDepth
    BY <1>4, BoundAssumption DEF Undo, IInv, TypeOK, OpenSessionsKept
  <2> QED BY <1>4, <2>1, RestoreStep DEF Undo
<1>5. CASE Merge
  BY <1>5, MergeStep
<1>6. CASE PopCommit
  <2>1. /\ stack # <<>>
        /\ active_sessions' \in 0 .. size - 1
        /\ active_sessions' \in 0 .. MaxDepth
    BY <1>6, BoundAssumption DEF PopCommit, IInv, TypeOK, OpenSessionsKept
  <2> QED BY <1>6, <2>1, RestoreStep DEF PopCommit
<1>7. CASE UNCHANGED vars
  <2>1. db' = db /\ size' = size /\ UNCHANGED vars
    BY <1>7 DEF vars, db, size
  <2> QED BY <2>1 DEF IInv, TypeOK, OpenSessionsKept, LogExact, FreshIds, After, vars
<1> QED BY <1>1, <1>2, <1>3, <1>4, <1>5, <1>6, <1>7 DEF Next

-----------------------------------------------------------------------------
\* The inductive invariant holds in every reachable state, whatever the
\* indexes, the values and the bounds.
THEOREM Invariance == Spec => []IInv
  BY InitIInv, NextIInv, PTL DEF Spec

\* The variables of the undo log keep their types.
THEOREM TypeCorrect == Spec => []TypeOK
<1>1. IInv => TypeOK
  BY DEF IInv
<1> QED BY <1>1, Invariance, PTL

\* start_undo_session() never drops the state of an open session.
THEOREM SessionsKept == Spec => []OpenSessionsKept
<1>1. IInv => OpenSessionsKept
  BY DEF IInv
<1> QED BY <1>1, Invariance, PTL

\* The undo log is complete and exact at every level.
THEOREM LogIsExact == Spec => []LogExact
<1>1. IInv => LogExact
  BY DEF IInv
<1> QED BY <1>1, Invariance, PTL

\* An id allocator never hands out an id in use, although undo rewinds it.
THEOREM IdsAreFresh == Spec => []FreshIds
<1>1. IInv => FreshIds
  BY DEF IInv
<1> QED BY <1>1, Invariance, PTL

\* undo() and pop_commit() never fail half way.
THEOREM RestoreTotal == Spec => []RestoreCannotFail
<1>1. IInv => RestoreCannotFail
  BY NewestState DEF RestoreCannotFail, StateExact, ObjectLogged, db
<1> QED BY <1>1, Invariance, PTL

\* The assertions in merge() never fire.
THEOREM MergeSound == Spec => []MergeAssertions
<1>1. IInv => MergeAssertions
  <2> SUFFICES ASSUME IInv, size >= 2, NEW id \in ObjectId,
                      \/ stack[size].old_values[id] # None
                      \/ stack[size].removed[id] # None
               PROVE  stack[size - 1].removed[id] = None
    BY DEF MergeAssertions
  <2>1. /\ ObjectLogged(stack[size - 1], before[size - 1], before[size], id)
        /\ ObjectLogged(stack[size], before[size], db, id)
    BY NewestState DEF IInv, LogExact, StateExact, After
  <2> QED BY <2>1 DEF ObjectLogged
<1> QED BY <1>1, Invariance, PTL
-----------------------------------------------------------------------------
(***************************************************************************)
(* The undo log implements a stack of snapshots.                           *)
(***************************************************************************)
\* Every step of the undo log is a step of the stack of snapshots, or leaves
\* the database, the snapshots and the number of open sessions as they are.
LEMMA StepRefines ==
    ASSUME IInv, Next
    PROVE  Snapshots!Next \/ UNCHANGED <<db, before, active_sessions>>
<1> USE NewestState
<1>1. CASE \/ \E x \in Index, v \in Value : Create(x, v)
           \/ \E id \in ObjectId, v \in Value : Modify(id, v)
           \/ \E id \in ObjectId : Remove(id)
  <2>1. db' \in Database
    BY <1>1, ChangeStep
  <2>2. active_sessions' = active_sessions
    BY <1>1 DEF Create, Modify, Remove
  <2>3. before' \in {before, IF before = <<>> THEN <<db>> ELSE before}
    BY <1>1 DEF Create, Modify, Remove, Record
  <2> QED BY <2>1, <2>2, <2>3 DEF Snapshots!Next, Snapshots!Change
<1>2. CASE Enable \/ Disable \/ \E n \in MinSize .. MaxSize : SetMaxSize(n)
  BY <1>2 DEF Enable, Disable, SetMaxSize, db
<1>3. CASE Commit
  BY <1>3 DEF Commit, Snapshots!Next, Snapshots!Commit, db
<1>4. CASE StartUndoSession
  <2>1. /\ max_size \in Nat /\ MinSize <= max_size
        /\ active_sessions \in 0 .. MaxDepth - 1
        /\ active_sessions <= size
        /\ before \in Seq(Database)
    BY <1>4, BoundAssumption DEF IInv, TypeOK, OpenSessionsKept, StartUndoSession
  <2>2. /\ Dropped \in 0 .. Len(before) - active_sessions
        /\ Trim(before) = SubSeq(before, Dropped + 1, Len(before))
    <3>1. Dropped \in 0 .. size /\ active_sessions <= size - Dropped
      BY <2>1, BoundAssumption, DepthAssumption DEF Dropped
    <3> QED BY <2>1, <3>1, TrimElements
  <2>3. Snapshots!Begin
    BY <1>4, <2>2 DEF StartUndoSession, Snapshots!Begin, db
  <2> QED BY <2>3 DEF Snapshots!Next
<1>5. CASE Undo
  <2>1. /\ stack # <<>>
        /\ active_sessions' \in 0 .. size - 1
        /\ active_sessions' \in 0 .. MaxDepth
    BY <1>5, BoundAssumption DEF Undo, IInv, TypeOK, OpenSessionsKept
  <2>2. db' = before[Len(before)]
    BY <1>5, <2>1, RestoreStep DEF Undo
  <2> QED BY <1>5, <2>2
          DEF Undo, Restore, PopBack, Snapshots!Next, Snapshots!Abandon, Snapshots!Forget
<1>6. CASE Merge
  BY <1>6 DEF Merge, PopBack, Snapshots!Next, Snapshots!Keep, Snapshots!Forget, db
<1>7. CASE PopCommit
  <2>1. /\ stack # <<>>
        /\ active_sessions' \in 0 .. size - 1
        /\ active_sessions' \in 0 .. MaxDepth
    BY <1>7, BoundAssumption DEF PopCommit, IInv, TypeOK, OpenSessionsKept
  <2>2. db' = before[Len(before)]
    BY <1>7, <2>1, RestoreStep DEF PopCommit
  <2> QED BY <1>7, <2>2
          DEF PopCommit, Restore, PopBack, Snapshots!Next, Snapshots!TakeBack,
              Snapshots!Forget
<1> QED BY <1>1, <1>2, <1>3, <1>4, <1>5, <1>6, <1>7 DEF Next

\* The whole of it: whatever sequence of changes, sessions, merges, commits
\* and trimmings the chain makes, an undone session and a popped block give
\* back exactly the database they started from.
THEOREM Refinement == Spec => ImplementsSnapshots
<1>1. Init => Snapshots!Init
  BY InitIInv, NewestState DEF Init, Snapshots!Init
<1>2. IInv /\ [Next]_vars => [Snapshots!Next]_<<db, before, active_sessions>>
  <2>1. UNCHANGED vars => UNCHANGED <<db, before, active_sessions>>
    BY DEF vars, db
  <2> QED BY <2>1, StepRefines
<1> QED BY <1>1, <1>2, Invariance, PTL DEF Spec, ImplementsSnapshots, Snapshots!Spec
=============================================================================
