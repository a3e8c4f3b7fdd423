---------------------------- MODULE UndoDatabase ----------------------------
(***************************************************************************)
(* The object database and its undo log: graphene::db::object_database,    *)
(* the primary indexes, and graphene::db::undo_database.                   *)
(*                                                                         *)
(* Every change of an object is reported to the undo log just before (or,  *)
(* for a creation, just after) it is made, and recorded in the newest undo *)
(* state of `stack'.  A session is one such state; it is undone, merged    *)
(* into the state below it, or committed.  A committed state is a block,   *)
(* and pop_commit() takes the block back when the node changes forks.      *)
(*                                                                         *)
(* An object is its id and a value; an id is an index and the instance     *)
(* number that index allotted.  A C++ map is a function whose value is     *)
(* None where the map has no entry.                                        *)
(***************************************************************************)
EXTENDS Integers, Sequences

CONSTANTS
    Index,         \* the object types, each with its own allocator of ids
    Value,         \* what an object may hold
    None,          \* no object, no entry
    MaxInstance,   \* bound: ids an index may allot (48 bits in the code)
    MaxDepth,      \* most sessions open at a time: pending or block,
                   \*   transaction, operation
    MinSize,       \* least number set_max_size() is given
    MaxSize        \* bound: greatest number set_max_size() is given

ASSUME NoneAssumption == None \notin Value /\ None \notin Nat

ASSUME BoundAssumption ==
    /\ MaxInstance \in Nat
    /\ MaxDepth \in Nat
    /\ MinSize \in Nat
    /\ MaxSize \in Nat
    /\ MinSize <= MaxSize

\* What keeps open sessions out of reach of the trimming of old states:
\* head - LIB + 1 >= 2, and no caller nests more than three sessions.
ASSUME DepthAssumption == MaxDepth <= MinSize + 1

VARIABLES
    objects,           \* the rows of every index
    next_id,           \* index::_next_id
    stack,             \* undo_database::_stack, oldest state first
    active_sessions,   \* undo_database::_active_sessions
    disabled,          \* undo_database::_disabled
    max_size,          \* undo_database::_max_size
    before             \* history: the database when each state was opened

vars == <<objects, next_id, stack, active_sessions, disabled, max_size, before>>

-----------------------------------------------------------------------------
ObjectId == Index \X (0 .. MaxInstance - 1)

Instance == 0 .. MaxInstance

Slot == Value \cup {None}

Database == [objects : [ObjectId -> Slot], next_id : [Index -> Instance]]

undo_state ==
    [ old_values         : [ObjectId -> Slot],
      old_index_next_ids : [Index -> Instance \cup {None}],
      new_ids            : SUBSET ObjectId,
      removed            : [ObjectId -> Slot] ]

NoObject == [id \in ObjectId |-> None]

EmptyState ==
    [ old_values         |-> NoObject,
      old_index_next_ids |-> [x \in Index |-> None],
      new_ids            |-> {},
      removed            |-> NoObject ]

db == [objects |-> objects, next_id |-> next_id]

size == Len(stack)

TypeOK ==
    /\ objects \in [ObjectId -> Slot]
    /\ next_id \in [Index -> Instance]
    /\ stack \in Seq(undo_state)
    /\ active_sessions \in 0 .. MaxDepth
    /\ disabled \in BOOLEAN
    /\ max_size \in MinSize .. MaxSize
    /\ before \in Seq(Database)

\* The constructor of object_database enables the log of an empty database.
Init ==
    /\ objects = NoObject
    /\ next_id = [x \in Index |-> 0]
    /\ stack = <<>>
    /\ active_sessions = 0
    /\ disabled = FALSE
    /\ max_size \in MinSize .. MaxSize
    /\ before = <<>>

-----------------------------------------------------------------------------
(***************************************************************************)
(* Recording a change.  A change with an empty stack opens a state that no *)
(* session owns.                                                           *)
(***************************************************************************)
OnCreate(st, id) ==
    [ old_values         |-> st.old_values,
      old_index_next_ids |->
        [x \in Index |-> IF x = id[1] /\ st.old_index_next_ids[x] = None
                         THEN id[2]
                         ELSE st.old_index_next_ids[x]],
      new_ids            |-> st.new_ids \cup {id},
      removed            |-> st.removed ]

OnModify(st, id, obj) ==
    IF id \in st.new_ids \/ st.old_values[id] # None
    THEN st
    ELSE [st EXCEPT !.old_values = [st.old_values EXCEPT ![id] = obj]]

\* Mutant: the removal of an object that the state created is recorded.
OnRemoveForgetsNew(st, id, obj) ==
    IF st.old_values[id] # None
    THEN [ old_values         |-> [st.old_values EXCEPT ![id] = None],
           old_index_next_ids |-> st.old_index_next_ids,
           new_ids            |-> st.new_ids,
           removed            |-> [st.removed EXCEPT ![id] = st.old_values[id]] ]
    ELSE [st EXCEPT !.removed = [st.removed EXCEPT ![id] = obj]]

\* Mutant: the old value of a modified object that is removed stays.
OnRemoveKeepsOldValue(st, id, obj) ==
    IF id \in st.new_ids
    THEN [st EXCEPT !.new_ids = st.new_ids \ {id}]
    ELSE IF st.old_values[id] # None
    THEN [st EXCEPT !.removed = [st.removed EXCEPT ![id] = st.old_values[id]]]
    ELSE [st EXCEPT !.removed = [st.removed EXCEPT ![id] = obj]]

OnRemove(st, id, obj) ==
    IF id \in st.new_ids
    THEN [st EXCEPT !.new_ids = st.new_ids \ {id}]
    ELSE IF st.old_values[id] # None
    THEN [ old_values         |-> [st.old_values EXCEPT ![id] = None],
           old_index_next_ids |-> st.old_index_next_ids,
           new_ids            |-> st.new_ids,
           removed            |-> [st.removed EXCEPT ![id] = st.old_values[id]] ]
    ELSE IF st.removed[id] # None
    THEN st
    ELSE [st EXCEPT !.removed = [st.removed EXCEPT ![id] = obj]]

Newest == IF stack = <<>> THEN EmptyState ELSE stack[size]

\* st replaces the newest state.
Record(st) ==
    IF disabled
    THEN UNCHANGED <<stack, before>>
    ELSE IF stack = <<>>
    THEN /\ stack' = <<st>>
         /\ before' = <<db>>
    ELSE /\ stack' = [stack EXCEPT ![size] = st]
         /\ UNCHANGED before

\* Mutant: the allocator is not advanced.
CreateReusingId(x, v) ==
    LET id == <<x, next_id[x]>>
    IN  /\ next_id[x] < MaxInstance
        /\ objects[id] = None
        /\ objects' = [objects EXCEPT ![id] = v]
        /\ Record(OnCreate(Newest, id))
        /\ UNCHANGED <<next_id, active_sessions, disabled, max_size>>

\* index::create: the next instance of index x, holding v.
Create(x, v) ==
    LET id == <<x, next_id[x]>>
    IN  /\ next_id[x] < MaxInstance
        /\ objects' = [objects EXCEPT ![id] = v]
        /\ next_id' = [next_id EXCEPT ![x] = @ + 1]
        /\ Record(OnCreate(Newest, id))
        /\ UNCHANGED <<active_sessions, disabled, max_size>>

Modify(id, v) ==
    /\ objects[id] # None
    /\ objects' = [objects EXCEPT ![id] = v]
    /\ Record(OnModify(Newest, id, objects[id]))
    /\ UNCHANGED <<next_id, active_sessions, disabled, max_size>>

Remove(id) ==
    /\ objects[id] # None
    /\ objects' = [objects EXCEPT ![id] = None]
    /\ Record(OnRemove(Newest, id, objects[id]))
    /\ UNCHANGED <<next_id, active_sessions, disabled, max_size>>

-----------------------------------------------------------------------------
(***************************************************************************)
(* Sessions.                                                               *)
(***************************************************************************)
\* enable() and disable().  The log is off while the genesis state is made
\* and while old blocks are replayed, when no undo state exists.
Enable ==
    /\ disabled
    /\ disabled' = FALSE
    /\ UNCHANGED <<objects, next_id, stack, active_sessions, max_size, before>>

Disable ==
    /\ ~disabled
    /\ stack = <<>>
    /\ disabled' = TRUE
    /\ UNCHANGED <<objects, next_id, stack, active_sessions, max_size, before>>

\* Mutant: `while size() >= max_size()'.
TrimEarly(seq) ==
    IF Len(seq) >= max_size
    THEN SubSeq(seq, Len(seq) - max_size + 2, Len(seq))
    ELSE seq

\* The states that are left when the oldest ones are dropped until no more
\* than max_size remain.
Trim(seq) ==
    IF Len(seq) > max_size
    THEN SubSeq(seq, Len(seq) - max_size + 1, Len(seq))
    ELSE seq

StartUndoSession ==
    /\ ~disabled
    /\ active_sessions < MaxDepth
    /\ stack' = Append(Trim(stack), EmptyState)
    /\ before' = Append(Trim(before), db)
    /\ active_sessions' = active_sessions + 1
    /\ UNCHANGED <<objects, next_id, disabled, max_size>>

PopBack(seq) == SubSeq(seq, 1, Len(seq) - 1)

\* Mutant: the objects that the state created are not removed.
RestoreKeepsNew(st) ==
    [id \in ObjectId |->
        IF st.removed[id] # None THEN st.removed[id]
        ELSE IF st.old_values[id] # None THEN st.old_values[id]
        ELSE objects[id]]

\* What undo() and pop_commit() make of the database: old values are put
\* back, new objects removed, id allocators rewound, removed objects
\* inserted.
RestoreObjects(st) ==
    [id \in ObjectId |->
        IF st.removed[id] # None THEN st.removed[id]
        ELSE IF id \in st.new_ids THEN None
        ELSE IF st.old_values[id] # None THEN st.old_values[id]
        ELSE objects[id]]

RestoreNextId(st) ==
    [x \in Index |->
        IF st.old_index_next_ids[x] # None THEN st.old_index_next_ids[x]
        ELSE next_id[x]]

Restore ==
    /\ objects' = RestoreObjects(stack[size])
    /\ next_id' = RestoreNextId(stack[size])
    /\ stack' = PopBack(stack)
    /\ before' = PopBack(before)
    /\ disabled' = FALSE

Undo ==
    /\ ~disabled
    /\ active_sessions > 0
    /\ Restore
    /\ active_sessions' = active_sessions - 1
    /\ UNCHANGED max_size

PopCommit ==
    /\ active_sessions = 0
    /\ stack # <<>>
    /\ Restore
    /\ UNCHANGED <<active_sessions, max_size>>

\* Mutant: the case upd + del is missing, an object that A changed and B
\* removed keeps the value that B saw.
ComposeWithoutUpdDel(A, B) ==
    LET new == A.new_ids \cup B.new_ids
        del == { id \in ObjectId : B.removed[id] # None }
    IN  [ old_values |->
            [id \in ObjectId |->
                IF id \in del \ new THEN None
                ELSE IF id \in A.new_ids \/ A.old_values[id] # None
                THEN A.old_values[id] ELSE B.old_values[id]],
          old_index_next_ids |->
            [x \in Index |-> IF A.old_index_next_ids[x] = None
                             THEN B.old_index_next_ids[x]
                             ELSE A.old_index_next_ids[x]],
          new_ids |-> new \ del,
          removed |->
            [id \in ObjectId |-> IF id \in del \ new THEN B.removed[id]
                                 ELSE A.removed[id]] ]

\* The composition of the states A (older) and B: what merge() leaves in A.
Compose(A, B) ==
    LET upd == { id \in ObjectId : /\ B.old_values[id] # None
                                   /\ id \notin A.new_ids
                                   /\ A.old_values[id] = None }
        old == [id \in ObjectId |-> IF id \in upd THEN B.old_values[id]
                                    ELSE A.old_values[id]]
        new == A.new_ids \cup B.new_ids
        del == { id \in ObjectId : B.removed[id] # None }
    IN  [ old_values |->
            [id \in ObjectId |-> IF id \in del \ new THEN None ELSE old[id]],
          old_index_next_ids |->
            [x \in Index |-> IF A.old_index_next_ids[x] = None
                             THEN B.old_index_next_ids[x]
                             ELSE A.old_index_next_ids[x]],
          new_ids |-> new \ del,
          removed |->
            [id \in ObjectId |->
                IF id \in del \ new
                THEN IF old[id] # None THEN old[id] ELSE B.removed[id]
                ELSE A.removed[id]] ]

Merge ==
    /\ active_sessions > 0
    /\ \/ /\ active_sessions = 1
          /\ size = 1
          /\ stack' = <<>>
       \/ /\ size >= 2
          /\ stack' = [PopBack(stack) EXCEPT
                          ![size - 1] = Compose(@, stack[size])]
    /\ before' = PopBack(before)
    /\ active_sessions' = active_sessions - 1
    /\ UNCHANGED <<objects, next_id, disabled, max_size>>

\* Mutant: commit() of a session that is not open.
CommitTwice ==
    /\ active_sessions' = active_sessions - 1
    /\ UNCHANGED <<objects, next_id, stack, disabled, max_size, before>>

Commit ==
    /\ active_sessions > 0
    /\ active_sessions' = active_sessions - 1
    /\ UNCHANGED <<objects, next_id, stack, disabled, max_size, before>>

\* Called while a block is applied, and when the indexes are initialised.
SetMaxSize(n) ==
    /\ max_size' = n
    /\ UNCHANGED <<objects, next_id, stack, active_sessions, disabled, before>>

-----------------------------------------------------------------------------
Next ==
    \/ \E x \in Index, v \in Value : Create(x, v)
    \/ \E id \in ObjectId, v \in Value : Modify(id, v)
    \/ \E id \in ObjectId : Remove(id)
    \/ Enable
    \/ Disable
    \/ StartUndoSession
    \/ Undo
    \/ Merge
    \/ Commit
    \/ PopCommit
    \/ \E n \in MinSize .. MaxSize : SetMaxSize(n)

Spec == Init /\ [][Next]_vars
-----------------------------------------------------------------------------
(***************************************************************************)
(* Properties.                                                             *)
(***************************************************************************)
\* The database when state i of the stack was closed: where state i+1 was
\* opened, or now.
After(i) == IF i = size THEN db ELSE before[i + 1]

\* What one undo state says of an object: it has at most one entry, and the
\* database b in which the state was opened and the database a it has led to
\* differ as that entry says.
ObjectLogged(st, b, a, id) ==
    /\ id \in st.new_ids =>
          /\ st.old_values[id] = None
          /\ st.removed[id] = None
          /\ b.objects[id] = None
          /\ a.objects[id] # None
          /\ b.next_id[id[1]] <= id[2]
    /\ st.old_values[id] # None =>
          /\ st.removed[id] = None
          /\ b.objects[id] = st.old_values[id]
          /\ a.objects[id] # None
    /\ st.removed[id] # None =>
          /\ b.objects[id] = st.removed[id]
          /\ a.objects[id] = None
    /\ (id \notin st.new_ids /\ st.old_values[id] = None /\ st.removed[id] = None)
          => b.objects[id] = a.objects[id]

NextIdLogged(st, b, a, x) ==
    IF st.old_index_next_ids[x] = None
    THEN a.next_id[x] = b.next_id[x]
    ELSE /\ st.old_index_next_ids[x] = b.next_id[x]
         /\ b.next_id[x] <= a.next_id[x]

StateExact(st, b, a) ==
    /\ \A id \in ObjectId : ObjectLogged(st, b, a, id)
    /\ \A x \in Index : NextIdLogged(st, b, a, x)

\* The undo log is complete and exact: each state of the stack records every
\* object and every id allocator that differs between the moment it was
\* opened and the moment the next one was, with the value it then had.  It is
\* on_create, on_modify, on_remove and the 4x4 table of merge() together
\* that must keep this true.
LogExact ==
    \A i \in 1 .. size : StateExact(stack[i], before[i], After(i))

\* No index hands out an id that an object has, now or in any database the
\* log can return to: what get_next_id() gives create() is free, although
\* undo() rewinds the allocator.
AllottedIdsBelowNext(d) ==
    \A id \in ObjectId : d.objects[id] # None => id[2] < d.next_id[id[1]]

FreshIds ==
    /\ AllottedIdsBelowNext(db)
    /\ \A i \in 1 .. size : AllottedIdsBelowNext(before[i])

\* The states of the open sessions are on the stack: start_undo_session()
\* trims with `while size() > max_size()' and never drops one of theirs.
\* Sessions are open only while the log is on.
OpenSessionsKept ==
    /\ active_sessions <= size
    /\ Len(before) = size
    /\ disabled => stack = <<>>

\* undo() and pop_commit() never throw half way: the objects whose old value
\* they put back and the new ones they remove exist, those they insert do not.
RestoreCannotFail ==
    stack # <<>> =>
        \A id \in ObjectId :
            /\ stack[size].old_values[id] # None => objects[id] # None
            /\ id \in stack[size].new_ids => objects[id] # None
            /\ stack[size].removed[id] # None => objects[id] = None

\* The two assertions of merge(): an object that the newest state changed or
\* removed was not removed by the state below it.
MergeAssertions ==
    size >= 2 =>
        \A id \in ObjectId :
            (stack[size].old_values[id] # None \/ stack[size].removed[id] # None)
                => stack[size - 1].removed[id] = None

\* The undo log implements a stack of whole snapshots.
Snapshots == INSTANCE UndoSnapshots WITH saved <- before, open <- active_sessions

ImplementsSnapshots == Snapshots!Spec

=============================================================================
