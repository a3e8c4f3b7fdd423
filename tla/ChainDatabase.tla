---------------------------- MODULE ChainDatabase ---------------------------
(***************************************************************************)
(* graphene::chain::database of one node: the chain it has applied, how    *)
(* far the undo log lets it go back, the fork database, the block database *)
(* on disk and the object database on disk.                                *)
(*                                                                         *)
(* The chain database runs in one thread, so a call is one action; what a  *)
(* call does is a function from the record `node' to the record it leaves, *)
(*                                                                         *)
(*    head     - head_block_id()                                           *)
(*    undo     - the committed states of the undo log                      *)
(*    max_size - the limit set_max_size() gave to the undo log and to the  *)
(*               fork database, with the same argument                     *)
(*    fork     - _fork_db                                                  *)
(*    blocks   - _block_id_to_block                                        *)
(*    tail     - the last slot stored and what it held before              *)
(*    lib      - history: the highest last_irreversible_block_num it ever  *)
(*               had, on a fork that it left again too                     *)
(*    ok       - FALSE when the call threw an exception                    *)
(*                                                                         *)
(* The objects themselves are a function of the chain that was applied     *)
(* (UndoDatabase), so the head stands for them.                            *)
(***************************************************************************)
EXTENDS ForkDatabase, BlockDatabase

CONSTANTS
    InOrder,          \* whether a peer sends a block only after its parent
    Transactions,     \* whether blocks and clients bring transactions
    Local,            \* the witness this node signs for
    InitSize,         \* max_size before the first block is applied
    MaxUndoHistory,   \* GRAPHENE_MAX_UNDO_HISTORY
    UndoWindow,       \* blocks that reindex() replays with undo: 50 in the code
    RollBackHeights,  \* values of the option roll-back-at-height; 0 if absent
    MaxStops          \* bound: how often the node goes down

ASSUME ChainAssumption ==
    /\ InOrder \in BOOLEAN
    /\ Transactions \in BOOLEAN
    /\ Local \in 0 .. NumWitnesses
    /\ InitSize \in Nat /\ InitSize > NumBlocks
    /\ MaxUndoHistory \in Nat
    /\ UndoWindow \in Nat
    /\ RollBackHeights \subseteq Nat
    /\ MaxStops \in Nat

VARIABLES
    node,
    up,       \* whether the node runs
    saved,    \* head of the object database on disk
    made,     \* blocks this node has signed
    was,      \* history: the head of the chain when the node went down
    torn,     \* history: it went down in the middle of a change of forks, or
              \*   failed to start and was closed half way
    stops

vars == <<path, bad, node, up, saved, made, was, torn, stops>>

-----------------------------------------------------------------------------
Least(m, n) == IF m <= n THEN m ELSE n

Throw(n) == [n EXCEPT !.ok = FALSE]

Fresh(head, blocks, lib) ==
    [ head |-> head, undo |-> 0, max_size |-> InitSize, fork |-> NoFork,
      blocks |-> blocks, tail |-> [num |-> 0, old |-> NoEntry], lib |-> lib,
      ok |-> TRUE ]

\* Mutant: `while size() >= max_size()'.
TrimmedEarly(n, open) == [n EXCEPT !.undo = Least(@, n.max_size - open - 1)]

\* start_undo_session() drops the oldest states while more than max_size are
\* left; `open' sessions are on the stack above the committed states.
Trimmed(n, open) == [n EXCEPT !.undo = Least(@, n.max_size - open)]

\* The session of a block, and the one in it of each operation.
StartBlock(n) == Trimmed(n, IF Transactions THEN 1 ELSE 0)

Rejected(n, b) ==
    \/ Prev(b) # n.head
    \/ b \in bad
    \/ Num(b) - LastIrreversible(n.head) >= MaxUndoHistory

apply_block(n, b) ==
    LET size == Num(b) - LastIrreversible(n.head) + 1
    IN  IF Rejected(n, b) THEN Throw(n)
        ELSE [n EXCEPT !.head = b,
                       !.max_size = size,
                       !.fork = set_max_size(n.fork, size),
                       !.lib = Max({n.lib, LastIrreversible(b)})]

\* A block applied in a session of its own, stored under the name `id', and
\* committed.
ApplyAndStore(n, b, id) ==
    LET a == apply_block(StartBlock(n), b)
    IN  IF ~a.ok THEN a
        ELSE [a EXCEPT !.blocks = store(a.blocks, id, b),
                       !.tail = [num |-> Num(id), old |-> a.blocks[Num(id)]],
                       !.undo = @ + 1]

\* fetch_block_by_id() finds the block in one of the two databases.
Fetchable(n, b) ==
    b \in n.fork.index \/ (b # Genesis /\ CanFetch(n.blocks, b))

database_pop_block(n) ==
    LET popped == [n EXCEPT !.fork = pop_block(n.fork)]
    IN  IF ~Fetchable(n, n.head) \/ ~CanPop(n.fork) THEN Throw(n)
        ELSE IF n.undo = 0 THEN Throw(popped)
        ELSE [popped EXCEPT !.head = Prev(n.head), !.undo = @ - 1]

\* A loop: `step' taken `times' times, the i-th time with i.
Repeated(step(_, _), n, times) ==
    LET after[i \in 0 .. times] ==
            IF i = 0 THEN n ELSE step(after[i - 1], i)
    IN  after[times]

\* A loop stops at the first call that throws.
Popped(n) == IF n.ok THEN database_pop_block(n) ELSE n

Applied(n, b, id) == IF n.ok THEN ApplyAndStore(n, b, id) ELSE n

\* pop_block() until block `base' is the head.
PopTo(n, base) ==
    Repeated(LAMBDA m, i : Popped(m), n, Num(n.head) - Num(base))

\* A branch applied block after block until one fails.  The i-th is stored
\* under the name ids[i].
ApplyBranch(n, branch, ids) ==
    Repeated(LAMBDA m, i : Applied(m, branch[i], ids[i]), n, Len(branch))

\* Mutant: the bad fork is popped, the good one is not restored.
RethrowAtOnce(a, new_block, new_head, old_head, from) ==
    LET base == Prev(path[old_head][from])
        rest == { path[new_head][i] : i \in Num(a.head) + 1 .. Num(new_head) }
        f == Erase(a.fork, rest \cap a.fork.index)
    IN  Throw(PopTo([a EXCEPT !.fork = set_head(f, old_head), !.ok = TRUE], base))

\* The new fork failed after block a.head: what is left of it is removed, the
\* old chain is restored, and the exception is thrown again.
RestoreGoodFork(a, new_block, new_head, old_head, from) ==
    LET base == Prev(path[old_head][from])
        rest == { path[new_head][i] : i \in Num(a.head) + 1 .. Num(new_head) }
        f == Erase(a.fork, rest \cap a.fork.index)
        r == PopTo([a EXCEPT !.fork = set_head(f, old_head), !.ok = TRUE], base)
    IN  IF ~r.ok THEN r
        ELSE Throw(ApplyBranch(r, Branch(old_head, from),
                               [i \in 1 .. Num(old_head) |-> new_block]))

\* The part of _push_block() that switches to the fork of new_head.  The
\* branches are in memory while it runs.
SwitchForks(n, new_block, new_head) ==
    IF ~CanFetchBranch(n.fork, new_head, n.head) THEN Throw(n)
    ELSE LET from == Meet(new_head, n.head)
             p == PopTo(n, Prev(path[n.head][from]))
             branch == Branch(new_head, from)
             a == ApplyBranch(p, branch, branch)
         IN  IF ~p.ok \/ a.ok THEN a
             ELSE RestoreGoodFork(a, new_block, new_head, n.head, from)

Extend(n, b) ==
    LET a == ApplyAndStore(n, b, b)
    IN  IF a.ok THEN a ELSE [a EXCEPT !.fork = remove(a.fork, b)]

\* The node after _fork_db.push_block(b).
Linked(n, b) == [n EXCEPT !.fork = push_block(n.fork, b, n.max_size)]

\* Mutant: the fork must be higher by two.
SwitchLate(n, b) ==
    LET l == Linked(n, b)
        new_head == l.fork.head
    IN  IF ~Acceptable(n.fork, b, n.max_size) THEN Throw(n)
        ELSE IF Prev(new_head) = n.head THEN Extend(l, b)
        ELSE IF Num(new_head) > Num(n.head) + 1
        THEN SwitchForks(l, b, new_head)
        ELSE l

database_push_block(n, b) ==
    LET l == Linked(n, b)
        new_head == l.fork.head
    IN  IF ~Acceptable(n.fork, b, n.max_size) THEN Throw(n)
        ELSE IF Prev(new_head) = n.head THEN Extend(l, b)
        ELSE IF Num(new_head) > Num(n.head) THEN SwitchForks(l, b, new_head)
        ELSE l

-----------------------------------------------------------------------------
Init ==
    /\ TreeInit
    /\ node = Fresh(Genesis, EmptyBlocks, 0)
    /\ up = TRUE
    /\ saved = Genesis
    /\ made = {}
    /\ was = Genesis
    /\ torn = FALSE
    /\ stops = 0

\* What happens to the node when the pending transactions are pushed again:
\* nothing if there are none; otherwise one session for all of them, one in
\* it for each, and a third for an operation if it is evaluated.
Restored(n) ==
    {n} \cup (IF Transactions THEN { Trimmed(n, k) : k \in 1 .. 2 } ELSE {})

Runs(n) ==
    /\ node' \in Restored(n)
    /\ UNCHANGED <<tree, up, saved, was, torn, stops>>

\* Blocks that a peer may send, any number of times.
Sent(b) ==
    /\ Witness(b) = Local => b \in made
    /\ InOrder => Prev(b) = Genesis \/ Fetchable(node, Prev(b))

PushBlock(b) ==
    /\ up
    /\ Sent(b)
    /\ Runs(database_push_block([node EXCEPT !.ok = TRUE], b))
    /\ UNCHANGED made

\* _validate_block(): it applies the new block, with a session for each of its
\* transactions and one in it for an operation, before it pushes the block to
\* the fork database, whose head it does not look at.
validate_block(n, b) ==
    LET s == Trimmed(n, IF Transactions THEN 2 ELSE 0)
    IN  IF ~Acceptable(n.fork, b, n.max_size)
        THEN [Throw(s) EXCEPT !.fork = remove(n.fork, b)]
        ELSE Extend(Linked(s, b), b)

GenerateBlock(b) ==
    /\ up
    /\ Witness(b) = Local
    /\ \A c \in made : c < b
    /\ Prev(b) = node.head
    /\ b \notin bad
    /\ Runs(validate_block([node EXCEPT !.ok = TRUE], b))
    /\ made' = made \cup {b}

\* push_transaction() from a client, or from a peer.
PushTransaction ==
    /\ up
    /\ Transactions
    /\ node' \in { [Trimmed(node, k) EXCEPT !.ok = TRUE] : k \in 1 .. 2 }
    /\ UNCHANGED <<tree, up, saved, made, was, torn, stops>>

-----------------------------------------------------------------------------
\* pop_block(), and the block removed from the fork database.
PoppedAndRemoved(n) ==
    LET p == database_pop_block(n)
    IN  IF ~n.ok THEN n
        ELSE IF ~p.ok THEN p
        ELSE [p EXCEPT !.fork = remove(p.fork, n.head)]

\* close(): back to the last irreversible block, as far as pop_block() goes.
\* The object database is then written to disk.
Rewound(n) ==
    Repeated(LAMBDA m, i : PoppedAndRemoved(m), [n EXCEPT !.ok = TRUE],
             Num(n.head) - LastIrreversible(n.head))

Stop ==
    /\ up
    /\ stops < MaxStops
    /\ up' = FALSE
    /\ stops' = stops + 1
    /\ was' = node.head

Close ==
    /\ Stop
    /\ saved' = Rewound(node).head
    /\ node' = Fresh(saved', node.blocks, node.lib)
    /\ UNCHANGED <<tree, made, torn>>

\* The process is killed.  Streams are flushed when they are repositioned, so
\* the last block stored may be lost, its index entry too.
AfterCrash(n) ==
    { n.blocks } \cup
      (IF n.tail.num = 0 THEN {}
       ELSE { [n.blocks EXCEPT ![n.tail.num] = n.tail.old],
              [n.blocks EXCEPT ![n.tail.num].data = Lost] })

Crash ==
    /\ Stop
    /\ \E blocks \in AfterCrash(node) : node' = Fresh(saved, blocks, node.lib)
    /\ UNCHANGED <<tree, saved, made, torn>>

\* The process is killed while it switches to the fork of b, after it stored
\* k blocks of it.
CrashInSwitch(b, k) ==
    LET l == Linked(node, b)
        new_head == l.fork.head
        from == Meet(new_head, node.head)
        p == PopTo([l EXCEPT !.ok = TRUE], Prev(path[node.head][from]))
        branch == SubSeq(Branch(new_head, from), 1, k)
        a == ApplyBranch(p, branch, branch)
    IN  /\ Stop
        /\ Sent(b)
        /\ Acceptable(node.fork, b, node.max_size)
        /\ Prev(new_head) # node.head
        /\ Num(new_head) > Num(node.head)
        /\ CanFetchBranch(l.fork, new_head, node.head)
        /\ k \in 0 .. Num(new_head) - from
        /\ p.ok /\ a.ok
        /\ \E blocks \in AfterCrash(a) : node' = Fresh(saved, blocks, a.lib)
        /\ torn' = TRUE
        /\ UNCHANGED <<tree, saved, made>>

-----------------------------------------------------------------------------
\* Mutant: `last_block > head_block_id()'.
StrictlyBefore(a, b) == Num(a) < Num(b) \/ (Num(a) = Num(b) /\ a < b)

\* An id starts with the number of its block.
NotAfter(a, b) == Num(a) < Num(b) \/ (Num(a) = Num(b) /\ a <= b)

\* One turn of the loop of reindex(), for block number i.
Replay(n, i, undo_point) ==
    IF ~n.ok THEN n
    ELSE IF i < undo_point THEN apply_block(n, n.blocks[i].data)
    ELSE database_push_block(n, n.blocks[i].data)

\* The blocks after the head are replayed up to the first that cannot be read,
\* and those after it are dropped.
reindex(n, roll_back_at_height) ==
    LET all == last(n.blocks)
        first == Num(n.head)
        rolls == roll_back_at_height > 0 /\ roll_back_at_height <= all
        top == IF rolls THEN roll_back_at_height ELSE all
        d == IF rolls THEN removed(n.blocks, all - top) ELSE n.blocks
        gap == Min({top + 1} \cup
                   { i \in first + 1 .. top : ~Readable(d, i) })
        undo_point == IF top < UndoWindow THEN 0 ELSE top - UndoWindow
        starts == first >= undo_point /\ first > 0
        s == [n EXCEPT !.blocks = d,
                       !.fork = IF starts THEN start_block(@, d[first].data)
                                ELSE @]
        turns == Max({first, gap - 1}) - first
        r == Repeated(LAMBDA m, i : Replay(m, first + i, undo_point), s, turns)
    IN  IF all <= first THEN n
        ELSE IF starts /\ ~Readable(d, first)
        THEN Throw([n EXCEPT !.blocks = d])
        ELSE IF r.ok /\ gap <= top
        THEN [r EXCEPT !.blocks = dropped_after(@, gap)]
        ELSE r

open(roll_back_at_height) ==
    LET n == Fresh(saved, truncated(node.blocks), node.lib)
    IN  IF last(n.blocks) = 0 THEN n
        ELSE IF ~NotAfter(saved, n.blocks[last(n.blocks)].id) THEN Throw(n)
        ELSE reindex(n, roll_back_at_height)

Open(r) ==
    /\ ~up
    /\ open(r).ok
    /\ up' = TRUE
    /\ node' = open(r)
    /\ was' = Genesis
    /\ torn' = FALSE
    /\ UNCHANGED <<tree, saved, made, stops>>

\* open() throws: the program calls close() on its way out.
OpenFails(r) ==
    /\ ~up
    /\ ~open(r).ok
    /\ saved' = Rewound(open(r)).head
    /\ node' = [Fresh(saved', open(r).blocks, open(r).lib) EXCEPT !.ok = FALSE]
    /\ torn' = TRUE
    /\ UNCHANGED <<tree, up, made, was, stops>>

\* The option replay-blockchain: wipe() of the object database, not of the
\* blocks, before open().
Wipe ==
    /\ ~up
    /\ saved # Genesis
    /\ saved' = Genesis
    /\ node' = Fresh(Genesis, node.blocks, node.lib)
    /\ UNCHANGED <<tree, up, made, was, torn, stops>>

Next ==
    \/ \E b \in Block : PushBlock(b) \/ GenerateBlock(b)
    \/ PushTransaction
    \/ Close
    \/ Crash
    \/ Wipe
    \/ \E b \in Block, k \in 0 .. NumBlocks : CrashInSwitch(b, k)
    \/ \E r \in RollBackHeights : Open(r) \/ OpenFails(r)

Spec == Init /\ [][Next]_vars

-----------------------------------------------------------------------------
(***************************************************************************)
(* Properties.                                                             *)
(***************************************************************************)
OnChain(a, b) == a = Genesis \/ (Num(a) <= Num(b) /\ path[b][Num(a)] = a)

ValidChain(b) == \A i \in 1 .. Num(b) : path[b][i] \notin bad

\* The block database holds the chain of the head, block by block, and no
\* other block: every store() after a change of forks goes to its own slot,
\* and none of the old branch is left behind.
BlockDbMirrorsChain ==
    up => node.blocks = [n \in Block |->
                            IF n <= Num(node.head)
                            THEN [id |-> path[node.head][n],
                                  data |-> path[node.head][n]]
                            ELSE NoEntry]

\* A block that links to the fork database and is not too old is kept in it,
\* and if it is valid and higher than the head, push_block() makes it the
\* head, whatever was pushed before it.
AcceptsValidBlocks ==
    [][\A b \in Block :
          /\ PushBlock(b)
          /\ ValidChain(b)
          /\ Prev(b) \in node.fork.index
          /\ Num(b) > Num(node.fork.head) - node.max_size
          => /\ b \in node'.fork.index
             /\ Num(b) > Num(node.head) => node'.head = b]_vars

\* Once no block that peers can send changes anything, the head is as high as
\* any block there is: no order of delivery leaves the node on a shorter fork.
QuietMeansLongest ==
    LET Quiet == \A b \in Block : Sent(b) => database_push_block(node, b) = node
    IN  up /\ node.ok /\ Quiet => \A b \in Block : Num(b) <= Num(node.head)

\* "the fork database will maintain a linked tree of all blocks": above the
\* last irreversible block every block has its parent, and a live link to it,
\* so that fetch_branch_from() can walk down to the fork.
ForkTreeLinked ==
    \A b \in node.fork.index :
        Num(b) > Max({node.lib, 1}) =>
            Prev(b) \in node.fork.index /\ b \in node.fork.linked

\* Every block above the highest one that was ever irreversible (or above the
\* one the object database starts from) can be popped; the three sessions of
\* a client's transaction cost one block of the history at most.
HistoryReachesIrreversible ==
    up => Num(node.head) - node.undo <=
              Max({node.lib, Num(saved)}) + (IF Transactions THEN 1 ELSE 0)

\* A call that fails, a switch to a bad fork too, leaves the head where it was,
\* unless it has used up the undo history.
FailedSwitchUnwound ==
    [][up /\ up' /\ ~node'.ok => node'.head = node.head \/ node'.undo = 0]_vars

\* Up to its last irreversible block a running node never changes its chain.
IrreversibleKept ==
    [][up /\ up' =>
          LET n == LastIrreversible(node.head)
          IN  SubSeq(path[node'.head], 1, Least(n, Num(node'.head)))
                  = SubSeq(path[node.head], 1, n)]_vars

\* A node that was closed, or killed outside a change of forks, starts again
\* without an exception.
OpenSucceeds == ~up /\ ~torn => open(0).ok

\* It then has the chain it had, less the last block if that one did not reach
\* the disk, unless it was asked to roll back.
RestartRecovers ==
    [][~up /\ up' /\ ~torn =>
          /\ OnChain(node'.head, was)
          /\ \/ Num(node'.head) >= Num(was) - 1
             \/ Num(node'.head) \in RollBackHeights \ {0}]_vars
=============================================================================
