--------------------------- MODULE TransactionPool --------------------------
(***************************************************************************)
(* The pending transactions of a node: _pending_tx, _pending_tx_session    *)
(* and _popped_tx of graphene::chain::database, and the list of            *)
(* transaction objects that keeps a transaction from being applied twice.  *)
(*                                                                         *)
(* A transaction takes one coin and leaves one; it can be applied when its *)
(* coin is there.  Two that take the same coin exclude each other, one     *)
(* that takes what another leaves depends on it, and one that leaves the   *)
(* coin it takes could be applied for ever.  Authorities and the reference *)
(* block are valid for all of them.                                        *)
(*                                                                         *)
(* What a call does to the pool is a function on the record `pool',        *)
(*                                                                         *)
(*    pending - _pending_tx                                                *)
(*    open    - _pending_tx_session.valid()                                *)
(*    coins   - the coins of the database in that session                  *)
(*    known   - the transaction objects of the database in that session    *)
(*    size    - _pending_size                                              *)
(***************************************************************************)
EXTENDS Integers, Sequences, SequencesExt, FiniteSetsExt

CONSTANTS
    Tx,            \* the transactions
    Input,         \* the coin that a transaction takes,
    Output,        \* and the one it leaves
    Funds,         \* the coins of the genesis state
    Expiration,    \* transaction::expiration
    MaxLife,       \* chain_parameters::maximum_time_until_expiration
    Delegated,     \* transactions that turn into invoke_mode when evaluated
    Limit,         \* the option message_cache_limit; 0 if there is none
    BlockTxs,      \* transactions that fit into a block
    PeerBlocks,    \* what other witnesses put into a block
    MaxTime,       \* bound: last slot
    MaxPop         \* bound: blocks that a change of forks takes back

ASSUME PoolAssumption ==
    /\ Expiration \in [Tx -> Nat]
    /\ Delegated \subseteq Tx
    /\ PeerBlocks \subseteq Seq(Tx)
    /\ Limit \in Nat /\ MaxLife \in Nat /\ BlockTxs \in Nat
    /\ MaxTime \in Nat /\ MaxPop \in Nat

VARIABLES
    chain,    \* the blocks of the chain, each with its slot and transactions
    pool,
    deduce    \* deduce_in_verification_mode

vars == <<chain, pool, deduce>>

-----------------------------------------------------------------------------
(***************************************************************************)
(* The database at the head of a chain.                                    *)
(***************************************************************************)
Now(c) == IF c = <<>> THEN 0 ELSE Last(c).time

Applied(c) == UNION { Range(c[i].txs) : i \in DOMAIN c }

Spend(coins, t) == (coins \ {Input[t]}) \cup {Output[t]}

\* The coins after each of some transactions, and after each block of a chain.
Spent(coins, txs) ==
    LET after[i \in 0 .. Len(txs)] ==
            IF i = 0 THEN coins ELSE Spend(after[i - 1], txs[i])
    IN  after

CoinsAfter(c) ==
    LET after[i \in 0 .. Len(c)] ==
            IF i = 0 THEN Funds
            ELSE Spent(after[i - 1], c[i].txs)[Len(c[i].txs)]
    IN  after

Coins(c) == CoinsAfter(c)[Len(c)]

\* Mutant: `head_block_time() >= expiration'.
KnownTooShort(c) == { t \in Applied(c) : Now(c) < Expiration[t] }

\* The transaction objects that clear_expired_transactions() has left.
Known(c) == { t \in Applied(c) : Now(c) <= Expiration[t] }

InTime(c, t) ==
    c # <<>> => Now(c) <= Expiration[t] /\ Expiration[t] <= Now(c) + MaxLife

\* _apply_transaction() in the database d at the head of c, up to the
\* operations, and with them.
Admitted(c, d, t) == t \notin d.known /\ InTime(c, t)

Executes(d, t) == Input[t] \in d.coins

Executed(d, t) == [d EXCEPT !.coins = Spend(@, t), !.known = @ \cup {t}]

Database(c) == [coins |-> Coins(c), known |-> Known(c)]

\* The database after each transaction of a block.
Databases(c, txs) ==
    LET after[i \in 0 .. Len(txs)] ==
            IF i = 0 THEN Database(c) ELSE Executed(after[i - 1], txs[i])
    IN  after

\* All transactions of a block apply, one after the other.
Applies(c, txs) ==
    \A i \in 1 .. Len(txs) :
        LET d == Databases(c, txs)[i - 1]
        IN  Admitted(c, d, txs[i]) /\ Executes(d, txs[i])

-----------------------------------------------------------------------------
(***************************************************************************)
(* _push_transaction(), by where the transaction comes from.  A call that  *)
(* throws leaves the pending session open.                                 *)
(***************************************************************************)
Opened(p) == [p EXCEPT !.open = TRUE]

\* A transaction is queued; its changes are merged into the session, or only
\* its transaction object is.
Queued(p, t) ==
    [p EXCEPT !.pending = Append(@, t), !.known = @ \cup {t}]

Merged(p, t) ==
    IF t \in Delegated THEN Queued(p, t)
    ELSE [Queued(p, t) EXCEPT !.coins = Spend(@, t)]

CachedSize(p) == Max({p.size, Len(p.pending)})

PushFromMe(c, p, t) ==
    LET o == [Opened(p) EXCEPT !.size = CachedSize(p)]
    IN  IF Limit > 0 /\ o.size > Limit THEN o
        ELSE IF Admitted(c, p, t) /\ Executes(p, t) THEN Merged(o, t)
        ELSE o

PushFromNet(c, p, t) ==
    IF ~Admitted(c, p, t) THEN Opened(p)
    ELSE IF ~deduce THEN Queued(Opened(p), t)
    ELSE IF Executes(p, t) THEN Merged(Opened(p), t)
    ELSE Opened(p)

\* A transaction that was pending is not evaluated again.
RePush(c, p, t) ==
    IF InTime(c, t) THEN Queued(Opened(p), t) ELSE Opened(p)

\* clear_pending(), at the head of c.
Cleared(c, size) ==
    [ pending |-> <<>>, open |-> FALSE, coins |-> Coins(c),
      known |-> Known(c), size |-> size ]

\* Mutant: what was popped takes the place of what was pending.
ToRestorePoppedOnly(popped, p) == IF popped = <<>> THEN p.pending ELSE popped

\* The transactions that a call has popped, then the ones that were pending.
ToRestore(popped, p) == popped \o p.pending

\* Mutant: the pending transactions are not looked up before they are pushed.
RestoreUnchecked(c, q, t, wasPopped) ==
    IF ~wasPopped THEN RePush(c, q, t)
    ELSE IF t \in q.known THEN q ELSE PushFromNet(c, q, t)

\* is_known_transaction() keeps out what the chain or the pool has already.
Restore(c, q, t, wasPopped) ==
    IF t \in q.known THEN q
    ELSE IF wasPopped THEN PushFromNet(c, q, t)
    ELSE RePush(c, q, t)

\* The destructor of pending_transactions_restorer, with c the chain that the
\* call has left and p the pool before it: the pool after each transaction.
Restoring(c, popped, p) ==
    LET txs == ToRestore(popped, p)
        after[i \in 0 .. Len(txs)] ==
            IF i = 0 THEN Cleared(c, Len(p.pending))
            ELSE Restore(c, after[i - 1], txs[i], i <= Len(popped))
    IN  after

Restored(c, popped, p) ==
    Restoring(c, popped, p)[Len(ToRestore(popped, p))]

-----------------------------------------------------------------------------
Init ==
    /\ chain = <<>>
    /\ pool = Cleared(<<>>, 0)
    /\ deduce \in BOOLEAN

\* push_transaction() of a client, and of a peer.
ClientTransaction(t) ==
    /\ pool' = PushFromMe(chain, pool, t)
    /\ UNCHANGED <<chain, deduce>>

PeerTransaction(t) ==
    /\ pool' = PushFromNet(chain, pool, t)
    /\ UNCHANGED <<chain, deduce>>

\* network_node_api::set_deduce_in_verification_mode(), while the node runs.
SetDeduce ==
    /\ deduce' = ~deduce
    /\ UNCHANGED <<chain, pool>>

Slots(c) == Now(c) + 1 .. MaxTime

Block(time, txs) == [time |-> time, txs |-> txs]

\* push_block() of a block that extends the chain; it is dropped if one of its
\* transactions does not apply.
PushBlock(time, txs) ==
    /\ time \in Slots(chain)
    /\ chain' = IF Applies(chain, txs) THEN Append(chain, Block(time, txs))
                ELSE chain
    /\ pool' = Restored(chain', <<>>, pool)
    /\ UNCHANGED deduce

\* The chain after each block of a branch, in consecutive slots.
Extended(c, branch) ==
    LET after[i \in 0 .. Len(branch)] ==
            IF i = 0 THEN c
            ELSE Append(after[i - 1], Block(Now(after[i - 1]) + 1, branch[i]))
    IN  after

\* push_block() of a block that makes another fork longer: k blocks are popped
\* and the branch is applied, block by block; if one fails, what was applied of
\* it is popped and the old blocks are applied again.  Each pop_block()
\* overwrites _popped_tx, so it ends with the transactions of the last block
\* popped.
SwitchForks(k, branch) ==
    LET n == Len(chain) - k
        base == SubSeq(chain, 1, n)
        ext == Extended(base, branch)
        ok == \A i \in 1 .. Len(branch) : Applies(ext[i - 1], branch[i])
        popped == IF ~ok /\ Applies(base, branch[1]) THEN branch[1]
                  ELSE chain[n + 1].txs
    IN  /\ k \in 1 .. Len(chain)
        /\ Len(branch) = k + 1
        /\ Now(base) + k + 1 <= MaxTime
        /\ chain' = IF ok THEN ext[Len(branch)] ELSE chain
        /\ pool' = Restored(chain', popped, pool)
        /\ UNCHANGED deduce

\* What _generate_block() takes from the pool: pending transactions in order,
\* without the expired ones, until the block is full.
Selecting(p, c) ==
    LET after[i \in 0 .. Len(p.pending)] ==
            IF i = 0 THEN <<>>
            ELSE IF Len(after[i - 1]) < BlockTxs /\ InTime(c, p.pending[i])
                 THEN Append(after[i - 1], p.pending[i])
                 ELSE after[i - 1]
    IN  after

Selected(p, c) == Selecting(p, c)[Len(p.pending)]

\* What _try_apply_block() leaves in the block after each transaction that it
\* tries: those that apply.
Trying(c, txs) ==
    LET tried(r, t) ==
            IF Admitted(c, r.d, t) /\ Executes(r.d, t)
            THEN [d |-> Executed(r.d, t), txs |-> Append(r.txs, t)]
            ELSE r
        after[i \in 0 .. Len(txs)] ==
            IF i = 0 THEN [d |-> Database(c), txs |-> <<>>]
            ELSE tried(after[i - 1], txs[i])
    IN  after

Tried(c, txs) == Trying(c, txs)[Len(txs)].txs

\* generate_block() at a slot of this node; it stops trying transactions when
\* the slot is over, after the first n.
GenerateBlock(time, n) ==
    LET txs == Selected(pool, chain)
    IN  /\ time \in Slots(chain)
        /\ n \in 0 .. Len(txs)
        /\ chain' = Append(chain, Block(time, Tried(chain, SubSeq(txs, 1, n))))
        /\ pool' = Restored(chain', <<>>, pool)
        /\ UNCHANGED deduce

Next ==
    \/ \E t \in Tx : ClientTransaction(t) \/ PeerTransaction(t)
    \/ SetDeduce
    \/ \E time \in 1 .. MaxTime, txs \in PeerBlocks : PushBlock(time, txs)
    \/ \E k \in 1 .. MaxPop : \E branch \in [1 .. k + 1 -> PeerBlocks] :
           SwitchForks(k, branch)
    \/ \E time \in 1 .. MaxTime, n \in 0 .. BlockTxs : GenerateBlock(time, n)

Spec == Init /\ [][Next]_vars

-----------------------------------------------------------------------------
(***************************************************************************)
(* Properties.                                                             *)
(***************************************************************************)
Distinct(s) == \A i, j \in DOMAIN s : s[i] = s[j] => i = j

\* No transaction is applied twice on a chain, whoever put it into its blocks:
\* its transaction object is there for as long as its expiration lets it in.
AppliedOnce ==
    \A i, j \in DOMAIN chain :
        \A m \in DOMAIN chain[i].txs, n \in DOMAIN chain[j].txs :
            chain[i].txs[m] = chain[j].txs[n] => i = j /\ m = n

\* No pending transaction is there twice or on the chain already; each has its
\* transaction object in the pending session, which is open (the assertion in
\* clear_pending()).
PoolConsistent ==
    /\ Distinct(pool.pending)
    /\ Range(pool.pending) \cap Applied(chain) = {}
    /\ Range(pool.pending) \subseteq pool.known
    /\ pool.pending # <<>> => pool.open

\* Nothing that was pending is lost when a block comes, a fork is taken or
\* fails, or a block is produced: it stays pending until a block has it or its
\* expiration is out of range.
PendingKept ==
    [][\A t \in Range(pool.pending) :
          \/ t \in Range(pool'.pending)
          \/ t \in Applied(chain')
          \/ ~InTime(chain', t)]_vars

=============================================================================
