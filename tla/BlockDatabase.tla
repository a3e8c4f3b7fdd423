---------------------------- MODULE BlockDatabase ---------------------------
(***************************************************************************)
(* graphene::chain::block_database: the index file, one entry for each     *)
(* block number, and the blocks it points to.                              *)
(*                                                                         *)
(* An entry has the id it was stored under and the block that was written; *)
(* they differ when the caller passes the id of another block, and `data'  *)
(* is Lost when the block did not reach the disk.                          *)
(***************************************************************************)
EXTENDS BlockTree

Lost == 0

NoEntry == [id |-> Genesis, data |-> Lost]

EmptyBlocks == [n \in Block |-> NoEntry]

\* Mutant: a slot that is in use is not written again.
StoreIfAbsent(d, id, b) ==
    IF d[Num(id)] # NoEntry THEN d
    ELSE [d EXCEPT ![Num(id)] = [id |-> id, data |-> b]]

store(d, id, b) == [d EXCEPT ![Num(id)] = [id |-> id, data |-> b]]

\* What last_index_entry() and fetch_by_number() verify: the block read back
\* hashes to the id of the entry.
Readable(d, n) == d[n].id # Genesis /\ d[n].data = d[n].id

contains(d, id) == d[Num(id)].id = id

CanFetch(d, id) == contains(d, id) /\ Readable(d, Num(id))

\* last_index_entry(): the number of the last readable entry, 0 if none ...
last(d) == Max({0} \cup { n \in Block : Readable(d, n) })

\* ... and the file truncated after it.
truncated(d) == [n \in Block |-> IF n > last(d) THEN NoEntry ELSE d[n]]

\* remove() of the last block, k times.
removed(d, k) ==
    [n \in Block |->
        IF Cardinality({ m \in n .. last(d) : Readable(d, m) }) > k THEN d[n]
        ELSE NoEntry]

\* The removal of every block from a gap at i on.
dropped_after(d, i) ==
    truncated([n \in Block |-> IF n >= i THEN NoEntry ELSE d[n]])
=============================================================================
