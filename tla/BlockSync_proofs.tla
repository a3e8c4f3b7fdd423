-------------------------- MODULE BlockSync_proofs --------------------------
(***************************************************************************)
(* Proofs that every request for a block is owed by exactly one            *)
(* connection, that a block is handed to the chain after its parent, and   *)
(* that the block a synopsis starts from is one that the node has, for all *)
(* peers, trees of blocks, limits and bounds.                              *)
(***************************************************************************)
EXTENDS BlockSync, Induction, FiniteSetTheorems

\* A record with the fields of a connection.
Connection(q) ==
    q = [ conn |-> q.conn, weNeed |-> q.weNeed, peerNeeds |-> q.peerNeeds,
          ids |-> q.ids, unfetched |-> q.unfetched,
          idsRequested |-> q.idsRequested, requested |-> q.requested,
          processing |-> q.processing, lastSeen |-> q.lastSeen ]

\* A closed connection owes nothing.
ConnectionOK(q) == Connection(q) /\ (q.conn = "closed" => q.requested = {})

ConnectionsOK ==
    /\ peer = [ p \in Peers |-> peer[p] ]
    /\ \A p \in Peers : ConnectionOK(peer[p])

IInv == ConnectionsOK /\ RequestsExact

-----------------------------------------------------------------------------
(***************************************************************************)
(* What leaves the requests of a connection alone.                         *)
(***************************************************************************)
SameRequests(q, r) ==
    /\ Connection(r)
    /\ r.requested = q.requested
    /\ r.conn = "closed" <=> q.conn = "closed"

\* One field of a connection is set.
LEMMA FieldSame ==
    ASSUME NEW q, Connection(q), NEW x
    PROVE  /\ SameRequests(q, [q EXCEPT !.ids = x])
           /\ SameRequests(q, [q EXCEPT !.lastSeen = x])
           /\ SameRequests(q, [q EXCEPT !.unfetched = x])
           /\ SameRequests(q, [q EXCEPT !.weNeed = x])
           /\ SameRequests(q, [q EXCEPT !.peerNeeds = x])
           /\ SameRequests(q, [q EXCEPT !.idsRequested = x])
           /\ SameRequests(q, [q EXCEPT !.processing = x])
BY DEF SameRequests, Connection

\* Several steps on one connection.
LEMMA SameTrans ==
    ASSUME NEW q, NEW r, NEW t, SameRequests(q, r), SameRequests(r, t)
    PROVE  SameRequests(q, t)
BY DEF SameRequests

\* Two fields are set.
LEMMA FieldsSame ==
    ASSUME NEW q, Connection(q), NEW x, NEW y
    PROVE  /\ SameRequests(q, [q EXCEPT !.ids = x, !.lastSeen = y])
           /\ SameRequests(q, [q EXCEPT !.ids = x, !.processing = y])
           /\ SameRequests(q, [q EXCEPT !.processing = x, !.lastSeen = y])
<1>1. SameRequests(q, [q EXCEPT !.ids = x, !.lastSeen = y])
  <2> DEFINE a == [q EXCEPT !.ids = x]
             b == [a EXCEPT !.lastSeen = y]
  <2>1. [q EXCEPT !.ids = x, !.lastSeen = y] = b
    OBVIOUS
  <2>2. SameRequests(q, a)
    BY FieldSame
  <2> HIDE DEF a
  <2>3. SameRequests(a, b)
    BY <2>2, FieldSame DEF SameRequests
  <2> QED
    BY <2>1, <2>2, <2>3, SameTrans
<1>2. SameRequests(q, [q EXCEPT !.ids = x, !.processing = y])
  <2> DEFINE a == [q EXCEPT !.ids = x]
             b == [a EXCEPT !.processing = y]
  <2>1. [q EXCEPT !.ids = x, !.processing = y] = b
    OBVIOUS
  <2>2. SameRequests(q, a)
    BY FieldSame
  <2> HIDE DEF a
  <2>3. SameRequests(a, b)
    BY <2>2, FieldSame DEF SameRequests
  <2> QED
    BY <2>1, <2>2, <2>3, SameTrans
<1>3. SameRequests(q, [q EXCEPT !.processing = x, !.lastSeen = y])
  <2> DEFINE a == [q EXCEPT !.processing = x]
             b == [a EXCEPT !.lastSeen = y]
  <2>1. [q EXCEPT !.processing = x, !.lastSeen = y] = b
    OBVIOUS
  <2>2. SameRequests(q, a)
    BY FieldSame
  <2> HIDE DEF a
  <2>3. SameRequests(a, b)
    BY <2>2, FieldSame DEF SameRequests
  <2> QED
    BY <2>1, <2>2, <2>3, SameTrans
<1> QED
  BY <1>1, <1>2, <1>3

\* fetch_next_batch_of_item_ids_from_peer() asks for ids.
LEMMA FetchNextBatchSame ==
    ASSUME NEW q, Connection(q)
    PROVE  SameRequests(q, FetchNextBatch(q))
BY FieldSame DEF FetchNextBatch

\* start_synchronizing_with_peer() resets the list.
LEMMA StartSynchronizingSame ==
    ASSUME NEW q, Connection(q)
    PROVE  SameRequests(q, StartSynchronizing(q))
<1> DEFINE a == [q EXCEPT !.ids = <<>>]
           b == [a EXCEPT !.unfetched = 0]
           c == [b EXCEPT !.weNeed = TRUE]
           d == [c EXCEPT !.lastSeen = Genesis]
<1>1. [q EXCEPT !.ids = <<>>, !.unfetched = 0, !.weNeed = TRUE,
                !.lastSeen = Genesis] = d
  OBVIOUS
<1>2. StartSynchronizing(q) = FetchNextBatch(d)
  BY <1>1 DEF StartSynchronizing
<1>3. SameRequests(q, a) /\ Connection(a)
  BY FieldSame DEF SameRequests
<1> HIDE DEF a
<1>4. SameRequests(a, b) /\ Connection(b)
  BY <1>3, FieldSame DEF SameRequests
<1> HIDE DEF b
<1>5. SameRequests(b, c) /\ Connection(c)
  BY <1>4, FieldSame DEF SameRequests
<1> HIDE DEF c
<1>6. SameRequests(c, d) /\ Connection(d)
  BY <1>5, FieldSame DEF SameRequests
<1> HIDE DEF d
<1>7. SameRequests(d, FetchNextBatch(d))
  BY <1>6, FetchNextBatchSame
<1> QED
  BY <1>2, <1>3, <1>4, <1>5, <1>6, <1>7, SameTrans

\* disconnect_from_peer() keeps the requests until the connection is closed.
LEMMA DisconnectSame ==
    ASSUME NEW q, Connection(q)
    PROVE  SameRequests(q, Disconnect(q))
<1>1. CASE q.conn = "active"
  BY <1>1 DEF Disconnect, SameRequests, Connection
<1>2. CASE q.conn # "active"
  BY <1>2 DEF Disconnect, SameRequests
<1> QED
  BY <1>1, <1>2

\* The list of a connection is replaced or extended.
LEMMA MergedListSame ==
    ASSUME NEW p, NEW q, NEW ids, Connection(q)
    PROVE  SameRequests(q, MergedList(p, q, ids))
<1> DEFINE joint == { i \in 1 .. Len(q.ids) : q.ids[i] = ids[1] }
<1>1. CASE ids = <<>>
  BY <1>1 DEF MergedList, SameRequests
<1>2. CASE ids # <<>> /\ q.ids = <<>>
  BY <1>2, FieldsSame DEF MergedList
<1>3. CASE ids # <<>> /\ q.ids # <<>> /\ joint # {}
  BY <1>3, FieldSame DEF MergedList
<1>4. CASE ids # <<>> /\ q.ids # <<>> /\ joint = {}
  BY <1>4, FieldsSame DEF MergedList
<1> QED
  BY <1>1, <1>2, <1>3, <1>4

-----------------------------------------------------------------------------
(***************************************************************************)
(* What leaves all requests alone.                                         *)
(***************************************************************************)

\* Every connection keeps its requests.
LEMMA SameIInv ==
    ASSUME IInv, UNCHANGED active, peer' = [ p \in Peers |-> peer'[p] ],
           \A p \in Peers : SameRequests(peer[p], peer'[p])
    PROVE  IInv'
<1>1. \A p \in Peers : /\ peer'[p].requested = peer[p].requested
                       /\ ConnectionOK(peer'[p])
  BY DEF IInv, ConnectionsOK, ConnectionOK, SameRequests
<1>2. ConnectionsOK'
  BY <1>1 DEF ConnectionsOK
<1>3. RequestsExact'
  <2>1. { peer'[p].requested : p \in Peers } = { peer[p].requested : p \in Peers }
    BY <1>1
  <2> QED
    BY <1>1, <2>1 DEF IInv, RequestsExact
<1> QED
  BY <1>2, <1>3 DEF IInv

\* One connection changes, and keeps its requests.
LEMMA OneSameIInv ==
    ASSUME IInv, UNCHANGED active, NEW p \in Peers, NEW r,
           peer' = [peer EXCEPT ![p] = r], SameRequests(peer[p], r)
    PROVE  IInv'
<1>1. peer' = [ o \in Peers |-> IF o = p THEN r ELSE peer[o] ]
  BY DEF IInv, ConnectionsOK
<1>2. \A o \in Peers : SameRequests(peer[o], peer[o])
  BY DEF IInv, ConnectionsOK, ConnectionOK, SameRequests
<1>3. \A o \in Peers : SameRequests(peer[o], peer'[o])
  BY <1>1, <1>2
<1>4. peer' = [ o \in Peers |-> peer'[o] ]
  BY <1>1
<1> QED
  BY <1>3, <1>4, SameIInv

\* Nothing happens to the connections.
LEMMA UnchangedIInv ==
    ASSUME IInv, UNCHANGED <<active, peer>>
    PROVE  IInv'
BY DEF IInv, ConnectionsOK, RequestsExact

-----------------------------------------------------------------------------
(***************************************************************************)
(* fetch_sync_items_loop().                                                *)
(***************************************************************************)
Offered == UNION { ToSet(peer[p].ids) : p \in Peers }

\* A batch has blocks of the list that nobody has been asked for.
LEMMA BatchIs ==
    ASSUME NEW p \in Peers, NEW given \in [Peers -> SUBSET Offered]
    PROVE  /\ Batch(p, given) \in SUBSET Offered
           /\ Batch(p, given) \cap active = {}
           /\ \A o \in Peers : Batch(p, given) \cap given[o] = {}
<1> DEFINE taken == ToSet(fresh) \cup ToSet(received) \cup active
                    \cup UNION { given[o] : o \in Peers }
           wanted == { i \in DOMAIN peer[p].ids : peer[p].ids[i] \notin taken }
<1>1. \A b \in Batch(p, given) : \E i \in wanted : b = peer[p].ids[i]
  BY DEF Batch
<1>2. ToSet(peer[p].ids) \subseteq Offered
  BY DEF Offered
<1>3. ASSUME NEW b \in Batch(p, given)
      PROVE  b \in ToSet(peer[p].ids) /\ b \notin taken
  BY <1>1 DEF ToSet
<1> HIDE DEF taken
<1>4. Batch(p, given) \subseteq Offered
  BY <1>2, <1>3
<1>5. ASSUME NEW b \in Batch(p, given)
      PROVE  b \notin active /\ \A o \in Peers : b \notin given[o]
  BY <1>3 DEF taken
<1> QED
  BY <1>4, <1>5

\* What has been asked of each peer after each one of them.
LEMMA BatchesAre ==
    ASSUME NEW order \in Seq(Peers)
    PROVE  /\ Batches(order) \in [0 .. Len(order) -> [Peers -> SUBSET Offered]]
           /\ Batches(order)[0] = [ p \in Peers |-> {} ]
           /\ \A i \in 1 .. Len(order) :
                 Batches(order)[i] =
                     [Batches(order)[i - 1] EXCEPT
                         ![order[i]] = Batch(order[i], Batches(order)[i - 1])]
<1> DEFINE n == Len(order)
           V == [Peers -> SUBSET Offered]
           base == [ p \in Peers |-> {} ]
           E(v, i) == [v EXCEPT ![order[i]] = Batch(order[i], v)]
           F(f) == [i \in 0 .. n |-> IF i = 0 THEN base ELSE E(f[i - 1], i)]
           step == [i \in 1 .. n |-> [v \in V |-> E(v, i)]]
           S == Batches(order)
<1>1. n \in Nat /\ base \in V
  OBVIOUS
<1>2. ASSUME NEW i \in 1 .. n, NEW v \in V
      PROVE  E(v, i) \in V
  <2>1. order[i] \in Peers
    OBVIOUS
  <2>2. Batch(order[i], v) \in SUBSET Offered
    BY <2>1, BatchIs
  <2> QED
    BY <2>1, <2>2
<1>3. S = CHOOSE f : f = F(f)
  BY DEF Batches
<1> HIDE DEF S, n, V, base, E
<1>4. StepFunction(step, n, V)
  BY <1>2 DEF StepFunction
<1>5. \A i \in 1 .. n : \A v \in V : step[i][v] = E(v, i)
  OBVIOUS
<1> HIDE DEF step
<1>6. PICK g : Recursive(g, n, V, base, step)
  BY <1>1, <1>4, RecursionExists
<1>7. g = F(g)
  <2>1. \A i \in 1 .. n : g[i] = E(g[i - 1], i)
    BY <1>1, <1>5, <1>6 DEF Recursive
  <2>2. g = [i \in 0 .. n |-> g[i]] /\ g[0] = base
    BY <1>6 DEF Recursive
  <2>3. \A i \in 0 .. n : g[i] = IF i = 0 THEN base ELSE E(g[i - 1], i)
    <3> TAKE i \in 0 .. n
    <3>1. CASE i = 0
      BY <2>2, <3>1
    <3>2. CASE i \in 1 .. n
      BY <1>1, <2>1, <3>2
    <3> QED
      BY <1>1, <3>1, <3>2
  <2> QED
    BY <2>2, <2>3
<1>8. S = F(S)
  BY <1>3, <1>7
<1>9. \A i \in 0 .. n : S[i] = IF i = 0 THEN base ELSE E(S[i - 1], i)
  BY <1>8
<1>10. S = [i \in 0 .. n |-> S[i]]
  BY <1>8, <1>9
<1>11. S[0] = base /\ \A i \in 1 .. n : S[i] = E(S[i - 1], i)
  BY <1>1, <1>9
<1>12. Recursive(S, n, V, base, step)
  BY <1>1, <1>4, <1>5, <1>10, <1>11, RecursionTyped
<1> QED
  BY <1>11, <1>12 DEF Recursive, V, n, S, base, E

\* No block is asked of two peers, or again of the one that owes it.
LEMMA BatchesDisjoint ==
    ASSUME NEW order \in Seq(Active)
    PROVE  LET B == Batches(order)[Len(order)]
           IN  /\ \A p \in Peers : B[p] \cap active = {}
               /\ \A p, o \in Peers : p # o => B[p] \cap B[o] = {}
               /\ \A p \in Peers \ Active : B[p] = {}
<1> DEFINE n == Len(order)
           G == Batches(order)
           Apart(g) == /\ \A p \in Peers : g[p] \cap active = {}
                       /\ \A p, o \in Peers : p # o => g[p] \cap g[o] = {}
                       /\ \A p \in Peers \ Active : g[p] = {}
           T == { i \in 0 .. n : Apart(G[i]) }
<1>0. Active \subseteq Peers /\ order \in Seq(Peers)
  BY DEF Active
<1>1. n \in Nat /\ \A i \in 1 .. n : order[i] \in Peers /\ order[i] \in Active
  BY <1>0
<1>2. /\ G \in [0 .. n -> [Peers -> SUBSET Offered]]
      /\ G[0] = [ p \in Peers |-> {} ]
      /\ \A i \in 1 .. n :
            G[i] = [G[i - 1] EXCEPT ![order[i]] = Batch(order[i], G[i - 1])]
  BY <1>0, BatchesAre
<1> HIDE DEF n, G
<1>3. 0 .. n \subseteq T
  <2>1. 0 \in T
    BY <1>1, <1>2
  <2>2. ASSUME NEW i \in 1 .. n, i - 1 \in T
        PROVE  i \in T
    <3> DEFINE g == G[i - 1]
               p == order[i]
               b == Batch(p, g)
               h == [g EXCEPT ![p] = b]
    <3>1. /\ g \in [Peers -> SUBSET Offered] /\ Apart(g)
          /\ p \in Peers /\ p \in Active
      BY <1>1, <1>2, <2>2
    <3>2. G[i] = h
      BY <1>2
    <3> HIDE DEF g, p
    <3>3. b \cap active = {} /\ \A o \in Peers : b \cap g[o] = {}
      BY <3>1, BatchIs
    <3> HIDE DEF b
    <3>4. \A o \in Peers : h[o] = IF o = p THEN b ELSE g[o]
      BY <3>1
    <3> HIDE DEF h
    <3>5. Apart(h)
      BY <3>1, <3>3, <3>4
    <3> HIDE DEF Apart
    <3> QED
      BY <1>1, <3>2, <3>5
  <2> HIDE DEF T
  <2> QED
    BY <1>1, <2>1, <2>2, IntervalInduction
<1>4. Apart(G[n])
  BY <1>1, <1>3
<1> QED
  BY <1>4 DEF G, n

\* The requests of a batch are counted and owed once.
LEMMA FetchSyncItemsIInv ==
    ASSUME IInv, NEW order \in Seq(Active), FetchSyncItems(order)
    PROVE  IInv'
<1> DEFINE B == Batches(order)[Len(order)]
           Q(p) == [peer[p] EXCEPT !.requested = peer[p].requested \cup B[p]]
<1>1. /\ active' = active \cup UNION { B[p] : p \in Peers }
      /\ peer' = [ p \in Peers |-> Q(p) ]
  BY DEF FetchSyncItems
<1>2. /\ \A p \in Peers : B[p] \cap active = {}
      /\ \A p, o \in Peers : p # o => B[p] \cap B[o] = {}
      /\ \A p \in Peers \ Active : B[p] = {}
  BY BatchesDisjoint
<1> HIDE DEF B
<1>3. /\ \A p \in Peers : ConnectionOK(peer[p])
      /\ active = UNION { peer[p].requested : p \in Peers }
      /\ \A p, o \in Peers :
            p # o => peer[p].requested \cap peer[o].requested = {}
  BY DEF IInv, ConnectionsOK, RequestsExact
<1>4. ASSUME NEW p \in Peers
      PROVE  /\ Connection(Q(p))
             /\ Q(p).conn = peer[p].conn
             /\ Q(p).requested = peer[p].requested \cup B[p]
  <2> DEFINE x == peer[p].requested \cup B[p]
             q == peer[p]
  <2>1. Connection(q)
    BY <1>3 DEF ConnectionOK
  <2> HIDE DEF x, q
  <2>2. LET r == [q EXCEPT !.requested = x]
        IN  Connection(r) /\ r.conn = q.conn /\ r.requested = x
    BY <2>1 DEF Connection
  <2> QED
    BY <2>2 DEF x, q
<1> HIDE DEF Q
<1>5. \A p \in Peers : peer[p].requested \subseteq active
  BY <1>3
<1>6. \A p \in Peers : peer'[p] = Q(p)
  BY <1>1
<1>7. ConnectionsOK'
  <2>1. \A p \in Peers : ConnectionOK(Q(p))
    BY <1>2, <1>3, <1>4 DEF ConnectionOK, Active
  <2>2. peer' = [ p \in Peers |-> peer'[p] ]
    BY <1>1, <1>6
  <2> QED
    BY <1>6, <2>1, <2>2 DEF ConnectionsOK
<1>8. active' = UNION { peer'[p].requested : p \in Peers }
  <2>1. \A p \in Peers : peer'[p].requested = peer[p].requested \cup B[p]
    BY <1>4, <1>6
  <2>2. ASSUME NEW b
        PROVE  b \in active' <=> \E p \in Peers : b \in peer'[p].requested
    BY <1>1, <1>3, <2>1
  <2> QED
    BY <2>2
<1>9. \A p, o \in Peers :
          p # o => peer'[p].requested \cap peer'[o].requested = {}
  <2>1. \A p \in Peers : peer'[p].requested = peer[p].requested \cup B[p]
    BY <1>4, <1>6
  <2> QED
    BY <1>2, <1>3, <1>5, <2>1
<1> QED
  BY <1>7, <1>8, <1>9 DEF IInv, RequestsExact

-----------------------------------------------------------------------------
(***************************************************************************)
(* The other actions.                                                      *)
(***************************************************************************)

\* What the invariant says of one connection.
LEMMA PeerIs ==
    ASSUME IInv, NEW p \in Peers
    PROVE  Connection(peer[p]) /\ SameRequests(peer[p], peer[p])
BY DEF IInv, ConnectionsOK, ConnectionOK, SameRequests

\* A new connection.
LEMMA ConnectIInv ==
    ASSUME IInv, NEW p \in Peers, Connect(p)
    PROVE  IInv'
<1>1. /\ peer[p].conn = "closed"
      /\ peer' = [peer EXCEPT ![p] = StartSynchronizing(NewConnection)]
      /\ UNCHANGED active
  BY DEF Connect, node
<1> DEFINE r == StartSynchronizing(NewConnection)
<1>2. /\ Connection(NewConnection)
      /\ NewConnection.requested = {} /\ NewConnection.conn = "active"
  BY DEF Connection, NewConnection
<1>3. SameRequests(NewConnection, r)
  BY <1>2, StartSynchronizingSame
<1> HIDE DEF r
<1>4. Connection(r) /\ r.requested = {}
  BY <1>2, <1>3 DEF SameRequests
<1>5. /\ peer = [ o \in Peers |-> peer[o] ]
      /\ \A o \in Peers : ConnectionOK(peer[o])
      /\ peer[p].requested = {}
  BY <1>1 DEF IInv, ConnectionsOK, ConnectionOK
<1>6. peer' = [ o \in Peers |-> IF o = p THEN r ELSE peer[o] ]
  BY <1>1, <1>5 DEF r
<1>7. \A o \in Peers : peer'[o].requested = peer[o].requested
  BY <1>4, <1>5, <1>6
<1>8. ConnectionsOK'
  <2>1. peer' = [ o \in Peers |-> peer'[o] ]
    BY <1>6
  <2>2. \A o \in Peers : ConnectionOK(peer'[o])
    BY <1>4, <1>5, <1>6 DEF ConnectionOK
  <2> QED
    BY <2>1, <2>2 DEF ConnectionsOK
<1>9. RequestsExact'
  <2>1. { peer'[o].requested : o \in Peers } = { peer[o].requested : o \in Peers }
    BY <1>7
  <2> QED
    BY <1>1, <1>7, <2>1 DEF IInv, RequestsExact
<1> QED
  BY <1>8, <1>9 DEF IInv

\* A request of the peer.
LEMMA OnFetchIdsIInv ==
    ASSUME IInv, NEW p \in Peers, NEW synopsis, OnFetchIds(p, synopsis)
    PROVE  IInv'
<1> DEFINE q == peer[p]
           reply == GetBlockIds(head, synopsis).ids
           needs == ~ ( \/ reply = <<>>
                        \/ Len(reply) = 1 /\ reply[1] \in synopsis )
           latest == CHOOSE b \in synopsis :
                         \A c \in synopsis : Num(c) <= Num(b)
           again == ~ q.weNeed /\ synopsis # {} /\ latest \notin seen
           told == [q EXCEPT !.peerNeeds = needs]
           r == IF again THEN StartSynchronizing(told) ELSE told
<1>1. peer' = [peer EXCEPT ![p] = r] /\ UNCHANGED active
  BY DEF OnFetchIds, node
<1> HIDE DEF needs, latest, again
<1>2. SameRequests(q, told)
  BY PeerIs, FieldSame
<1> HIDE DEF told
<1>3. SameRequests(told, StartSynchronizing(told))
  BY <1>2, StartSynchronizingSame DEF SameRequests
<1>4. SameRequests(q, r)
  BY <1>2, <1>3, SameTrans
<1> HIDE DEF r
<1> QED
  BY <1>1, <1>4, OneSameIInv

\* A list of ids.
LEMMA OnIdsIInv ==
    ASSUME IInv, NEW p \in Peers, NEW ids, NEW left, OnIds(p, ids, left)
    PROVE  IInv'
<1> DEFINE q == peer[p]
           answered == [q EXCEPT !.idsRequested = {}]
           list == MergedList(p, answered, ids)
           merged == [list EXCEPT !.unfetched = left]
<1>1. /\ UNCHANGED active
      /\ \/ UNCHANGED peer
         \/ peer' = [peer EXCEPT ![p] = Disconnect(q)]
         \/ peer' = [peer EXCEPT ![p] = [answered EXCEPT !.weNeed = FALSE]]
         \/ peer' = [peer EXCEPT ![p] = merged]
         \/ peer' = [peer EXCEPT ![p] = FetchNextBatch(merged)]
  BY DEF OnIds, node
<1>2. Connection(q)
  BY PeerIs
<1>3. SameRequests(q, Disconnect(q))
  BY <1>2, DisconnectSame
<1>4. SameRequests(q, answered) /\ Connection(answered)
  BY <1>2, FieldSame DEF SameRequests
<1> HIDE DEF answered
<1>5. SameRequests(q, [answered EXCEPT !.weNeed = FALSE])
  BY <1>4, FieldSame, SameTrans
<1>6. SameRequests(q, list) /\ Connection(list)
  <2>1. SameRequests(answered, list)
    BY <1>4, MergedListSame
  <2> HIDE DEF list
  <2>2. SameRequests(q, list)
    BY <1>4, <2>1, SameTrans
  <2> QED
    BY <2>2 DEF SameRequests
<1> HIDE DEF list
<1>7. SameRequests(q, merged) /\ Connection(merged)
  <2>1. SameRequests(list, merged)
    BY <1>6, FieldSame
  <2> HIDE DEF merged
  <2>2. SameRequests(q, merged)
    BY <1>6, <2>1, SameTrans
  <2> QED
    BY <2>2 DEF SameRequests
<1> HIDE DEF merged
<1>8. SameRequests(q, FetchNextBatch(merged))
  BY <1>7, FetchNextBatchSame, SameTrans
<1>9. CASE UNCHANGED peer
  BY <1>1, <1>9, UnchangedIInv
<1>10. CASE peer' = [peer EXCEPT ![p] = Disconnect(q)]
  BY <1>1, <1>3, <1>10, OneSameIInv
<1>11. CASE peer' = [peer EXCEPT ![p] = [answered EXCEPT !.weNeed = FALSE]]
  BY <1>1, <1>5, <1>11, OneSameIInv
<1>12. CASE peer' = [peer EXCEPT ![p] = merged]
  BY <1>1, <1>7, <1>12, OneSameIInv
<1>13. CASE peer' = [peer EXCEPT ![p] = FetchNextBatch(merged)]
  BY <1>1, <1>8, <1>13, OneSameIInv
<1> QED
  BY <1>1, <1>9, <1>10, <1>11, <1>12, <1>13

\* A block that was asked for is no longer owed; another one is not counted.
LEMMA OnBlockIInv ==
    ASSUME IInv, NEW p \in Peers, NEW b, OnBlock(p, b)
    PROVE  IInv'
<1>1. CASE b \notin peer[p].requested
  <2>1. peer' = [peer EXCEPT ![p] = Disconnect(peer[p])] /\ UNCHANGED active
    BY <1>1 DEF OnBlock, node
  <2>2. SameRequests(peer[p], Disconnect(peer[p]))
    BY PeerIs, DisconnectSame
  <2> QED
    BY <2>1, <2>2, OneSameIInv
<1>2. CASE b \in peer[p].requested
  <2> DEFINE x == peer[p].requested \ {b}
             c == peer[p]
             q == [c EXCEPT !.requested = x]
             more == Idle(q) /\ q.unfetched > 0 /\ Len(q.ids) < MinIds
             r == IF more THEN FetchNextBatch(q) ELSE q
  <2>1. active' = active \ {b} /\ peer' = [peer EXCEPT ![p] = r]
    BY <1>2 DEF OnBlock
  <2>2. Connection(c)
    BY PeerIs
  <2> HIDE DEF x, more
  <2>3. Connection(q) /\ q.requested = x /\ q.conn = c.conn
    <3> HIDE DEF c
    <3> QED
      BY <2>2 DEF Connection
  <2> HIDE DEF q
  <2>4. SameRequests(q, FetchNextBatch(q))
    BY <2>3, FetchNextBatchSame
  <2>5. /\ Connection(r) /\ r.requested = x
        /\ r.conn = "closed" => peer[p].conn = "closed"
    BY <2>3, <2>4 DEF SameRequests
  <2> HIDE DEF r, c
  <2>6. /\ peer = [ o \in Peers |-> peer[o] ]
        /\ \A o \in Peers : ConnectionOK(peer[o])
        /\ active = UNION { peer[o].requested : o \in Peers }
        /\ \A i, o \in Peers :
              i # o => peer[i].requested \cap peer[o].requested = {}
    BY DEF IInv, ConnectionsOK, RequestsExact
  <2>7. peer' = [ o \in Peers |-> IF o = p THEN r ELSE peer[o] ]
    BY <2>1, <2>6
  <2>8. ConnectionsOK'
    <3>1. peer' = [ o \in Peers |-> peer'[o] ]
      BY <2>7
    <3>2. ConnectionOK(r)
      BY <1>2, <2>5, <2>6 DEF ConnectionOK
    <3>3. \A o \in Peers : ConnectionOK(peer'[o])
      BY <2>6, <2>7, <3>2
    <3> QED
      BY <3>1, <3>3 DEF ConnectionsOK
  <2>9. \A o \in Peers : peer'[o].requested = IF o = p THEN x
                                               ELSE peer[o].requested
    BY <2>5, <2>7
  <2>10. RequestsExact'
    <3>1. active' = UNION { peer'[o].requested : o \in Peers }
      <4>1. ASSUME NEW a
            PROVE  a \in active' <=> \E o \in Peers : a \in peer'[o].requested
        BY <1>2, <2>1, <2>6, <2>9 DEF x
      <4> QED
        BY <4>1
    <3>2. \A i, o \in Peers :
              i # o => peer'[i].requested \cap peer'[o].requested = {}
      BY <2>6, <2>9 DEF x
    <3> QED
      BY <3>1, <3>2 DEF RequestsExact
  <2> QED
    BY <2>8, <2>10 DEF IInv
<1> QED
  BY <1>1, <1>2

\* A connection that is closed, or not made yet, owes nothing.
LEMMA ClosedIs ==
    /\ Connection([NewConnection EXCEPT !.conn = "closed"])
    /\ [NewConnection EXCEPT !.conn = "closed"].requested = {}
<1> DEFINE c == NewConnection
<1>1. Connection(c) /\ c.requested = {}
  BY DEF Connection, NewConnection
<1> HIDE DEF c
<1>2. Connection([c EXCEPT !.conn = "closed"])
  BY <1>1 DEF Connection
<1>3. [c EXCEPT !.conn = "closed"].requested = {}
  BY <1>1 DEF Connection
<1> QED
  BY <1>2, <1>3 DEF c

\* on_connection_closed() forgets what the peer owed.
LEMMA ClosedIInv ==
    ASSUME IInv, NEW p \in Peers, Closed(p)
    PROVE  IInv'
<1> DEFINE r == [NewConnection EXCEPT !.conn = "closed"]
<1>1. /\ active' = active \ peer[p].requested
      /\ peer' = [peer EXCEPT ![p] = r]
  BY DEF Closed
<1>2. Connection(r) /\ r.requested = {}
  BY ClosedIs
<1> HIDE DEF r
<1>3. /\ peer = [ o \in Peers |-> peer[o] ]
      /\ \A o \in Peers : ConnectionOK(peer[o])
      /\ active = UNION { peer[o].requested : o \in Peers }
      /\ \A i, o \in Peers :
            i # o => peer[i].requested \cap peer[o].requested = {}
  BY DEF IInv, ConnectionsOK, RequestsExact
<1>4. peer' = [ o \in Peers |-> IF o = p THEN r ELSE peer[o] ]
  BY <1>1, <1>3
<1>5. ConnectionsOK'
  <2>1. peer' = [ o \in Peers |-> peer'[o] ]
    BY <1>4
  <2>2. \A o \in Peers : ConnectionOK(peer'[o])
    BY <1>2, <1>3, <1>4 DEF ConnectionOK
  <2> QED
    BY <2>1, <2>2 DEF ConnectionsOK
<1>6. \A o \in Peers : peer'[o].requested = IF o = p THEN {}
                                             ELSE peer[o].requested
  BY <1>2, <1>4
<1>7. active' = UNION { peer'[o].requested : o \in Peers }
  <2>1. ASSUME NEW a
        PROVE  a \in active' <=> \E o \in Peers : a \in peer'[o].requested
    BY <1>1, <1>3, <1>6
  <2> QED
    BY <2>1
<1>8. \A i, o \in Peers :
          i # o => peer'[i].requested \cap peer'[o].requested = {}
  BY <1>3, <1>6
<1> QED
  BY <1>5, <1>7, <1>8 DEF IInv, RequestsExact

\* process_backlog_of_sync_blocks() touches the lists alone.
LEMMA ProcessBacklogIInv ==
    ASSUME IInv, ProcessBacklog
    PROVE  IInv'
<1>1. UNCHANGED active
  BY DEF ProcessBacklog
<1>2. CASE Len(handling) >= MaxHandling
  <2>1. UNCHANGED peer
    BY <1>2 DEF ProcessBacklog
  <2> QED
    BY <1>1, <2>1, UnchangedIInv
<1>3. CASE ~ (Len(handling) >= MaxHandling)
  <2> DEFINE end == Backlog[Len(fresh) + Len(received) + 1]
             q(p) == Backlogged(p, end.ids, end.processing)
  <2>1. peer' = [ p \in Peers |-> IF p \in end.asked THEN FetchNextBatch(q(p))
                                  ELSE q(p) ]
    BY <1>3 DEF ProcessBacklog
  <2> HIDE DEF end
  <2>2. ASSUME NEW p \in Peers
        PROVE  SameRequests(peer[p], peer'[p])
    <3>1. SameRequests(peer[p], q(p))
      BY PeerIs, FieldsSame DEF Backlogged
    <3>2. peer'[p] = IF p \in end.asked THEN FetchNextBatch(q(p)) ELSE q(p)
      BY <2>1
    <3> HIDE DEF q
    <3>3. SameRequests(peer[p], FetchNextBatch(q(p)))
      BY <3>1, FetchNextBatchSame, SameTrans DEF SameRequests
    <3> QED
      BY <3>1, <3>2, <3>3
  <2>3. peer' = [ p \in Peers |-> peer'[p] ]
    BY <2>1
  <2> QED
    BY <1>1, <2>2, <2>3, SameIInv
<1> QED
  BY <1>2, <1>3

\* send_sync_block_to_node_delegate() asks for ids or disconnects.
LEMMA SyncBlockDoneIInv ==
    ASSUME IInv, SyncBlockDone
    PROVE  IInv'
<1> DEFINE b == Head(handling).block
           ok == Head(handling).res = "ok"
           hasList(p) == peer[p].ids # <<>> \/ peer[p].processing # {}
           offers == { p \in Active : b \in peer[p].processing }
           asked == { p \in offers : ok /\ Exhausted(Finished(peer[p], b)) }
           restarted == { p \in Active : /\ ok /\ ~ hasList(p)
                                         /\ ~ peer[p].peerNeeds
                                         /\ ~ peer[p].weNeed }
           taken(p) == [Finished(peer[p], b) EXCEPT !.lastSeen = b]
           q(p) == CASE p \in asked -> FetchNextBatch(taken(p))
                     [] p \in restarted -> StartSynchronizing(peer[p])
                     [] p \in offers \ asked ->
                            IF ok THEN taken(p) ELSE Disconnect(peer[p])
                     [] OTHER -> peer[p]
<1>1. UNCHANGED active /\ peer' = [ p \in Peers |-> q(p) ]
  BY DEF SyncBlockDone
<1>2. ASSUME NEW p \in Peers
      PROVE  SameRequests(peer[p], q(p))
  <2>1. Connection(peer[p]) /\ SameRequests(peer[p], peer[p])
    BY PeerIs
  <2>2. SameRequests(peer[p], taken(p))
    <3> DEFINE f == Finished(peer[p], b)
    <3> HIDE DEF b
    <3>1. SameRequests(peer[p], f) /\ Connection(f)
      BY <2>1, FieldSame, ZenonT(40) DEF Finished, SameRequests
    <3> HIDE DEF f
    <3>2. SameRequests(f, [f EXCEPT !.lastSeen = b])
      BY <3>1, FieldSame
    <3>3. SameRequests(peer[p], [f EXCEPT !.lastSeen = b])
      BY <3>1, <3>2, SameTrans
    <3> QED
      BY <3>3 DEF f
  <2> HIDE DEF taken, asked, restarted, offers, ok
  <2>3. SameRequests(peer[p], FetchNextBatch(taken(p)))
    BY <2>2, FetchNextBatchSame, SameTrans DEF SameRequests
  <2>4. SameRequests(peer[p], StartSynchronizing(peer[p]))
    BY <2>1, StartSynchronizingSame
  <2>5. SameRequests(peer[p], Disconnect(peer[p]))
    BY <2>1, DisconnectSame
  <2>6. \/ q(p) = FetchNextBatch(taken(p)) \/ q(p) = StartSynchronizing(peer[p])
        \/ q(p) = taken(p) \/ q(p) = Disconnect(peer[p]) \/ q(p) = peer[p]
    <3>1. CASE p \in asked /\ p \notin restarted
      BY <3>1
    <3>2. CASE p \in restarted /\ p \notin asked /\ p \notin offers
      BY <3>2
    <3> QED
      OBVIOUS
  <2> QED
    BY <2>1, <2>2, <2>3, <2>4, <2>5, <2>6
<1> HIDE DEF q
<1>3. peer' = [ p \in Peers |-> peer'[p] ] /\ \A p \in Peers : peer'[p] = q(p)
  BY <1>1
<1> QED
  BY <1>1, <1>2, <1>3, SameIInv

-----------------------------------------------------------------------------
(***************************************************************************)
(* The invariant of the node.                                              *)
(***************************************************************************)
\* No connection is open and nothing is asked for at the start.
LEMMA InitIInv == Init => IInv
<1> SUFFICES ASSUME Init PROVE IInv
  OBVIOUS
<1> DEFINE r == [NewConnection EXCEPT !.conn = "closed"]
<1>1. peer = [ p \in Peers |-> r ] /\ active = {}
  BY DEF Init, NodeInit
<1>2. Connection(r) /\ r.requested = {}
  BY ClosedIs
<1> HIDE DEF r
<1>3. \A p \in Peers : peer[p] = r
  BY <1>1
<1>4. ConnectionsOK
  <2>1. peer = [ p \in Peers |-> peer[p] ]
    BY <1>1
  <2> QED
    BY <1>2, <1>3, <2>1 DEF ConnectionsOK, ConnectionOK
<1>5. RequestsExact
  BY <1>1, <1>2, <1>3 DEF RequestsExact
<1> QED
  BY <1>4, <1>5 DEF IInv

\* The messages that the node receives.
LEMMA ReceiveIInv ==
    ASSUME IInv, NEW p \in Peers, Receive(p)
    PROVE  IInv'
<1> DEFINE m == Head(fromPeer[p])
<1>1. \/ OnFetchIds(p, m.synopsis) \/ OnIds(p, m.ids, m.left)
      \/ OnBlock(p, m.ids[1])
  BY DEF Receive
<1> HIDE DEF m
<1>2. CASE OnFetchIds(p, m.synopsis)
  BY <1>2, OnFetchIdsIInv
<1>3. CASE OnIds(p, m.ids, m.left)
  BY <1>3, OnIdsIInv
<1>4. CASE OnBlock(p, m.ids[1])
  BY <1>4, OnBlockIInv
<1> QED
  BY <1>1, <1>2, <1>3, <1>4

\* terminate_inactive_connections_loop() only disconnects.
LEMMA TerminateInactiveIInv ==
    ASSUME IInv, NEW late, NEW visited, TerminateInactive(late, visited)
    PROVE  IInv'
<1> DEFINE stalled(p) == /\ peer[p].weNeed /\ peer[p].idsRequested = {}
                         /\ peer[p].ids = <<>>
           dropped == { p \in visited :
                            \/ p \in late /\ peer[p].idsRequested # {}
                            \/ stalled(p) }
<1>1. /\ UNCHANGED active
      /\ peer' = [ p \in Peers |-> IF p \in dropped THEN Disconnect(peer[p])
                                   ELSE peer[p] ]
  BY DEF TerminateInactive, node
<1> HIDE DEF dropped
<1>2. ASSUME NEW p \in Peers
      PROVE  SameRequests(peer[p], peer'[p])
  <2>1. Connection(peer[p]) /\ SameRequests(peer[p], peer[p])
    BY PeerIs
  <2>2. SameRequests(peer[p], Disconnect(peer[p]))
    BY <2>1, DisconnectSame
  <2> QED
    BY <1>1, <2>1, <2>2
<1>3. peer' = [ p \in Peers |-> peer'[p] ]
  BY <1>1
<1> QED
  BY <1>1, <1>2, <1>3, SameIInv

\* The orders in which the loop can visit the peers are sequences of them.
LEMMA OrdersAre ==
    ASSUME NEW order \in SetToSeqs(Active)
    PROVE  order \in Seq(Active)
<1>1. IsFiniteSet(Active)
  BY FS_Subset, BlockSyncAssumption DEF Active
<1>2. Cardinality(Active) \in Nat
  BY <1>1, FS_CardinalityType
<1>3. order \in [1 .. Cardinality(Active) -> Active]
  BY DEF SetToSeqs
<1> QED
  BY <1>2, <1>3

\* Every step of the node, of its peers and of their connections.
LEMMA NextIInv == IInv /\ [Next]_vars => IInv'
<1> SUFFICES ASSUME IInv, [Next]_vars PROVE IInv'
  OBVIOUS
<1>1. ASSUME NEW p \in Peers, Connect(p) PROVE IInv'
  BY <1>1, ConnectIInv
<1>2. ASSUME NEW p \in Peers, PeerAnswers(p) PROVE IInv'
  BY <1>2, UnchangedIInv DEF PeerAnswers, node
<1>3. ASSUME NEW p \in Peers, Receive(p) PROVE IInv'
  BY <1>3, ReceiveIInv
<1>4. ASSUME NEW p \in Peers, ConnectionClosed(p) PROVE IInv'
  BY <1>4, ClosedIInv DEF ConnectionClosed
<1>5. ASSUME NEW order \in SetToSeqs(Active), FetchSyncItems(order) PROVE IInv'
  BY <1>5, OrdersAre, FetchSyncItemsIInv
<1>6. CASE ProcessBacklog
  BY <1>6, ProcessBacklogIInv
<1>7. CASE HandleBlock
  BY <1>7, UnchangedIInv DEF HandleBlock
<1>8. CASE SyncBlockDone
  BY <1>8, SyncBlockDoneIInv
<1>9. ASSUME NEW p \in Peers, ConnectionLost(p) PROVE IInv'
  BY <1>9, ClosedIInv DEF ConnectionLost
<1>10. ASSUME NEW p \in Peers, NEW b \in Block, PeerGrows(p, b) PROVE IInv'
  BY <1>10, UnchangedIInv DEF PeerGrows, node
<1>11. ASSUME NEW late \in SUBSET Active, NEW visited \in SUBSET Active,
              TerminateInactive(late, visited)
       PROVE  IInv'
  BY <1>11, TerminateInactiveIInv
<1>12. CASE UNCHANGED vars
  BY <1>12, UnchangedIInv DEF vars, node
<1>13. CASE Progress
  BY <1>1, <1>2, <1>3, <1>4, <1>5, <1>6, <1>7, <1>8, <1>13 DEF Progress
<1> QED
  BY <1>9, <1>10, <1>11, <1>12, <1>13 DEF Next

\* The inductive invariant, for every set of peers and every limit: each
\* connection has the fields it is made with, a closed one owes nothing, and
\* requests and what is counted as requested agree.
THEOREM SyncInvariant == Spec => []IInv
BY InitIInv, NextIInv, PTL DEF Spec

\* _active_sync_requests holds exactly what the open connections owe, and no
\* two of them owe the same block: no block is lost for ever because a peer
\* that is gone still counts as bringing it, and none is asked of two peers.
THEOREM RequestsAreExact == Spec => []RequestsExact
<1>1. IInv => RequestsExact
  BY DEF IInv
<1> QED
  BY SyncInvariant, <1>1, PTL

-----------------------------------------------------------------------------
(***************************************************************************)
(* The lists of the peers, the blocks in progress and the chain hang       *)
(* together: blocks reach the chain parents first, and every synopsis      *)
(* starts from a block that the node has or is taking up.                  *)
(***************************************************************************)
BlockOrGenesis == Block \cup {Genesis}

-----------------------------------------------------------------------------
(***************************************************************************)
(* The tree: the path to a block leads through the paths of its ancestors. *)
(***************************************************************************)
PathOK(b) ==
    /\ path[b] \in Seq(Block) /\ path[b] # <<>>
    /\ path[b][Len(path[b])] = b
    /\ \A i \in 1 .. Len(path[b]) : path[path[b][i]] = SubSeq(path[b], 1, i)

TreeOK == \A b \in Block : PathOK(b)

\* Each block of a list but the first follows the one before it.
LinkedList(ids) == \A i \in 1 .. Len(ids) - 1 : Prev(ids[i + 1]) = ids[i]

Lists == { ids \in Seq(Block) : LinkedList(ids) }

-----------------------------------------------------------------------------
(***************************************************************************)
(* The node.                                                               *)
(***************************************************************************)
\* The chain has the parents of its blocks.
ChainOK ==
    /\ seen \subseteq Block /\ head \in seen /\ accepted \subseteq seen
    /\ \A b \in seen : Prev(b) \in seen \cup {Genesis}

Call == [block : Block, res : {"none", "ok", "rejected"}]

BlocksOf(calls) == { calls[i].block : i \in DOMAIN calls }

\* What the chain has answered, and that parents go first.
CallsOK(calls, known) ==
    /\ calls \in Seq(Call)
    /\ \A i \in DOMAIN calls :
          /\ calls[i].res = "ok" => calls[i].block \in known
          /\ calls[i].res = "rejected" => Refused(calls[i].block)
    /\ \A i \in DOMAIN calls :
          \/ Prev(calls[i].block) \in known
          \/ Refused(Prev(calls[i].block))
          \/ \E j \in 1 .. i - 1 : calls[j].block = Prev(calls[i].block)

Known == seen \cup {Genesis}

BuffersOK == fresh \in Seq(Block) /\ received \in Seq(Block)

-----------------------------------------------------------------------------
(***************************************************************************)
(* The peers.                                                              *)
(***************************************************************************)
\* The blocks that the chain knows or that were taken from the list of q.
Held(q, known) == known \cup q.processing

Typed(q) ==
    q.ids \in Lists /\ q.processing \subseteq Block /\ q.lastSeen \in BlockOrGenesis

\* The list of a peer, the blocks of it in progress and the block that it
\* starts from hang together.
ListOK(q, known, inProgress) ==
    /\ q.ids # <<>> => Prev(q.ids[1]) \in Held(q, known)
    /\ \A b \in q.processing : Prev(b) \in Held(q, known)
    /\ q.processing \subseteq inProgress
    /\ q.lastSeen \in Held(q, known)

BaseOK(q, known, inProgress) ==
    Typed(q) /\ (q.conn = "active" => ListOK(q, known, inProgress))

\* The synopsis that the peer has been sent names blocks that the node has
\* or has heard of from this peer.
AskedOK(q, known) ==
    /\ q.idsRequested \subseteq SUBSET BlockOrGenesis
    /\ q.conn = "active" => \A s \in q.idsRequested :
          s # {} /\ s \subseteq Held(q, known) \cup ToSet(q.ids)

PeerOK(q, known, inProgress) ==
    BaseOK(q, known, inProgress) /\ AskedOK(q, known)

PeersOK == \A p \in Peers : PeerOK(peer[p], Known, BlocksOf(handling))

Synopses == [type : {"fetch_ids"}, synopsis : SUBSET BlockOrGenesis]

Requests == Synopses \cup [type : {"fetch_items"}, ids : Seq(Block)]

Messages ==
    Synopses \cup [type : {"ids"}, ids : Lists, left : Int]
             \cup [type : {"block"}, ids : Seq(Block) \ {<<>>}]

MessagesOK ==
    /\ peerHead \in [Peers -> Block]
    /\ toPeer \in [Peers -> Seq(Requests)]
    /\ fromPeer \in [Peers -> Seq(Messages)]

OInv ==
    /\ IInv /\ TreeOK /\ ChainOK /\ CallsOK(handling, Known) /\ BuffersOK
    /\ PeersOK /\ MessagesOK

-----------------------------------------------------------------------------
(***************************************************************************)
(* Facts about the tree.                                                   *)
(***************************************************************************)
\* The blocks on the path to b and their numbers.
LEMMA OnPath ==
    ASSUME TreeOK, NEW b \in Block
    PROVE  /\ path[b] \in Seq(Block) /\ Num(b) \in Nat \ {0}
           /\ path[b][Num(b)] = b
           /\ \A i \in 1 .. Num(b) : /\ path[b][i] \in Block
                                     /\ Num(path[b][i]) = i
<1>1. PathOK(b)
  BY DEF TreeOK
<1>2. path[b] \in Seq(Block) /\ path[b] # <<>> /\ Len(path[b]) \in Nat \ {0}
  BY <1>1 DEF PathOK
<1>3. ASSUME NEW i \in 1 .. Num(b)
      PROVE  path[b][i] \in Block /\ Num(path[b][i]) = i
  <2>1. path[path[b][i]] = SubSeq(path[b], 1, i)
    BY <1>1, <1>3 DEF PathOK, Num
  <2>2. Len(SubSeq(path[b], 1, i)) = i /\ path[b][i] \in Block
    BY <1>2, <1>3 DEF Num
  <2> QED
    BY <2>1, <2>2 DEF Num
<1> QED
  BY <1>1, <1>2, <1>3 DEF PathOK, Num

\* The parents of the blocks on a path stand on it before them.
LEMMA PrevOnPath ==
    ASSUME TreeOK, NEW b \in Block, NEW i \in 1 .. Num(b)
    PROVE  Prev(path[b][i]) = IF i = 1 THEN Genesis ELSE path[b][i - 1]
<1> DEFINE c == path[b][i]
<1>1. path[b] \in Seq(Block) /\ Num(b) \in Nat \ {0} /\ Num(c) = i
  BY OnPath
<1>2. path[c] = SubSeq(path[b], 1, i)
  BY DEF TreeOK, PathOK, Num
<1>3. i > 1 => path[c][i - 1] = path[b][i - 1]
  BY <1>1, <1>2 DEF Num
<1> HIDE DEF c
<1>4. CASE i = 1
  BY <1>1, <1>4 DEF Prev, c
<1>5. CASE i > 1
  BY <1>1, <1>3, <1>5 DEF Prev, c
<1> QED
  BY <1>1, <1>4, <1>5

\* The chain to a block is the chain to its parent and the block.
LEMMA ChainStep ==
    ASSUME TreeOK, NEW b \in Block
    PROVE  /\ Prev(b) \in BlockOrGenesis
           /\ b \in ToSet(Chain(b))
           /\ ToSet(Chain(Prev(b))) \subseteq ToSet(Chain(b))
<1>1. /\ path[b] \in Seq(Block) /\ Num(b) \in Nat \ {0} /\ path[b][Num(b)] = b
      /\ \A i \in 1 .. Num(b) : path[b][i] \in Block
  BY OnPath
<1>2. b # Genesis /\ Chain(b) = path[b]
  BY DEF Chain, Block, Genesis
<1>3. b \in ToSet(Chain(b))
  BY <1>1, <1>2 DEF ToSet, Num
<1>4. CASE Num(b) <= 1
  <2>1. Prev(b) = Genesis
    BY <1>4 DEF Prev
  <2>2. ToSet(Chain(Genesis)) = {}
    BY DEF Chain, ToSet
  <2> QED
    BY <1>3, <2>1, <2>2 DEF BlockOrGenesis
<1>5. CASE Num(b) > 1
  <2> DEFINE c == path[b][Num(b) - 1]
  <2>1. c \in Block /\ Prev(b) = c
    BY <1>1, <1>5 DEF Prev
  <2>2. path[c] = SubSeq(path[b], 1, Num(b) - 1)
    BY <1>1, <1>5 DEF TreeOK, PathOK, Num
  <2>3. Chain(c) = path[c]
    BY <2>1 DEF Chain, Block, Genesis
  <2> HIDE DEF c
  <2>4. ToSet(path[c]) \subseteq ToSet(path[b])
    BY <1>1, <1>5, <2>2 DEF ToSet, Num
  <2> QED
    BY <1>2, <1>3, <2>1, <2>3, <2>4 DEF BlockOrGenesis
<1> QED
  BY <1>1, <1>4, <1>5

\* The chain to a block lies in every set that has the parents of its blocks.
LEMMA ChainWithin ==
    ASSUME TreeOK, NEW S, \A b \in S : b # Genesis => b \in Block /\ Prev(b) \in S,
           NEW x \in S
    PROVE  ToSet(Chain(x)) \subseteq S
<1>1. CASE x = Genesis
  BY <1>1 DEF Chain, ToSet
<1>2. CASE x # Genesis
  <2> DEFINE n == Num(x) - 1
             T == { k \in 0 .. n : path[x][Num(x) - k] \in S }
  <2>1. /\ x \in Block /\ path[x] \in Seq(Block) /\ Num(x) \in Nat \ {0}
        /\ path[x][Num(x)] = x
        /\ \A i \in 1 .. Num(x) : path[x][i] \in Block
    BY <1>2, OnPath
  <2>2. n \in Nat /\ 0 \in T
    BY <2>1
  <2>3. ASSUME NEW k \in 1 .. n, k - 1 \in T
        PROVE  k \in T
    <3> DEFINE i == Num(x) - (k - 1)
               c == path[x][i]
    <3>1. i \in 2 .. Num(x) /\ Num(x) - k = i - 1 /\ k \in 0 .. n
      BY <2>1
    <3>2. c \in S /\ c \in Block
      BY <2>1, <2>3, <3>1
    <3>3. Prev(c) = path[x][i - 1]
      BY <2>1, <3>1, PrevOnPath
    <3>4. Prev(c) \in S
      BY <3>2 DEF Block, Genesis
    <3> QED
      BY <3>1, <3>3, <3>4
  <2>4. 0 .. n \subseteq T
    <3> HIDE DEF T, n
    <3> QED
      BY <2>2, <2>3, IntervalInduction
  <2>5. ASSUME NEW i \in 1 .. Num(x)
        PROVE  path[x][i] \in S
    <3>1. Num(x) - i \in 0 .. n /\ Num(x) - (Num(x) - i) = i
      BY <2>1
    <3>2. Num(x) - i \in T
      BY <2>4, <3>1
    <3> QED
      BY <3>1, <3>2
  <2>6. Chain(x) = path[x]
    BY <1>2 DEF Chain
  <2> QED
    BY <2>1, <2>5, <2>6 DEF ToSet, Num
<1> QED
  BY <1>1, <1>2

\* Part of a chain is a linked list.
LEMMA ChainLinked ==
    ASSUME TreeOK, NEW x \in Block, NEW m \in 1 .. Num(x), NEW n \in Int, n <= Num(x)
    PROVE  SubSeq(Chain(x), m, n) \in Lists
<1> DEFINE s == SubSeq(path[x], m, n)
<1>1. path[x] \in Seq(Block) /\ Num(x) \in Nat \ {0} /\ Len(path[x]) = Num(x)
  BY OnPath DEF Num
<1>2. Chain(x) = path[x]
  BY DEF Chain, Block, Genesis
<1>3. CASE m <= n
  <2>1. /\ s \in Seq(Block) /\ Len(s) = n - m + 1
        /\ \A i \in 1 .. Len(s) : s[i] = path[x][m + i - 1]
    BY <1>1, <1>3
  <2> HIDE DEF s
  <2>2. ASSUME NEW i \in 1 .. Len(s) - 1
        PROVE  Prev(s[i + 1]) = s[i]
    <3> DEFINE j == m + i
    <3>1. /\ j \in 1 .. Num(x) /\ j # 1 /\ j - 1 = m + i - 1
          /\ i \in 1 .. Len(s) /\ i + 1 \in 1 .. Len(s) /\ m + (i + 1) - 1 = j
      BY <1>1, <1>3, <2>1
    <3>2. s[i] = path[x][j - 1] /\ s[i + 1] = path[x][j]
      BY <2>1, <3>1
    <3> HIDE DEF j
    <3>3. Prev(path[x][j]) = path[x][j - 1]
      BY <3>1, PrevOnPath
    <3> QED
      BY <3>2, <3>3
  <2> QED
    BY <1>2, <2>1, <2>2 DEF Lists, LinkedList, s
<1>4. CASE m > n
  <2>1. s = <<>>
    BY <1>1, <1>4
  <2> QED
    BY <1>2, <2>1 DEF Lists, LinkedList
<1> QED
  BY <1>1, <1>3, <1>4

\* The blocks that witnesses sign form a tree.
LEMMA TreeInitOK == TreeInit => TreeOK
<1> SUFFICES ASSUME NEW parent \in [Block -> 0 .. NumBlocks - 1],
                    \A b \in Block : parent[b] < b,
                    path = PathsOf(parent)
             PROVE  TreeOK
  BY DEF TreeInit
<1> DEFINE S == CHOOSE f : f = [i \in 0 .. NumBlocks |->
                   IF i = 0 THEN [b \in 0 .. NumBlocks |-> <<>>]
                   ELSE [f[i - 1] EXCEPT ![i] = Append(f[i - 1][parent[i]], i)]]
<1>1. path = S[NumBlocks]
  BY DEF PathsOf
<1>2. NumBlocks \in Nat /\ Parents(NumBlocks, parent)
  BY TreeAssumption DEF Parents, Block
<1>3. S[NumBlocks] \in [0 .. NumBlocks -> Seq(1 .. NumBlocks)]
      /\ PathsUpTo(S[NumBlocks], NumBlocks)
  <2>1. S = CHOOSE f : f = [i \in 0 .. NumBlocks |->
                   IF i = 0 THEN [b \in 0 .. NumBlocks |-> <<>>]
                   ELSE [f[i - 1] EXCEPT ![i] = Append(f[i - 1][parent[i]], i)]]
    OBVIOUS
  <2> HIDE DEF S
  <2> QED
    BY ONLY <1>2, <2>1, PathsOfTree, ZenonT(60)
<1> HIDE DEF S
<1>4. ASSUME NEW b \in Block
      PROVE  PathOK(b)
  <2>1. b \in 1 .. NumBlocks /\ b \in 0 .. NumBlocks
    BY <1>2 DEF Block
  <2>2. PathIn(path, b) /\ path[b] \in Seq(Block)
    BY <1>1, <1>3, <2>1 DEF PathsUpTo, Block
  <2> QED
    BY <2>2 DEF PathIn, PathOK
<1> QED
  BY <1>4 DEF TreeOK

-----------------------------------------------------------------------------
(***************************************************************************)
(* Synopses and replies.                                                   *)
(***************************************************************************)
\* A set of numbers up to n has a greatest and a least element.
LEMMA MaxMin ==
    ASSUME NEW n \in Nat, NEW S \in SUBSET (1 .. n), S # {}
    PROVE  /\ Max(S) \in S /\ \A y \in S : y <= Max(S)
           /\ Min(S) \in S /\ \A y \in S : Min(S) <= y
<1>1. S \in SUBSET (0 .. n)
  OBVIOUS
<1> QED
  BY <1>1, Extremes DEF Max, Min

\* A synopsis has numbers of the chain, the first one among them.
LEMMA SynopsisNumsOK ==
    ASSUME NEW m \in Nat
    PROVE  /\ SynopsisNums(m) \subseteq 1 .. m
           /\ m > 0 => 1 \in SynopsisNums(m)
<1> DEFINE n == m
           V == Int
           base == 1
           E(v, i) == v + (m - v + 2) \div 2
           F(f) == [i \in 0 .. n |-> IF i = 0 THEN base ELSE E(f[i - 1], i)]
           step == [i \in 1 .. n |-> [v \in V |-> E(v, i)]]
           S == CHOOSE f : f = F(f)
<1>1. n \in Nat /\ base \in V
  OBVIOUS
<1>2. ASSUME NEW i \in 1 .. n, NEW v \in V
      PROVE  E(v, i) \in V
  OBVIOUS
<1>3. S = CHOOSE f : f = F(f)
  OBVIOUS
<1>31. SynopsisNums(m) = { S[k] : k \in 0 .. m } \cap 1 .. m
  BY DEF SynopsisNums
<1> HIDE DEF S, n, V, base, E
<1>4. StepFunction(step, n, V)
  BY <1>2 DEF StepFunction
<1>5. \A i \in 1 .. n : \A v \in V : step[i][v] = E(v, i)
  OBVIOUS
<1> HIDE DEF step
<1>6. PICK g : Recursive(g, n, V, base, step)
  BY <1>1, <1>4, RecursionExists
<1>7. g = F(g)
  <2>1. \A i \in 1 .. n : g[i] = E(g[i - 1], i)
    BY <1>1, <1>5, <1>6 DEF Recursive
  <2>2. g = [i \in 0 .. n |-> g[i]] /\ g[0] = base
    BY <1>6 DEF Recursive
  <2>3. \A i \in 0 .. n : g[i] = IF i = 0 THEN base ELSE E(g[i - 1], i)
    <3> TAKE i \in 0 .. n
    <3>1. CASE i = 0
      BY <2>2, <3>1
    <3>2. CASE i \in 1 .. n
      BY <1>1, <2>1, <3>2
    <3> QED
      BY <1>1, <3>1, <3>2
  <2> QED
    BY <2>2, <2>3
<1>8. S = F(S)
  BY <1>3, <1>7
<1>9. \A i \in 0 .. n : S[i] = IF i = 0 THEN base ELSE E(S[i - 1], i)
  BY <1>8
<1>10. S = [i \in 0 .. n |-> S[i]]
  BY <1>8, <1>9
<1>11. S[0] = base /\ \A i \in 1 .. n : S[i] = E(S[i - 1], i)
  BY <1>1, <1>9
<1>12. Recursive(S, n, V, base, step)
  BY <1>1, <1>4, <1>5, <1>10, <1>11, RecursionTyped
<1>13. S[0] = 1 /\ 0 \in 0 .. m
  BY <1>11 DEF base
<1>14. m > 0 => 1 \in { S[k] : k \in 0 .. m } /\ 1 \in 1 .. m
  BY <1>13
<1> QED
  BY <1>31, <1>14

\* The chain that a synopsis is made of.
Reference(q) == IF q.lastSeen = Genesis THEN head ELSE q.lastSeen

\* A synopsis names blocks of the chain to its reference point and of the
\* list of the peer, and at least one.
LEMMA SynopsisForIs ==
    ASSUME TreeOK, head \in Block, NEW q, Typed(q)
    PROVE  /\ SynopsisFor(q) # {}
           /\ SynopsisFor(q) \subseteq ToSet(Chain(Reference(q))) \cup ToSet(q.ids)
<1> DEFINE chain == Chain(Reference(q))
           more == Len(q.ids)
<1>1. Reference(q) \in Block /\ more \in Nat
  BY DEF Typed, Lists, Reference, BlockOrGenesis
<1>2. chain = path[Reference(q)]
  BY <1>1 DEF Chain, Block, Genesis
<1>3. chain \in Seq(Block) /\ Len(chain) \in Nat \ {0}
  BY <1>1, <1>2, OnPath DEF Num
<1>4. GetSynopsis(q.lastSeen, more) = Synopsis(chain, more)
  BY DEF GetSynopsis, Reference
<1> HIDE DEF chain
<1>5. 1 \in SynopsisNums(Len(chain) + more)
  BY <1>1, <1>3, SynopsisNumsOK
<1>6. Synopsis(chain, more) \subseteq ToSet(chain)
  BY DEF Synopsis, ToSet
<1>7. chain[1] \in Synopsis(chain, more)
  BY <1>3, <1>5 DEF Synopsis
<1>8. /\ Synopsis(chain, more) \subseteq SynopsisFor(q)
      /\ SynopsisFor(q) \subseteq Synopsis(chain, more) \cup ToSet(q.ids)
  BY <1>4 DEF SynopsisFor, ToSet
<1> QED
  BY <1>6, <1>7, <1>8 DEF chain

\* The synopsis of a peer's own chain.
LEMMA SynopsisTyped ==
    ASSUME TreeOK, NEW b \in Block, NEW more
    PROVE  Synopsis(Chain(b), more) \subseteq Block
<1>1. Chain(b) \in Seq(Block)
  BY OnPath DEF Chain
<1> QED
  BY <1>1 DEF Synopsis

\* The reply to a synopsis is a linked list.
LEMMA GetBlockIdsOK ==
    ASSUME TreeOK, NEW h \in Block, NEW s
    PROVE  GetBlockIds(h, s) \in [type : {"ids"}, ids : Lists, left : Int]
<1> DEFINE chain == Chain(h)
           common == s \cap ToSet(chain)
           nums == { Num(b) : b \in common }
           first == IF s = {} THEN 1 ELSE Max(nums)
           last == Min({Len(chain), first + IdLimit - 1})
<1>1. chain \in Seq(Block) /\ Len(chain) = Num(h) /\ Num(h) \in Nat \ {0}
  BY OnPath DEF Chain, Block, Genesis, Num
<1>2. <<>> \in Lists
  BY DEF Lists, LinkedList
<1>3. CASE s # {} /\ common = {}
  BY <1>2, <1>3 DEF GetBlockIds, IdsReply
<1>4. CASE ~ (s # {} /\ common = {})
  <2>1. first \in 1 .. Num(h)
    <3>1. CASE s = {}
      BY <1>1, <3>1
    <3>2. CASE s # {}
      <4>1. nums \in SUBSET (1 .. Num(h))
        <5> SUFFICES ASSUME NEW b \in common
                     PROVE  Num(b) \in 1 .. Num(h)
          OBVIOUS
        <5>1. PICK i \in 1 .. Num(h) : b = path[h][i]
          BY <1>1 DEF ToSet, Chain, Block, Genesis
        <5> QED
          BY <5>1, OnPath
      <4>2. nums # {}
        BY <1>4, <3>2
      <4> HIDE DEF nums
      <4>3. Max(nums) \in nums
        BY <1>1, <4>1, <4>2, MaxMin
      <4> QED
        BY <3>2, <4>1, <4>3
    <3> QED
      BY <3>1, <3>2
  <2> HIDE DEF first
  <2>2. last \in Int /\ last <= Num(h)
    <3> DEFINE a == Len(chain)
               c == first + IdLimit - 1
    <3>1. a = Num(h) /\ a \in Nat /\ c \in Int
      BY <1>1, <2>1, BlockSyncAssumption
    <3> HIDE DEF a, c
    <3>2. \E x \in {a, c} : \A y \in {a, c} : x =< y
      BY <3>1
    <3>3. Min({a, c}) \in {a, c} /\ Min({a, c}) <= a
      BY <3>2 DEF Min
    <3> QED
      BY <3>1, <3>3 DEF a, c
  <2>3. SubSeq(chain, first, last) \in Lists
    BY <2>1, <2>2, ChainLinked
  <2>4. Len(chain) - last \in Int
    BY <1>1, <2>2
  <2>5. chain # <<>>
    BY <1>1
  <2>6. GetBlockIds(h, s) = IdsReply(SubSeq(chain, first, last), Len(chain) - last)
    BY <1>4, <2>5 DEF GetBlockIds, first
  <2> HIDE DEF chain, last
  <2> QED
    BY <2>3, <2>4, <2>6 DEF IdsReply
<1> QED
  BY <1>3, <1>4

-----------------------------------------------------------------------------
(***************************************************************************)
(* What the node does to one connection.                                   *)
(***************************************************************************)
\* The fields of a connection that matter here.
Fields(r, conn, ids, processing, lastSeen, idsRequested) ==
    /\ Connection(r)
    /\ r.conn = conn /\ r.ids = ids /\ r.processing = processing
    /\ r.lastSeen = lastSeen /\ r.idsRequested = idsRequested

\* The fields after one of them is set.
LEMMA FieldsSet ==
    ASSUME NEW q, Connection(q), NEW x
    PROVE  /\ Fields([q EXCEPT !.conn = x], x, q.ids, q.processing,
                     q.lastSeen, q.idsRequested)
           /\ Fields([q EXCEPT !.ids = x], q.conn, x, q.processing,
                     q.lastSeen, q.idsRequested)
           /\ Fields([q EXCEPT !.processing = x], q.conn, q.ids, x,
                     q.lastSeen, q.idsRequested)
           /\ Fields([q EXCEPT !.lastSeen = x], q.conn, q.ids, q.processing,
                     x, q.idsRequested)
           /\ Fields([q EXCEPT !.idsRequested = x], q.conn, q.ids, q.processing,
                     q.lastSeen, x)
BY DEF Fields, Connection

\* The same connection, as far as it matters here.
Alike(q, r) == Fields(r, q.conn, q.ids, q.processing, q.lastSeen, q.idsRequested)

\* The other fields.
LEMMA OthersSet ==
    ASSUME NEW q, Connection(q), NEW x
    PROVE  /\ Alike(q, [q EXCEPT !.unfetched = x])
           /\ Alike(q, [q EXCEPT !.weNeed = x])
           /\ Alike(q, [q EXCEPT !.peerNeeds = x])
           /\ Alike(q, [q EXCEPT !.requested = x])
BY DEF Alike, Fields, Connection

\* A connection is as good as one that is like it.
LEMMA AlikeOK ==
    ASSUME NEW q, NEW r, Alike(q, r), NEW known, NEW calls
    PROVE  /\ BaseOK(q, known, calls) => BaseOK(r, known, calls)
           /\ PeerOK(q, known, calls) => PeerOK(r, known, calls)
BY DEF Alike, Fields, PeerOK, BaseOK, AskedOK, ListOK, Typed, Held

\* The chain, as the connections see it.
ContextOK(known, calls) ==
    /\ TreeOK
    /\ head \in Block /\ head \in known /\ Genesis \in known
    /\ \A b \in known : b # Genesis => b \in Block /\ Prev(b) \in known
    /\ calls \subseteq Block

\* What is held has its parents.
LEMMA HeldClosed ==
    ASSUME NEW known, NEW calls, ContextOK(known, calls),
           NEW q, ListOK(q, known, calls), NEW b \in Held(q, known), b # Genesis
    PROVE  b \in Block /\ Prev(b) \in Held(q, known)
BY DEF ContextOK, ListOK, Held

\* The synopsis made for a peer names what is held or stands in its list.
LEMMA SynopsisHeld ==
    ASSUME NEW known, NEW calls, ContextOK(known, calls),
           NEW q, BaseOK(q, known, calls)
    PROVE  /\ SynopsisFor(q) # {}
           /\ SynopsisFor(q) \in SUBSET BlockOrGenesis
           /\ q.conn = "active" =>
                 SynopsisFor(q) \subseteq Held(q, known) \cup ToSet(q.ids)
<1> DEFINE ref == Reference(q)
<1>1. TreeOK /\ head \in Block /\ Typed(q)
  BY DEF ContextOK, BaseOK
<1>2. /\ SynopsisFor(q) # {}
      /\ SynopsisFor(q) \subseteq ToSet(Chain(ref)) \cup ToSet(q.ids)
  BY <1>1, SynopsisForIs
<1>3. ref \in Block /\ q.ids \in Seq(Block)
  BY <1>1 DEF Typed, Lists, Reference, BlockOrGenesis
<1>4. ToSet(Chain(ref)) \subseteq Block
  <2>1. Chain(ref) \in Seq(Block)
    BY <1>1, <1>3, OnPath DEF Chain
  <2> HIDE DEF ref
  <2> QED
    BY <2>1 DEF ToSet
<1>5. ToSet(q.ids) \subseteq Block
  BY <1>3 DEF ToSet
<1>6. ASSUME q.conn = "active"
      PROVE  ToSet(Chain(ref)) \subseteq Held(q, known)
  <2>1. ListOK(q, known, calls)
    BY <1>6 DEF BaseOK
  <2>2. ref \in Held(q, known)
    BY <2>1 DEF ListOK, Held, ContextOK, Reference
  <2>3. \A b \in Held(q, known) : b # Genesis => b \in Block /\ Prev(b) \in Held(q, known)
    BY <2>1, HeldClosed
  <2> HIDE DEF ref
  <2> QED
    BY <1>1, <2>2, <2>3, ChainWithin
<1> HIDE DEF ref
<1> QED
  BY <1>2, <1>4, <1>5, <1>6 DEF BlockOrGenesis

\* fetch_next_batch_of_item_ids_from_peer(): the synopsis that goes out.
LEMMA FetchNextBatchOK ==
    ASSUME NEW known, NEW calls, ContextOK(known, calls),
           NEW q, Connection(q), BaseOK(q, known, calls)
    PROVE  /\ PeerOK(FetchNextBatch(q), known, calls)
           /\ FetchNextBatch(q).idsRequested = {SynopsisFor(q)}
           /\ SynopsisFor(q) \in SUBSET BlockOrGenesis
<1> DEFINE s == SynopsisFor(q)
           r == FetchNextBatch(q)
<1>1. /\ s # {} /\ s \in SUBSET BlockOrGenesis
      /\ q.conn = "active" => s \subseteq Held(q, known) \cup ToSet(q.ids)
  BY SynopsisHeld
<1>2. Fields(r, q.conn, q.ids, q.processing, q.lastSeen, {s})
  BY FieldsSet DEF FetchNextBatch
<1> HIDE DEF s, r
<1>3. BaseOK(r, known, calls)
  BY <1>2 DEF Fields, BaseOK, Typed, ListOK, Held
<1>4. AskedOK(r, known)
  BY <1>1, <1>2 DEF Fields, AskedOK, Held
<1> QED
  BY <1>1, <1>2, <1>3, <1>4 DEF Fields, PeerOK, r, s

\* start_synchronizing_with_peer(): an empty list is linked to anything.
LEMMA StartSynchronizingOK ==
    ASSUME NEW known, NEW calls, ContextOK(known, calls),
           NEW q, Connection(q), BaseOK(q, known, calls)
    PROVE  LET r == StartSynchronizing(q)
           IN  /\ PeerOK(r, known, calls)
               /\ \E s \in SUBSET BlockOrGenesis : r.idsRequested = {s}
<1> DEFINE a == [q EXCEPT !.ids = <<>>]
           b == [a EXCEPT !.unfetched = 0]
           c == [b EXCEPT !.weNeed = TRUE]
           d == [c EXCEPT !.lastSeen = Genesis]
<1>1. [q EXCEPT !.ids = <<>>, !.unfetched = 0, !.weNeed = TRUE,
                !.lastSeen = Genesis] = d
  OBVIOUS
<1>2. StartSynchronizing(q) = FetchNextBatch(d)
  BY <1>1 DEF StartSynchronizing
<1>3. Fields(a, q.conn, <<>>, q.processing, q.lastSeen, q.idsRequested)
  BY FieldsSet
<1> HIDE DEF a
<1>4. Alike(a, b) /\ Connection(b)
  BY <1>3, OthersSet DEF Fields, Alike
<1> HIDE DEF b
<1>5. Alike(b, c) /\ Connection(c)
  BY <1>4, OthersSet DEF Fields, Alike
<1> HIDE DEF c
<1>6. Fields(d, c.conn, c.ids, c.processing, Genesis, c.idsRequested)
  BY <1>5, FieldsSet
<1> HIDE DEF d
<1>7. /\ Connection(d) /\ d.conn = q.conn /\ d.ids = <<>>
      /\ d.processing = q.processing /\ d.lastSeen = Genesis
  BY <1>3, <1>4, <1>5, <1>6 DEF Fields, Alike
<1>8. <<>> \in Lists
  BY DEF Lists, LinkedList
<1>9. BaseOK(d, known, calls)
  BY <1>7, <1>8 DEF BaseOK, Typed, ListOK, Held, ContextOK, BlockOrGenesis
<1>10. /\ PeerOK(FetchNextBatch(d), known, calls)
       /\ FetchNextBatch(d).idsRequested = {SynopsisFor(d)}
       /\ SynopsisFor(d) \in SUBSET BlockOrGenesis
  BY <1>7, <1>9, FetchNextBatchOK
<1> QED
  BY <1>2, <1>10

\* disconnect_from_peer(): its list does not count any more.
LEMMA DisconnectOK ==
    ASSUME NEW known, NEW calls, NEW more, NEW others,
           NEW q, Connection(q), PeerOK(q, known, calls)
    PROVE  /\ PeerOK(Disconnect(q), known, calls)
           /\ q.conn = "active" => PeerOK(Disconnect(q), more, others)
<1>1. CASE q.conn = "active"
  <2> DEFINE r == [q EXCEPT !.conn = "leaving"]
  <2>1. Disconnect(q) = r /\ Fields(r, "leaving", q.ids, q.processing, q.lastSeen, q.idsRequested)
    BY <1>1, FieldsSet DEF Disconnect
  <2> HIDE DEF r
  <2> QED
    BY <2>1 DEF Fields, PeerOK, BaseOK, AskedOK, Typed
<1>2. CASE q.conn # "active"
  BY <1>2 DEF Disconnect
<1> QED
  BY <1>1, <1>2

\* A new connection, open or closed, has nothing to it.
LEMMA NewConnectionOK ==
    ASSUME NEW known, NEW calls, Genesis \in known
    PROVE  /\ Connection(NewConnection) /\ PeerOK(NewConnection, known, calls)
           /\ PeerOK([NewConnection EXCEPT !.conn = "closed"], known, calls)
<1> DEFINE q == NewConnection
           r == [q EXCEPT !.conn = "closed"]
<1>1. /\ Connection(q) /\ q.ids = <<>> /\ q.processing = {} /\ q.lastSeen = Genesis
      /\ q.idsRequested = {}
  BY DEF NewConnection, Connection
<1> HIDE DEF q
<1>2. Fields(r, "closed", <<>>, {}, Genesis, {})
  BY <1>1, FieldsSet
<1> HIDE DEF r
<1>3. <<>> \in Lists
  BY DEF Lists, LinkedList
<1>4. PeerOK(q, known, calls)
  BY <1>1, <1>3 DEF PeerOK, BaseOK, AskedOK, Typed, ListOK, Held, BlockOrGenesis
<1>5. PeerOK(r, known, calls)
  BY <1>2, <1>3 DEF Fields, PeerOK, BaseOK, AskedOK, Typed, BlockOrGenesis
<1> QED
  BY <1>1, <1>4, <1>5 DEF q, r

\* The rest of a list is a list, and follows what comes before.
LEMMA ListRest ==
    ASSUME NEW ids \in Lists, NEW k \in 0 .. Len(ids)
    PROVE  LET r == SubSeq(ids, k + 1, Len(ids))
           IN  /\ r \in Lists
               /\ k = 0 => r = ids
               /\ r # <<>> /\ k > 0 => Prev(r[1]) = ids[k]
<1> DEFINE r == SubSeq(ids, k + 1, Len(ids))
<1>1. ids \in Seq(Block) /\ Len(ids) \in Nat /\ LinkedList(ids)
  BY DEF Lists
<1>2. /\ r \in Seq(Block) /\ Len(r) = Len(ids) - k
      /\ \A i \in 1 .. Len(r) : r[i] = ids[k + i]
  BY <1>1
<1>3. k = 0 => r = ids
  BY <1>1
<1> HIDE DEF r
<1>4. ASSUME NEW i \in 1 .. Len(r) - 1
      PROVE  Prev(r[i + 1]) = r[i]
  <2> DEFINE j == k + i
  <2>1. /\ j \in 1 .. Len(ids) - 1 /\ i \in 1 .. Len(r) /\ i + 1 \in 1 .. Len(r)
        /\ k + (i + 1) = j + 1
    BY <1>1, <1>2
  <2>2. r[i] = ids[j] /\ r[i + 1] = ids[j + 1]
    BY <1>2, <2>1
  <2> HIDE DEF j
  <2> QED
    BY <1>1, <2>1, <2>2 DEF LinkedList
<1>5. ASSUME r # <<>>, k > 0
      PROVE  Prev(r[1]) = ids[k]
  <2>1. Len(r) > 0
    BY <1>2, <1>5
  <2>2. 1 \in 1 .. Len(r) /\ k \in 1 .. Len(ids) - 1
    BY <1>1, <1>2, <1>5, <2>1
  <2> QED
    BY <1>1, <1>2, <2>2 DEF LinkedList
<1> QED
  BY <1>2, <1>3, <1>4, <1>5 DEF Lists, LinkedList, r

\* The tail of a list.
LEMMA ListTail ==
    ASSUME NEW ids \in Lists, ids # <<>>
    PROVE  /\ Tail(ids) \in Lists /\ ids[1] \in Block
           /\ Tail(ids) # <<>> => Prev(Tail(ids)[1]) = ids[1]
           /\ ToSet(ids) = {ids[1]} \cup ToSet(Tail(ids))
<1>1. ids \in Seq(Block) /\ Len(ids) \in Nat \ {0} /\ LinkedList(ids)
  BY DEF Lists
<1>2. 1 \in 0 .. Len(ids) /\ 1 > 0 /\ 1 + 1 = 2
  BY <1>1
<1>3. Tail(ids) = SubSeq(ids, 2, Len(ids))
  BY <1>1
<1>4. /\ Tail(ids) \in Lists
      /\ Tail(ids) # <<>> => Prev(Tail(ids)[1]) = ids[1]
  <2> DEFINE r == SubSeq(ids, 1 + 1, Len(ids))
  <2>1. r \in Lists /\ (r # <<>> /\ 1 > 0 => Prev(r[1]) = ids[1])
    BY <1>2, ListRest
  <2>2. Tail(ids) = r
    BY <1>2, <1>3
  <2> HIDE DEF r
  <2> QED
    BY <1>2, <2>1, <2>2
<1>5. /\ Tail(ids) \in Seq(Block) /\ Len(Tail(ids)) = Len(ids) - 1
      /\ \A i \in 1 .. Len(ids) - 1 : Tail(ids)[i] = ids[i + 1]
  BY <1>1
<1>6. ToSet(ids) = {ids[1]} \cup ToSet(Tail(ids))
  <2> DEFINE t == Tail(ids)
  <2>1. ToSet(ids) = { ids[i] : i \in 1 .. Len(ids) } /\ ToSet(t) = { t[i] : i \in 1 .. Len(t) }
    <3>1. DOMAIN ids = 1 .. Len(ids)
      BY <1>1
    <3> HIDE DEF t
    <3>2. DOMAIN t = 1 .. Len(t)
      BY <1>5 DEF t
    <3> QED
      BY <3>1, <3>2 DEF ToSet
  <2>2. ASSUME NEW i \in 1 .. Len(ids)
        PROVE  ids[i] = ids[1] \/ \E j \in 1 .. Len(t) : t[j] = ids[i]
    <3>1. CASE i = 1
      BY <3>1
    <3>2. CASE i > 1
      <4>1. i - 1 \in 1 .. Len(t) /\ i - 1 \in 1 .. Len(ids) - 1 /\ (i - 1) + 1 = i
        BY <1>1, <1>5, <3>2
      <4>2. t[i - 1] = ids[i]
        BY <1>5, <4>1
      <4> QED
        BY <4>1, <4>2
    <3> QED
      BY <1>1, <3>1, <3>2
  <2>3. ASSUME NEW j \in 1 .. Len(t)
        PROVE  \E i \in 1 .. Len(ids) : ids[i] = t[j]
    <3>1. j + 1 \in 1 .. Len(ids) /\ t[j] = ids[j + 1]
      BY <1>1, <1>5
    <3> QED
      BY <3>1
  <2>4. 1 \in 1 .. Len(ids)
    BY <1>1
  <2> HIDE DEF t
  <2> QED
    BY <2>1, <2>2, <2>3, <2>4, SMTT(30) DEF t
<1> QED
  BY <1>1, <1>4, <1>6

\* The elements of a concatenation.
LEMMA ListConcat ==
    ASSUME NEW S, NEW a \in Seq(S), NEW ids \in Seq(S)
    PROVE  /\ a \o ids \in Seq(S) /\ Len(a \o ids) = Len(a) + Len(ids)
           /\ \A i \in 1 .. Len(a) : (a \o ids)[i] = a[i]
           /\ \A i \in Len(a) + 1 .. Len(a \o ids) :
                (a \o ids)[i] = ids[i - Len(a)]
<1>1. a \o ids \in Seq(S)
  OBVIOUS
<1>2. Len(a \o ids) = Len(a) + Len(ids)
  OBVIOUS
<1>3. \A i \in 1 .. Len(a) : (a \o ids)[i] = a[i]
  OBVIOUS
<1>4. \A i \in Len(a) + 1 .. Len(a) + Len(ids) : (a \o ids)[i] = ids[i - Len(a)]
  OBVIOUS
<1> QED
  BY <1>1, <1>2, <1>3, <1>4

\* A list that goes on from a block of another one.
LEMMA ListJoin ==
    ASSUME NEW old \in Lists, NEW ids \in Lists, ids # <<>>,
           NEW j \in 1 .. Len(old), old[j] = ids[1]
    PROVE  LET r == SubSeq(old, 1, j - 1) \o ids
           IN  r \in Lists /\ Prev(r[1]) = Prev(old[1])
<1> DEFINE a == SubSeq(old, 1, j - 1)
           r == a \o ids
<1>1. /\ old \in Seq(Block) /\ Len(old) \in Nat /\ LinkedList(old)
      /\ ids \in Seq(Block) /\ Len(ids) \in Nat \ {0} /\ LinkedList(ids)
  BY DEF Lists
<1>2. /\ a \in Seq(Block) /\ Len(a) = j - 1
      /\ \A i \in 1 .. Len(a) : a[i] = old[i]
  BY <1>1
<1> HIDE DEF a
<1>3. /\ r \in Seq(Block) /\ Len(r) = Len(a) + Len(ids)
      /\ \A i \in 1 .. Len(a) : r[i] = a[i]
      /\ \A i \in Len(a) + 1 .. Len(r) : r[i] = ids[i - Len(a)]
  BY <1>1, <1>2, ListConcat
<1> HIDE DEF r
<1>4. \A i \in 1 .. j : r[i] = old[i]
  <2> TAKE i \in 1 .. j
  <2>1. CASE i <= Len(a)
    BY <1>1, <1>2, <1>3, <2>1
  <2>2. CASE i = j
    <3>1. j \in Len(a) + 1 .. Len(r) /\ j - Len(a) = 1
      BY <1>1, <1>2, <1>3
    <3> QED
      BY <1>3, <2>2, <3>1
  <2> QED
    BY <1>1, <1>2, <2>1, <2>2
<1>5. ASSUME NEW i \in 1 .. Len(r) - 1
      PROVE  Prev(r[i + 1]) = r[i]
  <2>1. CASE i < j
    <3>1. i \in 1 .. j /\ i + 1 \in 1 .. j /\ i \in 1 .. Len(old) - 1
      BY <1>1, <2>1
    <3> QED
      BY <1>1, <1>4, <3>1 DEF LinkedList
  <2>2. CASE i >= j
    <3> DEFINE k == i - Len(a)
    <3>1. /\ i \in Len(a) + 1 .. Len(r) /\ i + 1 \in Len(a) + 1 .. Len(r)
          /\ k \in 1 .. Len(ids) - 1 /\ (i + 1) - Len(a) = k + 1
      BY <1>1, <1>2, <1>3, <2>2, SMTT(30)
    <3>2. r[i] = ids[k] /\ r[i + 1] = ids[k + 1]
      BY <1>3, <3>1
    <3> HIDE DEF k
    <3> QED
      BY <1>1, <3>1, <3>2 DEF LinkedList
  <2> QED
    BY <1>1, <2>1, <2>2
<1>6. r[1] = old[1]
  BY <1>1, <1>4
<1> QED
  BY <1>3, <1>5, <1>6 DEF Lists, LinkedList, r, a

\* A synopsis that an active peer can have been sent.
SynopsisOK(q, s) ==
    q.conn = "active" => s # {} /\ s \subseteq Held(q, Known) \cup ToSet(q.ids)

\* on_blockchain_item_ids_inventory_message(): the list that a reply leaves,
\* when it starts at a block of the synopsis that was sent.
LEMMA MergedListOK ==
    ASSUME NEW calls, ContextOK(Known, calls), NEW p, NEW q, Connection(q),
           BaseOK(q, Known, calls), NEW ids \in Lists,
           NEW s, SynopsisOK(q, s), ValidReply(s, ids)
    PROVE  /\ BaseOK(MergedList(p, q, ids), Known, calls)
           /\ MergedList(p, q, ids).idsRequested = q.idsRequested
           /\ Connection(MergedList(p, q, ids))
<1>1. CASE ids = <<>>
  BY <1>1 DEF MergedList
<1>2. CASE ids # <<>>
  <2> DEFINE fresher == { i \in 1 .. Len(ids) : ids[i] \notin seen }
             elsewhere == \E o \in Active \ {p} :
                             peer[o].ids # <<>> /\ peer[o].ids[1] = ids[1]
             skip == IF elsewhere THEN 0
                     ELSE IF fresher = {} THEN Len(ids) ELSE Min(fresher) - 1
             joint == { i \in 1 .. Len(q.ids) : q.ids[i] = ids[1] }
             m == MergedList(p, q, ids)
             active1 == q.conn = "active"
  <2>1. /\ ids \in Seq(Block) /\ Len(ids) \in Nat \ {0} /\ 1 \in 1 .. Len(ids)
        /\ ids[1] \in Block
    BY <1>2 DEF Lists
  <2>2. /\ q.ids \in Lists /\ q.lastSeen \in BlockOrGenesis /\ q.ids \in Seq(Block)
        /\ q.processing \subseteq Block
    BY DEF BaseOK, Typed, Lists
  <2>3. ASSUME active1
        PROVE  ids[1] \in Held(q, Known) \cup ToSet(q.ids)
    BY <1>2, <2>3 DEF ValidReply, SynopsisOK
  <2>4. CASE q.ids = <<>>
    <3> DEFINE rest == SubSeq(ids, skip + 1, Len(ids))
               last == IF skip = 0 THEN q.lastSeen ELSE ids[skip]
               a == [q EXCEPT !.ids = rest]
    <3>1. skip \in 0 .. Len(ids) /\ (skip > 0 => ids[skip] \in seen)
      <4>1. CASE fresher = {}
        BY <2>1, <4>1
      <4>2. CASE fresher # {}
        <5>1. fresher \in SUBSET (1 .. Len(ids))
          OBVIOUS
        <5>2. /\ Min(fresher) \in 1 .. Len(ids)
              /\ \A i \in 1 .. Len(ids) : ids[i] \notin seen => Min(fresher) <= i
          <6> HIDE DEF fresher
          <6>1. Min(fresher) \in fresher /\ \A y \in fresher : Min(fresher) <= y
            BY <2>1, <4>2, <5>1, MaxMin
          <6> USE DEF fresher
          <6> QED
            BY <6>1
        <5> DEFINE l == Min(fresher)
        <5>3. skip = 0 \/ skip = l - 1
          BY <4>2
        <5> HIDE DEF l, skip, fresher
        <5> QED
          BY <2>1, <5>2, <5>3 DEF l
      <4> QED
        BY <4>1, <4>2
    <3>2. m = [a EXCEPT !.lastSeen = last]
      BY <1>2, <2>4 DEF MergedList
    <3>3. /\ rest \in Lists
          /\ skip = 0 => rest = ids
          /\ rest # <<>> /\ skip > 0 => Prev(rest[1]) = ids[skip]
      <4> HIDE DEF skip
      <4> QED
        BY <3>1, ListRest
    <3> HIDE DEF rest, skip, last
    <3>4. Fields(a, q.conn, rest, q.processing, q.lastSeen, q.idsRequested)
      BY FieldsSet
    <3> HIDE DEF a
    <3>5. Fields(m, q.conn, rest, q.processing, last, q.idsRequested)
      <4> DEFINE d == [a EXCEPT !.lastSeen = last]
      <4>1. Connection(a)
        BY <3>4 DEF Fields
      <4>2. Fields(d, a.conn, a.ids, a.processing, last, a.idsRequested)
        BY <4>1, FieldsSet
      <4> HIDE DEF m, d
      <4> QED
        BY <3>2, <3>4, <4>2 DEF Fields, d
    <3>6. last \in BlockOrGenesis /\ (skip > 0 => last \in Known)
      BY <2>1, <2>2, <3>1 DEF last, BlockOrGenesis, Known
    <3>7. Typed(m)
      BY <2>2, <3>3, <3>5, <3>6 DEF Fields, Typed
    <3>8. ASSUME active1
          PROVE  ListOK(m, Known, calls)
      <4>1. ListOK(q, Known, calls) /\ q.lastSeen \in Held(q, Known)
        BY <3>8 DEF BaseOK, ListOK
      <4>2. last \in Held(q, Known)
        <5>1. CASE skip = 0
          BY <4>1, <5>1 DEF last
        <5>2. CASE skip > 0
          BY <3>6, <5>2 DEF Held
        <5> QED
          BY <3>1, <5>1, <5>2
      <4>3. ids[1] \in Held(q, Known)
        BY <2>3, <2>4, <3>8 DEF ToSet
      <4>4. Prev(ids[1]) \in Held(q, Known)
        BY <2>1, <4>1, <4>3, HeldClosed DEF Block, Genesis
      <4>5. rest # <<>> => Prev(rest[1]) \in Held(q, Known)
        <5>1. CASE skip = 0
          BY <3>3, <4>4, <5>1
        <5>2. CASE skip > 0
          BY <3>1, <3>3, <5>2 DEF Held, Known
        <5> QED
          BY <3>1, <5>1, <5>2
      <4> QED
        BY <3>5, <4>1, <4>2, <4>5 DEF Fields, ListOK, Held
    <3> HIDE DEF m
    <3> QED
      BY <3>5, <3>7, <3>8 DEF BaseOK, Fields, m
  <2>5. CASE q.ids # <<>> /\ joint # {}
    <3> DEFINE j == Max(joint)
               list == SubSeq(q.ids, 1, j - 1) \o ids
    <3>1. j \in 1 .. Len(q.ids) /\ q.ids[j] = ids[1]
      <4>1. joint \in SUBSET (1 .. Len(q.ids)) /\ Len(q.ids) \in Nat
        BY <2>2
      <4>2. j \in joint
        <5> HIDE DEF joint
        <5> QED
          BY <2>5, <4>1, MaxMin
      <4> QED
        BY <4>2
    <3>2. m = [q EXCEPT !.ids = list]
      BY <1>2, <2>5 DEF MergedList
    <3> HIDE DEF j
    <3>3. list \in Lists /\ Prev(list[1]) = Prev(q.ids[1])
      BY <1>2, <2>2, <3>1, ListJoin
    <3> HIDE DEF list
    <3>4. Fields(m, q.conn, list, q.processing, q.lastSeen, q.idsRequested)
      BY <3>2, FieldsSet
    <3> HIDE DEF m
    <3>5. BaseOK(m, Known, calls)
      BY <2>2, <2>5, <3>3, <3>4 DEF Fields, BaseOK, Typed, ListOK, Held
    <3> QED
      BY <3>4, <3>5 DEF Fields, m
  <2>6. CASE q.ids # <<>> /\ joint = {}
    <3> DEFINE rest == Tail(ids)
               a == [q EXCEPT !.ids = rest]
    <3>1. m = [a EXCEPT !.lastSeen = ids[1]]
      BY <1>2, <2>6 DEF MergedList
    <3>2. rest \in Lists /\ (rest # <<>> => Prev(rest[1]) = ids[1])
      BY <1>2, ListTail
    <3> HIDE DEF rest
    <3>3. Fields(a, q.conn, rest, q.processing, q.lastSeen, q.idsRequested)
      BY FieldsSet
    <3> HIDE DEF a
    <3>4. Fields(m, q.conn, rest, q.processing, ids[1], q.idsRequested)
      <4> DEFINE d == [a EXCEPT !.lastSeen = ids[1]]
      <4>1. Connection(a)
        BY <3>3 DEF Fields
      <4>2. Fields(d, a.conn, a.ids, a.processing, ids[1], a.idsRequested)
        BY <4>1, FieldsSet
      <4> HIDE DEF m, d
      <4> QED
        BY <3>1, <3>3, <4>2 DEF Fields, d
    <3>5. ids[1] \notin ToSet(q.ids)
      BY <2>2, <2>6 DEF ToSet
    <3>6. active1 => ids[1] \in Held(q, Known)
      BY <2>3, <3>5
    <3> HIDE DEF m
    <3>7. BaseOK(m, Known, calls)
      BY <2>1, <3>2, <3>4, <3>6 DEF Fields, BaseOK, Typed, ListOK, Held, BlockOrGenesis
    <3> QED
      BY <3>4, <3>7 DEF Fields, m
  <2> QED
    BY <2>4, <2>5, <2>6
<1> QED
  BY <1>1, <1>2

-----------------------------------------------------------------------------
(***************************************************************************)
(* What a step has to show.                                                *)
(***************************************************************************)
\* The calls to the chain.
LEMMA CallsAre ==
    ASSUME NEW calls \in Seq(Call)
    PROVE  /\ DOMAIN calls = 1 .. Len(calls) /\ Len(calls) \in Nat
           /\ \A i \in 1 .. Len(calls) :
                 calls[i].block \in Block /\ calls[i].block \in BlocksOf(calls)
           /\ BlocksOf(calls) = { calls[i].block : i \in 1 .. Len(calls) }
           /\ BlocksOf(calls) \subseteq Block
<1>1. DOMAIN calls = 1 .. Len(calls) /\ Len(calls) \in Nat
  OBVIOUS
<1>2. ASSUME NEW i \in 1 .. Len(calls)
      PROVE  calls[i].block \in Block
  <2>1. calls[i] \in Call
    OBVIOUS
  <2> QED
    BY <2>1 DEF Call
<1> QED
  BY <1>1, <1>2 DEF BlocksOf

\* The connections see a chain that is in order.
LEMMA OInvContext == OInv => ContextOK(Known, BlocksOf(handling))
<1> SUFFICES ASSUME OInv
             PROVE  ContextOK(Known, BlocksOf(handling))
  OBVIOUS
<1>1. TreeOK /\ ChainOK /\ handling \in Seq(Call)
  BY DEF OInv, CallsOK
<1>2. BlocksOf(handling) \subseteq Block
  BY <1>1, CallsAre
<1> QED
  BY <1>1, <1>2 DEF ContextOK, ChainOK, Known

\* The invariant is kept if its parts hold of the new state, over the same
\* tree.
LEMMA Frame ==
    ASSUME OInv, IInv', UNCHANGED tree, BuffersOK',
           seen' \subseteq Block, head' \in seen', accepted' \subseteq seen',
           \A b \in seen' : Prev(b) \in seen' \cup {Genesis},
           CallsOK(handling', seen' \cup {Genesis}),
           \A p \in Peers :
               PeerOK(peer'[p], seen' \cup {Genesis}, BlocksOf(handling')),
           peerHead' \in [Peers -> Block],
           toPeer' \in [Peers -> Seq(Requests)],
           fromPeer' \in [Peers -> Seq(Messages)]
    PROVE  OInv'
<1>1. path' = path /\ bad' = bad
  BY DEF tree
<1>2. TreeOK'
  BY <1>1 DEF OInv, TreeOK, PathOK
<1>3. ChainOK'
  BY <1>1 DEF ChainOK, Prev, Num
<1>4. CallsOK(handling, Known)'
  BY <1>1 DEF CallsOK, Known, Refused, Chain, Prev, Num
<1>5. Lists' = Lists
  BY <1>1 DEF Lists, LinkedList, Prev, Num
<1>6. PeersOK'
  <2> SUFFICES ASSUME NEW p \in Peers
               PROVE  PeerOK(peer[p], Known, BlocksOf(handling))'
    BY DEF PeersOK
  <2>1. PeerOK(peer'[p], seen' \cup {Genesis}, BlocksOf(handling'))
    OBVIOUS
  <2>2. Typed(peer[p])'
    BY <1>5, <2>1 DEF PeerOK, BaseOK, Typed
  <2>3. (peer[p].conn = "active" => ListOK(peer[p], Known, BlocksOf(handling)))'
    BY <1>1, <2>1 DEF PeerOK, BaseOK, ListOK, Held, Known, BlocksOf, Prev, Num
  <2>4. AskedOK(peer[p], Known)'
    BY <2>1 DEF PeerOK, AskedOK, Held, Known
  <2> QED
    BY <2>2, <2>3, <2>4 DEF PeerOK, BaseOK
<1>7. MessagesOK'
  BY <1>5 DEF MessagesOK, Messages
<1> QED
  BY <1>2, <1>3, <1>4, <1>6, <1>7 DEF OInv

\* The same for a step that leaves the chain and the calls to it alone.
LEMMA ChainSame ==
    ASSUME OInv, IInv', UNCHANGED <<tree, head, seen, accepted, handling>>, BuffersOK',
           \A p \in Peers : PeerOK(peer'[p], Known, BlocksOf(handling)),
           peerHead' \in [Peers -> Block],
           toPeer' \in [Peers -> Seq(Requests)],
           fromPeer' \in [Peers -> Seq(Messages)]
    PROVE  OInv'
<1>1. /\ UNCHANGED tree /\ head' = head /\ seen' = seen /\ accepted' = accepted
      /\ handling' = handling
  OBVIOUS
<1>2. ChainOK /\ CallsOK(handling, Known)
  BY DEF OInv
<1>3. /\ seen' \subseteq Block /\ head' \in seen' /\ accepted' \subseteq seen'
      /\ \A b \in seen' : Prev(b) \in seen' \cup {Genesis}
  BY <1>1, <1>2 DEF ChainOK
<1>4. CallsOK(handling', seen' \cup {Genesis})
  BY <1>1, <1>2 DEF Known
<1>5. \A p \in Peers : PeerOK(peer'[p], seen' \cup {Genesis}, BlocksOf(handling'))
  BY <1>1 DEF Known
<1> QED
  BY <1>1, <1>3, <1>4, <1>5, Frame

\* One connection changes.
LEMMA OnePeer ==
    ASSUME OInv, NEW p \in Peers, NEW r, peer' = [peer EXCEPT ![p] = r],
           PeerOK(r, Known, BlocksOf(handling))
    PROVE  /\ peer'[p] = r
           /\ \A o \in Peers : PeerOK(peer'[o], Known, BlocksOf(handling))
<1>1. peer = [ o \in Peers |-> peer[o] ]
  BY DEF OInv, IInv, ConnectionsOK
<1>2. peer' = [ o \in Peers |-> IF o = p THEN r ELSE peer[o] ]
  BY <1>1
<1> QED
  BY <1>2 DEF OInv, PeersOK

\* The synopses that a step sends.
LEMMA SendIdsRequestsOK ==
    ASSUME toPeer \in [Peers -> Seq(Requests)], NEW s, SendIdsRequests(s),
           \A p \in Peers : p \in s =>
               \E x \in SUBSET BlockOrGenesis : peer'[p].idsRequested = {x}
    PROVE  toPeer' \in [Peers -> Seq(Requests)]
<1> DEFINE sent(p) == IdsRequest(CHOOSE x \in peer'[p].idsRequested : TRUE)
<1>1. ASSUME NEW p \in Peers, p \in s
      PROVE  Append(toPeer[p], sent(p)) \in Seq(Requests)
  <2>1. PICK x \in SUBSET BlockOrGenesis : peer'[p].idsRequested = {x}
    BY <1>1
  <2>2. sent(p) = IdsRequest(x)
    BY <2>1
  <2>3. IdsRequest(x) \in Requests
    BY DEF IdsRequest, Requests, Synopses
  <2> HIDE DEF sent
  <2> QED
    BY <2>2, <2>3
<1>2. toPeer' = [ p \in Peers |-> IF p \in s THEN Append(toPeer[p], sent(p))
                                  ELSE toPeer[p] ]
  BY DEF SendIdsRequests
<1> HIDE DEF sent
<1> QED
  BY <1>1, <1>2

\* What a message carries.
LEMMA MessageIs ==
    ASSUME NEW m \in Messages
    PROVE  /\ m.type = "ids" => m.ids \in Lists
           /\ m.type = "block" => m.ids[1] \in Block
<1>1. CASE m \in Synopses
  BY <1>1 DEF Synopses
<1>2. CASE m \in [type : {"ids"}, ids : Lists, left : Int]
  BY <1>2
<1>3. CASE m \in [type : {"block"}, ids : Seq(Block) \ {<<>>}]
  BY <1>3
<1> QED
  BY <1>1, <1>2, <1>3 DEF Messages

-----------------------------------------------------------------------------
(***************************************************************************)
(* Connections and messages.                                               *)
(***************************************************************************)
\* A new connection.
LEMMA ConnectOInv ==
    ASSUME OInv, IInv', NEW p \in Peers, Connect(p)
    PROVE  OInv'
<1> DEFINE r == StartSynchronizing(NewConnection)
           calls == BlocksOf(handling)
           hello == <<IdsRequest(Synopsis(Chain(peerHead[p]), 0))>>
<1>1. /\ peer' = [peer EXCEPT ![p] = r] /\ SendIdsRequests({p})
      /\ fromPeer' = [fromPeer EXCEPT ![p] = hello]
      /\ UNCHANGED <<tree, head, seen, accepted, handling>>
      /\ fresh' = fresh /\ received' = received /\ peerHead' = peerHead
  BY DEF Connect, node
<1>2. ContextOK(Known, calls) /\ Genesis \in Known
  BY OInvContext DEF Known
<1>3. Connection(NewConnection) /\ BaseOK(NewConnection, Known, calls)
  BY <1>2, NewConnectionOK DEF PeerOK
<1>4. /\ PeerOK(r, Known, calls)
      /\ \E x \in SUBSET BlockOrGenesis : r.idsRequested = {x}
  BY <1>2, <1>3, StartSynchronizingOK
<1> HIDE DEF r
<1>5. peer'[p] = r /\ \A o \in Peers : PeerOK(peer'[o], Known, calls)
  BY <1>1, <1>4, OnePeer
<1>6. MessagesOK /\ BuffersOK /\ TreeOK
  BY DEF OInv
<1>7. toPeer' \in [Peers -> Seq(Requests)]
  BY <1>1, <1>4, <1>5, <1>6, SendIdsRequestsOK DEF MessagesOK
<1>8. fromPeer' \in [Peers -> Seq(Messages)]
  <2> DEFINE x == Synopsis(Chain(peerHead[p]), 0)
  <2>1. peerHead[p] \in Block
    BY <1>6 DEF MessagesOK
  <2>2. x \in SUBSET BlockOrGenesis
    BY <1>6, <2>1, SynopsisTyped DEF BlockOrGenesis
  <2> HIDE DEF x
  <2>3. IdsRequest(x) \in Messages
    BY <2>2 DEF IdsRequest, Messages, Synopses
  <2>4. hello \in Seq(Messages)
    BY <2>3 DEF x
  <2> HIDE DEF hello
  <2> QED
    BY <1>1, <1>6, <2>4 DEF MessagesOK
<1>9. BuffersOK' /\ peerHead' \in [Peers -> Block]
  BY <1>1, <1>6 DEF BuffersOK, MessagesOK
<1> QED
  BY <1>1, <1>5, <1>7, <1>8, <1>9, ChainSame

\* A step that leaves the connections and the node alone.
LEMMA NodeSame ==
    ASSUME OInv, IInv', UNCHANGED <<tree, node, peer>>,
           peerHead' \in [Peers -> Block],
           toPeer' \in [Peers -> Seq(Requests)],
           fromPeer' \in [Peers -> Seq(Messages)]
    PROVE  OInv'
<1>1. /\ UNCHANGED <<tree, head, seen, accepted, handling>>
      /\ fresh' = fresh /\ received' = received /\ peer' = peer
  BY DEF node
<1>2. BuffersOK'
  BY <1>1 DEF OInv, BuffersOK
<1>3. \A p \in Peers : PeerOK(peer'[p], Known, BlocksOf(handling))
  BY <1>1 DEF OInv, PeersOK
<1> QED
  BY <1>1, <1>2, <1>3, ChainSame

\* An answer of the peer.
LEMMA PeerAnswersOInv ==
    ASSUME OInv, IInv', NEW p \in Peers, PeerAnswers(p)
    PROVE  OInv'
<1> DEFINE m == Head(toPeer[p])
           items == [ i \in 1 .. Len(m.ids) |-> BlockReply(m.ids[i]) ]
           answer == IF m.type = "fetch_ids"
                     THEN <<GetBlockIds(peerHead[p], m.synopsis)>> ELSE items
<1>1. /\ toPeer[p] # <<>>
      /\ fromPeer' = [fromPeer EXCEPT ![p] = @ \o answer]
      /\ toPeer' = [toPeer EXCEPT ![p] = Tail(@)]
      /\ UNCHANGED <<tree, node, peer>> /\ peerHead' = peerHead
  BY DEF PeerAnswers, world
<1>2. TreeOK /\ MessagesOK
  BY DEF OInv
<1>3. /\ toPeer \in [Peers -> Seq(Requests)] /\ fromPeer \in [Peers -> Seq(Messages)]
      /\ peerHead \in [Peers -> Block] /\ toPeer[p] \in Seq(Requests)
  BY <1>2 DEF MessagesOK
<1>4. m \in Requests /\ Tail(toPeer[p]) \in Seq(Requests)
  BY <1>1, <1>3
<1> HIDE DEF m
<1>5. answer \in Seq(Messages)
  <2>1. CASE m.type = "fetch_ids"
    <3>1. GetBlockIds(peerHead[p], m.synopsis) \in [type : {"ids"}, ids : Lists, left : Int]
      BY <1>2, <1>3, GetBlockIdsOK
    <3>2. GetBlockIds(peerHead[p], m.synopsis) \in Messages
      BY <3>1 DEF Messages
    <3> QED
      BY <2>1, <3>2
  <2>2. CASE m.type # "fetch_ids"
    <3>1. m.ids \in Seq(Block)
      BY <1>4, <2>2 DEF Requests, Synopses
    <3>2. ASSUME NEW i \in 1 .. Len(m.ids)
          PROVE  BlockReply(m.ids[i]) \in Messages
      <4>1. m.ids[i] \in Block
        BY <3>1
      <4>2. <<m.ids[i]>> \in Seq(Block) \ {<<>>}
        BY <4>1
      <4> QED
        BY <4>2 DEF BlockReply, Messages
    <3>3. items \in Seq(Messages)
      BY <3>1, <3>2
    <3> HIDE DEF items
    <3> QED
      BY <2>2, <3>3
  <2> QED
    BY <2>1, <2>2
<1> HIDE DEF answer
<1>6. fromPeer' \in [Peers -> Seq(Messages)]
  BY <1>1, <1>3, <1>5
<1>7. toPeer' \in [Peers -> Seq(Requests)]
  BY <1>1, <1>3, <1>4
<1> QED
  BY <1>1, <1>3, <1>6, <1>7, NodeSame

\* The peer moves on.
LEMMA PeerGrowsOInv ==
    ASSUME OInv, IInv', NEW p \in Peers, NEW b \in Block, PeerGrows(p, b)
    PROVE  OInv'
<1> DEFINE x == Synopsis(Chain(b), 0)
<1>1. /\ peerHead' = [peerHead EXCEPT ![p] = b]
      /\ \/ fromPeer' = [fromPeer EXCEPT ![p] = @]
         \/ fromPeer' = [fromPeer EXCEPT ![p] = Append(@, IdsRequest(x))]
      /\ UNCHANGED <<tree, node, peer>> /\ toPeer' = toPeer
  BY DEF PeerGrows
<1>2. TreeOK /\ MessagesOK
  BY DEF OInv
<1>3. /\ toPeer \in [Peers -> Seq(Requests)] /\ fromPeer \in [Peers -> Seq(Messages)]
      /\ peerHead \in [Peers -> Block]
  BY <1>2 DEF MessagesOK
<1>4. x \in SUBSET BlockOrGenesis
  BY <1>2, SynopsisTyped DEF BlockOrGenesis
<1> HIDE DEF x
<1>5. IdsRequest(x) \in Messages
  BY <1>4 DEF IdsRequest, Messages, Synopses
<1>6. fromPeer' \in [Peers -> Seq(Messages)] /\ peerHead' \in [Peers -> Block]
  <2>1. fromPeer[p] \in Seq(Messages)
    BY <1>3
  <2>2. Append(fromPeer[p], IdsRequest(x)) \in Seq(Messages)
    BY <1>5, <2>1
  <2> DEFINE y == Append(fromPeer[p], IdsRequest(x))
  <2>3. \/ fromPeer' = [fromPeer EXCEPT ![p] = fromPeer[p]]
        \/ fromPeer' = [fromPeer EXCEPT ![p] = y]
    BY <1>1
  <2> HIDE DEF y
  <2>4. fromPeer' \in [Peers -> Seq(Messages)]
    BY <1>3, <2>1, <2>2, <2>3 DEF y
  <2>5. peerHead' \in [Peers -> Block]
    BY <1>1, <1>3
  <2> QED
    BY <2>4, <2>5
<1> QED
  BY <1>1, <1>3, <1>6, NodeSame

\* One connection changes after a message from it, and asks for ids or not.
LEMMA ReceivedOK ==
    ASSUME OInv, IInv', NEW p \in Peers, NEW r, peer' = [peer EXCEPT ![p] = r],
           PeerOK(r, Known, BlocksOf(handling)),
           toPeer' = toPeer \/ (/\ SendIdsRequests({p})
                                /\ \E x \in SUBSET BlockOrGenesis : r.idsRequested = {x}),
           fromPeer' \in [Peers -> Seq(Messages)], BuffersOK',
           UNCHANGED <<tree, head, seen, accepted, handling, peerHead>>
    PROVE  OInv'
<1>1. peer'[p] = r /\ \A o \in Peers : PeerOK(peer'[o], Known, BlocksOf(handling))
  BY OnePeer
<1>2. toPeer \in [Peers -> Seq(Requests)] /\ peerHead \in [Peers -> Block]
  BY DEF OInv, MessagesOK
<1>3. toPeer' \in [Peers -> Seq(Requests)]
  <2>1. CASE toPeer' = toPeer
    BY <1>2, <2>1
  <2>2. CASE /\ SendIdsRequests({p})
             /\ \E x \in SUBSET BlockOrGenesis : r.idsRequested = {x}
    BY <1>1, <1>2, <2>2, SendIdsRequestsOK
  <2> QED
    BY <2>1, <2>2
<1> QED
  BY <1>1, <1>2, <1>3, ChainSame

\* Nothing to send.
LEMMA SendNothing ==
    ASSUME OInv, SendIdsRequests({})
    PROVE  toPeer' = toPeer
BY DEF OInv, MessagesOK, SendIdsRequests

\* The peer asks for ids.
LEMMA OnFetchIdsOInv ==
    ASSUME OInv, IInv', NEW p \in Peers, NEW synopsis, OnFetchIds(p, synopsis),
           fromPeer' \in [Peers -> Seq(Messages)], UNCHANGED <<tree, peerHead>>
    PROVE  OInv'
<1> DEFINE q == peer[p]
           reply == GetBlockIds(head, synopsis).ids
           needs == ~ ( \/ reply = <<>>
                        \/ Len(reply) = 1 /\ reply[1] \in synopsis )
           told == [q EXCEPT !.peerNeeds = needs]
           calls == BlocksOf(handling)
<1>1. /\ \/ peer' = [peer EXCEPT ![p] = StartSynchronizing(told)] /\ SendIdsRequests({p})
         \/ peer' = [peer EXCEPT ![p] = told] /\ SendIdsRequests({})
      /\ UNCHANGED <<head, seen, accepted, handling>>
      /\ fresh' = fresh /\ received' = received
  BY DEF OnFetchIds, node
<1>2. /\ Connection(q) /\ PeerOK(q, Known, calls) /\ ContextOK(Known, calls)
      /\ BuffersOK
  BY PeerIs, OInvContext DEF OInv, PeersOK
<1> HIDE DEF needs, q
<1>3. Alike(q, told)
  BY <1>2, OthersSet
<1>4. PeerOK(told, Known, calls) /\ BaseOK(told, Known, calls) /\ Connection(told)
  BY <1>2, <1>3, AlikeOK DEF PeerOK, Alike, Fields
<1> HIDE DEF told
<1>5. BuffersOK'
  BY <1>1, <1>2 DEF BuffersOK
<1>6. CASE peer' = [peer EXCEPT ![p] = StartSynchronizing(told)] /\ SendIdsRequests({p})
  <2> DEFINE r == StartSynchronizing(told)
  <2>1. /\ PeerOK(r, Known, calls)
        /\ \E x \in SUBSET BlockOrGenesis : r.idsRequested = {x}
    BY <1>2, <1>4, StartSynchronizingOK
  <2> HIDE DEF r
  <2> QED
    BY <1>1, <1>5, <1>6, <2>1, ReceivedOK DEF r
<1>7. CASE peer' = [peer EXCEPT ![p] = told] /\ SendIdsRequests({})
  <2>1. toPeer' = toPeer
    BY <1>7, SendNothing
  <2> QED
    BY <1>1, <1>4, <1>5, <1>7, <2>1, ReceivedOK
<1> QED
  BY <1>1, <1>6, <1>7

\* Ids arrive.
LEMMA OnIdsOInv ==
    ASSUME OInv, IInv', NEW p \in Peers, NEW ids \in Lists, NEW left, OnIds(p, ids, left),
           fromPeer' \in [Peers -> Seq(Messages)], UNCHANGED <<tree, peerHead>>
    PROVE  OInv'
<1> DEFINE q == peer[p]
           synopsis == CHOOSE x \in q.idsRequested : TRUE
           answered == [q EXCEPT !.idsRequested = {}]
           list == MergedList(p, answered, ids)
           merged == [list EXCEPT !.unfetched = left]
           calls == BlocksOf(handling)
<1>1. /\ UNCHANGED <<head, seen, accepted, handling>>
      /\ fresh' = fresh /\ received' = received
  BY DEF OnIds, node
<1>2. \/ UNCHANGED <<node, peer, toPeer>>
      \/ /\ q.idsRequested # {}
         /\ \/ peer' = [peer EXCEPT ![p] = Disconnect(q)] /\ toPeer' = toPeer
            \/ /\ peer' = [peer EXCEPT ![p] = [answered EXCEPT !.weNeed = FALSE]]
               /\ toPeer' = toPeer
            \/ /\ ValidReply(synopsis, ids)
               /\ \/ /\ peer' = [peer EXCEPT ![p] = FetchNextBatch(merged)]
                     /\ SendIdsRequests({p})
                  \/ peer' = [peer EXCEPT ![p] = merged] /\ SendIdsRequests({})
  BY DEF OnIds
<1>3. /\ Connection(q) /\ PeerOK(q, Known, calls) /\ ContextOK(Known, calls)
      /\ BuffersOK
  BY PeerIs, OInvContext DEF OInv, PeersOK
<1> HIDE DEF q
<1>4. Fields(answered, q.conn, q.ids, q.processing, q.lastSeen, {})
  BY <1>3, FieldsSet
<1> HIDE DEF answered
<1>5. Connection(answered) /\ BaseOK(answered, Known, calls)
  BY <1>3, <1>4 DEF Fields, PeerOK, BaseOK, Typed, ListOK, Held
<1>6. PeerOK(answered, Known, calls)
  BY <1>4, <1>5 DEF Fields, PeerOK, AskedOK
<1>7. BuffersOK'
  BY <1>1, <1>3 DEF BuffersOK
<1>8. CASE UNCHANGED <<node, peer, toPeer>>
  BY <1>8, NodeSame DEF OInv, MessagesOK
<1>9. CASE peer' = [peer EXCEPT ![p] = Disconnect(q)] /\ toPeer' = toPeer
  <2>1. PeerOK(Disconnect(q), Known, calls)
    BY <1>3, DisconnectOK
  <2> QED
    BY <1>1, <1>7, <1>9, <2>1, ReceivedOK
<1>10. CASE /\ peer' = [peer EXCEPT ![p] = [answered EXCEPT !.weNeed = FALSE]]
            /\ toPeer' = toPeer
  <2> DEFINE r == [answered EXCEPT !.weNeed = FALSE]
  <2>1. Alike(answered, r)
    BY <1>5, OthersSet
  <2>2. PeerOK(r, Known, calls)
    BY <1>6, <2>1, AlikeOK
  <2> HIDE DEF r
  <2> QED
    BY <1>1, <1>7, <1>10, <2>2, ReceivedOK DEF r
<1>11. CASE /\ q.idsRequested # {} /\ ValidReply(synopsis, ids)
            /\ \/ /\ peer' = [peer EXCEPT ![p] = FetchNextBatch(merged)]
                  /\ SendIdsRequests({p})
               \/ peer' = [peer EXCEPT ![p] = merged] /\ SendIdsRequests({})
  <2>1. synopsis \in q.idsRequested
    BY <1>11
  <2> HIDE DEF synopsis
  <2>2. SynopsisOK(answered, synopsis)
    BY <1>3, <1>4, <2>1 DEF PeerOK, AskedOK, Fields, Held, SynopsisOK
  <2>3. /\ BaseOK(list, Known, calls) /\ Connection(list)
        /\ list.idsRequested = answered.idsRequested
    BY <1>3, <1>5, <1>11, <2>2, MergedListOK
  <2>4. list.idsRequested = {}
    BY <1>4, <2>3 DEF Fields
  <2> HIDE DEF list
  <2>5. Alike(list, merged)
    BY <2>3, OthersSet
  <2>6. /\ BaseOK(merged, Known, calls) /\ Connection(merged)
        /\ merged.idsRequested = {}
    BY <2>3, <2>4, <2>5, AlikeOK DEF Alike, Fields
  <2> HIDE DEF merged
  <2>7. PeerOK(merged, Known, calls)
    BY <2>6 DEF PeerOK, AskedOK
  <2>8. CASE peer' = [peer EXCEPT ![p] = FetchNextBatch(merged)] /\ SendIdsRequests({p})
    <3> DEFINE r == FetchNextBatch(merged)
    <3>1. /\ PeerOK(r, Known, calls)
          /\ \E x \in SUBSET BlockOrGenesis : r.idsRequested = {x}
      BY <1>3, <2>6, FetchNextBatchOK
    <3> HIDE DEF r
    <3> QED
      BY <1>1, <1>7, <2>8, <3>1, ReceivedOK DEF r
  <2>9. CASE peer' = [peer EXCEPT ![p] = merged] /\ SendIdsRequests({})
    <3>1. toPeer' = toPeer
      BY <2>9, SendNothing
    <3> QED
      BY <1>1, <1>7, <2>7, <2>9, <3>1, ReceivedOK
  <2> QED
    BY <1>11, <2>8, <2>9
<1> QED
  BY <1>2, <1>8, <1>9, <1>10, <1>11

\* A block arrives.
LEMMA OnBlockOInv ==
    ASSUME OInv, IInv', NEW p \in Peers, NEW b \in Block, OnBlock(p, b),
           fromPeer' \in [Peers -> Seq(Messages)], UNCHANGED <<tree, peerHead>>
    PROVE  OInv'
<1> DEFINE o == peer[p]
           q == [o EXCEPT !.requested = o.requested \ {b}]
           calls == BlocksOf(handling)
<1>1. /\ UNCHANGED <<head, seen, accepted, handling>> /\ received' = received
      /\ fresh' = fresh \/ fresh' = <<b>> \o fresh
  BY DEF OnBlock, node
<1>2. \/ peer' = [peer EXCEPT ![p] = Disconnect(@)] /\ toPeer' = toPeer
      \/ peer' = [peer EXCEPT ![p] = FetchNextBatch(q)] /\ SendIdsRequests({p})
      \/ peer' = [peer EXCEPT ![p] = q] /\ SendIdsRequests({})
  BY DEF OnBlock
<1>3. /\ Connection(o) /\ PeerOK(o, Known, calls) /\ ContextOK(Known, calls)
      /\ BuffersOK /\ peer = [ x \in Peers |-> peer[x] ]
  BY PeerIs, OInvContext DEF OInv, PeersOK, IInv, ConnectionsOK
<1>4. BuffersOK'
  <2> DEFINE f == <<b>> \o fresh
  <2>1. <<b>> \in Seq(Block) /\ fresh \in Seq(Block) /\ received \in Seq(Block)
    BY <1>3 DEF BuffersOK
  <2>2. f \in Seq(Block)
    BY <2>1
  <2>3. fresh' = fresh \/ fresh' = f
    BY <1>1
  <2> HIDE DEF f
  <2> QED
    BY <1>1, <2>1, <2>2, <2>3 DEF BuffersOK
<1>5. CASE peer' = [peer EXCEPT ![p] = Disconnect(@)] /\ toPeer' = toPeer
  <2> DEFINE r == Disconnect(o)
  <2>1. PeerOK(r, Known, calls)
    BY <1>3, DisconnectOK
  <2>2. peer' = [peer EXCEPT ![p] = r]
    BY <1>5
  <2> HIDE DEF r
  <2> QED
    BY <1>1, <1>4, <1>5, <2>1, <2>2, ReceivedOK
<1> HIDE DEF o
<1>6. Alike(o, q)
  BY <1>3, OthersSet
<1>7. PeerOK(q, Known, calls) /\ BaseOK(q, Known, calls) /\ Connection(q)
  BY <1>3, <1>6, AlikeOK DEF Alike, Fields, PeerOK
<1> HIDE DEF q
<1>8. CASE peer' = [peer EXCEPT ![p] = FetchNextBatch(q)] /\ SendIdsRequests({p})
  <2> DEFINE r == FetchNextBatch(q)
  <2>1. /\ PeerOK(r, Known, calls)
        /\ \E x \in SUBSET BlockOrGenesis : r.idsRequested = {x}
    BY <1>3, <1>7, FetchNextBatchOK
  <2> HIDE DEF r
  <2> QED
    BY <1>1, <1>4, <1>8, <2>1, ReceivedOK DEF r
<1>9. CASE peer' = [peer EXCEPT ![p] = q] /\ SendIdsRequests({})
  <2>1. toPeer' = toPeer
    BY <1>9, SendNothing
  <2> QED
    BY <1>1, <1>4, <1>7, <1>9, <2>1, ReceivedOK
<1> QED
  BY <1>2, <1>5, <1>8, <1>9

\* A message arrives.
LEMMA ReceiveOInv ==
    ASSUME OInv, IInv', NEW p \in Peers, Receive(p)
    PROVE  OInv'
<1> DEFINE m == Head(fromPeer[p])
<1>1. /\ fromPeer[p] # <<>>
      /\ \/ m.type = "fetch_ids" /\ OnFetchIds(p, m.synopsis)
         \/ m.type = "ids" /\ OnIds(p, m.ids, m.left)
         \/ m.type = "block" /\ OnBlock(p, m.ids[1])
      /\ fromPeer' = [fromPeer EXCEPT ![p] = Tail(@)]
      /\ UNCHANGED <<tree, peerHead>>
  BY DEF Receive, world
<1>2. fromPeer \in [Peers -> Seq(Messages)] /\ fromPeer[p] \in Seq(Messages)
  BY DEF OInv, MessagesOK
<1>3. m \in Messages /\ Tail(fromPeer[p]) \in Seq(Messages)
  BY <1>1, <1>2
<1>4. fromPeer' \in [Peers -> Seq(Messages)]
  BY <1>1, <1>2, <1>3
<1> HIDE DEF m
<1>5. CASE m.type = "fetch_ids" /\ OnFetchIds(p, m.synopsis)
  BY <1>1, <1>4, <1>5, OnFetchIdsOInv
<1>6. CASE m.type = "ids" /\ OnIds(p, m.ids, m.left)
  BY <1>1, <1>3, <1>4, <1>6, MessageIs, OnIdsOInv
<1>7. CASE m.type = "block" /\ OnBlock(p, m.ids[1])
  BY <1>1, <1>3, <1>4, <1>7, MessageIs, OnBlockOInv
<1> QED
  BY <1>1, <1>5, <1>6, <1>7

\* A connection closes.
LEMMA ClosedOInv ==
    ASSUME OInv, IInv', NEW p \in Peers, Closed(p)
    PROVE  OInv'
<1> DEFINE r == [NewConnection EXCEPT !.conn = "closed"]
<1>1. /\ peer' = [peer EXCEPT ![p] = r]
      /\ toPeer' = [toPeer EXCEPT ![p] = <<>>]
      /\ fromPeer' = [fromPeer EXCEPT ![p] = <<>>]
      /\ UNCHANGED <<tree, head, seen, accepted, handling>>
      /\ fresh' = fresh /\ received' = received /\ peerHead' = peerHead
  BY DEF Closed
<1>2. PeerOK(r, Known, BlocksOf(handling))
  BY NewConnectionOK DEF Known
<1> HIDE DEF r
<1>3. \A o \in Peers : PeerOK(peer'[o], Known, BlocksOf(handling))
  BY <1>1, <1>2, OnePeer
<1>4. MessagesOK /\ BuffersOK
  BY DEF OInv
<1>5. <<>> \in Seq(Requests) /\ <<>> \in Seq(Messages)
  OBVIOUS
<1>6. /\ toPeer' \in [Peers -> Seq(Requests)]
      /\ fromPeer' \in [Peers -> Seq(Messages)]
      /\ peerHead' \in [Peers -> Block] /\ BuffersOK'
  BY <1>1, <1>4, <1>5 DEF MessagesOK, BuffersOK
<1> QED
  BY <1>1, <1>3, <1>6, ChainSame

\* Connections time out.
LEMMA TerminateInactiveOInv ==
    ASSUME OInv, IInv', NEW late, NEW visited, TerminateInactive(late, visited)
    PROVE  OInv'
<1>1. /\ \A p \in Peers : peer'[p] = peer[p] \/ peer'[p] = Disconnect(peer[p])
      /\ UNCHANGED <<tree, head, seen, accepted, handling>>
      /\ UNCHANGED <<fresh, received, peerHead, toPeer, fromPeer>>
  BY DEF TerminateInactive, node
<1>2. ASSUME NEW p \in Peers
      PROVE  PeerOK(peer'[p], Known, BlocksOf(handling))
  <2>1. Connection(peer[p]) /\ PeerOK(peer[p], Known, BlocksOf(handling))
    BY PeerIs DEF OInv, PeersOK
  <2>2. PeerOK(Disconnect(peer[p]), Known, BlocksOf(handling))
    BY <2>1, DisconnectOK
  <2> QED
    BY <1>1, <2>1, <2>2
<1>3. MessagesOK /\ BuffersOK
  BY DEF OInv
<1>4. /\ toPeer' \in [Peers -> Seq(Requests)]
      /\ fromPeer' \in [Peers -> Seq(Messages)]
      /\ peerHead' \in [Peers -> Block] /\ BuffersOK'
  BY <1>1, <1>3 DEF MessagesOK, BuffersOK
<1> QED
  BY <1>1, <1>2, <1>4, ChainSame

-----------------------------------------------------------------------------
(***************************************************************************)
(* Asking for blocks, and handing them to the chain.                       *)
(***************************************************************************)
\* What is picked from a list of blocks are blocks.
LEMMA AmongOK ==
    ASSUME NEW ids \in Seq(Block), NEW s
    PROVE  Among(ids, s) \in Seq(Block)
<1> DEFINE n == Len(ids)
           V == Seq(Block)
           base == <<>>
           E(v, i) == IF ids[i] \in s THEN Append(v, ids[i]) ELSE v
           F(f) == [i \in 0 .. n |-> IF i = 0 THEN base ELSE E(f[i - 1], i)]
           step == [i \in 1 .. n |-> [v \in V |-> E(v, i)]]
           S == CHOOSE f : f = F(f)
<1>1. n \in Nat /\ base \in V
  OBVIOUS
<1>2. ASSUME NEW i \in 1 .. n, NEW v \in V
      PROVE  E(v, i) \in V
  <2>1. ids[i] \in Block
    OBVIOUS
  <2>2. Append(v, ids[i]) \in Seq(Block)
    BY <2>1
  <2> QED
    BY <2>2
<1>3. S = CHOOSE f : f = F(f)
  OBVIOUS
<1>31. Among(ids, s) = S[n]
  BY DEF Among
<1> HIDE DEF S, n, V, base, E
<1>4. StepFunction(step, n, V)
  BY <1>2 DEF StepFunction
<1>5. \A i \in 1 .. n : \A v \in V : step[i][v] = E(v, i)
  OBVIOUS
<1> HIDE DEF step
<1>6. PICK g : Recursive(g, n, V, base, step)
  BY <1>1, <1>4, RecursionExists
<1>7. g = F(g)
  <2>1. \A i \in 1 .. n : g[i] = E(g[i - 1], i)
    BY <1>1, <1>5, <1>6 DEF Recursive
  <2>2. g = [i \in 0 .. n |-> g[i]] /\ g[0] = base
    BY <1>6 DEF Recursive
  <2>3. \A i \in 0 .. n : g[i] = IF i = 0 THEN base ELSE E(g[i - 1], i)
    <3> TAKE i \in 0 .. n
    <3>1. CASE i = 0
      BY <2>2, <3>1
    <3>2. CASE i \in 1 .. n
      BY <1>1, <2>1, <3>2
    <3> QED
      BY <1>1, <3>1, <3>2
  <2> QED
    BY <2>2, <2>3
<1>8. S = F(S)
  BY <1>3, <1>7
<1>9. \A i \in 0 .. n : S[i] = IF i = 0 THEN base ELSE E(S[i - 1], i)
  BY <1>8
<1>10. S = [i \in 0 .. n |-> S[i]]
  BY <1>8, <1>9
<1>11. S[0] = base /\ \A i \in 1 .. n : S[i] = E(S[i - 1], i)
  BY <1>1, <1>9
<1>12. Recursive(S, n, V, base, step)
  BY <1>1, <1>4, <1>5, <1>10, <1>11, RecursionTyped
<1>13. S \in [0 .. n -> V]
  BY <1>12 DEF Recursive
<1>14. S[n] \in V
  BY <1>1, <1>13
<1> QED
  BY <1>31, <1>14 DEF V

\* fetch_sync_items_loop() leaves the lists alone.
LEMMA FetchSyncItemsOInv ==
    ASSUME OInv, IInv', NEW order \in Seq(Active), FetchSyncItems(order)
    PROVE  OInv'
<1> DEFINE batches == Batches(order)[Len(order)]
           calls == BlocksOf(handling)
<1>1. /\ peer' = [ p \in Peers |->
               [peer[p] EXCEPT !.requested = @ \cup batches[p]] ]
      /\ toPeer' = [ p \in Peers |->
               IF batches[p] = {} THEN toPeer[p]
               ELSE Append(toPeer[p], ItemsRequest(Among(peer[p].ids, batches[p]))) ]
      /\ UNCHANGED <<tree, head, seen, accepted, handling>>
      /\ UNCHANGED <<fresh, received, peerHead, fromPeer>>
  BY DEF FetchSyncItems, world
<1> HIDE DEF batches
<1>2. /\ toPeer \in [Peers -> Seq(Requests)] /\ fromPeer \in [Peers -> Seq(Messages)]
      /\ peerHead \in [Peers -> Block] /\ BuffersOK
  BY DEF OInv, MessagesOK
<1>3. ASSUME NEW p \in Peers
      PROVE  PeerOK(peer'[p], Known, calls)
  <2> DEFINE q == peer[p]
             r == [q EXCEPT !.requested = q.requested \cup batches[p]]
  <2>1. peer'[p] = r
    BY <1>1
  <2>2. Connection(q) /\ PeerOK(q, Known, calls)
    BY PeerIs DEF OInv, PeersOK
  <2> HIDE DEF q
  <2>3. Alike(q, r)
    BY <2>2, OthersSet
  <2> HIDE DEF r
  <2> QED
    BY <2>1, <2>2, <2>3, AlikeOK
<1>4. ASSUME NEW p \in Peers
      PROVE  Append(toPeer[p], ItemsRequest(Among(peer[p].ids, batches[p])))
                 \in Seq(Requests)
  <2> DEFINE x == Among(peer[p].ids, batches[p])
  <2>1. peer[p].ids \in Seq(Block)
    BY DEF OInv, PeersOK, PeerOK, BaseOK, Typed, Lists
  <2>2. x \in Seq(Block)
    BY <2>1, AmongOK
  <2> HIDE DEF x
  <2>3. ItemsRequest(x) \in Requests
    BY <2>2 DEF ItemsRequest, Requests
  <2> QED
    BY <1>2, <2>3 DEF x
<1>5. toPeer' \in [Peers -> Seq(Requests)]
  BY <1>1, <1>2, <1>4
<1>6. /\ fromPeer' \in [Peers -> Seq(Messages)]
      /\ peerHead' \in [Peers -> Block] /\ BuffersOK'
  BY <1>1, <1>2 DEF BuffersOK
<1> QED
  BY <1>1, <1>3, <1>5, <1>6, ChainSame

\* More blocks on the chain, or more calls to it.
LEMMA PeerOKGrows ==
    ASSUME NEW q, NEW known, NEW calls, PeerOK(q, known, calls),
           NEW known2, NEW calls2, known \subseteq known2, calls \subseteq calls2
    PROVE  PeerOK(q, known2, calls2)
<1>1. Held(q, known) \subseteq Held(q, known2)
  BY DEF Held
<1>2. BaseOK(q, known2, calls2)
  BY <1>1 DEF PeerOK, BaseOK, ListOK
<1>3. AskedOK(q, known2)
  BY <1>1 DEF PeerOK, AskedOK
<1> QED
  BY <1>2, <1>3 DEF PeerOK

\* The first block of a list is taken up.
LEMMA PeerOKTakes ==
    ASSUME NEW q, NEW known, NEW calls, PeerOK(q, known, calls), q.ids # <<>>,
           NEW r, Fields(r, q.conn, Tail(q.ids), q.processing \cup {q.ids[1]},
                         q.lastSeen, q.idsRequested)
    PROVE  PeerOK(r, known, calls \cup {q.ids[1]})
<1> DEFINE b == q.ids[1]
           t == Tail(q.ids)
<1>1. q.ids \in Lists
  BY DEF PeerOK, BaseOK, Typed
<1>2. /\ t \in Lists /\ b \in Block
      /\ t # <<>> => Prev(t[1]) = b
      /\ ToSet(q.ids) = {b} \cup ToSet(t)
  BY <1>1, ListTail
<1> HIDE DEF b, t
<1>3. Fields(r, q.conn, t, q.processing \cup {b}, q.lastSeen, q.idsRequested)
  BY DEF b, t
<1>4. Held(r, known) = Held(q, known) \cup {b}
  BY <1>3 DEF Fields, Held
<1>5. Typed(r)
  BY <1>2, <1>3 DEF Fields, PeerOK, BaseOK, Typed
<1>6. ASSUME r.conn = "active"
      PROVE  ListOK(r, known, calls \cup {b})
  <2>1. ListOK(q, known, calls)
    BY <1>3, <1>6 DEF Fields, PeerOK, BaseOK
  <2>2. Prev(b) \in Held(q, known)
    BY <2>1 DEF ListOK, b
  <2> QED
    BY <1>2, <1>3, <1>4, <2>1, <2>2 DEF Fields, ListOK
<1>7. AskedOK(r, known)
  BY <1>2, <1>3, <1>4 DEF Fields, PeerOK, AskedOK
<1> QED
  BY <1>5, <1>6, <1>7 DEF PeerOK, BaseOK, b

\* A block that was taken up is on the chain.
LEMMA PeerOKDone ==
    ASSUME NEW q, NEW known, NEW calls, NEW b \in known,
           PeerOK(q, known, calls \cup {b}),
           NEW r, Fields(r, q.conn, q.ids, q.processing \ {b},
                         q.lastSeen, q.idsRequested)
    PROVE  PeerOK(r, known, calls)
<1>1. Held(r, known) = Held(q, known)
  BY DEF Fields, Held
<1>2. BaseOK(r, known, calls)
  BY <1>1 DEF Fields, PeerOK, BaseOK, Typed, ListOK
<1>3. AskedOK(r, known)
  BY <1>1 DEF Fields, PeerOK, AskedOK
<1> QED
  BY <1>2, <1>3 DEF PeerOK

\* The chain refuses what comes after a block that it refuses.
LEMMA RefusedIs ==
    ASSUME TreeOK, NEW b \in Block
    PROVE  (b \in bad \/ Refused(Prev(b))) => Refused(b)
<1>1. b \in ToSet(Chain(b)) /\ ToSet(Chain(Prev(b))) \subseteq ToSet(Chain(b))
  BY ChainStep
<1> QED
  BY <1>1 DEF Refused

\* The chain answers a call.
LEMMA HandleBlockOInv ==
    ASSUME OInv, IInv', HandleBlock
    PROVE  OInv'
<1> DEFINE waiting == { i \in 1 .. Len(handling) : handling[i].res = "none" }
           i == Min(waiting)
           b == handling[i].block
           ok == b \notin bad /\ Prev(b) \in seen \cup {Genesis}
           c == [block |-> b, res |-> IF ok THEN "ok" ELSE "rejected"]
<1>1. /\ waiting # {}
      /\ handling' = [handling EXCEPT ![i] = c]
      /\ seen' = IF ok THEN seen \cup {b} ELSE seen
      /\ head' = head \/ (ok /\ head' = b)
      /\ UNCHANGED <<tree, accepted>>
      /\ UNCHANGED <<fresh, received, peer, peerHead, toPeer, fromPeer>>
  BY DEF HandleBlock, world
<1>2. TreeOK /\ ChainOK /\ CallsOK(handling, Known) /\ PeersOK /\ MessagesOK /\ BuffersOK
  BY DEF OInv
<1>3. handling \in Seq(Call)
  BY <1>2 DEF CallsOK
<1>4. /\ DOMAIN handling = 1 .. Len(handling) /\ Len(handling) \in Nat
      /\ \A j \in 1 .. Len(handling) : handling[j].block \in Block
  BY <1>3, CallsAre
<1>5. /\ i \in 1 .. Len(handling) /\ handling[i].res = "none"
      /\ \A j \in 1 .. i - 1 : handling[j].res # "none"
  <2>1. waiting \in SUBSET (1 .. Len(handling))
    OBVIOUS
  <2>2. i \in waiting /\ \A j \in waiting : i <= j
    <3> HIDE DEF waiting
    <3> QED
      BY <1>1, <1>4, <2>1, MaxMin
  <2> HIDE DEF i
  <2> QED
    BY <1>4, <2>2
<1> HIDE DEF i
<1>6. b \in Block
  BY <1>4, <1>5
<1> HIDE DEF b
<1>7. seen \subseteq seen' /\ Known \subseteq seen' \cup {Genesis}
  BY <1>1 DEF Known
<1>8. ~ ok => Refused(b)
  <2>1. CASE b \in bad
    BY <1>2, <1>6, <2>1, RefusedIs
  <2>2. CASE Prev(b) \notin seen \cup {Genesis}
    <3>1. \/ Refused(Prev(b))
          \/ \E j \in 1 .. i - 1 : handling[j].block = Prev(b)
      BY <1>2, <1>4, <1>5, <2>2 DEF CallsOK, Known, b
    <3>2. CASE \E j \in 1 .. i - 1 : handling[j].block = Prev(b)
      <4>1. PICK j \in 1 .. i - 1 : handling[j].block = Prev(b)
        BY <3>2
      <4>2. j \in 1 .. Len(handling) /\ handling[j] \in Call /\ handling[j].res # "none"
        BY <1>3, <1>4, <1>5
      <4>3. handling[j].res = "ok" \/ handling[j].res = "rejected"
        BY <4>2 DEF Call
      <4>4. CASE handling[j].res = "ok"
        BY <1>2, <1>4, <2>2, <4>1, <4>2, <4>4 DEF CallsOK, Known
      <4>5. CASE handling[j].res = "rejected"
        <5>1. Refused(Prev(b))
          BY <1>2, <1>4, <4>1, <4>2, <4>5 DEF CallsOK
        <5> QED
          BY <1>2, <1>6, <5>1, RefusedIs
      <4> QED
        BY <4>3, <4>4, <4>5
    <3> QED
      BY <1>2, <1>6, <3>1, <3>2, RefusedIs
  <2> QED
    BY <2>1, <2>2
<1>9. /\ c \in Call /\ c.block = b /\ (c.res = "ok" => b \in seen')
      /\ (c.res = "rejected" => Refused(b))
  <2>1. CASE ok
    BY <1>1, <1>6, <2>1 DEF Call
  <2>2. CASE ~ ok
    BY <1>6, <1>8, <2>2 DEF Call
  <2> QED
    BY <2>1, <2>2
<1>10. /\ seen' \subseteq Block /\ head' \in seen' /\ accepted' \subseteq seen'
       /\ \A x \in seen' : Prev(x) \in seen' \cup {Genesis}
  <2>1. CASE ok
    BY <1>1, <1>2, <1>6, <2>1 DEF ChainOK
  <2>2. CASE ~ ok
    BY <1>1, <1>2, <2>2 DEF ChainOK
  <2> QED
    BY <2>1, <2>2
<1> HIDE DEF c
<1>11. /\ handling' \in Seq(Call) /\ Len(handling') = Len(handling)
       /\ DOMAIN handling' = 1 .. Len(handling)
       /\ \A j \in 1 .. Len(handling) : handling'[j] = IF j = i THEN c ELSE handling[j]
  BY <1>1, <1>3, <1>5, <1>9
<1>12. \A j \in 1 .. Len(handling) : handling'[j].block = handling[j].block
  <2> TAKE j \in 1 .. Len(handling)
  <2>1. CASE j = i
    BY <1>9, <1>11, <2>1 DEF b
  <2>2. CASE j # i
    BY <1>11, <2>2
  <2> QED
    BY <2>1, <2>2
<1>13. CallsOK(handling', seen' \cup {Genesis})
  <2>1. ASSUME NEW j \in 1 .. Len(handling)
        PROVE  /\ handling'[j].res = "ok" => handling'[j].block \in seen' \cup {Genesis}
               /\ handling'[j].res = "rejected" => Refused(handling'[j].block)
    <3>1. CASE j = i
      BY <1>9, <1>11, <3>1
    <3>2. CASE j # i
      <4>1. handling'[j] = handling[j]
        BY <1>11, <3>2
      <4>2. /\ handling[j].res = "ok" => handling[j].block \in Known
            /\ handling[j].res = "rejected" => Refused(handling[j].block)
        BY <1>2, <1>4 DEF CallsOK
      <4> QED
        BY <1>7, <4>1, <4>2
    <3> QED
      BY <3>1, <3>2
  <2>2. ASSUME NEW j \in 1 .. Len(handling)
        PROVE  \/ Prev(handling'[j].block) \in seen' \cup {Genesis}
               \/ Refused(Prev(handling'[j].block))
               \/ \E k \in 1 .. j - 1 : handling'[k].block = Prev(handling'[j].block)
    <3> DEFINE x == handling[j].block
    <3>1. handling'[j].block = x
      BY <1>12
    <3>2. \/ Prev(x) \in Known \/ Refused(Prev(x))
          \/ \E k \in 1 .. j - 1 : handling[k].block = Prev(x)
      BY <1>2, <1>4 DEF CallsOK
    <3> HIDE DEF x
    <3>3. CASE \E k \in 1 .. j - 1 : handling[k].block = Prev(x)
      <4>1. PICK k \in 1 .. j - 1 : handling[k].block = Prev(x)
        BY <3>3
      <4>2. handling'[k].block = Prev(x)
        BY <1>4, <1>12, <4>1
      <4> QED
        BY <3>1, <4>2
    <3> QED
      BY <1>7, <3>1, <3>2, <3>3
  <2> QED
    BY <1>11, <2>1, <2>2 DEF CallsOK
<1>14. BlocksOf(handling') = BlocksOf(handling)
  BY <1>4, <1>11, <1>12 DEF BlocksOf
<1>15. \A p \in Peers : PeerOK(peer'[p], seen' \cup {Genesis}, BlocksOf(handling'))
  <2> TAKE p \in Peers
  <2>1. PeerOK(peer[p], Known, BlocksOf(handling))
    BY <1>2 DEF PeersOK
  <2>2. PeerOK(peer[p], seen' \cup {Genesis}, BlocksOf(handling))
    BY <1>7, <2>1, PeerOKGrows
  <2> QED
    BY <1>1, <1>14, <2>2
<1>16. /\ BuffersOK' /\ peerHead' \in [Peers -> Block]
       /\ toPeer' \in [Peers -> Seq(Requests)] /\ fromPeer' \in [Peers -> Seq(Messages)]
  BY <1>1, <1>2 DEF BuffersOK, MessagesOK
<1> QED
  BY <1>1, <1>10, <1>13, <1>15, <1>16, Frame

\* A call that is over matters only to the peers that the block came from.
LEMMA PeerOKOther ==
    ASSUME NEW q, NEW known, NEW calls, NEW b, PeerOK(q, known, calls \cup {b}),
           q.conn # "active" \/ b \notin q.processing
    PROVE  PeerOK(q, known, calls)
BY DEF PeerOK, BaseOK, ListOK

\* The calls that are left when the first is over.
LEMMA CallsRest ==
    ASSUME NEW calls, NEW known, CallsOK(calls, known), calls # <<>>,
           calls[1].res # "none"
    PROVE  /\ CallsOK(Tail(calls), known)
           /\ calls[1].block \in Block
           /\ BlocksOf(calls) = BlocksOf(Tail(calls)) \cup {calls[1].block}
           /\ calls[1].res = "ok" => calls[1].block \in known
<1> DEFINE b == calls[1].block
           rest == Tail(calls)
<1>1. calls \in Seq(Call)
  BY DEF CallsOK
<1>2. /\ DOMAIN calls = 1 .. Len(calls) /\ Len(calls) \in Nat \ {0}
      /\ 1 \in 1 .. Len(calls)
      /\ BlocksOf(calls) = { calls[i].block : i \in 1 .. Len(calls) }
      /\ b \in Block
  BY <1>1, CallsAre
<1>3. /\ rest \in Seq(Call) /\ Len(rest) = Len(calls) - 1
      /\ \A i \in 1 .. Len(rest) : rest[i] = calls[i + 1]
  BY <1>1
<1> HIDE DEF rest
<1>4. /\ DOMAIN rest = 1 .. Len(rest)
      /\ BlocksOf(rest) = { rest[i].block : i \in 1 .. Len(rest) }
  BY <1>3, CallsAre
<1>5. BlocksOf(calls) = BlocksOf(rest) \cup {b}
  <2>1. ASSUME NEW i \in 1 .. Len(calls)
        PROVE  calls[i].block \in BlocksOf(rest) \cup {b}
    <3>1. CASE i = 1
      BY <3>1
    <3>2. CASE i > 1
      <4>1. i - 1 \in 1 .. Len(rest) /\ (i - 1) + 1 = i
        BY <1>2, <1>3, <3>2
      <4>2. rest[i - 1] = calls[i]
        BY <1>3, <4>1
      <4> QED
        BY <1>4, <4>1, <4>2
    <3> QED
      BY <1>2, <3>1, <3>2
  <2>2. ASSUME NEW i \in 1 .. Len(rest)
        PROVE  rest[i].block \in BlocksOf(calls)
    <3>1. i + 1 \in 1 .. Len(calls) /\ rest[i] = calls[i + 1]
      BY <1>2, <1>3
    <3> QED
      BY <1>2, <3>1
  <2> QED
    BY <1>2, <1>4, <2>1, <2>2
<1>6. /\ calls[1].res = "ok" => b \in known
      /\ calls[1].res = "rejected" => Refused(b)
      /\ calls[1].res = "ok" \/ calls[1].res = "rejected"
  <2>1. calls[1] \in Call
    BY <1>1, <1>2
  <2> QED
    BY <1>2, <2>1 DEF CallsOK, Call
<1>7. ASSUME NEW i \in 1 .. Len(rest)
      PROVE  /\ rest[i].res = "ok" => rest[i].block \in known
             /\ rest[i].res = "rejected" => Refused(rest[i].block)
  <2>1. i + 1 \in 1 .. Len(calls) /\ rest[i] = calls[i + 1]
    BY <1>2, <1>3
  <2> QED
    BY <1>2, <2>1 DEF CallsOK
<1>8. ASSUME NEW i \in 1 .. Len(rest)
      PROVE  \/ Prev(rest[i].block) \in known
             \/ Refused(Prev(rest[i].block))
             \/ \E j \in 1 .. i - 1 : rest[j].block = Prev(rest[i].block)
  <2> DEFINE x == Prev(rest[i].block)
  <2>1. i + 1 \in 1 .. Len(calls) /\ rest[i] = calls[i + 1] /\ (i + 1) - 1 = i
    BY <1>2, <1>3
  <2>2. \/ x \in known \/ Refused(x)
        \/ \E j \in 1 .. (i + 1) - 1 : calls[j].block = x
    BY <1>2, <2>1 DEF CallsOK
  <2> HIDE DEF x
  <2>3. CASE \E j \in 1 .. (i + 1) - 1 : calls[j].block = x
    <3>1. PICK j \in 1 .. i : calls[j].block = x
      BY <2>1, <2>3
    <3>2. CASE j = 1
      BY <1>6, <3>1, <3>2 DEF x
    <3>3. CASE j > 1
      <4>1. j - 1 \in 1 .. Len(rest) /\ j - 1 \in 1 .. i - 1 /\ (j - 1) + 1 = j
        BY <1>2, <1>3, <3>3
      <4>2. rest[j - 1] = calls[j]
        BY <1>3, <4>1
      <4> QED
        BY <3>1, <4>1, <4>2 DEF x
    <3> QED
      BY <3>1, <3>2, <3>3
  <2> QED
    BY <2>2, <2>3 DEF x
<1>9. CallsOK(rest, known)
  BY <1>3, <1>4, <1>7, <1>8 DEF CallsOK
<1> QED
  BY <1>2, <1>5, <1>6, <1>9 DEF rest

\* The node goes on after an answer.
LEMMA SyncBlockDoneOInv ==
    ASSUME OInv, IInv', SyncBlockDone
    PROVE  OInv'
<1> DEFINE b == Head(handling).block
           ok == Head(handling).res = "ok"
           hasList(p) == peer[p].ids # <<>> \/ peer[p].processing # {}
           offers == { p \in Active : b \in peer[p].processing }
           asked == { p \in offers : ok /\ Exhausted(Finished(peer[p], b)) }
           restarted == { p \in Active : /\ ok /\ ~ hasList(p)
                                         /\ ~ peer[p].peerNeeds
                                         /\ ~ peer[p].weNeed }
           taken(p) == [Finished(peer[p], b) EXCEPT !.lastSeen = b]
           q(p) == CASE p \in asked -> FetchNextBatch(taken(p))
                     [] p \in restarted -> StartSynchronizing(peer[p])
                     [] p \in offers \ asked ->
                            IF ok THEN taken(p) ELSE Disconnect(peer[p])
                     [] OTHER -> peer[p]
           calls == BlocksOf(Tail(handling))
           one(r) == \E x \in SUBSET BlockOrGenesis : r.idsRequested = {x}
<1>1. /\ handling # <<>> /\ Head(handling).res # "none"
      /\ handling' = Tail(handling)
      /\ accepted' = IF ok THEN accepted \cup {b} ELSE accepted
      /\ peer' = [ p \in Peers |-> q(p) ]
      /\ SendIdsRequests(asked \cup restarted)
      /\ UNCHANGED <<tree, head, seen>>
      /\ UNCHANGED <<fresh, received, peerHead, fromPeer>>
  BY DEF SyncBlockDone, world
<1>2. /\ ChainOK /\ CallsOK(handling, Known) /\ PeersOK /\ MessagesOK /\ BuffersOK
      /\ ContextOK(Known, BlocksOf(handling))
  BY OInvContext DEF OInv
<1>3. Head(handling) = handling[1]
  BY <1>1, <1>2 DEF CallsOK
<1>4. /\ CallsOK(Tail(handling), Known) /\ b \in Block
      /\ BlocksOf(handling) = calls \cup {b}
      /\ ok => b \in Known
  BY <1>1, <1>2, <1>3, CallsRest
<1>5. ok => b \in seen
  BY <1>4 DEF Known, Block, Genesis
<1>6. ContextOK(Known, calls)
  BY <1>2, <1>4 DEF ContextOK
<1> HIDE DEF calls, b
<1>7. ASSUME NEW p \in Peers
      PROVE  /\ PeerOK(q(p), Known, calls)
             /\ p \in asked \cup restarted => one(q(p))
  <2>1. Connection(peer[p]) /\ PeerOK(peer[p], Known, calls \cup {b})
    BY <1>2, <1>4, PeerIs DEF OInv, PeersOK
  <2>2. p \in Active <=> peer[p].conn = "active"
    BY DEF Active
  <2>3. CASE p \in offers /\ ok
    <3> DEFINE f == Finished(peer[p], b)
               t == [f EXCEPT !.lastSeen = b]
    <3>1. Fields(f, peer[p].conn, peer[p].ids, peer[p].processing \ {b},
                 peer[p].lastSeen, peer[p].idsRequested)
      BY <2>1, FieldsSet DEF Finished
    <3>2. PeerOK(f, Known, calls) /\ Connection(f)
      BY <1>4, <2>1, <2>3, <3>1, PeerOKDone DEF Fields
    <3>3. taken(p) = t
      OBVIOUS
    <3> HIDE DEF f
    <3>4. Fields(t, f.conn, f.ids, f.processing, b, f.idsRequested)
      BY <3>2, FieldsSet
    <3> HIDE DEF t
    <3>5. b \in BlockOrGenesis /\ b \in Held(f, Known)
      BY <1>4, <2>3 DEF BlockOrGenesis, Held
    <3>6. PeerOK(t, Known, calls) /\ Connection(t) /\ BaseOK(t, Known, calls)
      BY <3>2, <3>4, <3>5 DEF Fields, PeerOK, BaseOK, AskedOK, Typed, ListOK, Held
    <3>7. PeerOK(FetchNextBatch(t), Known, calls) /\ one(FetchNextBatch(t))
      BY <1>6, <3>6, FetchNextBatchOK
    <3>8. p \notin restarted
      BY <2>3
    <3> HIDE DEF asked, restarted, offers, taken, ok, one
    <3>9. CASE p \in asked
      <4>1. q(p) = FetchNextBatch(t)
        BY <3>3, <3>8, <3>9
      <4> HIDE DEF q
      <4> QED
        BY <3>7, <4>1
    <3>10. CASE p \notin asked
      <4>1. q(p) = t
        BY <2>3, <3>3, <3>8, <3>10
      <4> HIDE DEF q
      <4> QED
        BY <3>6, <3>8, <3>10, <4>1
    <3> QED
      BY <3>9, <3>10
  <2>4. CASE p \in offers /\ ~ ok
    <3>1. p \notin asked /\ p \notin restarted /\ peer[p].conn = "active"
      BY <2>2, <2>4
    <3>2. PeerOK(Disconnect(peer[p]), Known, calls)
      BY <2>1, <3>1, DisconnectOK
    <3> HIDE DEF asked, restarted, offers, ok, one
    <3>3. q(p) = Disconnect(peer[p])
      BY <2>4, <3>1
    <3> HIDE DEF q
    <3> QED
      BY <3>1, <3>2, <3>3
  <2>5. CASE p \notin offers
    <3>1. peer[p].conn # "active" \/ b \notin peer[p].processing
      BY <2>2, <2>5
    <3>2. PeerOK(peer[p], Known, calls)
      BY <2>1, <3>1, PeerOKOther
    <3>3. /\ PeerOK(StartSynchronizing(peer[p]), Known, calls)
          /\ one(StartSynchronizing(peer[p]))
      BY <1>6, <2>1, <3>2, StartSynchronizingOK DEF PeerOK
    <3>4. p \notin asked
      BY <2>5
    <3> HIDE DEF asked, restarted, offers, ok, one, taken
    <3>5. CASE p \in restarted
      <4>1. q(p) = StartSynchronizing(peer[p])
        BY <2>5, <3>4, <3>5
      <4> HIDE DEF q
      <4> QED
        BY <3>3, <4>1
    <3>6. CASE p \notin restarted
      <4>1. q(p) = peer[p]
        BY <2>5, <3>4, <3>6
      <4> HIDE DEF q
      <4> QED
        BY <3>2, <3>4, <3>6, <4>1
    <3> QED
      BY <3>5, <3>6
  <2> HIDE DEF q, one, offers, ok, asked, restarted
  <2> QED
    BY <2>3, <2>4, <2>5
<1> HIDE DEF q, asked, restarted
<1>8. \A p \in Peers : peer'[p] = q(p)
  BY <1>1
<1>9. toPeer' \in [Peers -> Seq(Requests)]
  BY <1>1, <1>2, <1>7, <1>8, SendIdsRequestsOK DEF MessagesOK
<1>10. /\ seen' \subseteq Block /\ head' \in seen' /\ accepted' \subseteq seen'
       /\ \A x \in seen' : Prev(x) \in seen' \cup {Genesis}
  BY <1>1, <1>2, <1>5 DEF ChainOK
<1>11. CallsOK(handling', seen' \cup {Genesis})
  BY <1>1, <1>4 DEF Known
<1>12. \A p \in Peers : PeerOK(peer'[p], seen' \cup {Genesis}, BlocksOf(handling'))
  BY <1>1, <1>7, <1>8 DEF Known, calls
<1>13. BuffersOK' /\ peerHead' \in [Peers -> Block] /\ fromPeer' \in [Peers -> Seq(Messages)]
  BY <1>1, <1>2 DEF BuffersOK, MessagesOK
<1>14. UNCHANGED tree
  BY <1>1
<1> QED
  BY <1>9, <1>10, <1>11, <1>12, <1>13, <1>14, Frame

-----------------------------------------------------------------------------
(***************************************************************************)
(* process_backlog_of_sync_blocks().                                       *)
(***************************************************************************)
Statuses == {"more", "done", "full"}

\* A record with the fields of the backlog.
Round(s) ==
    s = [ received |-> s.received, handling |-> s.handling, ids |-> s.ids,
          processing |-> s.processing, asked |-> s.asked, status |-> s.status ]

RoundIs(s, received0, handling0, ids, processing, asked, status) ==
    /\ Round(s)
    /\ s.received = received0 /\ s.handling = handling0 /\ s.ids = ids
    /\ s.processing = processing /\ s.asked = asked /\ s.status = status

\* The fields of the backlog after one of them is set.
LEMMA RoundSet ==
    ASSUME NEW s, Round(s), NEW x
    PROVE  /\ RoundIs([s EXCEPT !.received = x], x, s.handling, s.ids,
                      s.processing, s.asked, s.status)
           /\ RoundIs([s EXCEPT !.handling = x], s.received, x, s.ids,
                      s.processing, s.asked, s.status)
           /\ RoundIs([s EXCEPT !.ids = x], s.received, s.handling, x,
                      s.processing, s.asked, s.status)
           /\ RoundIs([s EXCEPT !.processing = x], s.received, s.handling, s.ids,
                      x, s.asked, s.status)
           /\ RoundIs([s EXCEPT !.asked = x], s.received, s.handling, s.ids,
                      s.processing, x, s.status)
           /\ RoundIs([s EXCEPT !.status = x], s.received, s.handling, s.ids,
                      s.processing, s.asked, x)
BY DEF Round, RoundIs

\* The connections with the lists and blocks in progress of a round hang
\* together with the calls of that round.
ListsOK(ids, processing, calls) ==
    \A p \in Peers : PeerOK(Backlogged(p, ids, processing), Known, calls)

\* A function of the peers.
OfPeers(f) == f = [ p \in Peers |-> f[p] ]

RoundOK(s) ==
    /\ Round(s) /\ OfPeers(s.ids) /\ OfPeers(s.processing) /\ s.asked \subseteq Peers
    /\ s.received \in Seq(Block) /\ s.status \in Statuses
    /\ CallsOK(s.handling, Known)
    /\ ListsOK(s.ids, s.processing, BlocksOf(s.handling))

\* What Backlogged() sets.
LEMMA BackloggedIs ==
    ASSUME NEW p, Connection(peer[p]), NEW ids, NEW processing
    PROVE  Fields(Backlogged(p, ids, processing), peer[p].conn, ids[p],
                  processing[p], peer[p].lastSeen, peer[p].idsRequested)
<1> DEFINE q == peer[p]
           i == ids[p]
           x == processing[p]
           a == [q EXCEPT !.ids = i]
           d == [a EXCEPT !.processing = x]
<1>1. Backlogged(p, ids, processing) = d
  BY DEF Backlogged
<1> HIDE DEF q, i, x
<1>2. Fields(a, q.conn, i, q.processing, q.lastSeen, q.idsRequested)
  BY FieldsSet DEF q
<1> HIDE DEF a
<1>3. Connection(a)
  BY <1>2 DEF Fields
<1>4. Fields(d, a.conn, a.ids, x, a.lastSeen, a.idsRequested)
  BY <1>3, FieldsSet
<1> HIDE DEF d
<1>5. Fields(d, q.conn, i, x, q.lastSeen, q.idsRequested)
  BY <1>2, <1>4 DEF Fields
<1> QED
  BY <1>1, <1>5 DEF q, i, x

\* The peers that offer a block next.
Offers(ids, b) == { p \in Active : IsNext(ids[p], b) }

\* The block leaves their lists and is in progress.
LEMMA ListsTake ==
    ASSUME OInv, NEW ids0, NEW processing0, NEW calls, ListsOK(ids0, processing0, calls),
           NEW b
    PROVE  LET offers == Offers(ids0, b)
               ids == [ p \in Peers |-> IF p \in offers THEN Tail(ids0[p]) ELSE ids0[p] ]
               begun == [ p \in Peers |-> IF p \in offers THEN processing0[p] \cup {b}
                                          ELSE processing0[p] ]
           IN  ListsOK(ids, begun, calls \cup {b})
<1> DEFINE offers == Offers(ids0, b)
           ids == [ p \in Peers |-> IF p \in offers THEN Tail(ids0[p]) ELSE ids0[p] ]
           begun == [ p \in Peers |-> IF p \in offers THEN processing0[p] \cup {b}
                                      ELSE processing0[p] ]
<1> SUFFICES ASSUME NEW p \in Peers
             PROVE  PeerOK(Backlogged(p, ids, begun), Known, calls \cup {b})
  BY DEF ListsOK
<1> DEFINE q == Backlogged(p, ids0, processing0)
           r == Backlogged(p, ids, begun)
<1>1. Connection(peer[p])
  BY PeerIs DEF OInv
<1>2. Fields(q, peer[p].conn, ids0[p], processing0[p], peer[p].lastSeen, peer[p].idsRequested)
  BY <1>1, BackloggedIs
<1>3. Fields(r, peer[p].conn, ids[p], begun[p], peer[p].lastSeen, peer[p].idsRequested)
  <2> HIDE DEF ids, begun
  <2> QED
    BY <1>1, BackloggedIs
<1>4. PeerOK(q, Known, calls)
  BY DEF ListsOK
<1> HIDE DEF q, r
<1>5. CASE p \in offers
  <2>1. ids[p] = Tail(ids0[p]) /\ begun[p] = processing0[p] \cup {b}
    BY <1>5
  <2>2. ids0[p] # <<>> /\ ids0[p][1] = b
    BY <1>5 DEF Offers, IsNext
  <2> HIDE DEF ids, begun
  <2>3. /\ q.ids # <<>> /\ q.ids[1] = b
        /\ Fields(r, q.conn, Tail(q.ids), q.processing \cup {q.ids[1]}, q.lastSeen,
                  q.idsRequested)
    BY <1>2, <1>3, <2>1, <2>2 DEF Fields
  <2>4. PeerOK(r, Known, calls \cup {q.ids[1]})
    BY <1>4, <2>3, PeerOKTakes
  <2> QED
    BY <2>3, <2>4 DEF r
<1>6. CASE p \notin offers
  <2>1. ids[p] = ids0[p] /\ begun[p] = processing0[p]
    BY <1>6
  <2> HIDE DEF ids, begun
  <2>2. Alike(q, r)
    BY <1>2, <1>3, <2>1 DEF Fields, Alike
  <2>3. PeerOK(r, Known, calls)
    BY <1>4, <2>2, AlikeOK
  <2>4. PeerOK(r, Known, calls \cup {b})
    BY <2>3, PeerOKGrows
  <2> QED
    BY <2>4 DEF r
<1> QED
  BY <1>5, <1>6

\* A block that the chain has already is not in progress any more.
LEMMA ListsDone ==
    ASSUME OInv, NEW ids, NEW begun, NEW calls, NEW b \in Known,
           ListsOK(ids, begun, calls \cup {b})
    PROVE  LET dealt == [ p \in Peers |-> IF p \in Active THEN begun[p] \ {b} ELSE begun[p] ]
           IN  ListsOK(ids, dealt, calls)
<1> DEFINE dealt == [ p \in Peers |-> IF p \in Active THEN begun[p] \ {b} ELSE begun[p] ]
<1> SUFFICES ASSUME NEW p \in Peers
             PROVE  PeerOK(Backlogged(p, ids, dealt), Known, calls)
  BY DEF ListsOK
<1> DEFINE q == Backlogged(p, ids, begun)
           r == Backlogged(p, ids, dealt)
<1>1. Connection(peer[p])
  BY PeerIs DEF OInv
<1>2. Fields(q, peer[p].conn, ids[p], begun[p], peer[p].lastSeen, peer[p].idsRequested)
  BY <1>1, BackloggedIs
<1>3. Fields(r, peer[p].conn, ids[p], dealt[p], peer[p].lastSeen, peer[p].idsRequested)
  <2> HIDE DEF dealt
  <2> QED
    BY <1>1, BackloggedIs
<1>4. PeerOK(q, Known, calls \cup {b})
  BY DEF ListsOK
<1> HIDE DEF q, r
<1>5. p \notin Active => PeerOK(q, Known, calls)
  BY <1>2, <1>4, PeerOKOther DEF Active, Fields
<1>6. CASE p \in Active
  <2>1. dealt[p] = begun[p] \ {b}
    BY <1>6
  <2> HIDE DEF dealt
  <2>2. Fields(r, q.conn, q.ids, q.processing \ {b}, q.lastSeen, q.idsRequested)
    BY <1>2, <1>3, <2>1 DEF Fields
  <2>3. PeerOK(r, Known, calls)
    BY <1>4, <2>2, PeerOKDone
  <2> QED
    BY <2>3 DEF r
<1>7. CASE p \notin Active
  <2>1. dealt[p] = begun[p]
    BY <1>7
  <2> HIDE DEF dealt
  <2>2. Alike(q, r)
    BY <1>2, <1>3, <2>1 DEF Fields, Alike
  <2> QED
    BY <1>5, <1>7, <2>2, AlikeOK DEF r
<1> QED
  BY <1>6, <1>7

\* A block that stands first in a list is handed to the chain after its parent.
LEMMA CallsNext ==
    ASSUME OInv, NEW calls, CallsOK(calls, Known), NEW ids, NEW processing,
           ListsOK(ids, processing, BlocksOf(calls)),
           NEW b \in Block, Offers(ids, b) # {}
    PROVE  LET more == Append(calls, [block |-> b, res |-> "none"])
           IN  /\ CallsOK(more, Known)
               /\ BlocksOf(more) = BlocksOf(calls) \cup {b}
<1> DEFINE e == [block |-> b, res |-> "none"]
           more == Append(calls, e)
           n == Len(calls)
<1>1. calls \in Seq(Call)
  BY DEF CallsOK
<1>2. /\ DOMAIN calls = 1 .. n /\ n \in Nat
      /\ BlocksOf(calls) = { calls[i].block : i \in 1 .. n }
  BY <1>1, CallsAre
<1>3. e \in Call /\ e.block = b /\ e.res = "none"
  BY DEF Call
<1> HIDE DEF e
<1>4. /\ more \in Seq(Call) /\ Len(more) = n + 1 /\ DOMAIN more = 1 .. n + 1
      /\ more[n + 1] = e /\ \A i \in 1 .. n : more[i] = calls[i]
  BY <1>1, <1>2, <1>3
<1> HIDE DEF more, n
<1>5. PICK p \in Active : IsNext(ids[p], b)
  BY DEF Offers
<1>6. Prev(b) \in Known \/ \E j \in 1 .. n : calls[j].block = Prev(b)
  <2> DEFINE q == Backlogged(p, ids, processing)
  <2>1. p \in Peers /\ peer[p].conn = "active"
    BY DEF Active
  <2>2. Connection(peer[p]) /\ PeerOK(q, Known, BlocksOf(calls))
    BY <2>1, PeerIs DEF OInv, ListsOK
  <2>3. Fields(q, peer[p].conn, ids[p], processing[p], peer[p].lastSeen, peer[p].idsRequested)
    BY <2>2, BackloggedIs
  <2> HIDE DEF q
  <2>4. ListOK(q, Known, BlocksOf(calls)) /\ q.ids # <<>> /\ q.ids[1] = b
    BY <1>5, <2>1, <2>2, <2>3 DEF PeerOK, BaseOK, Fields, IsNext
  <2>5. Prev(b) \in Known \/ Prev(b) \in BlocksOf(calls)
    BY <2>4 DEF ListOK, Held
  <2> QED
    BY <1>2, <2>5
<1>7. ASSUME NEW i \in 1 .. n + 1
      PROVE  /\ more[i].res = "ok" => more[i].block \in Known
             /\ more[i].res = "rejected" => Refused(more[i].block)
  <2>1. CASE i = n + 1
    BY <1>3, <1>4, <2>1
  <2>2. CASE i \in 1 .. n
    BY <1>2, <1>4, <2>2 DEF CallsOK
  <2> QED
    BY <1>2, <2>1, <2>2
<1>8. ASSUME NEW i \in 1 .. n + 1
      PROVE  \/ Prev(more[i].block) \in Known
             \/ Refused(Prev(more[i].block))
             \/ \E j \in 1 .. i - 1 : more[j].block = Prev(more[i].block)
  <2>1. CASE i = n + 1
    <3>1. more[i].block = b /\ i - 1 = n
      BY <1>2, <1>3, <1>4, <2>1
    <3>2. CASE \E j \in 1 .. n : calls[j].block = Prev(b)
      <4>1. PICK j \in 1 .. n : calls[j].block = Prev(b)
        BY <3>2
      <4>2. j \in 1 .. i - 1 /\ more[j].block = Prev(b)
        BY <1>4, <3>1, <4>1
      <4> QED
        BY <3>1, <4>2
    <3> QED
      BY <1>6, <3>1, <3>2
  <2>2. CASE i \in 1 .. n
    <3>1. more[i] = calls[i] /\ \A j \in 1 .. i - 1 : more[j] = calls[j]
      BY <1>2, <1>4, <2>2
    <3>2. \/ Prev(calls[i].block) \in Known
          \/ Refused(Prev(calls[i].block))
          \/ \E j \in 1 .. i - 1 : calls[j].block = Prev(calls[i].block)
      BY <1>2, <2>2 DEF CallsOK
    <3> QED
      BY <3>1, <3>2
  <2> QED
    BY <1>2, <2>1, <2>2
<1>9. CallsOK(more, Known)
  BY <1>4, <1>7, <1>8 DEF CallsOK
<1>10. BlocksOf(more) = BlocksOf(calls) \cup {b}
  <2>1. BlocksOf(more) = { more[i].block : i \in 1 .. n + 1 }
    BY <1>4 DEF BlocksOf
  <2>2. \A i \in 1 .. n + 1 : i \in 1 .. n \/ i = n + 1
    BY <1>2
  <2>3. n + 1 \in 1 .. n + 1 /\ \A i \in 1 .. n : i \in 1 .. n + 1
    BY <1>2
  <2> QED
    BY <1>2, <1>3, <1>4, <2>1, <2>2, <2>3
<1> QED
  BY <1>9, <1>10 DEF more, e

\* Another status.
LEMMA RoundStatus ==
    ASSUME NEW s, RoundOK(s), NEW x \in Statuses
    PROVE  RoundOK([s EXCEPT !.status = x])
<1> DEFINE r == [s EXCEPT !.status = x]
<1>1. RoundIs(r, s.received, s.handling, s.ids, s.processing, s.asked, x)
  BY RoundSet DEF RoundOK
<1> HIDE DEF r
<1> QED
  BY <1>1 DEF RoundIs, RoundOK, r

\* One round of process_backlog_of_sync_blocks().
LEMMA BacklogRoundOK ==
    ASSUME OInv, NEW s, RoundOK(s)
    PROVE  RoundOK(BacklogRound(s))
<1> DEFINE ready == { i \in 1 .. Len(s.received) :
                          \E p \in Active : IsNext(s.ids[p], s.received[i]) }
           i == Min(ready)
           b == s.received[i]
           offers == { p \in Active : IsNext(s.ids[p], b) }
           ids == [ p \in Peers |-> IF p \in offers THEN Tail(s.ids[p]) ELSE s.ids[p] ]
           begun == [ p \in Peers |-> IF p \in offers THEN s.processing[p] \cup {b}
                                     ELSE s.processing[p] ]
           dealt == [ p \in Peers |-> IF p \in Active THEN begun[p] \ {b}
                                     ELSE begun[p] ]
           asked == { p \in Active : /\ b \in begun[p]
                                    /\ Exhausted(Backlogged(p, ids, dealt)) }
           known == [s EXCEPT !.ids = ids, !.processing = dealt,
                              !.asked = asked, !.status = "done"]
           begin == [s EXCEPT !.ids = ids, !.processing = begun,
                              !.received = RemoveAt(@, i),
                              !.handling = Append(@, [block |-> b, res |-> "none"])]
           next == IF ready = {} THEN [s EXCEPT !.status = "done"]
                   ELSE IF b \in accepted THEN known ELSE begin
           calls == BlocksOf(s.handling)
<1>1. /\ Round(s) /\ s.received \in Seq(Block) /\ s.status \in Statuses
      /\ s.asked \subseteq Peers
      /\ CallsOK(s.handling, Known) /\ ListsOK(s.ids, s.processing, calls)
  BY DEF RoundOK
<1>2. BacklogRound(s) =
          IF Len(next.handling) < MaxHandling THEN next
          ELSE [next EXCEPT !.status = IF Len(next.received) >= MaxPrefetch
                                       THEN "full" ELSE "done"]
  BY DEF BacklogRound
<1>3. RoundOK([s EXCEPT !.status = "done"])
  BY RoundStatus DEF Statuses
<1>4. ASSUME ready # {}
      PROVE  i \in 1 .. Len(s.received) /\ b \in Block /\ offers # {}
  <2>1. ready \in SUBSET (1 .. Len(s.received)) /\ Len(s.received) \in Nat
    BY <1>1
  <2>2. i \in ready
    <3> HIDE DEF ready
    <3> QED
      BY <1>4, <2>1, MaxMin
  <2> HIDE DEF i
  <2> QED
    BY <1>1, <2>2
<1> HIDE DEF i, b
<1>5. offers = Offers(s.ids, b)
  BY DEF Offers
<1>6. ListsOK(ids, begun, calls \cup {b})
  BY <1>1, <1>5, ListsTake
<1>61. OfPeers(ids) /\ OfPeers(begun) /\ OfPeers(dealt) /\ asked \subseteq Peers
  BY DEF OfPeers, Active
<1> HIDE DEF ids, begun, ready
<1>7. ASSUME b \in accepted
      PROVE  RoundOK(known)
  <2> DEFINE s1 == [s EXCEPT !.ids = ids]
             s2 == [s1 EXCEPT !.processing = dealt]
             s3 == [s2 EXCEPT !.asked = asked]
             s4 == [s3 EXCEPT !.status = "done"]
  <2>1. b \in Known
    BY <1>7 DEF OInv, ChainOK, Known
  <2>2. ListsOK(ids, dealt, calls)
    BY <1>6, <2>1, ListsDone
  <2> HIDE DEF dealt, asked
  <2>3. known = s4
    OBVIOUS
  <2>4. RoundIs(s1, s.received, s.handling, ids, s.processing, s.asked, s.status)
    BY <1>1, RoundSet
  <2> HIDE DEF s1
  <2>41. Round(s1)
    BY <2>4 DEF RoundIs
  <2>5. RoundIs(s2, s1.received, s1.handling, s1.ids, dealt, s1.asked, s1.status)
    BY <2>41, RoundSet
  <2> HIDE DEF s2
  <2>51. Round(s2)
    BY <2>5 DEF RoundIs
  <2>6. RoundIs(s3, s2.received, s2.handling, s2.ids, s2.processing, asked, s2.status)
    BY <2>51, RoundSet
  <2> HIDE DEF s3
  <2>61. Round(s3)
    BY <2>6 DEF RoundIs
  <2>7. RoundIs(s4, s3.received, s3.handling, s3.ids, s3.processing, s3.asked, "done")
    BY <2>61, RoundSet
  <2> HIDE DEF s4, known
  <2>8. /\ Round(s4) /\ s4.received = s.received /\ s4.handling = s.handling
        /\ s4.ids = ids /\ s4.processing = dealt /\ s4.asked = asked /\ s4.status = "done"
    BY <2>4, <2>5, <2>6, <2>7 DEF RoundIs
  <2> QED
    BY <1>1, <1>61, <2>2, <2>3, <2>8 DEF RoundOK, Statuses
<1>8. ASSUME ready # {}
      PROVE  RoundOK(begin)
  <2> DEFINE x == RemoveAt(s.received, i)
             h == Append(s.handling, [block |-> b, res |-> "none"])
             s1 == [s EXCEPT !.ids = ids]
             s2 == [s1 EXCEPT !.processing = begun]
             s3 == [s2 EXCEPT !.received = x]
             s4 == [s3 EXCEPT !.handling = h]
  <2>1. x \in Seq(Block)
    BY <1>1, <1>4, <1>8 DEF RemoveAt
  <2>2. CallsOK(h, Known) /\ BlocksOf(h) = calls \cup {b}
    BY <1>1, <1>4, <1>5, <1>8, CallsNext
  <2>3. begin = [s EXCEPT !.ids = ids, !.processing = begun, !.received = x, !.handling = h]
    OBVIOUS
  <2> HIDE DEF x, h
  <2>32. begin = s4
    BY <2>3
  <2>4. RoundIs(s1, s.received, s.handling, ids, s.processing, s.asked, s.status)
    BY <1>1, RoundSet
  <2> HIDE DEF s1
  <2>41. Round(s1)
    BY <2>4 DEF RoundIs
  <2>5. RoundIs(s2, s1.received, s1.handling, s1.ids, begun, s1.asked, s1.status)
    BY <2>41, RoundSet
  <2> HIDE DEF s2
  <2>51. Round(s2)
    BY <2>5 DEF RoundIs
  <2>6. RoundIs(s3, x, s2.handling, s2.ids, s2.processing, s2.asked, s2.status)
    BY <2>51, RoundSet
  <2> HIDE DEF s3
  <2>61. Round(s3)
    BY <2>6 DEF RoundIs
  <2>7. RoundIs(s4, s3.received, h, s3.ids, s3.processing, s3.asked, s3.status)
    BY <2>61, RoundSet
  <2> HIDE DEF s4, begin
  <2>8. /\ Round(s4) /\ s4.received = x /\ s4.handling = h
        /\ s4.ids = ids /\ s4.processing = begun /\ s4.asked = s.asked
        /\ s4.status = s.status
    BY <2>4, <2>5, <2>6, <2>7 DEF RoundIs
  <2> QED
    BY <1>1, <1>6, <1>61, <2>1, <2>2, <2>32, <2>8 DEF RoundOK
<1> HIDE DEF known, begin
<1>9. RoundOK(next)
  BY <1>3, <1>7, <1>8
<1> HIDE DEF next
<1>10. \A x \in Statuses : RoundOK([next EXCEPT !.status = x])
  BY <1>9, RoundStatus
<1> QED
  BY <1>2, <1>9, <1>10 DEF Statuses

\* The backlog before the first round.
FirstRound ==
    [ received |-> Reverse(fresh) \o received, handling |-> handling,
      ids |-> [ p \in Peers |-> peer[p].ids ],
      processing |-> [ p \in Peers |-> peer[p].processing ],
      asked |-> {}, status |-> "more" ]

\* It is what the buffers and the connections hold.
LEMMA FirstRoundOK ==
    ASSUME OInv
    PROVE  /\ RoundOK(FirstRound)
           /\ Len(Reverse(fresh) \o received) = Len(fresh) + Len(received)
           /\ Len(fresh) \in Nat /\ Len(received) \in Nat
<1> DEFINE all == Reverse(fresh) \o received
           ids == [ p \in Peers |-> peer[p].ids ]
           processing == [ p \in Peers |-> peer[p].processing ]
           calls == BlocksOf(handling)
<1>1. fresh \in Seq(Block) /\ received \in Seq(Block)
  BY DEF OInv, BuffersOK
<1>2. Reverse(fresh) \in Seq(Block) /\ Len(Reverse(fresh)) = Len(fresh)
  BY <1>1 DEF Reverse
<1>3. /\ all \in Seq(Block) /\ Len(all) = Len(fresh) + Len(received)
      /\ Len(fresh) \in Nat /\ Len(received) \in Nat
  BY <1>1, <1>2
<1>4. ASSUME NEW p \in Peers
      PROVE  PeerOK(Backlogged(p, ids, processing), Known, calls)
  <2> DEFINE r == Backlogged(p, ids, processing)
  <2>1. Connection(peer[p]) /\ PeerOK(peer[p], Known, calls)
    BY PeerIs DEF OInv, PeersOK
  <2>2. Fields(r, peer[p].conn, ids[p], processing[p], peer[p].lastSeen, peer[p].idsRequested)
    <3> HIDE DEF ids, processing
    <3> QED
      BY <2>1, BackloggedIs
  <2>3. ids[p] = peer[p].ids /\ processing[p] = peer[p].processing
    OBVIOUS
  <2> HIDE DEF r, ids, processing
  <2>4. Alike(peer[p], r)
    BY <2>2, <2>3 DEF Alike
  <2> QED
    BY <2>1, <2>4, AlikeOK DEF r
<1>5. ListsOK(ids, processing, calls)
  BY <1>4 DEF ListsOK
<1>51. OfPeers(ids) /\ OfPeers(processing)
  BY DEF OfPeers
<1> HIDE DEF all, ids, processing
<1>6. RoundIs(FirstRound, all, handling, ids, processing, {}, "more")
  BY DEF FirstRound, RoundIs, Round, all, ids, processing
<1>7. CallsOK(handling, Known)
  BY DEF OInv
<1>8. RoundOK(FirstRound)
  BY <1>3, <1>5, <1>51, <1>6, <1>7 DEF RoundIs, RoundOK, Statuses
<1> QED
  BY <1>3, <1>8 DEF all

\* The records that the rounds are made of.
Rounds ==
    [ received : Seq(Block), handling : Seq(Call), ids : [Peers -> Lists],
      processing : [Peers -> SUBSET Block], asked : SUBSET Peers, status : Statuses ]

\* They have the right types.
LEMMA RoundTyped ==
    ASSUME OInv, NEW s, RoundOK(s)
    PROVE  s \in Rounds
<1>1. /\ Round(s) /\ OfPeers(s.ids) /\ OfPeers(s.processing) /\ s.asked \in SUBSET Peers
      /\ s.received \in Seq(Block) /\ s.status \in Statuses /\ s.handling \in Seq(Call)
      /\ ListsOK(s.ids, s.processing, BlocksOf(s.handling))
  BY DEF RoundOK, CallsOK
<1>2. ASSUME NEW p \in Peers
      PROVE  s.ids[p] \in Lists /\ s.processing[p] \in SUBSET Block
  <2> DEFINE q == Backlogged(p, s.ids, s.processing)
  <2>1. Connection(peer[p]) /\ Typed(q)
    BY <1>1, PeerIs DEF OInv, ListsOK, PeerOK, BaseOK
  <2>2. Fields(q, peer[p].conn, s.ids[p], s.processing[p], peer[p].lastSeen, peer[p].idsRequested)
    BY <2>1, BackloggedIs
  <2> HIDE DEF q
  <2> QED
    BY <2>1, <2>2 DEF Fields, Typed
<1>3. s.ids \in [Peers -> Lists] /\ s.processing \in [Peers -> SUBSET Block]
  BY <1>1, <1>2 DEF OfPeers
<1> QED
  BY <1>1, <1>3 DEF Round, Rounds

\* The backlog after any number of rounds.
LEMMA BacklogOK ==
    ASSUME OInv
    PROVE  \A i \in 0 .. Len(fresh) + Len(received) + 1 : RoundOK(Backlog[i])
<1> DEFINE n == Len(Reverse(fresh) \o received) + 1
           V == { s \in Rounds : RoundOK(s) }
           base == FirstRound
           E(v, i) == IF v.status # "more" THEN v ELSE BacklogRound(v)
           F(f) == [i \in 0 .. n |-> IF i = 0 THEN base ELSE E(f[i - 1], i)]
           step == [i \in 1 .. n |-> [v \in V |-> E(v, i)]]
           S == Backlog
<1>1. n \in Nat /\ base \in V
  BY FirstRoundOK, RoundTyped
<1>2. ASSUME NEW i \in 1 .. n, NEW v \in V
      PROVE  E(v, i) \in V
  <2>1. RoundOK(BacklogRound(v))
    BY BacklogRoundOK
  <2>2. BacklogRound(v) \in V
    BY <2>1, RoundTyped
  <2> QED
    BY <2>2
<1>3. S = CHOOSE f : f = F(f)
  BY DEF Backlog, FirstRound
<1> HIDE DEF S, n, V, base, E
<1>4. StepFunction(step, n, V)
  BY <1>2 DEF StepFunction
<1>5. \A i \in 1 .. n : \A v \in V : step[i][v] = E(v, i)
  OBVIOUS
<1> HIDE DEF step
<1>6. PICK g : Recursive(g, n, V, base, step)
  BY <1>1, <1>4, RecursionExists
<1>7. g = F(g)
  <2>1. \A i \in 1 .. n : g[i] = E(g[i - 1], i)
    BY <1>1, <1>5, <1>6 DEF Recursive
  <2>2. g = [i \in 0 .. n |-> g[i]] /\ g[0] = base
    BY <1>6 DEF Recursive
  <2>3. \A i \in 0 .. n : g[i] = IF i = 0 THEN base ELSE E(g[i - 1], i)
    <3> TAKE i \in 0 .. n
    <3>1. CASE i = 0
      BY <2>2, <3>1
    <3>2. CASE i \in 1 .. n
      BY <1>1, <2>1, <3>2
    <3> QED
      BY <1>1, <3>1, <3>2
  <2> QED
    BY <2>2, <2>3
<1>8. S = F(S)
  BY <1>3, <1>7
<1>9. \A i \in 0 .. n : S[i] = IF i = 0 THEN base ELSE E(S[i - 1], i)
  BY <1>8
<1>10. S = [i \in 0 .. n |-> S[i]]
  BY <1>8, <1>9
<1>11. S[0] = base /\ \A i \in 1 .. n : S[i] = E(S[i - 1], i)
  BY <1>1, <1>9
<1>12. Recursive(S, n, V, base, step)
  BY <1>1, <1>4, <1>5, <1>10, <1>11, RecursionTyped
<1>13. S \in [0 .. n -> V]
  BY <1>12 DEF Recursive
<1>14. n = Len(fresh) + Len(received) + 1
  BY FirstRoundOK DEF n
<1> QED
  BY <1>13, <1>14 DEF V, S

\* process_backlog_of_sync_blocks() hands blocks to the chain in order.
LEMMA ProcessBacklogOInv ==
    ASSUME OInv, IInv', ProcessBacklog
    PROVE  OInv'
<1> DEFINE end == Backlog[Len(fresh) + Len(received) + 1]
           connection(p) == Backlogged(p, end.ids, end.processing)
<1>1. CASE Len(handling) >= MaxHandling
  <2>1. /\ UNCHANGED <<tree, head, seen, accepted, handling>>
        /\ UNCHANGED <<fresh, received, peer, peerHead, toPeer, fromPeer>>
    BY <1>1 DEF ProcessBacklog, world
  <2>2. PeersOK /\ MessagesOK /\ BuffersOK
    BY DEF OInv
  <2>3. /\ BuffersOK' /\ peerHead' \in [Peers -> Block]
        /\ toPeer' \in [Peers -> Seq(Requests)] /\ fromPeer' \in [Peers -> Seq(Messages)]
    BY <2>1, <2>2 DEF BuffersOK, MessagesOK
  <2>4. \A p \in Peers : PeerOK(peer'[p], Known, BlocksOf(handling))
    BY <2>1, <2>2 DEF PeersOK
  <2> QED
    BY <2>1, <2>3, <2>4, ChainSame
<1>2. CASE ~ (Len(handling) >= MaxHandling)
  <2>1. /\ fresh' = <<>> /\ received' = end.received
        /\ peer' = [ p \in Peers |->
               IF p \in end.asked THEN FetchNextBatch(connection(p))
               ELSE connection(p) ]
        /\ handling' = end.handling
        /\ SendIdsRequests(end.asked)
        /\ UNCHANGED <<tree, head, seen, accepted>> /\ UNCHANGED <<peerHead, fromPeer>>
    BY <1>2 DEF ProcessBacklog, world
  <2>2. RoundOK(end)
    <3>1. Len(fresh) + Len(received) + 1 \in 0 .. Len(fresh) + Len(received) + 1
      BY FirstRoundOK
    <3> QED
      BY <3>1, BacklogOK
  <2> HIDE DEF end
  <2> DEFINE calls == BlocksOf(end.handling)
  <2>3. /\ end.received \in Seq(Block) /\ CallsOK(end.handling, Known)
        /\ \A p \in Peers : PeerOK(connection(p), Known, calls)
    BY <2>2 DEF RoundOK, ListsOK
  <2>4. /\ ChainOK /\ MessagesOK
        /\ ContextOK(Known, BlocksOf(handling))
    BY OInvContext DEF OInv
  <2>5. ContextOK(Known, calls)
    <3>1. calls \subseteq Block
      BY <2>3, CallsAre DEF CallsOK
    <3> HIDE DEF calls
    <3> QED
      BY <2>4, <3>1 DEF ContextOK
  <2> HIDE DEF calls
  <2>6. ASSUME NEW p \in Peers
        PROVE  /\ PeerOK(peer'[p], Known, calls)
               /\ p \in end.asked =>
                     \E x \in SUBSET BlockOrGenesis : peer'[p].idsRequested = {x}
    <3> DEFINE q == connection(p)
    <3>1. Connection(q)
      BY PeerIs, BackloggedIs DEF OInv, Fields
    <3>2. PeerOK(q, Known, calls) /\ BaseOK(q, Known, calls)
      BY <2>3 DEF PeerOK
    <3>3. peer'[p] = IF p \in end.asked THEN FetchNextBatch(q) ELSE q
      BY <2>1
    <3> HIDE DEF q
    <3>4. /\ PeerOK(FetchNextBatch(q), Known, calls)
          /\ \E x \in SUBSET BlockOrGenesis : FetchNextBatch(q).idsRequested = {x}
      BY <2>5, <3>1, <3>2, FetchNextBatchOK
    <3> QED
      BY <3>2, <3>3, <3>4
  <2>7. toPeer' \in [Peers -> Seq(Requests)]
    BY <2>1, <2>4, <2>6, SendIdsRequestsOK DEF MessagesOK
  <2>8. /\ seen' \subseteq Block /\ head' \in seen' /\ accepted' \subseteq seen'
        /\ \A b \in seen' : Prev(b) \in seen' \cup {Genesis}
    BY <2>1, <2>4 DEF ChainOK
  <2>9. CallsOK(handling', seen' \cup {Genesis})
    BY <2>1, <2>3 DEF Known
  <2>10. \A p \in Peers : PeerOK(peer'[p], seen' \cup {Genesis}, BlocksOf(handling'))
    BY <2>1, <2>6 DEF Known, calls
  <2>11. BuffersOK' /\ peerHead' \in [Peers -> Block] /\ fromPeer' \in [Peers -> Seq(Messages)]
    BY <2>1, <2>3, <2>4 DEF BuffersOK, MessagesOK
  <2>12. UNCHANGED tree
    BY <2>1
  <2> QED
    BY <2>7, <2>8, <2>9, <2>10, <2>11, <2>12, Frame
<1> QED
  BY <1>1, <1>2

-----------------------------------------------------------------------------
(***************************************************************************)
(* The invariant.                                                          *)
(***************************************************************************)
\* The node starts with one chain and no connection.
LEMMA InitOInv == Init => OInv
<1> SUFFICES ASSUME Init
             PROVE  OInv
  OBVIOUS
<1>1. IInv /\ TreeOK
  BY InitIInv, TreeInitOK DEF Init
<1>2. /\ head \in Block /\ seen = ToSet(Chain(head)) /\ accepted = {}
      /\ peer = [ p \in Peers |-> [NewConnection EXCEPT !.conn = "closed"] ]
      /\ fresh = <<>> /\ received = <<>> /\ handling = <<>>
      /\ peerHead \in [Peers -> Block]
      /\ toPeer = [ p \in Peers |-> <<>> ] /\ fromPeer = [ p \in Peers |-> <<>> ]
  BY DEF Init, NodeInit
<1>3. ChainOK
  <2> DEFINE n == Num(head)
  <2>1. /\ n \in Nat \ {0} /\ path[head] \in Seq(Block)
        /\ \A i \in 1 .. n : path[head][i] \in Block
    BY <1>1, <1>2, OnPath
  <2>2. Chain(head) = path[head]
    BY <1>2 DEF Chain, Block, Genesis
  <2>3. seen = { path[head][i] : i \in 1 .. n }
    BY <1>2, <2>1, <2>2 DEF ToSet, Num
  <2>4. head \in seen
    BY <1>1, <1>2, ChainStep
  <2> HIDE DEF n
  <2>5. ASSUME NEW i \in 1 .. n
        PROVE  Prev(path[head][i]) \in seen \cup {Genesis}
    <3>1. Prev(path[head][i]) = IF i = 1 THEN Genesis ELSE path[head][i - 1]
      BY <1>1, <1>2, PrevOnPath DEF n
    <3>2. i # 1 => i - 1 \in 1 .. n
      BY <2>1
    <3> QED
      BY <2>3, <3>1, <3>2
  <2> QED
    BY <1>2, <2>1, <2>3, <2>4, <2>5 DEF ChainOK
<1>4. CallsOK(handling, Known)
  BY <1>2 DEF CallsOK
<1>5. BuffersOK
  BY <1>2 DEF BuffersOK
<1>6. PeersOK
  <2> DEFINE r == [NewConnection EXCEPT !.conn = "closed"]
  <2>1. PeerOK(r, Known, BlocksOf(handling))
    BY NewConnectionOK DEF Known
  <2> HIDE DEF r
  <2>2. \A p \in Peers : peer[p] = r
    BY <1>2 DEF r
  <2> QED
    BY <2>1, <2>2 DEF PeersOK
<1>7. MessagesOK
  BY <1>2 DEF MessagesOK
<1> QED
  BY <1>1, <1>3, <1>4, <1>5, <1>6, <1>7 DEF OInv

\* Every step of the node and its peers keeps the invariant.
LEMMA NextOInv == OInv /\ [Next]_vars => OInv'
<1> SUFFICES ASSUME OInv, [Next]_vars
             PROVE  OInv'
  OBVIOUS
<1>0. IInv'
  BY NextIInv DEF OInv
<1>1. CASE UNCHANGED vars
  <2>1. /\ UNCHANGED <<tree, node, peer>>
        /\ peerHead' = peerHead /\ toPeer' = toPeer /\ fromPeer' = fromPeer
    BY <1>1 DEF vars, world
  <2> QED
    BY <1>0, <2>1, NodeSame DEF OInv, MessagesOK
<1>2. ASSUME NEW p \in Peers,
             \/ Connect(p) \/ PeerAnswers(p) \/ Receive(p) \/ ConnectionClosed(p)
             \/ ConnectionLost(p)
      PROVE  OInv'
  BY <1>0, <1>2, ConnectOInv, PeerAnswersOInv, ReceiveOInv, ClosedOInv
     DEF ConnectionClosed, ConnectionLost
<1>3. ASSUME NEW order \in SetToSeqs(Active), FetchSyncItems(order)
      PROVE  OInv'
  BY <1>0, <1>3, OrdersAre, FetchSyncItemsOInv
<1>4. CASE ProcessBacklog \/ HandleBlock \/ SyncBlockDone
  BY <1>0, <1>4, ProcessBacklogOInv, HandleBlockOInv, SyncBlockDoneOInv
<1>5. ASSUME NEW p \in Peers, NEW b \in Block, PeerGrows(p, b)
      PROVE  OInv'
  BY <1>0, <1>5, PeerGrowsOInv
<1>6. ASSUME NEW late \in SUBSET Active, NEW visited \in SUBSET Active,
             TerminateInactive(late, visited)
      PROVE  OInv'
  BY <1>0, <1>6, TerminateInactiveOInv
<1> QED
  BY <1>1, <1>2, <1>3, <1>4, <1>5, <1>6 DEF Next, Progress

\* Lists, blocks in progress and chain hang together in every state.
THEOREM OrderInvariant == Spec => []OInv
<1>1. Init => OInv
  BY InitOInv
<1>2. OInv /\ [Next]_vars => OInv'
  BY NextOInv
<1> QED
  BY <1>1, <1>2, PTL DEF Spec

\* process_backlog_of_sync_blocks() hands every block to the chain after its
\* parent, over all lists and forks that peers offer, in whatever order blocks
\* arrive, connections break and calls are answered.
THEOREM BlocksHandledInOrder == Spec => []HandledInOrder
<1>1. OInv => HandledInOrder
  <2> SUFFICES ASSUME OInv
               PROVE  HandledInOrder
    OBVIOUS
  <2>1. CallsOK(handling, seen \cup {Genesis}) /\ DOMAIN handling = 1 .. Len(handling)
    BY CallsAre DEF OInv, CallsOK, Known
  <2> QED
    BY <2>1 DEF CallsOK, HandledInOrder
<1> QED
  BY <1>1, OrderInvariant, PTL

\* The block that a synopsis starts from, last_block_delegate_has_seen, is one
\* that the node has or is handing to the chain, for every peer that it has an
\* open connection with.
THEOREM ReferencesAreHeld == Spec => []ReferenceHeld
<1>1. OInv => ReferenceHeld
  <2> SUFFICES ASSUME OInv, NEW p \in Active
               PROVE  \/ peer[p].lastSeen \in seen \cup {Genesis}
                      \/ \E i \in 1 .. Len(handling) :
                             handling[i].block = peer[p].lastSeen
    BY DEF ReferenceHeld
  <2>1. ListOK(peer[p], Known, BlocksOf(handling))
    BY DEF OInv, PeersOK, PeerOK, BaseOK, Active
  <2>2. BlocksOf(handling) = { handling[i].block : i \in 1 .. Len(handling) }
    BY CallsAre DEF OInv, CallsOK
  <2>3. peer[p].lastSeen \in Known \/ peer[p].lastSeen \in BlocksOf(handling)
    BY <2>1 DEF ListOK, Held
  <2> QED
    BY <2>2, <2>3 DEF Known
<1> QED
  BY <1>1, OrderInvariant, PTL
=============================================================================
