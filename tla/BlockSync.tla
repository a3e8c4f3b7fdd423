------------------------------ MODULE BlockSync -----------------------------
(***************************************************************************)
(* How a node fetches the blocks it lacks from its peers (node_impl).      *)
(*                                                                         *)
(* It sends a peer a synopsis of its chain and gets back the ids of the    *)
(* blocks that follow; it spreads the requests for these blocks over the   *)
(* peers, puts what arrives into a buffer, and hands to the chain, in the  *)
(* main thread, each block that stands first in the list of a peer.        *)
(*                                                                         *)
(* One node is modelled, with its fibers as interleaved actions.  Its      *)
(* peers run the same code and have chains of their own; they appear by    *)
(* the messages they send.  All blocks are within the undo history, and    *)
(* the node has at least one, so that its fork database takes only what    *)
(* links to it.  A block of `bad` has a timestamp in the future:           *)
(* handle_block() refuses it before it reaches the chain.  Broadcasting is *)
(* not part of this module.                                                *)
(***************************************************************************)
EXTENDS BlockTree, SequencesExt

CONSTANTS
    Peers,          \* the peers that the node connects to
    IdLimit,        \* ids in one reply (2000)
    MinIds,         \* GRAPHENE_NET_MIN_BLOCK_IDS_TO_PREFETCH
    MaxPerPeer,     \* GRAPHENE_NET_MAX_BLOCKS_PER_PEER_DURING_SYNCING
    MaxHandling,    \* MAXIMUM_NUMBER_OF_BLOCKS_TO_HANDLE_AT_ONE_TIME
    MaxPrefetch,    \* MAXIMUM_NUMBER_OF_BLOCKS_TO_PREFETCH
    MaxConnects,    \* bound: connections made with one peer
    MaxUpsets       \* bound: bad blocks, connections lost or timed out, and
                    \* moves of a peer to a longer chain

ASSUME BlockSyncAssumption ==
    /\ IsFiniteSet(Peers)
    /\ IdLimit \in Nat \ {0, 1}
    /\ {MaxPerPeer, MaxHandling, MaxPrefetch, MaxConnects} \subseteq Nat \ {0}
    /\ {MinIds, MaxUpsets} \subseteq Nat

VARIABLES
    head,       \* the head block of the node
    seen,       \* the blocks that is_known_block() finds
    peer,       \* the peer_connection of each peer
    active,     \* _active_sync_requests
    fresh,      \* _new_received_sync_items
    received,   \* _received_sync_items
    handling,   \* the calls of send_sync_block_to_node_delegate() under way
    accepted,   \* _most_recent_blocks_accepted
    suspended,  \* _suspend_fetching_sync_blocks
    fetchDue,   \* whether fetch_sync_items_loop() has been triggered
    backlogDue, \* whether process_backlog_of_sync_blocks() is scheduled
    \* The peers and the connections to them:
    peerHead,   \* the head block of each peer
    toPeer, fromPeer,   \* messages on their way
    connects, upsets

node == <<head, seen, active, fresh, received, handling, accepted, suspended,
          fetchDue, backlogDue>>
world == <<tree, peerHead, connects, upsets>>
vars == <<node, peer, toPeer, fromPeer, world>>

-----------------------------------------------------------------------------
Chain(b) == IF b = Genesis THEN <<>> ELSE path[b]

IdsRequest(synopsis) == [type |-> "fetch_ids", synopsis |-> synopsis]
ItemsRequest(blocks) == [type |-> "fetch_items", ids |-> blocks]
IdsReply(ids, left) == [type |-> "ids", ids |-> ids, left |-> left]
BlockReply(b) == [type |-> "block", ids |-> <<b>>]

NewConnection ==
    [ conn |-> "active", weNeed |-> TRUE, peerNeeds |-> TRUE, ids |-> <<>>,
      unfetched |-> 0, idsRequested |-> {}, requested |-> {},
      processing |-> {}, lastSeen |-> Genesis ]

Idle(q) == q.idsRequested = {} /\ q.requested = {}

Active == { p \in Peers : peer[p].conn = "active" }

\* A block that handle_block() refuses, whenever it comes: a block that does not
\* link is not kept by the fork database.
Refused(b) == ToSet(Chain(b)) \cap bad # {}

-----------------------------------------------------------------------------
\* The numbers of the blocks in a synopsis of a chain of n blocks: each is
\* half way from the one before it to the end.  What matters of a synopsis is
\* which blocks it names; it names them in their order.
SynopsisNums(n) ==
    LET low[k \in 0 .. n] ==
            IF k = 0 THEN 1 ELSE low[k - 1] + (n - low[k - 1] + 2) \div 2
    IN  { low[k] : k \in 0 .. n } \cap 1 .. n

\* The blocks of a chain that stand in its synopsis if `more` follow it.
Synopsis(chain, more) ==
    { chain[i] : i \in SynopsisNums(Len(chain) + more) \cap DOMAIN chain }

\* get_blockchain_synopsis(): of the chain to the reference point, if any.
GetSynopsis(reference, more) ==
    Synopsis(Chain(IF reference = Genesis THEN head ELSE reference), more)

\* create_blockchain_synopsis_for_peer(): followed by the blocks that the
\* peer has offered already.
SynopsisFor(q) ==
    LET first == Num(q.ids[1])
        nums == SynopsisNums(first + Len(q.ids) - 1)
        offered == { i \in DOMAIN q.ids : first + i - 1 \in nums }
    IN  GetSynopsis(q.lastSeen, Len(q.ids)) \cup { q.ids[i] : i \in offered }

\* get_block_ids(): from the last block of the synopsis that is on the chain
\* to h, up to IdLimit ids and the number of those left out.
GetBlockIds(h, synopsis) ==
    LET chain == Chain(h)
        common == synopsis \cap ToSet(chain)
        first == IF synopsis = {} THEN 1 ELSE Max({ Num(b) : b \in common })
        last == Min({Len(chain), first + IdLimit - 1})
    IN  IF chain = <<>> \/ (synopsis # {} /\ common = {})
        THEN IdsReply(<<>>, 0)
        ELSE IdsReply(SubSeq(chain, first, last), Len(chain) - last)

\* fetch_next_batch_of_item_ids_from_peer()
FetchNextBatch(q) == [q EXCEPT !.idsRequested = {SynopsisFor(q)}]

\* start_synchronizing_with_peer()
StartSynchronizing(q) ==
    FetchNextBatch([q EXCEPT !.ids = <<>>, !.unfetched = 0, !.weNeed = TRUE,
                             !.lastSeen = Genesis])

\* disconnect_from_peer(): the peer leaves _active_connections; its requests
\* stay until the connection is closed.
Disconnect(q) == IF q.conn = "active" THEN [q EXCEPT !.conn = "leaving"] ELSE q

\* The requests for ids that a step has added to the peers in s go out.
SendIdsRequests(s) ==
    toPeer' = [ p \in Peers |->
        IF p \in s
        THEN Append(toPeer[p], IdsRequest(CHOOSE x \in peer'[p].idsRequested : TRUE))
        ELSE toPeer[p] ]

-----------------------------------------------------------------------------
NodeInit ==
    /\ head \in Block /\ ~ Refused(head)
    /\ seen = ToSet(Chain(head))
    /\ peer = [ p \in Peers |-> [NewConnection EXCEPT !.conn = "closed"] ]
    /\ active = {} /\ accepted = {} /\ suspended = FALSE
    /\ fresh = <<>> /\ received = <<>> /\ handling = <<>>
    /\ fetchDue = FALSE /\ backlogDue = FALSE
    /\ peerHead \in [Peers -> Block]
    /\ toPeer = [ p \in Peers |-> <<>> ] /\ fromPeer = [ p \in Peers |-> <<>> ]
    /\ connects = [ p \in Peers |-> 0 ]
    /\ upsets = Cardinality(bad)

Init == TreeInit /\ NodeInit

\* new_peer_just_added(): both sides ask for ids at once.
Connect(p) ==
    /\ peer[p].conn = "closed" /\ connects[p] < MaxConnects
    /\ connects' = [connects EXCEPT ![p] = @ + 1]
    /\ peer' = [peer EXCEPT ![p] = StartSynchronizing(NewConnection)]
    /\ SendIdsRequests({p})
    /\ fromPeer' = [fromPeer EXCEPT ![p] = <<IdsRequest(Synopsis(Chain(peerHead[p]), 0))>>]
    /\ UNCHANGED <<node, tree, peerHead, upsets>>

-----------------------------------------------------------------------------
\* The peer.

\* on_fetch_blockchain_item_ids_message() and on_fetch_items_message().
PeerAnswers(p) ==
    /\ peer[p].conn # "closed" /\ toPeer[p] # <<>>
    /\ LET m == Head(toPeer[p])
       IN  fromPeer' = [fromPeer EXCEPT ![p] = @ \o
               IF m.type = "fetch_ids"
               THEN <<GetBlockIds(peerHead[p], m.synopsis)>>
               ELSE [ i \in 1 .. Len(m.ids) |-> BlockReply(m.ids[i]) ]]
    /\ toPeer' = [toPeer EXCEPT ![p] = Tail(@)]
    /\ UNCHANGED <<node, peer, world>>

\* The peer gets blocks from others and moves to a longer chain.  If it owes
\* the node no ids it asks for those that follow, as the node itself does
\* when it has accepted a block (SyncBlockDone).
PeerGrows(p, b) ==
    /\ upsets < MaxUpsets /\ peer[p].conn = "active"
    /\ Num(b) > Num(peerHead[p])
    /\ upsets' = upsets + 1
    /\ peerHead' = [peerHead EXCEPT ![p] = b]
    /\ fromPeer' = [fromPeer EXCEPT ![p] =
           IF \E i \in 1 .. Len(toPeer[p]) : toPeer[p][i].type = "fetch_ids"
           THEN @ ELSE Append(@, IdsRequest(Synopsis(Chain(b), 0)))]
    /\ UNCHANGED <<node, peer, toPeer, tree, connects>>

-----------------------------------------------------------------------------
\* The messages that the node receives from p.

\* on_fetch_blockchain_item_ids_message(): the reply tells the peer what it
\* lacks.  If it has a block that is new to the node, sync starts again.
OnFetchIds(p, synopsis) ==
    LET q == peer[p]
        reply == GetBlockIds(head, synopsis).ids
        needs == ~ ( \/ reply = <<>>
                     \/ Len(reply) = 1 /\ reply[1] \in synopsis )
        latest == CHOOSE b \in synopsis : \A c \in synopsis : Num(c) <= Num(b)
        again == ~ q.weNeed /\ synopsis # {} /\ latest \notin seen
        told == [q EXCEPT !.peerNeeds = needs]
    IN  /\ peer' = [peer EXCEPT ![p] = IF again THEN StartSynchronizing(told)
                                               ELSE told]
        /\ SendIdsRequests(IF again THEN {p} ELSE {})
        /\ UNCHANGED node

\* The reply starts at a block of the synopsis, or at the first block.
ValidReply(synopsis, ids) ==
    \/ ids = <<>>
    \/ IF synopsis = {} THEN Num(ids[1]) = 1 ELSE ids[1] \in synopsis

\* Mutant: a first list counts as seen up to its last block.
MergedListSkipping(p, q, ids) ==
    IF ids = <<>> THEN q
    ELSE [q EXCEPT !.ids = Tail(ids), !.lastSeen = Last(ids)]

\* The list of p when ids arrive: blocks that the chain has are dropped from
\* the front of a first list; a later one replaces what follows its start.
MergedList(p, q, ids) ==
    LET elsewhere == \E o \in Active \ {p} :
                         peer[o].ids # <<>> /\ peer[o].ids[1] = ids[1]
        fresher == { i \in 1 .. Len(ids) : ids[i] \notin seen }
        skip == IF elsewhere THEN 0
                ELSE IF fresher = {} THEN Len(ids) ELSE Min(fresher) - 1
        joint == { i \in 1 .. Len(q.ids) : q.ids[i] = ids[1] }
    IN  IF ids = <<>> THEN q
        ELSE IF q.ids = <<>>
        THEN [q EXCEPT !.ids = SubSeq(ids, skip + 1, Len(ids)),
                       !.lastSeen = IF skip = 0 THEN @ ELSE ids[skip]]
        ELSE IF joint # {}
        THEN [q EXCEPT !.ids = SubSeq(@, 1, Max(joint) - 1) \o ids]
        ELSE [q EXCEPT !.ids = Tail(ids), !.lastSeen = ids[1]]

\* on_blockchain_item_ids_inventory_message()
OnIds(p, ids, left) ==
    LET q == peer[p]
        synopsis == CHOOSE x \in q.idsRequested : TRUE
        answered == [q EXCEPT !.idsRequested = {}]
        upToDate == /\ left = 0 /\ q.ids = <<>> /\ q.unfetched = 0
                    /\ ids = <<>> \/ (Len(ids) = 1 /\ ids[1] \in seen)
        merged == [MergedList(p, answered, ids) EXCEPT !.unfetched = left]
        more == IF left # 0 THEN Len(merged.ids) <= MinIds ELSE merged.ids = <<>>
    IN  IF q.idsRequested = {}
        THEN UNCHANGED <<node, peer, toPeer>>
        ELSE IF ~ ValidReply(synopsis, ids)
        THEN /\ peer' = [peer EXCEPT ![p] = Disconnect(q)]
             /\ UNCHANGED <<node, toPeer>>
        ELSE IF upToDate
        THEN /\ peer' = [peer EXCEPT ![p] = [answered EXCEPT !.weNeed = FALSE]]
             /\ UNCHANGED <<node, toPeer>>
        ELSE /\ peer' = [peer EXCEPT ![p] = IF more THEN FetchNextBatch(merged)
                                                   ELSE merged]
             /\ SendIdsRequests(IF more THEN {p} ELSE {})
             /\ fetchDue' = (fetchDue \/ ~ more)
             /\ UNCHANGED <<head, seen, active, fresh, received, handling,
                            accepted, suspended, backlogDue>>

\* process_block_message(), for a block that was requested to sync.
OnBlock(p, b) ==
    LET q == [peer[p] EXCEPT !.requested = @ \ {b}]
        more == Idle(q) /\ q.unfetched > 0 /\ Len(q.ids) < MinIds
    IN  IF b \notin peer[p].requested
        THEN /\ peer' = [peer EXCEPT ![p] = Disconnect(@)]
             /\ UNCHANGED <<node, toPeer>>
        ELSE /\ active' = active \ {b}
             /\ fresh' = <<b>> \o fresh
             /\ backlogDue' = TRUE
             /\ peer' = [peer EXCEPT ![p] = IF more THEN FetchNextBatch(q) ELSE q]
             /\ SendIdsRequests(IF more THEN {p} ELSE {})
             /\ fetchDue' = (fetchDue \/ (Idle(q) /\ ~ more))
             /\ UNCHANGED <<head, seen, received, handling, accepted, suspended>>

Receive(p) ==
    /\ fromPeer[p] # <<>>
    /\ LET m == Head(fromPeer[p])
       IN  \/ m.type = "fetch_ids" /\ OnFetchIds(p, m.synopsis)
           \/ m.type = "ids" /\ OnIds(p, m.ids, m.left)
           \/ m.type = "block" /\ OnBlock(p, m.ids[1])
    /\ fromPeer' = [fromPeer EXCEPT ![p] = Tail(@)]
    /\ UNCHANGED world

\* Mutant: the requests of a closed connection are kept.
ClosedKeeps(p) ==
    /\ peer' = [peer EXCEPT ![p] = [NewConnection EXCEPT !.conn = "closed"]]
    /\ toPeer' = [toPeer EXCEPT ![p] = <<>>]
    /\ fromPeer' = [fromPeer EXCEPT ![p] = <<>>]
    /\ UNCHANGED <<node, tree, peerHead, connects>>

\* Mutant: nobody is told that there are blocks to ask for again.
ClosedQuietly(p) ==
    /\ active' = active \ peer[p].requested
    /\ peer' = [peer EXCEPT ![p] = [NewConnection EXCEPT !.conn = "closed"]]
    /\ toPeer' = [toPeer EXCEPT ![p] = <<>>]
    /\ fromPeer' = [fromPeer EXCEPT ![p] = <<>>]
    /\ UNCHANGED <<head, seen, fresh, received, handling, accepted, suspended,
                   fetchDue, backlogDue, tree, peerHead, connects>>

\* on_connection_closed(): what p still owes is to be asked of others.
Closed(p) ==
    /\ active' = active \ peer[p].requested
    /\ fetchDue' = (fetchDue \/ peer[p].requested # {})
    /\ peer' = [peer EXCEPT ![p] = [NewConnection EXCEPT !.conn = "closed"]]
    /\ toPeer' = [toPeer EXCEPT ![p] = <<>>]
    /\ fromPeer' = [fromPeer EXCEPT ![p] = <<>>]
    /\ UNCHANGED <<head, seen, fresh, received, handling, accepted, suspended,
                   backlogDue, tree, peerHead, connects>>

ConnectionClosed(p) ==
    /\ peer[p].conn = "leaving"
    /\ Closed(p) /\ UNCHANGED upsets

ConnectionLost(p) ==
    /\ peer[p].conn = "active" /\ upsets < MaxUpsets
    /\ upsets' = upsets + 1 /\ Closed(p)

-----------------------------------------------------------------------------
\* The fibers of the node.

\* The blocks that p is asked for when `given` have been asked of the peers
\* before it: the first of its list that nobody has been asked for.
Batch(p, given) ==
    LET taken == ToSet(fresh) \cup ToSet(received) \cup active
                 \cup UNION { given[o] : o \in Peers }
        wanted == { i \in DOMAIN peer[p].ids : peer[p].ids[i] \notin taken }
        chosen == { i \in wanted :
                        Cardinality({ j \in wanted : j < i }) < MaxPerPeer }
    IN  IF peer[p].weNeed /\ Idle(peer[p]) /\ ~ suspended
        THEN { peer[p].ids[i] : i \in chosen } ELSE {}

\* What has been asked of each peer after each one of them in their order.
Batches(order) ==
    LET given[i \in 0 .. Len(order)] ==
            IF i = 0 THEN [ p \in Peers |-> {} ]
            ELSE [given[i - 1] EXCEPT ![order[i]] = Batch(order[i], given[i - 1])]
    IN  given

\* The blocks of s, in the order of a list.
Among(ids, s) ==
    LET upTo[i \in 0 .. Len(ids)] ==
            IF i = 0 THEN <<>>
            ELSE IF ids[i] \in s THEN Append(upTo[i - 1], ids[i]) ELSE upTo[i - 1]
    IN  upTo[Len(ids)]

\* fetch_sync_items_loop(), which visits the peers in the given order.
FetchSyncItems(order) ==
    LET batches == Batches(order)[Len(order)]
    IN  /\ fetchDue
        /\ fetchDue' = FALSE
        /\ active' = active \cup UNION { batches[p] : p \in Peers }
        /\ peer' = [ p \in Peers |->
               [peer[p] EXCEPT !.requested = @ \cup batches[p]] ]
        /\ toPeer' = [ p \in Peers |->
               IF batches[p] = {} THEN toPeer[p]
               ELSE Append(toPeer[p], ItemsRequest(Among(peer[p].ids, batches[p]))) ]
        /\ UNCHANGED <<head, seen, fresh, received, handling, accepted,
                       suspended, backlogDue, fromPeer, world>>

\* The last block of the list has been dealt with: what follows?
Exhausted(q) == q.ids = <<>> /\ q.unfetched = 0 /\ q.processing = {}

Finished(q, b) == [q EXCEPT !.processing = @ \ {b}]

\* Mutant: any block of the list will do.
IsNextAnywhere(ids, b) == b \in ToSet(ids)

\* Whether b is the next block that a list calls for.
IsNext(ids, b) == ids # <<>> /\ ids[1] = b

\* The connection of p with another list and other blocks in progress.
Backlogged(p, ids, processing) ==
    [peer[p] EXCEPT !.ids = ids[p], !.processing = processing[p]]

\* One round of process_backlog_of_sync_blocks(): the first block that stands
\* at the front of a list leaves it and is handled, unless it has come by
\* another way.  The round after that one is the last.
BacklogRound(s) ==
    LET ready == { i \in 1 .. Len(s.received) :
                       \E p \in Active : IsNext(s.ids[p], s.received[i]) }
        i == Min(ready)
        b == s.received[i]
        offers == { p \in Active : IsNext(s.ids[p], b) }
        ids == [ p \in Peers |-> IF p \in offers THEN Tail(s.ids[p]) ELSE s.ids[p] ]
        begun == [ p \in Peers |-> IF p \in offers THEN s.processing[p] \cup {b}
                                  ELSE s.processing[p] ]
        dealt == [ p \in Peers |-> IF p \in Active THEN begun[p] \ {b}
                                  ELSE begun[p] ]
        asked == { p \in Active : /\ b \in begun[p]
                                 /\ Exhausted(Backlogged(p, ids, dealt)) }
        next == IF ready = {} THEN [s EXCEPT !.status = "done"]
                ELSE IF b \in accepted
                THEN [s EXCEPT !.ids = ids, !.processing = dealt,
                               !.asked = asked, !.status = "done"]
                ELSE [s EXCEPT !.ids = ids, !.processing = begun,
                               !.received = RemoveAt(@, i),
                               !.handling = Append(@, [block |-> b, res |-> "none"])]
    IN  IF Len(next.handling) < MaxHandling THEN next
        ELSE [next EXCEPT !.status = IF Len(next.received) >= MaxPrefetch
                                     THEN "full" ELSE "done"]

\* The backlog after each round, until one of them is the last.
Backlog ==
    LET all == Reverse(fresh) \o received
        after[i \in 0 .. Len(all) + 1] ==
            IF i = 0
            THEN [ received |-> all, handling |-> handling,
                   ids |-> [ p \in Peers |-> peer[p].ids ],
                   processing |-> [ p \in Peers |-> peer[p].processing ],
                   asked |-> {}, status |-> "more" ]
            ELSE IF after[i - 1].status # "more" THEN after[i - 1]
            ELSE BacklogRound(after[i - 1])
    IN  after

\* process_backlog_of_sync_blocks()
ProcessBacklog ==
    LET end == Backlog[Len(fresh) + Len(received) + 1]
        connection(p) == Backlogged(p, end.ids, end.processing)
    IN  /\ backlogDue
        /\ backlogDue' = FALSE
        /\ IF Len(handling) >= MaxHandling
           THEN UNCHANGED <<fresh, received, peer, handling, suspended, fetchDue,
                            toPeer>>
           ELSE /\ fresh' = <<>>
                /\ received' = end.received
                /\ peer' = [ p \in Peers |->
                       IF p \in end.asked THEN FetchNextBatch(connection(p))
                       ELSE connection(p) ]
                /\ handling' = end.handling
                /\ suspended' = (end.status = "full")
                /\ fetchDue' = (fetchDue \/ end.status # "full")
                /\ SendIdsRequests(end.asked)
        /\ UNCHANGED <<head, seen, active, accepted, fromPeer, world>>

\* application_impl::handle_block(), in the main thread.
HandleBlock ==
    LET waiting == { i \in 1 .. Len(handling) : handling[i].res = "none" }
        i == Min(waiting)
        b == handling[i].block
        linked == Prev(b) \in seen \cup {Genesis}
        ok == b \notin bad /\ linked
    IN  /\ waiting # {}
        /\ handling' = [handling EXCEPT ![i] =
               [block |-> b, res |-> IF ok THEN "ok" ELSE "rejected"]]
        /\ seen' = IF ok THEN seen \cup {b} ELSE seen
        /\ head' = IF ok /\ Num(b) > Len(Chain(head)) THEN b ELSE head
        /\ UNCHANGED <<active, fresh, received, accepted, suspended, fetchDue,
                       backlogDue, peer, toPeer, fromPeer, world>>

\* send_sync_block_to_node_delegate(), after the chain has answered.
SyncBlockDone ==
    LET b == Head(handling).block
        ok == Head(handling).res = "ok"
        hasList(p) == peer[p].ids # <<>> \/ peer[p].processing # {}
        offers == { p \in Active : b \in peer[p].processing }
        asked == { p \in offers : ok /\ Exhausted(Finished(peer[p], b)) }
        restarted == { p \in Active : /\ ok /\ ~ hasList(p)
                                      /\ ~ peer[p].peerNeeds /\ ~ peer[p].weNeed }
        taken(p) == [Finished(peer[p], b) EXCEPT !.lastSeen = b]
    IN  /\ handling # <<>> /\ Head(handling).res # "none"
        /\ handling' = Tail(handling)
        /\ accepted' = IF ok THEN accepted \cup {b} ELSE accepted
        /\ peer' = [ p \in Peers |->
               CASE p \in asked -> FetchNextBatch(taken(p))
                 [] p \in restarted -> StartSynchronizing(peer[p])
                 [] p \in offers \ asked ->
                        IF ok THEN taken(p) ELSE Disconnect(peer[p])
                 [] OTHER -> peer[p] ]
        /\ SendIdsRequests(asked \cup restarted)
        /\ backlogDue' = TRUE
        /\ UNCHANGED <<head, seen, active, fresh, received, suspended, fetchDue,
                       fromPeer, world>>

\* terminate_inactive_connections_loop(), when the peers in late have had a
\* request for longer than active_ignored_request_timeout.  The first of
\* those that owe blocks ends the loop: only the peers visited before it are
\* looked at.
TerminateInactive(late, visited) ==
    LET owing == { p \in late : peer[p].requested # {} }
        stalled(p) == /\ peer[p].weNeed /\ peer[p].idsRequested = {}
                      /\ peer[p].ids = <<>>
        dropped == { p \in visited : \/ p \in late /\ peer[p].idsRequested # {}
                                     \/ stalled(p) }
    IN  /\ visited \cap owing = {} /\ (owing = {} => visited = Active)
        /\ dropped # {}
        /\ upsets < MaxUpsets /\ upsets' = upsets + 1
        /\ peer' = [ p \in Peers |-> IF p \in dropped THEN Disconnect(peer[p])
                                     ELSE peer[p] ]
        /\ UNCHANGED <<node, toPeer, fromPeer, tree, peerHead, connects>>

\* What happens of itself: peers are connected to and answer, messages
\* arrive and fibers run.
Progress ==
    \/ \E p \in Peers : Connect(p) \/ PeerAnswers(p) \/ Receive(p) \/ ConnectionClosed(p)
    \/ \E order \in SetToSeqs(Active) : FetchSyncItems(order)
    \/ ProcessBacklog \/ HandleBlock \/ SyncBlockDone

Next ==
    \/ Progress
    \/ \E p \in Peers : ConnectionLost(p) \/ \E b \in Block : PeerGrows(p, b)
    \/ \E late, visited \in SUBSET Active : TerminateInactive(late, visited)

Spec == Init /\ [][Next]_vars /\ WF_vars(Progress)

-----------------------------------------------------------------------------
\* A block that counts as asked for in _active_sync_requests, and so is asked
\* of nobody else, is owed by exactly one connection that is not closed yet;
\* whatever is owed is counted.  Lost connections, late answers and peers
\* that are being disconnected leave no request behind.
RequestsExact ==
    /\ active = UNION { peer[p].requested : p \in Peers }
    /\ \A p, o \in Peers : p # o => peer[p].requested \cap peer[o].requested = {}

\* process_backlog_of_sync_blocks() hands blocks to the chain in an order in
\* which they link, over all lists and forks that peers offer: the parent
\* has been pushed or goes before, unless it is one that is refused.
HandledInOrder ==
    \A i \in 1 .. Len(handling) :
        LET b == handling[i].block
        IN  \/ Prev(b) \in seen \cup {Genesis}
            \/ Refused(Prev(b))
            \/ \E j \in 1 .. i - 1 : handling[j].block = Prev(b)

\* last_block_delegate_has_seen is a block of the chain or of a fork that the
\* node has, or one that it is handing to the chain, whichever fork that is:
\* get_blockchain_synopsis() can fail for lack of it, which ends the sync with
\* that peer, only while the call that brings it is under way.
ReferenceHeld ==
    \A p \in Active :
        \/ peer[p].lastSeen \in seen \cup {Genesis}
        \/ \E i \in 1 .. Len(handling) : handling[i].block = peer[p].lastSeen

Synced == \A p \in Active : ~ peer[p].weNeed /\ peerHead[p] \in seen

\* The next block of some list has arrived and lies in the buffer.
LeftBehind ==
    \E p \in Active, i \in 1 .. Len(received) : IsNext(peer[p].ids, received[i])

\* In the end the node has the chain of every peer it is connected to and
\* has left sync mode with it, whatever the order of answers, lost
\* connections, refused blocks and forks that peers move to; unless a block
\* is left behind in the buffer: a block whose peer's connection closes before
\* the backlog is processed is not asked for again, and nothing that follows
\* processes the backlog.
SyncCompletes == <>[] (Synced \/ LeftBehind)
=============================================================================
