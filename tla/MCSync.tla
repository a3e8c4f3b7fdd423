-------------------------------- MODULE MCSync ------------------------------
(***************************************************************************)
(* BlockSync for TLC.  MCSpec states the fairness of Spec with the guard   *)
(* of Progress spelled out, which TLC evaluates much faster than ENABLED.  *)
(* A step that is not one of Progress uses up one of the bounds, so only   *)
(* steps of Progress can go on for ever.                                   *)
(***************************************************************************)
EXTENDS BlockSync

CanProgress ==
    \/ fetchDue \/ backlogDue \/ handling # <<>>
    \/ \E p \in Peers :
          \/ peer[p].conn = "closed" /\ connects[p] < MaxConnects
          \/ peer[p].conn = "leaving"
          \/ toPeer[p] # <<>> \/ fromPeer[p] # <<>>

\* The node starts with two blocks, its peers with those or others.  Peers,
\* here numbers, are interchangeable.
MCInit ==
    /\ Init /\ head = 2
    /\ \A p \in Peers : peerHead[p] >= 2
    /\ \A p, o \in Peers : p < o => peerHead[p] <= peerHead[o]

MCSpec ==
    MCInit /\ [][Next]_vars /\ ([]<>(~ CanProgress) \/ []<><<TRUE>>_vars)

=============================================================================
