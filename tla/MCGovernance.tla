---------------------------- MODULE MCGovernance ----------------------------
(* Three accounts, two of which are candidates from the start.             *)
EXTENDS Governance

Both(n) == [witness |-> n, committee |-> n]
MCFreeze == [witness |-> 2, committee |-> 1]
MCElected == Both(2)
MCMin == Both(2)
MCMaxVotes == Both(1)
MCWorkerPlans ==
  {[type |-> "vesting", to |-> 3, daily |-> 3, begin |-> 1, end |-> 4],
   [type |-> "burn", to |-> 3, daily |-> 2, begin |-> 1, end |-> 9],
   [type |-> "destroy", to |-> 3, daily |-> 2, begin |-> 1, end |-> 9],
   [type |-> "issuance", to |-> 3, daily |-> 2, begin |-> 2, end |-> 9]}
=============================================================================
