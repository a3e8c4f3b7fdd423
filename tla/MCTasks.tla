------------------------------ MODULE MCTasks -------------------------------
(***************************************************************************)
(* Proposals and crontabs share nothing but the time: a behaviour has ids  *)
(* of one kind.                                                            *)
(***************************************************************************)
EXTENDS Tasks

MCNext == Next /\ (used' \subseteq Props \/ used' \subseteq Crons)

MCSpec ==
    /\ Init /\ [][MCNext]_vars
    /\ WF_vars(NextBlock)
    /\ \A t \in Tasks : WF_vars(Execute(t))
=============================================================================
