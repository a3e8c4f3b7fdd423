---------------------------- MODULE MCProduction ----------------------------
(* Four transactions, of which the second fails, and three witnesses, two  *)
(* of which are ours, one without its key.                                 *)
EXTENDS BlockProduction

MCSchedule == <<"ours", "theirs", "keyless">>
MCPending == <<"t1", "bad", "t2", "t3">>
=============================================================================
