-------------------------- MODULE MCOptimisticCache --------------------------
(* Values for model checking OptimisticCache.                              *)
EXTENDS OptimisticCache, TLC

MCGroupOf == [j \in Jobs |-> IF j = 3 THEN "h" ELSE "g"]

\* The header's health is on every page; one more query tells the pages apart.
MCScreens == {{"health", "groups"}, {"health", "groupJobs"}, {"health", "jobs"}}
Job(s, a) == [status |-> s, acked |-> a]

\* One job each to acknowledge with another, alone, and to leave alone.
MCStarts == {<<Job("error", FALSE), Job("error", FALSE), Job("progress", FALSE)>>}
=============================================================================
