----------------------------- MODULE MCJobStore -----------------------------
(* Values for model checking JobStore on small tables.                     *)
EXTENDS JobStore, TLC

Setting(p, s, e) == [progress |-> p, staleness |-> s, expiration |-> e]

MCDefaultConfig == Setting(1, 1, 2)

MCConfigPatches == {Setting(KEEP, KEEP, e) : e \in Timeouts}

Override(e) == [progress |-> KEEP, staleness |-> KEEP, expiration |-> e, enabled |-> KEEP]

\* Set an override below the first global setting, and clear it.
MCGroupPatches == {Override(1), Override(NULL)}

MCCleanupStatuses == {{"timeout", "stale"}, {"success", "error", "progress", "timeout", "stale"}}

\* Names are only compared.
NameSymmetry == Permutations(GroupNames) \cup Permutations(JobNames)
=============================================================================
