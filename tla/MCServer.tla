------------------------------- MODULE MCServer -------------------------------
(* Values for model checking Server.                                       *)
EXTENDS Server, TLC

Setting(p, s, e) == [progress |-> p, staleness |-> s, expiration |-> e]

MCDefaultConfig == Setting(1, 1, 2)

\* Raise the progress limit.
MCConfigPatches == {Setting(2, KEEP, KEEP)}

\* Enable staleness.
MCGroupPatches ==
    {[progress |-> KEEP, staleness |-> KEEP, expiration |-> KEEP, enabled |-> TRUE]}

MCCleanupStatuses == {{"success", "progress", "timeout", "stale"}}

\* Names are only compared.
NameSymmetry == Permutations(JobNames)
=============================================================================
