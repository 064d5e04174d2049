---------------------------- MODULE MCConfigFlow ----------------------------
(* Values for model checking ConfigFlow.                                   *)
EXTENDS ConfigFlow, TLC

MCDefaultConfig == [progress |-> 1, staleness |-> 1, expiration |-> 2]

Global(s, e) == [progress |-> KEEP, staleness |-> s, expiration |-> e]

MCConfigPatches == {Global(KEEP, 1), Global(KEEP, 3)}

Override(s, e, on) == [progress |-> KEEP, staleness |-> s, expiration |-> e, enabled |-> on]

\* Set and clear the expiration; set the staleness; enable staleness.
MCGroupPatches ==
    {Override(KEEP, e, KEEP) : e \in {NULL, 3}}
        \cup {Override(2, KEEP, KEEP), Override(KEEP, KEEP, TRUE)}

MCCleanupStatuses == {{"success"}}

=============================================================================
