------------------------------ MODULE MCAckFlow ------------------------------
(* Values for model checking AckFlow.                                      *)
EXTENDS AckFlow, TLC

MCDefaultConfig == [progress |-> 1, staleness |-> 1, expiration |-> 1]

MCCleanupStatuses == {{"error", "timeout"}}

RequestSymmetry == Permutations(Requests)
=============================================================================
