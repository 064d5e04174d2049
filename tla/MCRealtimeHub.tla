---------------------------- MODULE MCRealtimeHub ----------------------------
(* Values for model checking RealtimeHub.                                  *)
EXTENDS RealtimeHub, TLC

ClientSymmetry == Permutations(Clients)
=============================================================================
