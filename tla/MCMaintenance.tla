---------------------------- MODULE MCMaintenance ----------------------------
(* Values for model checking the liveness of Maintenance.                  *)
EXTENDS Maintenance

Setting(p, s, e) == [progress |-> p, staleness |-> s, expiration |-> e]

\* Liveness: no job expires before the clock stops unless the setting is lowered.
MCLongExpiration == Setting(1, 1, 4)

MCLowerExpiration == {Setting(KEEP, KEEP, 2)}
=============================================================================
