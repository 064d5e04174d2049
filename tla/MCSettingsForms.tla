--------------------------- MODULE MCSettingsForms ---------------------------
(* Numbers at the bounds (0, over the server's limit), a global expiration   *)
(* other than the dialog's default, a group that overrides and one that      *)
(* inherits.                                                                 *)
EXTENDS SettingsForms

MCGlobals == [expiration |-> 3, staleness |-> 2]

MCStarts ==
    [global |-> {[progress |-> 1, staleness |-> 2, expiration |-> 3],
                 [progress |-> 1, staleness |-> 3, expiration |-> 3]},
     group |-> {[progress |-> NULL, expiration |-> NULL, enabled |-> FALSE, staleness |-> 3],
                [progress |-> 1, expiration |-> 3, enabled |-> TRUE, staleness |-> 2]},
     submit |-> {[progress |-> NULL]}]
=============================================================================
