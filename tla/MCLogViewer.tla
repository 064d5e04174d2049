----------------------------- MODULE MCLogViewer -----------------------------
(* Logs that fit, fill and exceed what is sent and what is kept.             *)
EXTENDS LogViewer

Log(n, errors, noLF) == [lines |-> n, errors |-> errors, noLF |-> noLF]

MCUploads == {Log(1, {}, {}), Log(3, {1, 3}, {}), Log(4, {2, 4}, {2}), Log(5, {2, 4, 5}, {})}
=============================================================================
