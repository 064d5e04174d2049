-------------------------------- MODULE Server --------------------------------
(***************************************************************************)
(* The server as cmd/statshed-server runs it: the acknowledge handlers of  *)
(* AckFlow and the worker of Maintenance in one process over one store,    *)
(* with reports, deletions, cleanups and changes of the settings beside    *)
(* them.  Neither module knows the statements of the other: AckFlow takes  *)
(* a pass of the worker for one step, and in Maintenance nobody            *)
(* acknowledges.  The process may end at any point and start again.        *)
(***************************************************************************)
EXTENDS AckFlow, Maintenance

serverVars == <<vars, flow, acks, said, worker, pending, inForce>>

ServerInit == FlowInit /\ WorkerInit

-----------------------------------------------------------------------------
\* One step of a request.
Acknowledge == (\E q \in Requests : Handle(q)) /\ UNCHANGED <<worker, pending, inForce>>

\* One statement of the worker, or one request of another kind.
WorkBeside == (Work \/ StatementFails \/ Handlers) /\ CountAcks /\ UNCHANGED <<flow, said>>

\* The process ends, within a tick or not, and starts again over the same tables.  The
\* requests end with it, and so does the account of what they have still to announce.
RestartServer ==
    /\ \/ Restart
       \/ stage = "waiting" /\ UNCHANGED <<vars, worker, pending, inForce>>
    /\ pc' = [q \in Requests |-> "idle"]
    /\ target' = [q \in Requests |-> NULL] /\ named' = [q \in Requests |-> NULL]
    /\ won' = [q \in Requests |-> {}] /\ reply' = [q \in Requests |-> "none"]
    /\ acks' = [i \in Ids |-> 0] /\ said' = [i \in Ids |-> 0]

ServerNext ==
    \/ Acknowledge
    \/ WorkBeside
    \/ RestartServer
    \/ Advance /\ UNCHANGED <<flow, acks, said, worker, pending, inForce>>

ServerSpec == ServerInit /\ [][ServerNext]_serverVars

-----------------------------------------------------------------------------
(* Properties: what AckFlow and Maintenance state, of both together.       *)

\* Whoever changes a job on the server's own account announces it, exactly once and whatever
\* the others commit in between: each acknowledgement has its event or is about to have it
\* (ack.go:55), and a tick that ran without a failure leaves nothing unannounced (worker.go:46).
ChangesAnnounced == Accounted /\ TickAnnouncesAll
=============================================================================
