------------------------------- MODULE AckFlow -------------------------------
(***************************************************************************)
(* The acknowledge handlers of internal/api/ack.go over the store.         *)
(*                                                                         *)
(* A handler reads on the read handle, decides, and writes on the write    *)
(* handle later: other handlers and the worker commit in between.  It      *)
(* publishes jobs_acked after its UPDATE committed.  Each request here is  *)
(* one HTTP request, of whichever of the three kinds.                      *)
(***************************************************************************)
EXTENDS JobStore

CONSTANT Requests   \* acknowledge requests, any of them at the same time

ASSUME RequestsAssumption == IsFiniteSet(Requests)

VARIABLES
    pc,       \* where a request's handler is
    target,   \* the id of the job, or of the group, it acts on
    named,    \* ackGroup: the group's name
    won,      \* the ids its UPDATE acknowledged, as RowsAffected or RETURNING say
    reply,    \* "none", an error, or the "ok" of a 200
    acks,     \* how often a row has gone from not acked to acked, by row id
    said      \* how often a jobs_acked event has named it

flow == <<pc, target, named, won, reply>>
flowVars == <<vars, flow, acks, said>>

Phases == {"idle", "markJob", "markGroup", "publishJob", "publishMany", "reread", "done"}

FlowInit ==
    /\ Init
    /\ pc = [q \in Requests |-> "idle"]
    /\ target = [q \in Requests |-> NULL]
    /\ named = [q \in Requests |-> NULL]
    /\ won = [q \in Requests |-> {}]
    /\ reply = [q \in Requests |-> "none"]
    /\ acks = [i \in Ids |-> 0]
    /\ said = [i \in Ids |-> 0]

-----------------------------------------------------------------------------
Goto(q, from, to) == pc[q] = from /\ pc' = [pc EXCEPT ![q] = to]

\* A row that exists before and after a step and was acknowledged by it.
Flipped(i) == \E r \in jobs, s \in jobs' : r.id = i /\ s.id = i /\ ~r.acked /\ s.acked

CountAcks == acks' = [i \in Ids |-> IF Flipped(i) THEN acks[i] + 1 ELSE acks[i]]

Finish(q, from, code) == Goto(q, from, "done") /\ reply' = [reply EXCEPT ![q] = code]

Target(q, i) == target' = [target EXCEPT ![q] = i]

ReadOnly == UNCHANGED <<vars, won, acks, said>>

\* ackJob reads the job; 404 without one, 400 for a healthy one, and a job that
\* is already acknowledged is returned as it is.
ReadJob(q) ==
    \E i \in Ids :
        /\ \/ (\A r \in jobs : r.id # i) /\ Finish(q, "idle", "notFound")
           \/ \E r \in jobs :
                /\ r.id = i
                /\ \/ r.status \in Healthy /\ Finish(q, "idle", "invalidState")
                   \/ r.status \in UnhealthyStatuses /\ r.acked /\ Finish(q, "idle", "ok")
                   \/ Ackable(r) /\ Goto(q, "idle", "markJob") /\ UNCHANGED reply
        /\ Target(q, i)
        /\ UNCHANGED named
    /\ ReadOnly

\* Seeded fault: rows found are taken for rows changed.
HitFound(selected) == {r.id : r \in {s \in selected : s.status \in UnhealthyStatuses}}

\* The rows one UPDATE acknowledges.
Hit(selected) == {r.id : r \in {s \in selected : Ackable(s)}}

MarkJob(q) ==
    /\ pc[q] = "markJob"
    /\ won' = [won EXCEPT ![q] = Hit({r \in jobs : r.id = target[q]})]
    /\ pc' = [pc EXCEPT ![q] = IF won'[q] # {} THEN "publishJob" ELSE "reread"]
    /\ MarkAcked(target[q])
    /\ CountAcks
    /\ UNCHANGED <<clock, target, named, reply, said>>

Publish(ids) == said' = [i \in Ids |-> IF i \in ids THEN said[i] + 1 ELSE said[i]]

PublishJob(q) ==
    /\ Finish(q, "publishJob", "ok")
    /\ Publish(won[q])
    /\ UNCHANGED <<vars, target, named, won, acks>>

\* The UPDATE changed nothing: the row is read again for the reply, a 200 even
\* when the job has recovered or gone, and no event is sent.
Reread(q) == Finish(q, "reread", "ok") /\ UNCHANGED <<target, named>> /\ ReadOnly

\* ackGroup looks its group up by name.
ReadGroup(q) ==
    \E g \in GroupNames :
        /\ named' = [named EXCEPT ![q] = g]
        /\ \/ ~GroupKnown(g) /\ Finish(q, "idle", "notFound") /\ UNCHANGED target
           \/ /\ GroupKnown(g)
              /\ Goto(q, "idle", "markGroup")
              /\ Target(q, GroupNamed(g).id)
              /\ UNCHANGED reply
        /\ ReadOnly

MarkGroup(q) ==
    /\ Goto(q, "markGroup", "publishMany")
    /\ AckUnhealthy(target[q])
    /\ won' = [won EXCEPT ![q] = Hit(JobsOf(target[q]))]
    /\ CountAcks
    /\ UNCHANGED <<clock, target, named, reply, said>>

\* ackAll goes to its UPDATE at once.
MarkAll(q) ==
    /\ Goto(q, "idle", "publishMany")
    /\ AckUnhealthy(NULL)
    /\ won' = [won EXCEPT ![q] = Hit(jobs)]
    /\ CountAcks
    /\ UNCHANGED <<clock, target, named, reply, said>>

\* No event when there was nothing to acknowledge.
PublishMany(q) ==
    /\ Finish(q, "publishMany", "ok")
    /\ Publish(won[q])
    /\ UNCHANGED <<vars, target, named, won, acks>>

\* Seeded fault: the error path returns without an answer.
FailsSilently(q) ==
    /\ \E from \in {"idle", "markJob", "markGroup"} : Goto(q, from, "done")
    /\ UNCHANGED <<target, named, reply>>
    /\ ReadOnly

\* A read or the UPDATE fails and the handler answers 500.
Fails(q) ==
    /\ \E from \in {"idle", "markJob", "markGroup"} : Finish(q, from, "internal")
    /\ UNCHANGED <<target, named>>
    /\ ReadOnly

Handle(q) ==
    \/ ReadJob(q) \/ MarkJob(q) \/ PublishJob(q) \/ Reread(q)
    \/ ReadGroup(q) \/ MarkGroup(q)
    \/ MarkAll(q)
    \/ PublishMany(q) \/ Fails(q)

\* The rest of the system: reports, deletions, the worker and cleanups.
Others ==
    /\ Report \/ Delete \/ TimeoutPass \/ Cleanup
    /\ UNCHANGED <<clock, flow, said>>
    /\ CountAcks

FlowNext ==
    \/ \E q \in Requests : Handle(q)
    \/ Others
    \/ Advance /\ UNCHANGED <<flow, acks, said>>

FlowSpec == FlowInit /\ [][FlowNext]_flowVars

-----------------------------------------------------------------------------
(* Properties.                                                             *)

\* The handlers' state is well formed, and a handler that is done has answered.
FlowTypeOK ==
    /\ pc \in [Requests -> Phases]
    /\ target \in [Requests -> Ids \cup {NULL}]
    /\ named \in [Requests -> GroupNames \cup {NULL}]
    /\ won \in [Requests -> SUBSET Ids]
    /\ reply \in [Requests -> {"none", "ok", "notFound", "invalidState", "internal"}]
    /\ \A q \in Requests : pc[q] = "done" <=> reply[q] # "none"
    /\ acks \in [Ids -> Nat]
    /\ said \in [Ids -> Nat]

Publishing(i) == {q \in Requests : pc[q] \in {"publishJob", "publishMany"} /\ i \in won[q]}

\* Every acknowledgement is announced exactly once: however requests, recoveries
\* and reused row ids race, the events that named a row and those still to be
\* published are as many as the times a row of that id was acknowledged
\* (ack.go:25, ack.go:55).
Accounted == \A i \in Ids : acks[i] = said[i] + Cardinality(Publishing(i))

\* POST /api/groups/{name}/ack acknowledges jobs "in a group" (docs/restapi.md:169),
\* the one its reply and its event name.
AckStaysInGroup ==
    [][\A q \in Requests : pc[q] = "markGroup" /\ won'[q] # {} =>
          \E g \in groups : g.id = target[q] /\ g.name = named[q]]_flowVars
=============================================================================
