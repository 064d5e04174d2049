---------------------------- MODULE ServerProofs ----------------------------
(***************************************************************************)
(* The two components that write the jobs on their own account, for all    *)
(* groups, jobs, settings, bounds and any number of requests.  The         *)
(* acknowledge handlers: every step of theirs is a step of the store, and  *)
(* every acknowledgement is announced exactly once.  The worker: the       *)
(* tables stay right under its statements, a tick announces exactly what   *)
(* it did, and no job is marked before its time.  And both in one process, *)
(* where neither disturbs the other.                                       *)
(***************************************************************************)
EXTENDS Server, JobStoreProofs, FiniteSetTheorems

(***************************************************************************)
(*                       The acknowledge handlers                          *)
(***************************************************************************)

\* A request on its way to an UPDATE by id has one.
Targeted == \A q \in Requests : pc[q] \in {"markJob", "markGroup"} => target[q] \in Ids

\* The keys of the store make the counters meaningful: without them an id could
\* stand for two rows, one acknowledged by a step and one not.
FlowInv == Inv /\ FlowTypeOK /\ Targeted /\ Accounted

PublishPhases == {"publishJob", "publishMany"}

-----------------------------------------------------------------------------
(* The handlers take only steps of the store.                              *)

\* What a request does to the tables is an Ack of JobStore, or nothing.
LEMMA HandlerStep ==
    ASSUME FlowTypeOK, Targeted, NEW q \in Requests, Handle(q)
    PROVE  [Next]_vars
<1>1. CASE MarkJob(q)
  <2>1. target[q] \in Ids
    BY <1>1 DEF MarkJob, Targeted
  <2>2. Ack /\ UNCHANGED clock
    BY <1>1, <2>1 DEF MarkJob, Ack
  <2> QED
    BY <2>2 DEF Next, Write
<1>2. CASE MarkGroup(q)
  <2>1. target[q] \in Ids
    BY <1>2 DEF MarkGroup, Goto, Targeted
  <2>2. Ack /\ UNCHANGED clock
    BY <1>2, <2>1 DEF MarkGroup, Ack
  <2> QED
    BY <2>2 DEF Next, Write
<1>3. CASE MarkAll(q)
  <2>1. Ack /\ UNCHANGED clock
    BY <1>3 DEF MarkAll, Ack
  <2> QED
    BY <2>1 DEF Next, Write
<1>4. CASE \/ ReadJob(q) \/ PublishJob(q) \/ Reread(q) \/ ReadGroup(q)
           \/ PublishMany(q) \/ Fails(q)
  BY <1>4 DEF ReadJob, PublishJob, Reread, ReadGroup, PublishMany, Fails, ReadOnly
<1> QED
  BY <1>1, <1>2, <1>3, <1>4 DEF Handle

\* So does every step of the whole system.
LEMMA FlowStepIsStoreStep ==
    ASSUME FlowTypeOK, Targeted, [FlowNext]_flowVars
    PROVE  [Next]_vars
<1>1. CASE UNCHANGED flowVars
  BY <1>1 DEF flowVars
<1>2. CASE Others
  BY <1>2 DEF Others, Next, Write
<1>3. CASE Advance
  BY <1>3 DEF Next
<1>4. CASE \E q \in Requests : Handle(q)
  BY <1>4, HandlerStep
<1> QED
  BY <1>1, <1>2, <1>3, <1>4 DEF FlowNext

-----------------------------------------------------------------------------
(* What a step does to the handlers' state.                                *)

\* The ids an UPDATE acknowledges are ids of the table.
LEMMA HitType ==
    ASSUME TypeOK, NEW selected \in SUBSET jobs
    PROVE  Hit(selected) \in SUBSET Ids
BY DEF TypeOK, JobRows, Hit

\* A handler's step keeps its state well formed and its request targeted.
LEMMA HandlerTypes ==
    ASSUME Inv, FlowTypeOK, Targeted, NEW q \in Requests, Handle(q)
    PROVE  FlowTypeOK' /\ Targeted'
<1>1. TypeOK
  BY DEF Inv
<1>2. CASE ReadJob(q)
  BY <1>2 DEF ReadJob, ReadOnly, Finish, Goto, Target, FlowTypeOK, Targeted, Phases
<1>3. CASE MarkJob(q)
  <2>1. Hit({r \in jobs : r.id = target[q]}) \in SUBSET Ids
    BY <1>1, HitType
  <2>2. \A i \in Ids : acks'[i] \in Nat
    BY <1>3 DEF MarkJob, CountAcks, FlowTypeOK
  <2> QED
    BY <1>3, <2>1, <2>2 DEF MarkJob, CountAcks, FlowTypeOK, Targeted, Phases
<1>4. CASE MarkGroup(q)
  <2>1. Hit(JobsOf(target[q])) \in SUBSET Ids
    BY <1>1, HitType DEF JobsOf
  <2>2. \A i \in Ids : acks'[i] \in Nat
    BY <1>4 DEF MarkGroup, CountAcks, FlowTypeOK
  <2> QED
    BY <1>4, <2>1, <2>2 DEF MarkGroup, Goto, CountAcks, FlowTypeOK, Targeted, Phases
<1>5. CASE MarkAll(q)
  <2>1. Hit(jobs) \in SUBSET Ids
    BY <1>1, HitType
  <2>2. \A i \in Ids : acks'[i] \in Nat
    BY <1>5 DEF MarkAll, CountAcks, FlowTypeOK
  <2> QED
    BY <1>5, <2>1, <2>2 DEF MarkAll, Goto, CountAcks, FlowTypeOK, Targeted, Phases
<1>6. CASE PublishJob(q) \/ PublishMany(q)
  <2>1. \A i \in Ids : said'[i] \in Nat
    BY <1>6 DEF PublishJob, PublishMany, Publish, FlowTypeOK
  <2> QED
    BY <1>6, <2>1 DEF PublishJob, PublishMany, Publish, Finish, Goto, FlowTypeOK, Targeted, Phases
<1>7. CASE Reread(q) \/ Fails(q)
  BY <1>7 DEF Reread, Fails, ReadOnly, Finish, Goto, FlowTypeOK, Targeted, Phases
<1>8. CASE ReadGroup(q)
  <2>1. PICK g \in GroupNames :
            /\ named' = [named EXCEPT ![q] = g]
            /\ \/ ~GroupKnown(g) /\ Finish(q, "idle", "notFound") /\ UNCHANGED target
               \/ /\ GroupKnown(g)
                  /\ Goto(q, "idle", "markGroup")
                  /\ Target(q, GroupNamed(g).id)
                  /\ UNCHANGED reply
            /\ ReadOnly
    BY <1>8 DEF ReadGroup
  <2>2. GroupKnown(g) => GroupNamed(g).id \in Ids
    BY <1>1 DEF GroupKnown, GroupNamed, TypeOK, GroupRows
  <2> QED
    BY <2>1, <2>2 DEF ReadOnly, Finish, Goto, Target, FlowTypeOK, Targeted, Phases
<1> QED
  BY <1>2, <1>3, <1>4, <1>5, <1>6, <1>7, <1>8 DEF Handle

-----------------------------------------------------------------------------
(* The account of one row id.                                              *)

\* The requests about to publish an id are finitely many, so that they count.
LEMMA PublishingFinite ==
    ASSUME NEW i
    PROVE  IsFiniteSet(Publishing(i)) /\ Cardinality(Publishing(i)) \in Nat
<1>1. Publishing(i) \in SUBSET Requests
  BY DEF Publishing
<1>2. IsFiniteSet(Publishing(i))
  BY <1>1, RequestsAssumption, FS_Subset
<1> QED
  BY <1>2, FS_CardinalityType

\* An UPDATE flips exactly the rows it reports: ids are keys, so that an id
\* stands for one row before and one row after.
LEMMA FlippedAreHit ==
    ASSUME Inv, NEW selected \in SUBSET jobs, NEW i,
           jobs' = {IF r \in selected /\ Ackable(r) THEN Acked(r) ELSE r : r \in jobs}
    PROVE  Flipped(i) <=> i \in Hit(selected)
<1>1. /\ \A r \in jobs : Acked(r).id = r.id /\ Acked(r).acked = TRUE
      /\ \A r, s \in jobs : r.id = s.id => r = s
  BY DEF Inv, TypeOK, Integrity, JobRows, Acked
<1>2. ASSUME NEW r \in selected, r.id = i, r.status \in UnhealthyStatuses, ~r.acked
      PROVE  Flipped(i)
  BY <1>1, <1>2 DEF Flipped, Ackable
<1>3. ASSUME NEW r \in jobs, NEW s \in jobs', r.id = i, s.id = i, ~r.acked, s.acked
      PROVE  i \in Hit(selected)
  <2>1. PICK t \in jobs : s = IF t \in selected /\ Ackable(t) THEN Acked(t) ELSE t
    OBVIOUS
  <2>2. t = r
    BY <2>1, <1>1, <1>3
  <2>3. t \in selected /\ Ackable(t)
    BY <2>1, <2>2, <1>3
  <2> QED
    BY <2>2, <2>3, <1>3 DEF Hit
<1> QED
  BY <1>2, <1>3 DEF Flipped, Hit, Ackable

\* An UPDATE adds as many acknowledgements as announcements that are due.
LEMMA MarkingKeepsAccount ==
    ASSUME Inv, FlowTypeOK, Accounted, NEW q \in Requests, NEW selected \in SUBSET jobs,
           pc[q] \notin PublishPhases,
           jobs' = {IF r \in selected /\ Ackable(r) THEN Acked(r) ELSE r : r \in jobs},
           won' = [won EXCEPT ![q] = Hit(selected)],
           Hit(selected) # {} => pc'[q] \in PublishPhases,
           \A p \in Requests \ {q} : pc'[p] = pc[p],
           CountAcks, said' = said
    PROVE  Accounted'
<1> SUFFICES ASSUME NEW i \in Ids
             PROVE  acks'[i] = said[i] + Cardinality(Publishing(i)')
  BY DEF Accounted
<1>1. Flipped(i) <=> i \in Hit(selected)
  BY FlippedAreHit
<1>2. acks[i] = said[i] + Cardinality(Publishing(i)) /\ said[i] \in Nat
  BY DEF Accounted, FlowTypeOK
<1>3. q \notin Publishing(i)
  BY DEF Publishing, PublishPhases
<1>4. /\ \A p \in Requests \ {q} : won'[p] = won[p]
      /\ won'[q] = Hit(selected)
  BY DEF FlowTypeOK
<1>5. CASE i \in Hit(selected)
  <2>1. Publishing(i)' = Publishing(i) \cup {q}
    BY <1>4, <1>5 DEF Publishing, PublishPhases
  <2>2. Cardinality(Publishing(i)') = Cardinality(Publishing(i)) + 1
    BY <2>1, <1>3, PublishingFinite, FS_AddElement
  <2>3. acks'[i] = acks[i] + 1
    BY <1>1, <1>5 DEF CountAcks
  <2> QED
    BY <2>2, <2>3, <1>2, PublishingFinite
<1>6. CASE i \notin Hit(selected)
  <2>1. Publishing(i)' = Publishing(i)
    BY <1>3, <1>4, <1>6 DEF Publishing, PublishPhases
  <2>2. acks'[i] = acks[i]
    BY <1>1, <1>6 DEF CountAcks
  <2> QED
    BY <2>1, <2>2, <1>2
<1> QED
  BY <1>5, <1>6

\* An event says once what its request is about to publish.
LEMMA PublishingKeepsAccount ==
    ASSUME FlowTypeOK, Accounted, NEW q \in Requests, pc[q] \in PublishPhases,
           pc' = [pc EXCEPT ![q] = "done"], Publish(won[q]), won' = won, acks' = acks
    PROVE  Accounted'
<1> SUFFICES ASSUME NEW i \in Ids
             PROVE  acks[i] = said'[i] + Cardinality(Publishing(i)')
  BY DEF Accounted
<1>1. acks[i] = said[i] + Cardinality(Publishing(i)) /\ said[i] \in Nat
  BY DEF Accounted, FlowTypeOK
<1>2. Publishing(i)' = Publishing(i) \ {q}
  BY DEF Publishing, FlowTypeOK
<1>3. q \in Publishing(i) <=> i \in won[q]
  BY DEF Publishing, PublishPhases
<1>4. Cardinality(Publishing(i)') =
          IF q \in Publishing(i) THEN Cardinality(Publishing(i)) - 1 ELSE Cardinality(Publishing(i))
  BY <1>2, PublishingFinite, FS_RemoveElement
<1>5. said'[i] = IF i \in won[q] THEN said[i] + 1 ELSE said[i]
  BY DEF Publish
<1> QED
  BY <1>1, <1>3, <1>4, <1>5, PublishingFinite

\* A step that acknowledges nothing and publishes nothing.
LEMMA QuietKeepsAccount ==
    ASSUME Accounted, acks' = acks, said' = said, \A i \in Ids : Publishing(i)' = Publishing(i)
    PROVE  Accounted'
BY DEF Accounted

\* No write but an acknowledgement flips a row: a report keeps the ack of a failing
\* job or clears it, a transition clears it, a setting moves the expiry alone, the others delete.
LEMMA NothingFlips ==
    ASSUME Inv, NEW i,
           \/ Report \/ Configure \/ jobs' \subseteq jobs
           \/ \E overdue, st, at : TransitionOverdue(overdue, st, at)
    PROVE  ~Flipped(i)
<1> SUFFICES ASSUME NEW r \in jobs, NEW s \in jobs', r.id = i, s.id = i, ~r.acked, s.acked
             PROVE  FALSE
  BY DEF Flipped
<1>1. \A t \in jobs : t.id = i => t = r
  BY DEF Inv, Integrity
<1>2. CASE Report
  <2>1. PICK g \in GroupNames, j \in JobNames, st \in Reported, at \in Captured :
            UpsertJob(g, j, st, at)
    BY <1>2 DEF Report
  <2> DEFINE group == IF GroupKnown(g) THEN GroupNamed(g) ELSE NewGroup(g)
             new(t) == UpdatedJob(t, group, st, at)
  <2>2. \A t \in jobs : new(t).id = t.id /\ (new(t).acked => t.acked)
    BY DEF UpdatedJob, Inv, TypeOK, JobRows
  <2>3. InsertedJob(group, j, st, at).acked = FALSE
    BY DEF InsertedJob
  <2> HIDE DEF group
  <2>4. \/ \E t \in jobs : s = t \/ s = new(t)
        \/ s = InsertedJob(group, j, st, at)
    BY <2>1 DEF UpsertJob, group
  <2> HIDE DEF new
  <2> QED
    BY <2>2, <2>3, <2>4, <1>1
<1>3. CASE \E overdue, st, at : TransitionOverdue(overdue, st, at)
  <2>1. ASSUME NEW overdue, NEW st, NEW at, TransitionOverdue(overdue, st, at)
        PROVE  \E t \in jobs : s.id = t.id /\ (s.acked => s = t)
    BY <2>1 DEF TransitionOverdue, Inv, TypeOK, JobRows
  <2> QED
    BY <1>3, <2>1, <1>1
<1>4. CASE Configure
  <2>1. ASSUME NEW ids, NEW hours, s \in Cascaded(ids, hours)
        PROVE  \E t \in jobs : s.id = t.id /\ s.acked = t.acked
    BY <2>1 DEF Cascaded, Inv, TypeOK, JobRows
  <2>2. jobs' = jobs \/ \E ids, hours : jobs' = Cascaded(ids, hours)
    BY <1>4, Zenon DEF Configure, SetGlobalConfig, ConfigureGroup, SetGroupConfig, RefreshGroup,
       CascadeGroupExpiration
  <2> QED
    BY <2>1, <2>2, <1>1
<1>5. CASE jobs' \subseteq jobs
  BY <1>1, <1>5
<1> QED
  BY <1>2, <1>3, <1>4, <1>5

\* So that the steps of AckFlow beside the handlers flip none.
LEMMA OthersFlipNothing ==
    ASSUME Inv, NEW i, Report \/ Delete \/ TimeoutPass \/ Cleanup
    PROVE  ~Flipped(i)
<1>1. Delete \/ Cleanup => jobs' \subseteq jobs
  BY DEF Delete, DeleteJob, Cleanup, AdminCleanup
<1>2. TimeoutPass => \E overdue, st, at : TransitionOverdue(overdue, st, at)
  BY DEF TimeoutPass
<1> QED
  BY <1>1, <1>2, NothingFlips

\* Every step of a handler keeps the account.
LEMMA HandlerKeepsAccount ==
    ASSUME FlowInv, NEW q \in Requests, Handle(q)
    PROVE  Accounted'
<1>1. Inv /\ FlowTypeOK /\ Accounted
  BY DEF FlowInv
<1>2. CASE MarkJob(q)
  <2> DEFINE selected == {r \in jobs : r.id = target[q]}
  <2>1. jobs' = {IF r \in selected /\ Ackable(r) THEN Acked(r) ELSE r : r \in jobs}
    BY <1>2 DEF MarkJob, MarkAcked
  <2>2. won' = [won EXCEPT ![q] = Hit(selected)]
    BY <1>2 DEF MarkJob
  <2>3. /\ Hit(selected) # {} => pc'[q] \in PublishPhases
        /\ \A p \in Requests \ {q} : pc'[p] = pc[p]
        /\ pc[q] \notin PublishPhases
        /\ CountAcks /\ said' = said
    BY <1>1, <1>2, <2>2 DEF MarkJob, FlowTypeOK, PublishPhases
  <2> HIDE DEF selected
  <2>4. selected \in SUBSET jobs
    BY DEF selected
  <2> QED
    BY <1>1, <2>1, <2>2, <2>3, <2>4, MarkingKeepsAccount
<1>3. CASE MarkGroup(q)
  <2> DEFINE selected == JobsOf(target[q])
  <2>1. target[q] \in Ids
    BY <1>3 DEF FlowInv, Targeted, MarkGroup, Goto
  <2>2. jobs' = {IF r \in selected /\ Ackable(r) THEN Acked(r) ELSE r : r \in jobs}
    BY <1>3, <2>1, StoreAssumption DEF MarkGroup, AckUnhealthy, JobsOf, Ids
  <2>3. /\ won' = [won EXCEPT ![q] = Hit(selected)]
        /\ pc'[q] \in PublishPhases
        /\ \A p \in Requests \ {q} : pc'[p] = pc[p]
        /\ pc[q] \notin PublishPhases
        /\ CountAcks /\ said' = said
    BY <1>1, <1>3 DEF MarkGroup, Goto, FlowTypeOK, PublishPhases
  <2>4. selected \in SUBSET jobs
    BY DEF JobsOf
  <2> HIDE DEF selected
  <2> QED
    BY <1>1, <2>2, <2>3, <2>4, MarkingKeepsAccount
<1>4. CASE MarkAll(q)
  <2>1. jobs' = {IF r \in jobs /\ Ackable(r) THEN Acked(r) ELSE r : r \in jobs}
    BY <1>4 DEF MarkAll, AckUnhealthy
  <2>2. /\ won' = [won EXCEPT ![q] = Hit(jobs)]
        /\ pc'[q] \in PublishPhases
        /\ \A p \in Requests \ {q} : pc'[p] = pc[p]
        /\ pc[q] \notin PublishPhases
        /\ CountAcks /\ said' = said
    BY <1>1, <1>4 DEF MarkAll, Goto, FlowTypeOK, PublishPhases
  <2> QED
    BY <1>1, <2>1, <2>2, MarkingKeepsAccount
<1>5. CASE PublishJob(q) \/ PublishMany(q)
  <2>1. /\ pc[q] \in PublishPhases
        /\ pc' = [pc EXCEPT ![q] = "done"]
        /\ Publish(won[q]) /\ won' = won /\ acks' = acks
    BY <1>5 DEF PublishJob, PublishMany, Finish, Goto, PublishPhases
  <2> QED
    BY <1>1, <2>1, PublishingKeepsAccount
<1>6. CASE ReadJob(q) \/ Reread(q) \/ ReadGroup(q) \/ Fails(q)
  <2>1. /\ won' = won /\ acks' = acks /\ said' = said
        /\ \A p \in Requests \ {q} : pc'[p] = pc[p]
        /\ pc[q] \notin PublishPhases /\ pc'[q] \notin PublishPhases
    BY <1>1, <1>6 DEF ReadJob, Reread, ReadGroup, Fails, ReadOnly, Finish, Goto, FlowTypeOK, PublishPhases
  <2>2. \A i \in Ids : Publishing(i)' = Publishing(i)
    BY <2>1 DEF Publishing, PublishPhases
  <2> QED
    BY <1>1, <2>1, <2>2, QuietKeepsAccount
<1> QED
  BY <1>2, <1>3, <1>4, <1>5, <1>6 DEF Handle

-----------------------------------------------------------------------------
\* Nothing is acknowledged and nothing said at the start.
LEMMA FlowInvInit == FlowInit => FlowInv
<1> SUFFICES ASSUME FlowInit
             PROVE  FlowInv
  OBVIOUS
<1>1. Inv
  BY InvInit DEF FlowInit
<1>2. FlowTypeOK /\ Targeted
  BY DEF FlowInit, FlowTypeOK, Targeted, Phases
<1>3. Accounted
  <2>1. \A i \in Ids : Publishing(i) = {}
    BY DEF FlowInit, Publishing
  <2> QED
    BY <2>1, FS_EmptySet DEF FlowInit, Accounted
<1> QED
  BY <1>1, <1>2, <1>3 DEF FlowInv

\* What neither moves a request nor flips a row keeps the handlers' part of the invariant.
LEMMA QuietStep ==
    ASSUME FlowInv, Inv', UNCHANGED <<flow, said>>, CountAcks \/ acks' = acks, \A i \in Ids : ~Flipped(i)
    PROVE  FlowInv'
<1>1. FlowTypeOK /\ Targeted /\ Accounted
  BY DEF FlowInv
<1>2. acks' = acks
  <2>1. ASSUME CountAcks PROVE acks' = acks
    <3>1. acks' = [i \in Ids |-> acks[i]]
      BY <2>1 DEF CountAcks
    <3> QED
      BY <1>1, <3>1 DEF FlowTypeOK
  <2> QED
    BY <2>1
<1>3. FlowTypeOK' /\ Targeted'
  BY <1>1, <1>2 DEF flow, FlowTypeOK, Targeted
<1>4. \A i \in Ids : Publishing(i)' = Publishing(i)
  BY DEF flow, Publishing
<1>5. Accounted'
  BY <1>1, <1>2, <1>4, QuietKeepsAccount
<1> QED
  BY <1>3, <1>5 DEF FlowInv

\* Every step of the system keeps the invariant.
LEMMA FlowInvNext == FlowInv /\ [FlowNext]_flowVars => FlowInv'
<1> SUFFICES ASSUME FlowInv, [FlowNext]_flowVars
             PROVE  FlowInv'
  OBVIOUS
<1>1. Inv /\ FlowTypeOK /\ Targeted /\ Accounted
  BY DEF FlowInv
<1>2. Inv'
  BY <1>1, FlowStepIsStoreStep, InvNext
<1>3. CASE \E q \in Requests : Handle(q)
  BY <1>1, <1>2, <1>3, HandlerTypes, HandlerKeepsAccount DEF FlowInv
<1>4. CASE \/ Others
           \/ Advance /\ UNCHANGED <<flow, acks, said>>
           \/ UNCHANGED flowVars
  <2>1. UNCHANGED <<flow, said>> /\ (CountAcks \/ acks' = acks)
    BY <1>4 DEF Others, flowVars
  <2>2. \A i \in Ids : ~Flipped(i)
    <3>1. CASE Others
      BY <3>1, <1>1, OthersFlipNothing DEF Others
    <3>2. ~Others => jobs' \subseteq jobs
      BY <1>4 DEF Advance, db, flowVars, vars
    <3> QED
      BY <3>1, <3>2, <1>1, NothingFlips
  <2> QED
    BY <2>1, <2>2, <1>2, QuietStep
<1> QED
  BY <1>3, <1>4 DEF FlowNext

\* The handlers, the reports, the worker's marks and the cleanups together keep
\* the tables and the requests in order.
THEOREM FlowInvariant == FlowSpec => []FlowInv
BY FlowInvInit, FlowInvNext, PTL DEF FlowSpec

\* The handlers' state is well formed, and a request that is done has been answered.
THEOREM FlowTypeCorrect == FlowSpec => []FlowTypeOK
<1>1. FlowInv => FlowTypeOK
  BY DEF FlowInv
<1> QED
  BY <1>1, FlowInvariant, PTL

\* Every acknowledgement is announced exactly once, or is about to be, whatever
\* the number of requests that race for it.
THEOREM AcksAnnouncedOnce == FlowSpec => []Accounted
<1>1. FlowInv => Accounted
  BY DEF FlowInv
<1> QED
  BY <1>1, FlowInvariant, PTL

\* With the handlers split into their reads and writes the tables still move only
\* as JobStore says: AckFlow implements JobStore.
THEOREM FlowImplementsStore == FlowSpec => Spec
<1>1. FlowInit => Init
  BY DEF FlowInit
<1>2. FlowInv /\ [FlowNext]_flowVars => [Next]_vars
  BY FlowStepIsStoreStep DEF FlowInv
<1> QED
  BY <1>1, <1>2, FlowInvariant, PTL DEF FlowSpec, Spec

(***************************************************************************)
(*                              The worker                                 *)
(***************************************************************************)

-----------------------------------------------------------------------------
(* The invariant.                                                          *)

Marking == {"progress", "staleness", "timeouts", "stales", "publishTimeouts"}

\* What the worker has not announced is what it remembers having changed.
PendingInv ==
    /\ stage \in {"waiting", "progress", "staleness", "timeouts"} => pending = {}
    /\ stage = "stales" => pending = Announce(timedOut, "timeout")
    /\ stage = "publishTimeouts" =>
           pending = Announce(timedOut, "timeout") \cup Announce(stale, "stale")
    /\ stage \in Marking => expired = {}
    /\ stage \in {"expire", "names", "publishExpired"} => pending = Announce(IdsOf(expired), "expired")

\* The limits of the timeout pass are settings that were in force during the tick.
LimitsInv ==
    /\ stage # "waiting" => cfg \in inForce
    /\ stage \in {"staleness", "timeouts"} => \E c \in inForce : c.progress = limits.progress
    /\ stage \in {"timeouts", "stales"} => \E c \in inForce : c.staleness = limits.staleness

WorkerInv == Inv /\ WorkerTypeOK /\ PendingInv /\ LimitsInv

-----------------------------------------------------------------------------
(* What a statement has done to the jobs.                                  *)

\* An UPDATE that moves rows to a status they did not have is told from the tables as
\* exactly those rows.
LEMMA DoneByTransition ==
    ASSUME Inv, NEW rows \in SUBSET jobs, NEW st, \A r \in rows : r.status # st,
           NEW now0, TransitionOverdue(rows, st, now0)
    PROVE  Done = Announce(IdsOf(rows), st)
<1> DEFINE new(r) == [r EXCEPT !.status = st, !.acked = FALSE, !.updatedAt = now0]
<1>1. \A r \in jobs : new(r).id = r.id /\ new(r).status = st
  BY DEF Inv, TypeOK, JobRows
<1>2. jobs' = {IF r \in rows THEN new(r) ELSE r : r \in jobs}
  BY DEF TransitionOverdue
<1> HIDE DEF new
<1>3. \A r \in rows : new(r) \notin jobs
  BY <1>1 DEF Inv, Integrity
<1>4. jobs' \ jobs = {new(r) : r \in rows}
  BY <1>2, <1>3
<1>5. {q \in jobs : \A s \in jobs' : s.id # q.id} = {}
  BY <1>1, <1>2
<1>6. {<<s.status, s.id>> : s \in jobs' \ jobs} = {<<st, r.id>> : r \in rows}
  BY <1>1, <1>4
<1>7. Announce(IdsOf(rows), st) = {<<st, r.id>> : r \in rows}
  BY DEF Announce, IdsOf
<1> QED
  BY <1>5, <1>6, <1>7 DEF Done

\* So is a DELETE.
LEMMA DoneByDelete ==
    ASSUME Inv, NEW batch \in SUBSET jobs, jobs' = jobs \ batch
    PROVE  Done = Announce(IdsOf(batch), "expired")
<1>1. {q \in jobs : \A s \in jobs' : s.id # q.id} = batch
  BY DEF Inv, Integrity
<1>2. jobs' \ jobs = {}
  OBVIOUS
<1> QED
  BY <1>1, <1>2 DEF Done, Announce, IdsOf

-----------------------------------------------------------------------------
(* The rows the worker takes.                                              *)

\* A limit is positive, so what has run over it was reported before the instant.
LEMMA OverdueIsOld ==
    ASSUME Inv, WorkerTypeOK
    PROVE  /\ \A r \in TimedOut(limits.progress, now) : r \in jobs /\ r.status = "progress" /\ r.updatedAt < now
           /\ \A r \in GoneStale(limits.staleness, now) : r \in jobs /\ r.status = "success" /\ r.updatedAt < now
<1>1. \A r \in jobs : GroupWithId(r.group) \in groups /\ GroupWithId(r.group) \in GroupRows
  BY DEF Inv, TypeOK, Integrity, GroupWithId
<1>2. now \in Nat /\ limits \in Settings
  BY DEF WorkerTypeOK, Inv, TypeOK
<1>3. \A r \in jobs : /\ EffectiveOr(GroupWithId(r.group).progress, limits.progress) \in Nat \ {0}
                      /\ EffectiveOr(GroupWithId(r.group).staleness, limits.staleness) \in Nat \ {0}
  BY <1>1, <1>2, StoreAssumption DEF EffectiveOr, GroupRows, Settings
<1>4. \A r \in jobs : r.updatedAt \in Nat
  BY DEF Inv, TypeOK, JobRows
<1> QED
  BY <1>2, <1>3, <1>4 DEF TimedOut, GoneStale, Overdue

-----------------------------------------------------------------------------
(* Every step keeps the invariant of the tables.                           *)

\* A tick holds on to an instant of the past, so its statements are steps the store allows.
LEMMA StoreNext ==
    ASSUME Inv, WorkerTypeOK, [WorkerNext]_workerVars
    PROVE  Inv'
<1>1. CASE UNCHANGED vars
  BY <1>1, InvNext
<1>2. CASE Advance
  BY <1>2, InvNext DEF Next
<1>3. CASE MarkTimeouts
  <2>1. /\ TransitionOverdue(TimedOut(limits.progress, now), "timeout", now)
        /\ UNCHANGED clock
    BY <1>3 DEF MarkTimeouts, Watch
  <2>2. now \in Nat /\ TimedOut(limits.progress, now) \subseteq jobs
    BY DEF WorkerTypeOK, Inv, TypeOK, TimedOut
  <2> QED
    BY <2>1, <2>2, OverdueIsOld, TransitionStep
<1>4. CASE MarkStale
  <2>1. /\ TransitionOverdue(GoneStale(limits.staleness, now), "stale", now)
        /\ UNCHANGED clock
    BY <1>4 DEF MarkStale, Watch
  <2>2. now \in Nat /\ GoneStale(limits.staleness, now) \subseteq jobs
    BY DEF WorkerTypeOK, Inv, TypeOK, GoneStale
  <2> QED
    BY <2>1, <2>2, OverdueIsOld, TransitionStep
<1>5. CASE Expire
  <2>1. jobs' \subseteq jobs /\ UNCHANGED <<groups, cfg, windows, clock>>
    BY <1>5 DEF Expire, ExpireBatch, Watch
  <2>2. clock' \in Nat /\ \A r \in jobs' : \E s \in groups' : s.id = r.group
    BY <2>1 DEF Inv, TypeOK, Integrity
  <2> QED
    BY <2>1, <2>2, ShrinkStep
<1>6. CASE Handlers
  <2>1. Write /\ UNCHANGED clock
    BY <1>6 DEF Handlers, Write
  <2> QED
    BY <2>1, InvNext DEF Next
<1>7. CASE Tick \/ ReadProgress \/ ReadStaleness \/ PublishTimeouts \/ ResolveNames \/ PublishExpired
  BY <1>1, <1>7 DEF Tick, ReadProgress, ReadStaleness, PublishTimeouts, ResolveNames, PublishExpired, Reads
<1>8. CASE StatementFails \/ Restart \/ UNCHANGED workerVars
  BY <1>1, <1>8 DEF StatementFails, Restart, workerVars
<1> QED
  BY <1>2, <1>3, <1>4, <1>5, <1>6, <1>7, <1>8 DEF WorkerNext, Work

-----------------------------------------------------------------------------
(* Every step keeps the worker's types.                                    *)

\* The ids of rows are ids.
LEMMA IdsTyped ==
    ASSUME Inv, NEW rows \in SUBSET jobs
    PROVE  /\ IdsOf(rows) \subseteq Ids
           /\ \A what \in {"timeout", "stale", "expired"} : Announce(IdsOf(rows), what) \subseteq Changes
BY DEF Inv, TypeOK, JobRows, IdsOf, Announce, Changes

\* The clock is a number and never goes back.
LEMMA NowTyped ==
    ASSUME Inv, WorkerTypeOK, [WorkerNext]_workerVars
    PROVE  clock \in Nat /\ clock' \in Nat /\ clock <= clock'
<1>1. clock \in Nat /\ clock' \in Nat
  BY StoreNext DEF Inv, TypeOK
<1>2. clock' = clock \/ clock' = clock + 1
  <2>1. CASE Advance
    BY <2>1 DEF Advance
  <2>2. CASE Work
    BY <2>2 DEF Work, Tick, ReadProgress, ReadStaleness, MarkTimeouts, MarkStale, PublishTimeouts,
       Expire, ResolveNames, PublishExpired, Reads, Watch, vars
  <2>3. CASE StatementFails \/ Restart \/ Handlers \/ UNCHANGED workerVars
    BY <2>3 DEF StatementFails, Restart, Handlers, workerVars, vars
  <2> QED
    BY <2>1, <2>2, <2>3 DEF WorkerNext
<1> QED
  BY <1>1, <1>2

\* The rows the DELETEs returned, with the names of their groups.
LEMMA WithGroupType ==
    ASSUME Inv, NEW r \in jobs
    PROVE  WithGroup(r) \in [id : Ids, group : Ids, name : GroupNames] /\ WithGroup(r).id = r.id
<1>1. GroupWithId(r.group) \in groups
  BY DEF Inv, Integrity, GroupWithId
<1> QED
  BY <1>1 DEF WithGroup, Inv, TypeOK, JobRows, GroupRows

\* Every step keeps the worker's types.
LEMMA WorkerTypeNext ==
    ASSUME Inv, WorkerTypeOK, PendingInv, [WorkerNext]_workerVars
    PROVE  WorkerTypeOK'
<1> USE DEF worker
<1>0. clock \in Nat /\ clock' \in Nat /\ clock <= clock' /\ now \in 0..clock' /\ cfg \in Settings /\ cfg' \in Settings
  BY NowTyped, StoreNext DEF WorkerTypeOK, Inv, TypeOK
<1>1. CASE UNCHANGED <<worker, pending>> /\ inForce' \subseteq inForce \cup {cfg'}
  BY <1>0, <1>1 DEF WorkerTypeOK
<1>2. CASE Tick
  <2>1. /\ stage' = "progress" /\ now' = clock /\ clock' = clock
        /\ timedOut' = {} /\ stale' = {} /\ expired' = {} /\ names' = {}
        /\ inForce' = {cfg} /\ limits' = limits /\ pending' = pending
    BY <1>2 DEF Tick, Move, Reads, vars
  <2> QED
    BY <1>0, <2>1 DEF WorkerTypeOK, Stages
<1>3. CASE ReadProgress \/ ReadStaleness
  BY <1>0, <1>3 DEF ReadProgress, ReadStaleness, Reads, Move, WorkerTypeOK, Stages, Settings
<1>4. CASE MarkTimeouts
  <2> DEFINE rows == TimedOut(limits.progress, now)
  <2>1. rows \subseteq jobs
    BY DEF TimedOut
  <2>2. /\ stage' = "stales" /\ timedOut' = IdsOf(rows) /\ pending' = pending \cup Done
        /\ TransitionOverdue(rows, "timeout", now)
        /\ UNCHANGED <<now, limits, stale, expired, names, inForce>>
    BY <1>4 DEF MarkTimeouts, Move, Watch
  <2>3. Done = Announce(IdsOf(rows), "timeout")
    BY <2>1, <2>2, OverdueIsOld, DoneByTransition
  <2> HIDE DEF rows
  <2> QED
    BY <1>0, <2>1, <2>2, <2>3, IdsTyped DEF WorkerTypeOK, Stages
<1>5. CASE MarkStale
  <2> DEFINE rows == GoneStale(limits.staleness, now)
  <2>1. rows \subseteq jobs
    BY DEF GoneStale
  <2>2. /\ stage' = "publishTimeouts" /\ stale' = IdsOf(rows) /\ pending' = pending \cup Done
        /\ TransitionOverdue(rows, "stale", now)
        /\ UNCHANGED <<now, limits, timedOut, expired, names, inForce>>
    BY <1>5 DEF MarkStale, Move, Watch
  <2>3. Done = Announce(IdsOf(rows), "stale")
    BY <2>1, <2>2, OverdueIsOld, DoneByTransition
  <2> HIDE DEF rows
  <2> QED
    BY <1>0, <2>1, <2>2, <2>3, IdsTyped DEF WorkerTypeOK, Stages
<1>6. CASE Expire
  <2>1. PICK batch \in SUBSET Expired(now) :
            /\ ExpireBatch(batch, now)
            /\ expired' = expired \cup {WithGroup(r) : r \in batch}
            /\ stage' \in {"names", "expire"}
    BY <1>6 DEF Expire
  <2>2. batch \subseteq jobs
    BY DEF Expired
  <2>3. Done = Announce(IdsOf(batch), "expired")
    BY <2>1, <2>2, DoneByDelete DEF ExpireBatch
  <2>4. UNCHANGED <<now, limits, timedOut, stale, names, inForce>> /\ pending' = pending \cup Done
    BY <1>6 DEF Expire, Watch
  <2>5. expired' \subseteq [id : Ids, group : Ids, name : GroupNames]
    BY <2>1, <2>2, WithGroupType DEF WorkerTypeOK
  <2> QED
    BY <1>0, <2>1, <2>2, <2>3, <2>4, <2>5, IdsTyped DEF WorkerTypeOK, Stages
<1>7. CASE ResolveNames
  <2>1. names' \subseteq [id : Ids, name : GroupNames]
    BY <1>7 DEF ResolveNames, Inv, TypeOK, GroupRows
  <2>2. stage' = "publishExpired" /\ UNCHANGED <<now, limits, timedOut, stale, expired, inForce, pending>>
    BY <1>7 DEF ResolveNames, Reads, Move
  <2> QED
    BY <1>0, <2>1, <2>2 DEF WorkerTypeOK, Stages
<1>8. CASE PublishTimeouts \/ PublishExpired
  BY <1>0, <1>8 DEF PublishTimeouts, PublishExpired, Move, WorkerTypeOK, Stages
<1>9. CASE StatementFails
  BY <1>0, <1>9 DEF StatementFails, Move, WorkerTypeOK, Stages
<1>10. CASE Restart
  BY <1>0, <1>10, StoreAssumption DEF Restart, vars, WorkerTypeOK, Stages
<1>11. CASE Handlers
  BY <1>1, <1>11 DEF Handlers
<1>12. CASE (Advance /\ UNCHANGED <<worker, pending, inForce>>) \/ UNCHANGED workerVars
  BY <1>1, <1>12 DEF workerVars
<1> QED
  BY <1>2, <1>3, <1>4, <1>5, <1>6, <1>7, <1>8, <1>9, <1>10, <1>11, <1>12 DEF WorkerNext, Work

-----------------------------------------------------------------------------
(* What is pending, and the limits.                                        *)

\* Every step keeps what is pending in line with the statement that comes next.
LEMMA PendingNext ==
    ASSUME Inv, WorkerTypeOK, PendingInv, [WorkerNext]_workerVars
    PROVE  PendingInv'
<1> USE DEF worker
<1>1. CASE UNCHANGED <<stage, timedOut, stale, expired, pending>>
  BY <1>1 DEF PendingInv, Marking, Announce, IdsOf
<1>2. CASE Tick
  BY <1>2 DEF Tick, Move, Reads, PendingInv, Marking
<1>3. CASE ReadProgress \/ ReadStaleness
  <2>1. /\ \/ stage = "progress" /\ stage' = "staleness"
           \/ stage = "staleness" /\ stage' = "timeouts"
        /\ UNCHANGED <<expired, pending>>
    BY <1>3, Zenon DEF ReadProgress, ReadStaleness, Move, Reads
  <2> QED
    BY <2>1 DEF PendingInv, Marking
<1>4. CASE MarkTimeouts
  <2> DEFINE rows == TimedOut(limits.progress, now)
  <2>1. rows \subseteq jobs
    BY DEF TimedOut
  <2>2. /\ stage = "timeouts" /\ stage' = "stales" /\ timedOut' = IdsOf(rows) /\ expired' = expired
        /\ pending' = pending \cup Done /\ TransitionOverdue(rows, "timeout", now)
    BY <1>4 DEF MarkTimeouts, Move, Watch
  <2>3. Done = Announce(IdsOf(rows), "timeout")
    BY <2>1, <2>2, OverdueIsOld, DoneByTransition
  <2>4. pending' = Announce(timedOut', "timeout")
    BY <2>2, <2>3 DEF PendingInv
  <2> HIDE DEF rows
  <2> QED
    BY <2>2, <2>4 DEF PendingInv, Marking, Announce
<1>5. CASE MarkStale
  <2> DEFINE rows == GoneStale(limits.staleness, now)
  <2>1. rows \subseteq jobs
    BY DEF GoneStale
  <2>2. /\ stage = "stales" /\ stage' = "publishTimeouts" /\ stale' = IdsOf(rows)
        /\ timedOut' = timedOut /\ expired' = expired
        /\ pending' = pending \cup Done /\ TransitionOverdue(rows, "stale", now)
    BY <1>5 DEF MarkStale, Move, Watch
  <2>3. Done = Announce(IdsOf(rows), "stale")
    BY <2>1, <2>2, OverdueIsOld, DoneByTransition
  <2>4. pending' = Announce(timedOut', "timeout") \cup Announce(stale', "stale")
    BY <2>2, <2>3 DEF PendingInv
  <2> HIDE DEF rows
  <2> QED
    BY <2>2, <2>4 DEF PendingInv, Marking, Announce
<1>6. CASE PublishTimeouts
  <2>1. stage = "publishTimeouts" /\ stage' = "expire" /\ pending' = {} /\ expired' = {}
    BY <1>6 DEF PublishTimeouts, Move, PendingInv, Marking
  <2> QED
    BY <2>1 DEF PendingInv, Marking, Announce, IdsOf
<1>7. CASE Expire
  <2>1. PICK batch \in SUBSET Expired(now) :
            /\ ExpireBatch(batch, now)
            /\ expired' = expired \cup {WithGroup(r) : r \in batch}
            /\ stage' \in {"names", "expire"}
    BY <1>7 DEF Expire
  <2>2. batch \subseteq jobs
    BY DEF Expired
  <2>3. Done = Announce(IdsOf(batch), "expired")
    BY <2>1, <2>2, DoneByDelete DEF ExpireBatch
  <2>4. pending' = Announce(IdsOf(expired), "expired") \cup Announce(IdsOf(batch), "expired")
    BY <1>7, <2>3 DEF Expire, Watch, PendingInv
  <2>5. IdsOf(expired') = IdsOf(expired) \cup IdsOf(batch)
    BY <2>1, <2>2, WithGroupType DEF IdsOf
  <2>6. pending' = Announce(IdsOf(expired'), "expired")
    BY <2>4, <2>5 DEF Announce
  <2> QED
    BY <2>1, <2>6 DEF PendingInv, Marking, Announce, IdsOf
<1>8. CASE ResolveNames
  <2>1. stage = "names" /\ stage' = "publishExpired" /\ UNCHANGED <<pending, expired>>
    BY <1>8 DEF ResolveNames, Move, Reads
  <2> QED
    BY <2>1 DEF PendingInv, Marking, Announce, IdsOf
<1>9. CASE PublishExpired
  <2>1. stage = "publishExpired" /\ stage' = "waiting" /\ pending' = {}
    BY <1>9 DEF PublishExpired, Move, PendingInv
  <2> QED
    BY <2>1 DEF PendingInv, Marking
<1>10. CASE StatementFails
  <2>1. /\ pending' = {} /\ expired' = expired
        /\ \/ stage \in Marking /\ stage' = "expire"
           \/ stage' = "waiting"
    BY <1>10 DEF StatementFails, Move, Marking
  <2>2. stage' = "expire" => expired' = {}
    BY <2>1 DEF PendingInv
  <2> QED
    BY <2>1, <2>2 DEF PendingInv, Marking, Announce, IdsOf
<1>11. CASE Restart
  BY <1>11 DEF Restart, PendingInv, Marking
<1>12. CASE \/ Handlers
            \/ Advance /\ UNCHANGED <<worker, pending, inForce>>
            \/ UNCHANGED workerVars
  BY <1>1, <1>12 DEF Handlers, workerVars
<1> QED
  BY <1>2, <1>3, <1>4, <1>5, <1>6, <1>7, <1>8, <1>9, <1>10, <1>11, <1>12 DEF WorkerNext, Work

\* Every step keeps the limits among the settings in force.
LEMMA LimitsNext ==
    ASSUME Inv, WorkerTypeOK, LimitsInv, [WorkerNext]_workerVars
    PROVE  LimitsInv'
<1> USE DEF worker
<1>1. CASE UNCHANGED <<stage, limits, cfg, inForce>>
  BY <1>1 DEF LimitsInv
<1>2. CASE Tick
  BY <1>2 DEF Tick, Move, Reads, vars, LimitsInv
<1>3. CASE ReadProgress
  <2>1. stage = "progress" /\ stage' = "staleness" /\ limits'.progress = cfg.progress /\ UNCHANGED <<cfg, inForce>>
    BY <1>3 DEF ReadProgress, Move, Reads, vars, WorkerTypeOK, Settings
  <2> QED
    BY <2>1 DEF LimitsInv
<1>4. CASE ReadStaleness
  <2>1. /\ stage = "staleness" /\ stage' = "timeouts" /\ limits'.staleness = cfg.staleness
        /\ limits'.progress = limits.progress /\ UNCHANGED <<cfg, inForce>>
    BY <1>4 DEF ReadStaleness, Move, Reads, vars, WorkerTypeOK, Settings
  <2> QED
    BY <2>1 DEF LimitsInv
<1>5. CASE MarkTimeouts \/ MarkStale
  <2>1. /\ \/ stage = "timeouts" /\ stage' = "stales"
           \/ stage = "stales" /\ stage' = "publishTimeouts"
        /\ UNCHANGED <<limits, cfg, inForce>>
    BY <1>5 DEF MarkTimeouts, MarkStale, Move, TransitionOverdue, Watch
  <2> QED
    BY <2>1 DEF LimitsInv
<1>6. CASE PublishTimeouts \/ Expire \/ ResolveNames \/ PublishExpired
  <2>1. stage # "waiting" /\ stage' \in {"expire", "names", "publishExpired", "waiting"} /\ UNCHANGED <<cfg, inForce>>
    BY <1>6 DEF PublishTimeouts, Expire, ExpireBatch, ResolveNames, PublishExpired, Move, Reads, Watch, vars
  <2> QED
    BY <2>1 DEF LimitsInv
<1>7. CASE StatementFails
  <2>1. stage # "waiting" /\ stage' \in {"expire", "waiting"} /\ UNCHANGED <<cfg, inForce>>
    BY <1>7 DEF StatementFails, Move, vars
  <2> QED
    BY <2>1 DEF LimitsInv
<1>8. CASE Restart
  BY <1>8 DEF Restart, LimitsInv
<1>9. CASE Handlers
  <2>1. stage' = stage /\ limits' = limits /\ inForce' = inForce \cup {cfg'}
    BY <1>9 DEF Handlers
  <2> QED
    BY <2>1 DEF LimitsInv
<1>10. CASE (Advance /\ UNCHANGED <<worker, pending, inForce>>) \/ UNCHANGED workerVars
  BY <1>1, <1>10 DEF Advance, db, workerVars, vars
<1> QED
  BY <1>2, <1>3, <1>4, <1>5, <1>6, <1>7, <1>8, <1>9, <1>10 DEF WorkerNext, Work

\* The worker waits for its first tick.
LEMMA WorkerInvInit == WorkerInit => WorkerInv
<1> SUFFICES ASSUME WorkerInit PROVE WorkerInv
  OBVIOUS
<1>1. Inv /\ clock = 0 /\ cfg \in Settings
  BY InvInit, StoreAssumption DEF WorkerInit, Init
<1> QED
  BY <1>1, StoreAssumption DEF WorkerInit, WorkerInv, WorkerTypeOK, Stages, PendingInv, LimitsInv, Marking

\* Every step keeps the invariant.
LEMMA WorkerInvNext == WorkerInv /\ [WorkerNext]_workerVars => WorkerInv'
BY StoreNext, WorkerTypeNext, PendingNext, LimitsNext DEF WorkerInv

\* The invariant holds of every reachable state.
LEMMA WorkerInvAlways == WorkerSpec => []WorkerInv
BY WorkerInvInit, WorkerInvNext, PTL DEF WorkerSpec

-----------------------------------------------------------------------------
(* The theorems.                                                           *)

\* The tables keep their keys, their acks, and an expiry by a setting that applied since the
\* last refresh under the statements of the worker, with reports, deletions, cleanups, PUTs of
\* the global settings and either statement of a PUT of a group's between any two of them.
THEOREM TablesIntactUnderWorker == WorkerSpec => []Inv
<1>1. WorkerInv => Inv
  BY DEF WorkerInv
<1> QED
  BY <1>1, WorkerInvAlways, PTL

\* The worker's state is well formed, and its instant never ahead of the clock.
THEOREM WorkerTypeCorrect == WorkerSpec => []WorkerTypeOK
<1>1. WorkerInv => WorkerTypeOK
  BY DEF WorkerInv
<1> QED
  BY <1>1, WorkerInvAlways, PTL

\* Nothing the worker did in a tick without an error is left unannounced at its end.
THEOREM AnnouncesAll == WorkerSpec => []TickAnnouncesAll
<1>1. WorkerInv => TickAnnouncesAll
  BY DEF WorkerInv, PendingInv, TickAnnouncesAll
<1> QED
  BY <1>1, WorkerInvAlways, PTL

\* And nothing is announced that it did not do.
THEOREM NoAlarmIsFalse == WorkerSpec => NoFalseAlarm
<1>1. WorkerInv => /\ stage = "publishTimeouts" =>
                         Announce(timedOut, "timeout") \cup Announce(stale, "stale") \subseteq pending
                   /\ stage = "publishExpired" => Announce(IdsOf(expired), "expired") \subseteq pending
  BY DEF WorkerInv, PendingInv
<1> QED
  BY <1>1, WorkerInvAlways, PTL DEF NoFalseAlarm

\* The row r of group g, which a step of the worker made s, was beyond a limit in force.
Late(r, s, g) ==
    \E global \in inForce :
        \/ s.status = "timeout" /\ r.status = "progress"
              /\ r.updatedAt < clock - EffectiveOr(g.progress, global.progress)
        \/ s.status = "stale" /\ r.status = "success" /\ g.enabled
              /\ r.updatedAt < clock - EffectiveOr(g.staleness, global.staleness)

NotEarly == \A r \in jobs, s \in jobs', g \in groups :
    stage # stage' /\ r.id = s.id /\ r.status # s.status /\ g.id = r.group => Late(r, s, g)

\* An UPDATE runs at the instant of its tick or later, so that what is beyond a limit at that
\* instant still is, and only a report would have changed that.
LEMMA MarksAreLate ==
    ASSUME WorkerInv, WorkerNext
    PROVE  NotEarly
<1> SUFFICES ASSUME NEW r \in jobs, NEW s \in jobs', NEW g \in groups,
                    stage # stage', r.id = s.id, r.status # s.status, g.id = r.group
             PROVE  Late(r, s, g)
  BY DEF NotEarly
<1> USE DEF worker
<1>1. GroupWithId(r.group) = g
  BY DEF WorkerInv, Inv, Integrity, GroupWithId
<1>2. s \notin jobs
  BY DEF WorkerInv, Inv, Integrity
<1>3. /\ now \in Nat /\ clock \in Nat /\ now <= clock /\ r.updatedAt \in Nat
  BY DEF WorkerInv, WorkerTypeOK, Inv, TypeOK, JobRows
<1>4. ASSUME NEW rows \in SUBSET jobs, NEW st, TransitionOverdue(rows, st, now)
      PROVE  r \in rows /\ s.status = st
  <2> DEFINE new(q) == [q EXCEPT !.status = st, !.acked = FALSE, !.updatedAt = now]
  <2>1. \A q \in jobs : new(q).id = q.id /\ new(q).status = st
    BY DEF WorkerInv, Inv, TypeOK, JobRows
  <2>2. jobs' = {IF q \in rows THEN new(q) ELSE q : q \in jobs}
    BY <1>4 DEF TransitionOverdue
  <2> HIDE DEF new
  <2>3. PICK q \in rows : s = new(q)
    BY <1>2, <2>2
  <2>4. q = r
    BY <2>1, <2>3 DEF WorkerInv, Inv, Integrity
  <2> QED
    BY <2>1, <2>3, <2>4
<1>5. CASE MarkTimeouts
  <2>1. stage = "timeouts" /\ TransitionOverdue(TimedOut(limits.progress, now), "timeout", now)
    BY <1>5 DEF MarkTimeouts, Move
  <2>2. r \in TimedOut(limits.progress, now) /\ s.status = "timeout"
    BY <1>4, <2>1 DEF TimedOut
  <2>3. PICK c \in inForce : c.progress = limits.progress
    BY <2>1 DEF WorkerInv, LimitsInv
  <2>4. EffectiveOr(g.progress, c.progress) \in Nat
    BY <2>3, StoreAssumption DEF WorkerInv, WorkerTypeOK, Inv, TypeOK, GroupRows, Settings, EffectiveOr
  <2>5. r.status = "progress" /\ r.updatedAt < now - EffectiveOr(g.progress, c.progress)
    BY <1>1, <2>2, <2>3 DEF TimedOut, Overdue
  <2>6. r.updatedAt < clock - EffectiveOr(g.progress, c.progress)
    BY <1>3, <2>4, <2>5
  <2> QED
    BY <2>2, <2>5, <2>6 DEF Late
<1>6. CASE MarkStale
  <2>1. stage = "stales" /\ TransitionOverdue(GoneStale(limits.staleness, now), "stale", now)
    BY <1>6 DEF MarkStale, Move
  <2>2. r \in GoneStale(limits.staleness, now) /\ s.status = "stale"
    BY <1>4, <2>1 DEF GoneStale
  <2>3. PICK c \in inForce : c.staleness = limits.staleness
    BY <2>1 DEF WorkerInv, LimitsInv
  <2>4. EffectiveOr(g.staleness, c.staleness) \in Nat
    BY <2>3, StoreAssumption DEF WorkerInv, WorkerTypeOK, Inv, TypeOK, GroupRows, Settings, EffectiveOr
  <2>5. r.status = "success" /\ g.enabled /\ r.updatedAt < now - EffectiveOr(g.staleness, c.staleness)
    BY <1>1, <2>2, <2>3 DEF GoneStale, Overdue
  <2>6. r.updatedAt < clock - EffectiveOr(g.staleness, c.staleness)
    BY <1>3, <2>4, <2>5
  <2> QED
    BY <2>2, <2>5, <2>6 DEF Late
<1>7. ~(jobs' \subseteq jobs)
  BY <1>2
<1>8. ~(Tick \/ ReadProgress \/ ReadStaleness \/ PublishTimeouts \/ ResolveNames \/ PublishExpired)
  BY <1>7 DEF Tick, ReadProgress, ReadStaleness, PublishTimeouts, ResolveNames, PublishExpired, Reads, vars
<1>9. ~Expire /\ ~StatementFails /\ ~Restart
  BY <1>7 DEF Expire, ExpireBatch, StatementFails, Restart, vars
<1>10. ~Handlers /\ ~(Advance /\ UNCHANGED <<worker, pending, inForce>>)
  BY DEF Handlers
<1> QED
  BY <1>5, <1>6, <1>8, <1>9, <1>10 DEF WorkerNext, Work

\* A job is marked only if its last report is older than a limit in force during the tick.
THEOREM MarkedInTime == WorkerSpec => NoEarlyTransition
<1>1. WorkerInv /\ [WorkerNext]_workerVars => [NotEarly]_workerVars
  BY MarksAreLate, Zenon
<1>2. NoEarlyTransition <=> [][NotEarly]_workerVars
  BY DEF NoEarlyTransition, NotEarly, Late
<1> QED
  BY <1>1, <1>2, WorkerInvAlways, PTL DEF WorkerSpec

(***************************************************************************)
(*                        Both in one process                              *)
(***************************************************************************)

ServerInv == FlowInv /\ WorkerInv

-----------------------------------------------------------------------------
(* Neither disturbs the other.                                             *)

\* A step of a request leaves the settings and the clock alone, and with them what the
\* worker remembers of its tick.
LEMMA HandlerLeavesWorker ==
    ASSUME ServerInv, Acknowledge
    PROVE  ServerInv'
<1>1. PICK q \in Requests : Handle(q)
  BY DEF Acknowledge
<1>2. UNCHANGED <<worker, pending, inForce>>
  BY DEF Acknowledge
<1>3. UNCHANGED <<clock, cfg>>
  BY <1>1 DEF Handle, ReadJob, MarkJob, PublishJob, Reread, ReadGroup, MarkGroup, MarkAll, PublishMany,
     Fails, ReadOnly, MarkAcked, AckUnhealthy, vars, db
<1>4. FlowInv'
  BY <1>1, FlowInvNext DEF ServerInv, FlowNext
<1>5. WorkerTypeOK' /\ PendingInv' /\ LimitsInv'
  BY <1>2, <1>3 DEF ServerInv, WorkerInv, worker, WorkerTypeOK, PendingInv, LimitsInv, Marking, Announce, IdsOf
<1> QED
  BY <1>4, <1>5 DEF ServerInv, WorkerInv, FlowInv

\* No statement of the worker acknowledges a job, nor does one of the requests beside it.
LEMMA WorkerFlipsNothing ==
    ASSUME Inv, NEW i, Work \/ StatementFails \/ Handlers
    PROVE  ~Flipped(i)
<1>1. CASE MarkTimeouts \/ MarkStale
  <2>1. \E overdue, st, at : TransitionOverdue(overdue, st, at)
    BY <1>1 DEF MarkTimeouts, MarkStale
  <2> QED
    BY <2>1, NothingFlips
<1>2. CASE Handlers
  <2>1. Report \/ Configure \/ jobs' \subseteq jobs
    BY <1>2 DEF Handlers, Delete, DeleteJob, Cleanup, AdminCleanup
  <2> QED
    BY <2>1, NothingFlips
<1>3. CASE Work \/ StatementFails
  <2>1. ~(MarkTimeouts \/ MarkStale) => jobs' \subseteq jobs
    BY <1>3 DEF Work, Tick, ReadProgress, ReadStaleness, PublishTimeouts, Expire, ExpireBatch, ResolveNames,
       PublishExpired, StatementFails, Reads, vars
  <2> QED
    BY <2>1, <1>1, NothingFlips
<1> QED
  BY <1>2, <1>3

\* So that the account of the acknowledgements stands still under it.
LEMMA WorkerLeavesHandlers ==
    ASSUME ServerInv, WorkBeside
    PROVE  ServerInv'
<1>1. WorkerInv'
  BY WorkerInvNext DEF ServerInv, WorkBeside, WorkerNext
<1>2. \A i \in Ids : ~Flipped(i)
  BY WorkerFlipsNothing DEF ServerInv, WorkerInv, WorkBeside
<1>3. FlowInv'
  BY <1>1, <1>2, QuietStep DEF ServerInv, WorkerInv, WorkBeside
<1> QED
  BY <1>1, <1>3 DEF ServerInv

\* A restart starts both again over the tables it finds.
LEMMA RestartKeeps ==
    ASSUME ServerInv, RestartServer
    PROVE  ServerInv'
<1>1. WorkerInv'
  <2>1. CASE Restart
    BY <2>1, WorkerInvNext DEF ServerInv, WorkerNext
  <2>2. CASE UNCHANGED <<vars, worker, pending, inForce>>
    BY <2>2, WorkerInvNext DEF ServerInv, workerVars
  <2> QED
    BY <2>1, <2>2 DEF RestartServer
<1>2. FlowTypeOK' /\ Targeted'
  BY DEF RestartServer, FlowTypeOK, Targeted, Phases
<1>3. Accounted'
  <2>1. \A i \in Ids : Publishing(i)' = {}
    BY DEF RestartServer, Publishing
  <2> QED
    BY <2>1, FS_EmptySet DEF RestartServer, Accounted
<1> QED
  BY <1>1, <1>2, <1>3 DEF ServerInv, FlowInv, WorkerInv

\* Both start with nothing done.
LEMMA ServerInvInit == ServerInit => ServerInv
BY FlowInvInit, WorkerInvInit DEF ServerInit, ServerInv

\* Every step of the process keeps the invariants of both.
LEMMA ServerInvNext == ServerInv /\ [ServerNext]_serverVars => ServerInv'
<1> SUFFICES ASSUME ServerInv, [ServerNext]_serverVars
             PROVE  ServerInv'
  OBVIOUS
<1>1. CASE Advance /\ UNCHANGED <<flow, acks, said, worker, pending, inForce>>
  BY <1>1, FlowInvNext, WorkerInvNext DEF ServerInv, FlowNext, WorkerNext
<1>2. CASE UNCHANGED serverVars
  BY <1>2, FlowInvNext, WorkerInvNext DEF ServerInv, serverVars, flowVars, workerVars
<1> QED
  BY <1>1, <1>2, HandlerLeavesWorker, WorkerLeavesHandlers, RestartKeeps DEF ServerNext

\* The invariant holds of every reachable state.
LEMMA ServerInvAlways == ServerSpec => []ServerInv
BY ServerInvInit, ServerInvNext, PTL DEF ServerSpec

-----------------------------------------------------------------------------
(* The theorems.                                                           *)

\* The tables keep their keys, their acks, and an expiry by a setting that applied since the
\* last refresh with the worker's statements, the steps of acknowledgements, both statements
\* of PUTs of groups' settings and every other request interleaved at will, over restarts.
THEOREM ServerTablesIntact == ServerSpec => []Inv
<1>1. ServerInv => Inv
  BY DEF ServerInv, FlowInv
<1> QED
  BY <1>1, ServerInvAlways, PTL

\* An acknowledgement between two statements of a tick, or a tick between the reads and
\* writes of an acknowledgement, loses no announcement of either and doubles none.
THEOREM EveryChangeAnnounced == ServerSpec => []ChangesAnnounced
<1>1. ServerInv => ChangesAnnounced
  BY DEF ServerInv, FlowInv, WorkerInv, PendingInv, TickAnnouncesAll, ChangesAnnounced
<1> QED
  BY <1>1, ServerInvAlways, PTL

\* What the worker announces it has done, with acknowledgements beside it too.
THEOREM ServerAlarmsAreTrue == ServerSpec => NoFalseAlarm
<1>1. ServerInv => /\ stage = "publishTimeouts" =>
                         Announce(timedOut, "timeout") \cup Announce(stale, "stale") \subseteq pending
                   /\ stage = "publishExpired" => Announce(IdsOf(expired), "expired") \subseteq pending
  BY DEF ServerInv, WorkerInv, PendingInv
<1> QED
  BY <1>1, ServerInvAlways, PTL DEF NoFalseAlarm

\* An acknowledgement neither hurries a mark nor is one.
THEOREM ServerMarksInTime == ServerSpec => NoEarlyTransition
<1>1. ASSUME ServerInv, [ServerNext]_serverVars
      PROVE  [NotEarly]_workerVars
  <2>1. CASE WorkBeside
    BY <1>1, <2>1, MarksAreLate DEF ServerInv, WorkBeside, WorkerNext
  <2>2. CASE Acknowledge
    <3>1. stage' = stage
      BY <2>2 DEF Acknowledge, worker
    <3> QED
      BY <3>1 DEF NotEarly
  <2>3. CASE RestartServer
    <3>1. Restart \/ UNCHANGED workerVars
      BY <2>3 DEF RestartServer, workerVars
    <3> QED
      BY <1>1, <3>1, MarksAreLate DEF ServerInv, WorkerNext
  <2>4. CASE Advance /\ UNCHANGED <<flow, acks, said, worker, pending, inForce>>
    BY <1>1, <2>4, MarksAreLate DEF ServerInv, WorkerNext
  <2>5. CASE UNCHANGED serverVars
    BY <2>5 DEF serverVars, workerVars
  <2> QED
    BY <1>1, <2>1, <2>2, <2>3, <2>4, <2>5 DEF ServerNext
<1>2. NoEarlyTransition <=> [][NotEarly]_workerVars
  BY DEF NoEarlyTransition, NotEarly, Late
<1> QED
  BY <1>1, <1>2, ServerInvAlways, PTL DEF ServerSpec
=============================================================================
