----------------------------- MODULE Maintenance -----------------------------
(***************************************************************************)
(* The background worker (internal/background) over the store: every tick  *)
(* runs the timeout pass and the expiration pass and publishes what they   *)
(* did.  A pass is several statements: it reads the two global limits,     *)
(* marks timed-out jobs, marks stale ones, deletes expired ones batch by   *)
(* batch, and resolves group names.  Reports, deletions, changes of the    *)
(* settings and cleanups commit between any two of them, any may fail, and *)
(* the process may end within a tick and start again.                      *)
(***************************************************************************)
EXTENDS JobStore

VARIABLES
    stage,         \* the statement the worker runs next
    now,        \* the instant the tick read the clock
    limits,     \* the global limits the timeout pass read
    timedOut,   \* ids RETURNING gave for the first UPDATE
    stale,      \* ids it gave for the second
    expired,    \* rows the DELETEs returned so far, with the group's name then
    names,      \* the groups whose names were resolved
    pending,    \* what the worker changed and has not announced
    inForce     \* the global settings that were in force since the tick began

worker == <<stage, now, limits, timedOut, stale, expired, names>>
workerVars == <<vars, worker, pending, inForce>>

Stages == {"waiting", "progress", "staleness", "timeouts", "stales", "publishTimeouts",
           "expire", "names", "publishExpired"}

WorkerInit ==
    /\ Init
    /\ stage = "waiting"
    /\ now = 0
    /\ limits = DefaultConfig
    /\ timedOut = {} /\ stale = {} /\ expired = {} /\ names = {}
    /\ pending = {}
    /\ inForce = {}

-----------------------------------------------------------------------------
Move(from, to) == stage = from /\ stage' = to

\* What a step has done to the jobs, told from the tables alone.
Done == {<<"expired", r.id>> : r \in {q \in jobs : \A s \in jobs' : s.id # q.id}}
            \cup {<<s.status, s.id>> : s \in jobs' \ jobs}

Watch == pending' = pending \cup Done /\ UNCHANGED <<inForce, clock>>

Announce(ids, what) == {<<what, i>> : i \in ids}

Reads == UNCHANGED <<vars, pending>>

IdsOf(rows) == {r.id : r \in rows}

-----------------------------------------------------------------------------
(* A tick, statement by statement.                                         *)

\* Seeded fault: the instant is rounded up.
TickRoundedUp ==
    /\ Move("waiting", "progress")
    /\ now' = clock + 1
    /\ timedOut' = {} /\ stale' = {} /\ expired' = {} /\ names' = {}
    /\ inForce' = {cfg}
    /\ UNCHANGED limits
    /\ Reads

\* The tick reads the clock once, for both passes.
Tick ==
    /\ Move("waiting", "progress")
    /\ now' = clock
    /\ timedOut' = {} /\ stale' = {} /\ expired' = {} /\ names' = {}
    /\ inForce' = {cfg}
    /\ UNCHANGED limits
    /\ Reads

ReadProgress ==
    /\ Move("progress", "staleness")
    /\ limits' = [limits EXCEPT !.progress = cfg.progress]
    /\ UNCHANGED <<now, timedOut, stale, expired, names, inForce>>
    /\ Reads

ReadStaleness ==
    /\ Move("staleness", "timeouts")
    /\ limits' = [limits EXCEPT !.staleness = cfg.staleness]
    /\ UNCHANGED <<now, timedOut, stale, expired, names, inForce>>
    /\ Reads

MarkTimeouts ==
    /\ Move("timeouts", "stales")
    /\ LET rows == TimedOut(limits.progress, now)
       IN TransitionOverdue(rows, "timeout", now) /\ timedOut' = IdsOf(rows)
    /\ UNCHANGED <<now, limits, stale, expired, names>>
    /\ Watch

\* Seeded fault: the ids of both kinds are put together.
MarkStaleMerged ==
    /\ Move("stales", "publishTimeouts")
    /\ LET rows == GoneStale(limits.staleness, now)
       IN TransitionOverdue(rows, "stale", now) /\ stale' = timedOut \cup IdsOf(rows)
    /\ UNCHANGED <<now, limits, timedOut, expired, names>>
    /\ Watch

MarkStale ==
    /\ Move("stales", "publishTimeouts")
    /\ LET rows == GoneStale(limits.staleness, now)
       IN TransitionOverdue(rows, "stale", now) /\ stale' = IdsOf(rows)
    /\ UNCHANGED <<now, limits, timedOut, expired, names>>
    /\ Watch

\* Seeded fault: stale jobs are announced only when no job timed out.
PublishOneKind ==
    /\ Move("publishTimeouts", "expire")
    /\ pending' = pending \ (IF timedOut # {} THEN Announce(timedOut, "timeout")
                             ELSE Announce(stale, "stale"))
    /\ UNCHANGED <<vars, inForce, now, limits, timedOut, stale, expired, names>>

\* One health_update for each kind of transition that occurred.
PublishTimeouts ==
    /\ Move("publishTimeouts", "expire")
    /\ pending' = pending \ (Announce(timedOut, "timeout") \cup Announce(stale, "stale"))
    /\ UNCHANGED <<vars, inForce, now, limits, timedOut, stale, expired, names>>

WithGroup(r) == [id |-> r.id, group |-> r.group, name |-> GroupWithId(r.group).name]

\* Batches are deleted until one is empty.
Expire ==
    /\ stage = "expire"
    /\ \E batch \in SUBSET Expired(now) :
          /\ ExpireBatch(batch, now)
          /\ expired' = expired \cup {WithGroup(r) : r \in batch}
          /\ stage' = IF batch = {} THEN "names" ELSE "expire"
    /\ UNCHANGED <<now, limits, timedOut, stale, names>>
    /\ Watch

\* The groups of the deleted jobs are looked up by id once all of them are gone.
ResolveNames ==
    /\ Move("names", "publishExpired")
    /\ names' = {[id |-> r.id, name |-> r.name] :
                    r \in {g \in groups : \E e \in expired : e.group = g.id}}
    /\ UNCHANGED <<now, limits, timedOut, stale, expired, inForce>>
    /\ Reads

PublishExpired ==
    /\ Move("publishExpired", "waiting")
    /\ pending' = pending \ Announce(IdsOf(expired), "expired")
    /\ UNCHANGED <<vars, inForce, now, limits, timedOut, stale, expired, names>>

\* A statement fails: the pass it belongs to returns the error, what it has
\* committed stays and is not announced.  The tick goes on to the next pass.
StatementFails ==
    /\ \/ \E from \in {"progress", "staleness", "timeouts", "stales"} : Move(from, "expire")
       \/ \E from \in {"expire", "names"} : Move(from, "waiting")
    /\ pending' = {}
    /\ UNCHANGED <<vars, inForce, now, limits, timedOut, stale, expired, names>>

\* The process ends within a tick, by a signal or a crash, and starts again over
\* the same tables: a statement is atomic, and what has committed stays, not
\* announced.
Restart ==
    /\ stage # "waiting"
    /\ stage' = "waiting"
    /\ now' = 0 /\ limits' = DefaultConfig
    /\ timedOut' = {} /\ stale' = {} /\ expired' = {} /\ names' = {}
    /\ pending' = {} /\ inForce' = {}
    /\ UNCHANGED vars

Work == \/ Tick
        \/ ReadProgress \/ ReadStaleness \/ MarkTimeouts \/ MarkStale \/ PublishTimeouts
        \/ Expire \/ ResolveNames \/ PublishExpired

\* The handlers beside it.
Handlers ==
    /\ Report \/ Delete \/ Cleanup \/ Configure
    /\ inForce' = inForce \cup {cfg'}
    /\ UNCHANGED <<clock, worker, pending>>

WorkerNext ==
    \/ Work
    \/ StatementFails
    \/ Restart
    \/ Handlers
    \/ Advance /\ UNCHANGED <<worker, pending, inForce>>

WorkerSpec == WorkerInit /\ [][WorkerNext]_workerVars

\* The scheduler fires again and again and the worker's goroutine runs on; the
\* clock advances; a statement that is tried for ever does not fail for ever, and
\* the process does not end at the same place of every tick.  Nobody has to report
\* anything.
FairWorker ==
    /\ WorkerSpec
    /\ WF_workerVars(Advance /\ UNCHANGED <<worker, pending, inForce>>)
    /\ WF_workerVars(Work)
    /\ SF_workerVars(ReadProgress)
    /\ SF_workerVars(ReadStaleness)
    /\ SF_workerVars(MarkTimeouts)
    /\ SF_workerVars(MarkStale)
    /\ SF_workerVars(PublishTimeouts)
    /\ SF_workerVars(Expire)

-----------------------------------------------------------------------------
(* Properties.                                                             *)

Changes == {"timeout", "stale", "expired"} \X Ids

\* The worker's state is well formed, and its instant is never ahead of the clock.
WorkerTypeOK ==
    /\ stage \in Stages
    /\ now \in 0..clock
    /\ limits \in Settings
    /\ timedOut \subseteq Ids /\ stale \subseteq Ids
    /\ expired \subseteq [id : Ids, group : Ids, name : GroupNames]
    /\ names \subseteq [id : Ids, name : GroupNames]
    /\ pending \subseteq Changes
    /\ inForce \subseteq Settings

\* A tick that runs without an error announces exactly what it did to the jobs:
\* nothing is left over at its end, whatever the handlers did in between.
TickAnnouncesAll == stage = "waiting" => pending = {}

\* And nothing else: no job is announced as timed out, stale or expired that the
\* worker has not made so, and each under its own kind (publish.go:10).
NoFalseAlarm ==
    [][/\ stage = "publishTimeouts" =>
             Announce(timedOut, "timeout") \cup Announce(stale, "stale") \subseteq pending
       /\ stage = "publishExpired" => Announce(IdsOf(expired), "expired") \subseteq pending]_workerVars

\* A job is timed out or made stale only when its last report is older than a
\* limit that was in force during the tick, however late the UPDATE runs
\* (checks.go:73); a fresh report or a raised override always saves it.
NoEarlyTransition ==
    [][\A r \in jobs, s \in jobs', g \in groups :
          stage # stage' /\ r.id = s.id /\ r.status # s.status /\ g.id = r.group =>
              \E global \in inForce :
                  \/ s.status = "timeout" /\ r.status = "progress"
                        /\ r.updatedAt < clock - EffectiveOr(g.progress, global.progress)
                  \/ s.status = "stale" /\ r.status = "success" /\ g.enabled
                        /\ r.updatedAt < clock - EffectiveOr(g.staleness, global.staleness)]_workerVars

\* checks.go:187, "the groups themselves survive expiration": a job_expired event
\* carries the name of the job's group (docs/restapi.md:437).
ExpiredGroupNamed ==
    stage = "publishExpired" => \A e \in expired : [id |-> e.group, name |-> e.name] \in names

\* Every job past its retention goes, unless a report renews it first.
JobsExpire ==
    \A i \in Ids : (\E r \in jobs : r.id = i /\ r.expiresAt <= clock)
                       ~> (\A r \in jobs : r.id = i => r.expiresAt > clock)

\* Job i is in progress and has not reported for longer than its limit.
Hung(i) ==
    \E r \in jobs, g \in groups :
        /\ r.id = i /\ r.status = "progress" /\ g.id = r.group
        /\ r.updatedAt < clock - EffectiveOr(g.progress, cfg.progress)

\* A job that hangs in progress beyond its limit is marked, as long as nobody
\* keeps changing the limit.
HangsAreNoticed == \A i \in Ids : Hung(i) ~> ~Hung(i)
=============================================================================
