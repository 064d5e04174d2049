------------------------------ MODULE JobStore ------------------------------
(***************************************************************************)
(* The SQLite store of internal/store: the tables groups and jobs, the     *)
(* config table, and every statement or transaction that writes them.      *)
(*                                                                         *)
(* The write handle has a single connection (store.go:60), so write        *)
(* transactions are serialised and each one is one atomic action here.     *)
(* What a handler does around its transactions, and in what order several  *)
(* handlers reach the write handle, is the business of the modules that    *)
(* compose this one: AckFlow, ConfigFlow and Maintenance.  So the two      *)
(* statements of PUT /api/groups/<name>/config, which share no             *)
(* transaction, are two actions here and nothing ties them together.       *)
(*                                                                         *)
(* A table is a set of rows, an UPDATE maps a set of rows, a DELETE        *)
(* filters it.  Columns no property speaks of (message, log_*, acked_at,   *)
(* created_at) are left out.  Every duration is in ticks of one clock,     *)
(* whatever its unit in the code.                                          *)
(***************************************************************************)
EXTENDS Integers, FiniteSetsExt

CONSTANTS
    GroupNames,      \* normalised group names
    JobNames,        \* normalised job names
    Reported,        \* the statuses clients report
    Timeouts,        \* the values a timeout setting may take
    DefaultConfig,   \* the global settings before any PUT /api/config
    ConfigPatches,   \* the bodies of PUT /api/config
    GroupPatches,    \* the bodies of PUT /api/groups/<name>/config
    CleanupStatuses, \* the status sets of POST /api/admin/cleanup
    CleanupAges,     \* its older_than_days
    BatchSize,       \* rows one expiration DELETE takes (100 in the code)
    NULL,            \* SQL NULL: a group has no override
    KEEP,            \* a field absent from a PUT body
    MaxId,           \* bound: row ids stay at or below this
    MaxClock,        \* bound: the clock stops here
    MaxLag           \* bound: how long a writer waits for the write handle

Statuses == {"success", "error", "progress", "timeout", "stale"}
UnhealthyStatuses == {"error", "timeout", "stale"}
Healthy == Statuses \ UnhealthyStatuses

Settings == [progress : Timeouts, staleness : Timeouts, expiration : Timeouts]

ConfigPatch == [progress : Timeouts \cup {KEEP},
                staleness : Timeouts \cup {KEEP},
                expiration : Timeouts \cup {KEEP}]

GroupPatch == [progress : Timeouts \cup {NULL, KEEP},
               staleness : Timeouts \cup {NULL, KEEP},
               expiration : Timeouts \cup {NULL, KEEP},
               enabled : BOOLEAN \cup {KEEP}]

ASSUME StoreAssumption ==
    /\ Reported \subseteq Statuses
    /\ Timeouts \subseteq Nat \ {0}
    /\ DefaultConfig \in Settings
    /\ ConfigPatches \subseteq ConfigPatch
    /\ GroupPatches \subseteq GroupPatch
    /\ CleanupStatuses \subseteq SUBSET Statuses
    /\ CleanupAges \subseteq Nat \ {0}
    /\ BatchSize \in Nat \ {0}
    /\ NULL \notin Timeouts /\ NULL \notin 1..MaxId
    /\ KEEP \notin Timeouts /\ KEEP \notin BOOLEAN /\ KEEP # NULL
    /\ MaxId \in Nat
    /\ MaxClock \in Nat
    /\ MaxLag \in Nat

VARIABLES
    groups,   \* the rows of table groups
    jobs,     \* the rows of table jobs
    cfg,      \* the global settings in table config
    clock,    \* the wall clock the handlers and the worker read
    windows   \* history: by group id, every expiration that applied to the group
              \* since its jobs were last refreshed, that refresh included

db == <<groups, jobs, cfg, windows>>
vars == <<groups, jobs, cfg, clock, windows>>

Ids == 1..MaxId

GroupRows == [id : Ids, name : GroupNames,
              progress : Timeouts \cup {NULL}, staleness : Timeouts \cup {NULL},
              expiration : Timeouts \cup {NULL}, enabled : BOOLEAN]

JobRows == [id : Ids, group : Ids, name : JobNames, status : Statuses,
            acked : BOOLEAN, updatedAt : Nat, expiresAt : Nat]

-----------------------------------------------------------------------------
(* Reads and row helpers.                                                  *)

\* Seeded fault: ids follow the number of rows.
NewIdByCount(rows) == 1 + Cardinality(rows)

\* The rowid SQLite gives a new row: one more than the largest in use, so the
\* id of a deleted last row comes back (the tables have no AUTOINCREMENT).
NewId(rows) == IF rows = {} THEN 1 ELSE 1 + Max({r.id : r \in rows})

GroupNamed(g) == CHOOSE r \in groups : r.name = g
GroupWithId(i) == CHOOSE r \in groups : r.id = i
GroupKnown(g) == \E r \in groups : r.name = g
JobsOf(i) == {r \in jobs : r.group = i}

\* An override when there is one, the global setting otherwise.
EffectiveOr(override, global) == IF override = NULL THEN global ELSE override

EffectiveExpiration(group) == EffectiveOr(group.expiration, cfg.expiration)

\* A statement that may change what applies to a group, or which groups there
\* are, adds what applies afterwards to the windows kept from before.
Record(kept) ==
    windows' = [i \in Ids |->
        IF \E s \in groups' : s.id = i
        THEN kept[i] \cup {EffectiveOr(s.expiration, cfg'.expiration) :
                               s \in {t \in groups' : t.id = i}}
        ELSE {}]

\* A refresh of all jobs of a group leaves no earlier window behind.
Refreshed(ids, hours) == [i \in Ids |-> IF i \in ids THEN {hours} ELSE windows[i]]

\* Seeded fault: an absent field is not told from a value.
PatchedBlindly(old, new) == new

Patched(old, new) == IF new = KEEP THEN old ELSE new

NewGroup(g) == [id |-> NewId(groups), name |-> g, progress |-> NULL,
                staleness |-> NULL, expiration |-> NULL, enabled |-> FALSE]

\* The instants a handler may have read before it got the write handle.
Captured == {t \in 0..clock : clock - t <= MaxLag}

-----------------------------------------------------------------------------
(* Job reports, acknowledgements and deletion.                             *)

\* The row a group's first report of a job inserts.
InsertedJob(group, j, st, now) ==
    [id |-> NewId(jobs), group |-> group.id, name |-> j, status |-> st,
     acked |-> FALSE, updatedAt |-> now, expiresAt |-> now + EffectiveExpiration(group)]

\* Seeded fault: only success counts as recovery.
UpdatedKeepingAck(r, group, st, now) ==
    [r EXCEPT !.status = st,
              !.acked = IF st = "success" THEN FALSE ELSE @,
              !.updatedAt = now,
              !.expiresAt = now + EffectiveExpiration(group)]

\* The same job reported again: recovery clears the ack, a failure keeps it.
UpdatedJob(r, group, st, now) ==
    [r EXCEPT !.status = st,
              !.acked = IF st \in Healthy THEN FALSE ELSE @,
              !.updatedAt = now,
              !.expiresAt = now + EffectiveExpiration(group)]

UpsertJob(g, j, st, now) ==
    LET group == IF GroupKnown(g) THEN GroupNamed(g) ELSE NewGroup(g)
        same(r) == r.group = group.id /\ r.name = j
    IN  /\ groups' = groups \cup {group}
        /\ jobs' = IF \E r \in jobs : same(r)
                   THEN {IF same(r) THEN UpdatedJob(r, group, st, now) ELSE r : r \in jobs}
                   ELSE jobs \cup {InsertedJob(group, j, st, now)}
        /\ UNCHANGED cfg
        /\ Record(windows)

\* Seeded fault: the UPDATE does not look at the status again.
AckableAnyStatus(r) == ~r.acked

Ackable(r) == ~r.acked /\ r.status \in UnhealthyStatuses

Acked(r) == [r EXCEPT !.acked = TRUE]

MarkAcked(i) ==
    /\ jobs' = {IF r.id = i /\ Ackable(r) THEN Acked(r) ELSE r : r \in jobs}
    /\ UNCHANGED <<groups, cfg, windows>>

\* All jobs when i is NULL, one group's otherwise.
AckUnhealthy(i) ==
    /\ jobs' = {IF Ackable(r) /\ (i = NULL \/ r.group = i) THEN Acked(r) ELSE r : r \in jobs}
    /\ UNCHANGED <<groups, cfg, windows>>

DeleteJob(i) ==
    /\ \E r \in jobs : r.id = i
    /\ jobs' = {r \in jobs : r.id # i}
    /\ UNCHANGED <<groups, cfg, windows>>

-----------------------------------------------------------------------------
(* The statements of the maintenance passes.  The global thresholds are    *)
(* parameters: the pass reads them before its first UPDATE.                *)

\* Seeded fault: the limit itself counts as beyond it.
OverdueInclusive(r, override, global, now) ==
    r.updatedAt <= now - EffectiveOr(override, global)

Overdue(r, override, global, now) == r.updatedAt < now - EffectiveOr(override, global)

\* Seeded fault: no COALESCE, so a group without an override has no limit.
TimedOutByOverride(progress, now) ==
    {r \in jobs : /\ r.status = "progress"
                  /\ GroupWithId(r.group).progress # NULL
                  /\ Overdue(r, GroupWithId(r.group).progress, progress, now)}

TimedOut(progress, now) ==
    {r \in jobs : /\ r.status = "progress"
                  /\ Overdue(r, GroupWithId(r.group).progress, progress, now)}

GoneStale(staleness, now) ==
    {r \in jobs : /\ r.status = "success"
                  /\ GroupWithId(r.group).enabled
                  /\ Overdue(r, GroupWithId(r.group).staleness, staleness, now)}

\* UPDATE ... SET status, acked = 0, updated_at; expires_at keeps its value.
TransitionOverdue(overdue, st, now) ==
    /\ jobs' = {IF r \in overdue
                THEN [r EXCEPT !.status = st, !.acked = FALSE, !.updatedAt = now]
                ELSE r : r \in jobs}
    /\ UNCHANGED <<groups, cfg, windows>>

\* Seeded fault: jobs that need attention are kept for ever.
ExpiredHealthy(now) == {r \in jobs : r.expiresAt <= now /\ r.status \in Healthy}

\* Whatever their status and ack.
Expired(now) == {r \in jobs : r.expiresAt <= now}

\* One DELETE ... LIMIT 100: a full batch, or every expired row that is left.
IsBatch(batch, now) ==
    /\ batch \subseteq Expired(now)
    /\ \/ batch = Expired(now) /\ Cardinality(batch) <= BatchSize
       \/ Cardinality(batch) = BatchSize

ExpireBatch(batch, now) ==
    /\ IsBatch(batch, now)
    /\ jobs' = jobs \ batch
    /\ UNCHANGED <<groups, cfg, windows>>

-----------------------------------------------------------------------------
(* Administration.                                                         *)

\* Seeded fault: one matching job is enough.
EmptiedByAny(matching) == {r.group : r \in matching}

\* The groups all of whose jobs, at least one, match.
Emptied(matching) ==
    {i \in {r.group : r \in jobs} : JobsOf(i) \subseteq matching}

\* Jobs that match go, then the groups all of whose jobs matched, and with a
\* group (foreign key, ON DELETE CASCADE) whatever job still refers to it.
\* A dry run rolls back and changes nothing.
AdminCleanup(statuses, cutoff) ==
    LET matching == {r \in jobs : r.status \in statuses /\ r.updatedAt < cutoff}
        emptied == Emptied(matching)
    IN  /\ groups' = {r \in groups : r.id \notin emptied}
        /\ jobs' = {r \in jobs \ matching : r.group \notin emptied}
        /\ UNCHANGED cfg
        /\ Record(windows)

\* Seeded fault: the window restarts now instead of at the last report.
CascadedFromNow(ids, hours) ==
    {IF r.group \in ids THEN [r EXCEPT !.expiresAt = clock + hours] ELSE r : r \in jobs}

\* expires_at = updated_at + hours for the jobs of the given groups.
Cascaded(ids, hours) ==
    {IF r.group \in ids THEN [r EXCEPT !.expiresAt = r.updatedAt + hours] ELSE r : r \in jobs}

SetGlobalConfig(patch) ==
    LET inherit == {r.id : r \in {s \in groups : s.expiration = NULL}}
    IN  /\ cfg' = [progress |-> Patched(cfg.progress, patch.progress),
                   staleness |-> Patched(cfg.staleness, patch.staleness),
                   expiration |-> Patched(cfg.expiration, patch.expiration)]
        /\ jobs' = IF cfg'.expiration # cfg.expiration
                   THEN Cascaded(inherit, cfg'.expiration)
                   ELSE jobs
        /\ UNCHANGED groups
        /\ Record(IF cfg'.expiration # cfg.expiration
                  THEN Refreshed(inherit, cfg'.expiration)
                  ELSE windows)

PatchedGroup(r, patch) ==
    [r EXCEPT !.progress = Patched(@, patch.progress),
              !.staleness = Patched(@, patch.staleness),
              !.expiration = Patched(@, patch.expiration),
              !.enabled = Patched(@, patch.enabled)]

SetGroupConfig(i, patch) ==
    /\ groups' = {IF r.id = i THEN PatchedGroup(r, patch) ELSE r : r \in groups}
    /\ UNCHANGED <<jobs, cfg>>
    /\ Record(windows)

CascadeGroupExpiration(i, hours) ==
    /\ jobs' = Cascaded({i}, hours)
    /\ UNCHANGED <<groups, cfg>>
    /\ Record(Refreshed({i}, hours))

-----------------------------------------------------------------------------
Init ==
    /\ groups = {}
    /\ jobs = {}
    /\ cfg = DefaultConfig
    /\ clock = 0
    /\ windows = [i \in Ids |-> {}]

Advance == clock < MaxClock /\ clock' = clock + 1 /\ UNCHANGED db

\* New rows take ids within the bound.
InBound == \A r \in groups' \cup jobs' : r.id \in Ids

Report == \E g \in GroupNames, j \in JobNames, st \in Reported, now \in Captured :
             UpsertJob(g, j, st, now) /\ InBound

Ack == \/ \E i \in Ids : MarkAcked(i)
       \/ \E i \in Ids \cup {NULL} : AckUnhealthy(i)

Delete == \E i \in Ids : DeleteJob(i)

TimeoutPass ==
    \E now \in Captured : \/ TransitionOverdue(TimedOut(cfg.progress, now), "timeout", now)
                          \/ TransitionOverdue(GoneStale(cfg.staleness, now), "stale", now)

ExpirationPass == \E now \in Captured : \E batch \in SUBSET Expired(now) : ExpireBatch(batch, now)

Cleanup == \E statuses \in CleanupStatuses, age \in CleanupAges, now \in Captured :
              AdminCleanup(statuses, now - age)

\* The first statement of PUT /api/groups/<name>/config, at any time after its
\* handler looked the group's id up.
ConfigureGroup == \E i \in Ids, patch \in GroupPatches : SetGroupConfig(i, patch)

\* The second, at any time after the first or, if that request failed, never.
\* The global setting the handler read for it may be out of date by now.
RefreshGroup ==
    \E i \in Ids, patch \in GroupPatches, hours \in Timeouts :
        /\ patch.expiration # KEEP
        /\ patch.expiration \in {NULL, hours}
        /\ CascadeGroupExpiration(i, hours)

Configure == \/ \E patch \in ConfigPatches : SetGlobalConfig(patch)
             \/ ConfigureGroup
             \/ RefreshGroup

Write == Report \/ Ack \/ Delete \/ TimeoutPass \/ ExpirationPass \/ Cleanup \/ Configure

Next == \/ Write /\ UNCHANGED clock
        \/ Advance

Spec == Init /\ [][Next]_vars

-----------------------------------------------------------------------------
(* Properties.                                                             *)

\* The tables hold well-formed rows, whatever was written in whatever order.
TypeOK ==
    /\ groups \subseteq GroupRows
    /\ jobs \subseteq JobRows
    /\ cfg \in Settings
    /\ clock \in Nat
    /\ windows \in [Ids -> SUBSET Timeouts]

\* Keys: ids and names identify rows, and every job refers to a group that
\* exists, through inserts, cleanups that remove groups and reused rowids.
Integrity ==
    /\ \A r, s \in groups : r.id = s.id \/ r.name = s.name => r = s
    /\ \A r, s \in jobs : r.id = s.id \/ <<r.group, r.name>> = <<s.group, s.name>> => r = s
    /\ \A r \in jobs : \E s \in groups : s.id = r.group

\* A job carries an ack only while it is unhealthy: recovery clears it, and
\* no acknowledgement reaches a job that has recovered (ack.go:28).
AckedImpliesUnhealthy == \A r \in jobs : r.acked => r.status \in UnhealthyStatuses

\* Job r expires w after its last report.  The timeout pass moves updated_at and
\* leaves expires_at alone (checks.go:121), which can only bring expiry closer.
Fits(r, w) ==
    /\ r.expiresAt <= r.updatedAt + w
    /\ r.status \notin {"timeout", "stale"} => r.expiresAt = r.updatedAt + w

\* A job expires by a setting that applied to its group at some time since the
\* group's jobs were last refreshed: a report or a change of the global setting
\* that comes between the two statements of a PUT, a second PUT, or a refresh that
\* never comes after its UPDATE (groups.go:52) may leave an outdated expiry, and
\* the next refresh leaves none.
ExpiryMatchesConfig == \A r \in jobs : \E w \in windows[r.group] : Fits(r, w)

\* A failure that follows a healthy state, whoever records it (a client or the
\* worker), always starts unacknowledged.
NewFailureNeedsAck ==
    [][\A r \in jobs, s \in jobs' :
          r.id = s.id /\ r.status \in Healthy /\ s.status \in UnhealthyStatuses => ~s.acked]_vars

\* A group only disappears together with its jobs, at least one, all older than
\* the youngest age a cleanup accepts: no fresh job is lost to the foreign key's
\* cascade (admin.go:82, the I2 race), and an empty group is kept.
GroupsDieWithOldJobsOnly ==
    [][\A g \in groups : (\A s \in groups' : s.id # g.id) =>
          /\ JobsOf(g.id) # {}
          /\ \A r \in JobsOf(g.id) : \E age \in CleanupAges : r.updatedAt < clock - age]_vars
=============================================================================
