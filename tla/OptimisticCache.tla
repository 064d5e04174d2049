--------------------------- MODULE OptimisticCache ---------------------------
(***************************************************************************)
(* What the query cache of a page holds while the hooks useAckJob,         *)
(* useAckGroup, useAckAll and useDeleteJob change it before the server has *)
(* answered: lists of jobs, the summaries of the groups and of the whole   *)
(* system.  Polls and events fetch at any time, and a request may be       *)
(* refused, answered late or given up while the server still works on it.  *)
(* LiveDashboard models which fetches happen; here it is their contents.   *)
(***************************************************************************)
EXTENDS Integers, FiniteSets

CONSTANTS
    Jobs, Groups, GroupOf,  \* the jobs that may exist, each in its group
    HomeGroup,              \* the group whose page is or was shown
    Screens,                \* the sets of queries the pages mount
    Statuses, Unhealthy,    \* job statuses, and those that want an ack
    Filter,                 \* the statuses the jobs page lists
    NULL,
    Starts,                 \* the jobs there may be when the page is opened
    MaxActs                 \* bound: clicks of this user and changes by others, together

Queries == {"health", "groups", "groupJobs", "jobs"}

\* What the queries hold: jobs as cards, and summaries of them.
Cards == [status : Statuses, acked : BOOLEAN]
Lists(S) == UNION {[T -> Cards] : T \in SUBSET S}
Listings == [list : Lists(Jobs), total : Nat]
Summaries == [total : Nat, unhealthy : Nat, acked : Nat, byStatus : [Statuses -> Nat],
              health : {"empty", "unhealthy", "in_progress", "healthy"}]

JobStates == {s \in Cards : s.acked => s.status \in Unhealthy}
JobTables == UNION {[T -> JobStates] : T \in SUBSET Jobs}

ASSUME CacheAssumption ==
    /\ IsFiniteSet(Jobs) /\ GroupOf \in [Jobs -> Groups] /\ HomeGroup \in Groups
    /\ Screens \subseteq SUBSET Queries /\ Starts \subseteq JobTables
    /\ {"success", "progress"} \subseteq Statuses \ Unhealthy
    /\ Unhealthy \subseteq Statuses /\ Filter \subseteq Statuses
    /\ MaxActs \in Nat
    \* NULL is no data.
    /\ NULL \notin Cards \cup Lists(Jobs) /\ NULL \notin Listings
    /\ NULL \notin Summaries /\ NULL \notin [Groups -> Summaries]

VARIABLES
    jobs,       \* the jobs at the server, a function on those that exist
    shown,      \* the queries of the page that is mounted
    cache,      \* a query's data, NULL before the first
    invalid,    \* the queries marked invalid
    fetch,      \* "idle", "sent", or "answered" with an answer
    answer,     \* what the server read for a fetch
    requests,   \* mutations: the client waits for it, the server still has it
    event,      \* a change at the server is about to be announced
    acts        \* clicks and changes so far

fetching == <<fetch, answer>>
vars == <<jobs, shown, cache, invalid, fetching, requests, event, acts>>

Operations == [kind : {"ackJob", "delete"}, target : Jobs]
                  \cup [kind : {"ackGroup"}, target : Groups] \cup {[kind |-> "ackAll"]}

-----------------------------------------------------------------------------
(* What the server answers.                                                *)

Restricted(list, S) == [j \in DOMAIN list \cap S |-> list[j]]
NeedsAck(job) == job.status \in Unhealthy /\ ~job.acked

NeedingAck(list) == {j \in DOMAIN list : NeedsAck(list[j])}
AckedIn(list) == {j \in DOMAIN list : list[j].acked}
WithStatus(list, s) == {j \in DOMAIN list : list[j].status = s}

HealthFromCounts(total, unhealthy, inProgress) ==
    CASE total = 0 -> "empty"
      [] total > 0 /\ unhealthy > 0 -> "unhealthy"
      [] total > 0 /\ unhealthy = 0 /\ inProgress > 0 -> "in_progress"
      [] OTHER -> "healthy"

Summary(list) ==
    [total |-> Cardinality(DOMAIN list),
     unhealthy |-> Cardinality(NeedingAck(list)),
     acked |-> Cardinality(AckedIn(list)),
     byStatus |-> [s \in Statuses |-> Cardinality(WithStatus(list, s))],
     health |-> HealthFromCounts(Cardinality(DOMAIN list), Cardinality(NeedingAck(list)),
                                 Cardinality(WithStatus(list, "progress")))]

JobsIn(g) == {j \in Jobs : GroupOf[j] = g}

Listing(all) ==
    LET listed == Restricted(all, {j \in DOMAIN all : all[j].status \in Filter})
    IN  [list |-> listed, total |-> Cardinality(DOMAIN listed)]

Read(q, all) ==
    CASE q = "health" -> Summary(all)
      [] q = "groups" -> [g \in Groups |-> Summary(Restricted(all, JobsIn(g)))]
      [] q = "groupJobs" -> Restricted(all, JobsIn(HomeGroup))
      [] OTHER -> Listing(all)

\* What the statements of a request do to the jobs (AckFlow and JobStore have the details).
AckEach(list, S) ==
    [j \in DOMAIN list |->
        IF j \in S /\ NeedsAck(list[j]) THEN [list[j] EXCEPT !.acked = TRUE] ELSE list[j]]

Effect(op, all) ==
    CASE op.kind = "ackJob" -> AckEach(all, {op.target})
      [] op.kind = "ackGroup" -> AckEach(all, JobsIn(op.target))
      [] op.kind = "ackAll" -> AckEach(all, Jobs)
      [] OTHER -> Restricted(all, Jobs \ {op.target})

-----------------------------------------------------------------------------
(* What the hooks make of the data of a query that has some.               *)

Loaded(q) == cache[q] # NULL
\* Seeded fault: the counts go below zero.
LessUnchecked(n, k) == n - k

Less(n, k) == IF n > k THEN n - k ELSE 0

\* The list the hooks find a job in: the jobs queries first, then the group's.
Sighting(j) ==
    IF Loaded("jobs") /\ j \in DOMAIN cache["jobs"].list THEN cache["jobs"].list[j]
    ELSE IF Loaded("groupJobs") /\ j \in DOMAIN cache["groupJobs"] THEN cache["groupJobs"][j]
    ELSE NULL

Mark(list, S) ==
    [j \in DOMAIN list |->
        IF j \in S /\ NeedsAck(list[j]) THEN [list[j] EXCEPT !.acked = TRUE] ELSE list[j]]

\* Acked for good, whatever the list says of the job.
UpdateJobInCache(list, j) ==
    [k \in DOMAIN list |-> IF k = j THEN [list[k] EXCEPT !.acked = TRUE] ELSE list[k]]

\* The overall status once nothing is unhealthy any more.
WithoutUnhealthy(h) == IF h.byStatus["progress"] > 0 THEN "in_progress" ELSE "healthy"

\* One job of a group acknowledged.
OneAcked(row) == [row EXCEPT !.unhealthy = Less(row.unhealthy, 1), !.acked = row.acked + 1]

\* All jobs of a summary acknowledged.
AllAcked(row, health) ==
    [row EXCEPT !.unhealthy = 0, !.acked = row.acked + row.unhealthy, !.health = health]

\* k jobs of the whole system acknowledged.
Acknowledged(h, k) ==
    [h EXCEPT !.unhealthy = Less(h.unhealthy, k), !.acked = h.acked + k,
              !.health = IF h.unhealthy <= k THEN WithoutUnhealthy(h) ELSE h.health]

\* The job is counted if it was found unhealthy.
AckJobData(q, data, j) ==
    LET job == Sighting(j)
        counts == job # NULL /\ job.status \in Unhealthy
    IN  CASE q = "jobs" -> [data EXCEPT !.list = UpdateJobInCache(data.list, j)]
          [] q = "groupJobs" -> UpdateJobInCache(data, j)
          [] q = "groups" ->
                IF counts THEN [data EXCEPT ![GroupOf[j]] = OneAcked(data[GroupOf[j]])] ELSE data
          [] OTHER -> IF counts THEN Acknowledged(data, 1) ELSE data

AckGroupData(q, data, g) ==
    LET acked == IF Loaded("groups") THEN cache["groups"][g].unhealthy ELSE 0
    IN  CASE q = "jobs" -> [data EXCEPT !.list = Mark(data.list, JobsIn(g))]
          [] q = "groupJobs" -> Mark(data, JobsIn(g))
          [] q = "groups" -> [data EXCEPT ![g] = AllAcked(data[g], "healthy")]
          [] OTHER -> IF acked > 0 THEN Acknowledged(data, acked) ELSE data

NotUnhealthy(row) == IF row.health = "unhealthy" THEN "healthy" ELSE row.health

\* Seeded fault: the overall status flashes "healthy".
AckAllFlash(q, data) ==
    CASE q = "jobs" -> [data EXCEPT !.list = Mark(data.list, Jobs)]
      [] q = "groupJobs" -> IF Loaded("groups") THEN Mark(data, Jobs) ELSE data
      [] q = "groups" -> [g \in Groups |-> AllAcked(data[g], NotUnhealthy(data[g]))]
      [] OTHER -> AllAcked(data, NotUnhealthy(data))

\* The lists of the groups are found by the groups' cached names.
AckAllData(q, data) ==
    CASE q = "jobs" -> [data EXCEPT !.list = Mark(data.list, Jobs)]
      [] q = "groupJobs" -> IF Loaded("groups") THEN Mark(data, Jobs) ELSE data
      [] q = "groups" -> [g \in Groups |-> AllAcked(data[g], NotUnhealthy(data[g]))]
      [] OTHER -> AllAcked(data, WithoutUnhealthy(data))

\* One job less; the health is left to the refetch.
Without(row, job) ==
    [row EXCEPT !.total = Less(row.total, 1),
                !.unhealthy = IF NeedsAck(job) THEN Less(row.unhealthy, 1) ELSE row.unhealthy,
                !.acked = IF job.acked THEN Less(row.acked, 1) ELSE row.acked,
                !.byStatus = [row.byStatus EXCEPT ![job.status] = Less(row.byStatus[job.status], 1)]]

\* The counts change only if the job was found.
DeleteData(q, data, j) ==
    LET job == Sighting(j)
    IN  CASE q = "jobs" ->
                [list |-> Restricted(data.list, Jobs \ {j}),
                 total |-> IF j \in DOMAIN data.list THEN Less(data.total, 1) ELSE data.total]
          [] q = "groupJobs" -> Restricted(data, Jobs \ {j})
          [] q = "groups" ->
                IF job = NULL THEN data
                ELSE [data EXCEPT ![GroupOf[j]] = Without(data[GroupOf[j]], job)]
          [] OTHER -> IF job = NULL THEN data ELSE Without(data, job)

OptimisticData(op, q, data) ==
    CASE op.kind = "ackJob" -> AckJobData(q, data, op.target)
      [] op.kind = "ackGroup" -> AckGroupData(q, data, op.target)
      [] op.kind = "ackAll" -> AckAllData(q, data)
      [] OTHER -> DeleteData(q, data, op.target)

\* A query without data is left alone.
OptimisticUpdate(op) ==
    [q \in Queries |-> IF Loaded(q) THEN OptimisticData(op, q, cache[q]) ELSE NULL]

\* The queries a hook sets: of the groups' lists, that of the group it is about, or all.
SetBy(op) ==
    LET about == CASE op.kind = "ackAll" -> IF Loaded("groups") THEN Groups ELSE {}
                   [] op.kind = "ackGroup" -> {op.target}
                   [] OTHER -> {GroupOf[op.target]}
    IN  {q \in Queries : Loaded(q) /\ (q = "groupJobs" => HomeGroup \in about)}

\* The keys a hook invalidates once its request has succeeded or failed.
AckJobKeys == {"health", "groups", "groupJobs", "jobs"}
AckGroupKeys == {"health", "groups", "groupJobs", "jobs"}
DeleteKeys == {"health", "groups", "groupJobs", "jobs"}

\* Seeded fault: the lists of the jobs page are forgotten.
AckAllWithoutLists == {"health", "groups"}

AckAllKeys == {"health", "groups", "jobs"}

KeysOf(op) ==
    CASE op.kind = "ackJob" -> AckJobKeys
      [] op.kind = "ackGroup" -> AckGroupKeys
      [] op.kind = "ackAll" -> AckAllKeys
      [] OTHER -> DeleteKeys

-----------------------------------------------------------------------------
(* The buttons of the page.                                                *)

Waiting(op) == \E r \in requests : r.op = op /\ r.waiting

\* A job as its card on the page shows it.
OnCard(j) ==
    CASE "groupJobs" \in shown /\ Loaded("groupJobs") /\ j \in DOMAIN cache["groupJobs"]
            -> cache["groupJobs"][j]
      [] "jobs" \in shown /\ Loaded("jobs") /\ j \in DOMAIN cache["jobs"].list
            -> cache["jobs"].list[j]
      [] OTHER -> NULL

CanAckJob(op) == op.kind = "ackJob" /\ OnCard(op.target) # NULL /\ NeedsAck(OnCard(op.target))
CanDelete(op) == op.kind = "delete" /\ OnCard(op.target) # NULL

CanAckGroup(op) ==
    /\ op.kind = "ackGroup" /\ "groups" \in shown /\ Loaded("groups")
    /\ cache["groups"][op.target].unhealthy > 0

CanAckAll(op) ==
    /\ op.kind = "ackAll" /\ "groups" \in shown /\ Loaded("health")
    /\ cache["health"].unhealthy > 0

-----------------------------------------------------------------------------
Init ==
    /\ jobs \in Starts
    /\ shown \in Screens
    /\ \E loaded \in {shown, Queries} :
             cache = [q \in Queries |-> IF q \in loaded THEN Read(q, jobs) ELSE NULL]
    /\ invalid = {}
    /\ fetch = [q \in Queries |-> "idle"] /\ answer = [q \in Queries |-> NULL]
    /\ requests = {} /\ event = FALSE
    /\ acts = 0

\* Fetches of qs start, replacing those in flight; TanStack Query as in LiveDashboard.
Send(qs) ==
    /\ fetch' = [q \in Queries |-> IF q \in qs THEN "sent" ELSE fetch[q]]
    /\ answer' = [q \in Queries |-> IF q \in qs THEN NULL ELSE answer[q]]

Invalidate(keys) ==
    LET matching == keys \cup (IF "groups" \in keys THEN {"groupJobs"} ELSE {})
    IN  /\ invalid' = invalid \cup matching
        /\ Send({q \in matching \cap shown : fetch[q] = "idle" \/ Loaded(q)})

\* onMutate: the fetches in flight are cancelled, the cache is changed, the request goes out.
\* Data that a hook sets is not invalid any more.
Mutate(op) ==
    /\ acts < MaxActs
    /\ ~Waiting(op)
    /\ CanAckJob(op) \/ CanDelete(op) \/ CanAckGroup(op) \/ CanAckAll(op)
    /\ cache' = OptimisticUpdate(op)
    /\ invalid' = invalid \ SetBy(op)
    /\ fetch' = [q \in Queries |-> "idle"] /\ answer' = [q \in Queries |-> NULL]
    /\ acts' = acts + 1
    /\ requests' = requests \cup {[id |-> acts', op |-> op, waiting |-> TRUE, open |-> TRUE]}
    /\ UNCHANGED <<jobs, shown, event>>

\* onSuccess or onError; after a timeout the server may still have the request.
Settle(r) ==
    /\ r.waiting
    /\ requests' = (requests \ {r}) \cup (IF r.open THEN {[r EXCEPT !.waiting = FALSE]} ELSE {})
    /\ Invalidate(KeysOf(r.op))
    /\ UNCHANGED <<jobs, shown, cache, event, acts>>

\* The server runs the request, or refuses it.
Serve(r) ==
    /\ r.open
    /\ requests' = (requests \ {r}) \cup (IF r.waiting THEN {[r EXCEPT !.open = FALSE]} ELSE {})
    /\ jobs' \in {Effect(r.op, jobs), jobs}
    /\ event' = (event \/ jobs' # jobs)
    /\ UNCHANGED <<shown, cache, invalid, fetching, acts>>

\* A report or a removal by someone else; every change is announced.
Change ==
    /\ acts < MaxActs
    /\ \/ \E j \in Jobs, s \in Statuses :
             LET keeps == j \in DOMAIN jobs /\ {s, jobs[j].status} \subseteq Unhealthy
                 new == [status |-> s, acked |-> IF keeps THEN jobs[j].acked ELSE FALSE]
             IN  jobs' = [k \in DOMAIN jobs \cup {j} |-> IF k = j THEN new ELSE jobs[k]]
       \/ \E j \in DOMAIN jobs : jobs' = Restricted(jobs, Jobs \ {j})
    /\ acts' = acts + 1
    /\ event' = TRUE
    /\ UNCHANGED <<shown, cache, invalid, fetching, requests>>

OnEvent ==
    /\ event
    /\ event' = FALSE
    /\ Invalidate(Queries)
    /\ UNCHANGED <<jobs, shown, cache, requests, acts>>

Poll(q) ==
    /\ q \in shown /\ fetch[q] = "idle"
    /\ Send({q})
    /\ UNCHANGED <<jobs, shown, cache, invalid, requests, event, acts>>

ServerReads(q) ==
    /\ fetch[q] = "sent"
    /\ fetch' = [fetch EXCEPT ![q] = "answered"]
    /\ answer' = [answer EXCEPT ![q] = Read(q, jobs)]
    /\ UNCHANGED <<jobs, shown, cache, invalid, requests, event, acts>>

Response(q) ==
    /\ fetch[q] = "answered"
    /\ cache' = [cache EXCEPT ![q] = answer[q]]
    /\ invalid' = invalid \ {q}
    /\ fetch' = [fetch EXCEPT ![q] = "idle"] /\ answer' = [answer EXCEPT ![q] = NULL]
    /\ UNCHANGED <<jobs, shown, requests, event, acts>>

FetchFails(q) ==
    /\ fetch[q] # "idle"
    /\ fetch' = [fetch EXCEPT ![q] = "idle"] /\ answer' = [answer EXCEPT ![q] = NULL]
    /\ UNCHANGED <<jobs, shown, cache, invalid, requests, event, acts>>

Next ==
    \/ \E op \in Operations : Mutate(op)
    \/ \E r \in requests : Settle(r) \/ Serve(r)
    \/ Change \/ OnEvent
    \/ \E q \in Queries : Poll(q) \/ ServerReads(q) \/ Response(q) \/ FetchFails(q)

Spec == Init /\ [][Next]_vars

-----------------------------------------------------------------------------
(* Properties.                                                             *)

IsData(q, data) ==
    CASE q = "health" -> data \in Summaries
      [] q = "groups" -> data \in [Groups -> Summaries]
      [] q = "groupJobs" -> data \in Lists(JobsIn(HomeGroup))
      [] OTHER -> data \in Listings

\* The state is well formed; above all no count the page shows is ever negative, though
\* its queries were answered at different times (useDeleteJob.ts:89).
CacheTypeOK ==
    /\ jobs \in JobTables
    /\ shown \in Screens /\ invalid \subseteq Queries
    /\ cache = [q \in Queries |-> cache[q]] /\ answer = [q \in Queries |-> answer[q]]
    /\ fetch \in [Queries -> {"idle", "sent", "answered"}]
    /\ \A q \in Queries : Loaded(q) => IsData(q, cache[q])
    /\ \A q \in Queries : IF fetch[q] = "answered" THEN IsData(q, answer[q]) ELSE answer[q] = NULL
    /\ \A q \in shown : Loaded(q)
    /\ \A q \in Queries : fetch[q] # "idle" => q \in shown
    /\ event \in BOOLEAN /\ acts \in 0..MaxActs
    /\ requests \subseteq [id : 1..acts, op : Operations, waiting : BOOLEAN, open : BOOLEAN]
    /\ \A r \in requests : r.waiting \/ r.open

Current(q) == cache[q] = Read(q, jobs)

\* No optimistic update is left behind: when no mutation waits and every change has been
\* announced, each query holds the server's state or is marked for a refetch, whatever
\* polls, refusals and late commits came in between (useAckJob.ts:134).
NothingLeftBehind ==
    ~event /\ (\A r \in requests : ~r.waiting)
        => \A q \in Queries : Loaded(q) => Current(q) \/ q \in invalid

SameNumbers(a, b) == [a EXCEPT !.health = b.health] = b

Predicted(q, op) ==
    LET expected == Read(q, Effect(op, jobs))
    IN  CASE q = "health" -> IF op.kind = "delete" THEN SameNumbers(cache'[q], expected)
                             ELSE cache'[q] = expected
          [] q = "groups" -> \A g \in Groups : SameNumbers(cache'[q][g], expected[g])
          [] OTHER -> cache'[q] = expected

Clicked(r) == r.id = acts' /\ acts' > acts

\* Over a cache that holds the server's state, the optimistic update is what the refetch will
\* show once the request has succeeded: lists, counts and, for acknowledgements, the overall
\* status (useAckAll.ts:69).  The health of a single group, and the overall status after a
\* deletion, are only put right by the refetch.
PredictsServer ==
    [][\A r \in requests' : Clicked(r) /\ (\A q \in Queries : Loaded(q) => Current(q))
          => \A q \in shown : Predicted(q, r.op)]_vars

\* useDeleteJob.ts:33, "This ensures optimistic updates work on group detail pages too": for
\* that the state of the page itself would have to do, whatever is cached for other pages.
PredictsFromPage ==
    [][\A r \in requests' : Clicked(r) /\ (\A q \in shown : Current(q))
          => \A q \in shown : Predicted(q, r.op)]_vars
=============================================================================
