---------------------------- MODULE LiveDashboard ----------------------------
(***************************************************************************)
(* A dashboard in a browser: the query cache behind its pages, the         *)
(* EventSource of SocketContext.tsx that invalidates it, fetches, polls    *)
(* and acknowledgements with an optimistic update, over a server that is   *)
(* no more than a version number, handlers about to publish, and a stream. *)
(*                                                                         *)
(* The cache is TanStack Query 5, modelled from how the hooks use it: an   *)
(* invalidation fetches the mounted queries again and marks the others,    *)
(* replacing a fetch in flight unless that is the first one of its query.  *)
(* A query whose last fetch failed shows its page's error card, even when  *)
(* it has data, until a fetch succeeds.                                    *)
(***************************************************************************)
EXTENDS Integers, Sequences

CONSTANTS
    Queries,        \* the queries of interest, among "health", "groups", "groupJobs", "jobs"
    Pages,          \* the pages the user visits, among "dashboard", "group", "jobs"
    Writes,         \* the kinds of write that happen at the server
    MaxCommits,     \* bound: writes committed
    MaxMutations    \* bound: acknowledgements from this dashboard

ASSUME DashboardAssumption ==
    /\ Queries \subseteq {"health", "groups", "groupJobs", "jobs"}
    /\ Pages \subseteq {"dashboard", "group", "jobs"}
    /\ Writes \subseteq {"report", "newGroup", "ack", "delete", "timeout", "expire", "silent"}
    /\ MaxCommits \in Nat /\ MaxMutations \in Nat

VARIABLES
    version,        \* how many writes the server has committed
    unpublished,    \* handlers past their commit: [at, events still to publish]
    stream,         \* ServeEvents: "none", "accepted" (": connected" sent), "registered"
    wire,           \* what is on its way to the EventSource
    source,         \* the EventSource: "connecting", "open", "timer" (to be recreated)
    hasConnected,   \* SocketProvider.hasConnected
    hadError,       \* SocketProvider.hadError
    page,           \* the page that is shown
    data,           \* the version a query's data is from, NODATA before the first
    invalidated,    \* the queries that are marked invalid
    optimistic,     \* the queries that show an optimistic update
    fetch,          \* a query's fetch: "idle", "sent", "answered"
    answer,         \* the version in its answer
    failed,         \* the queries with an error: their page shows its error card
    pending,        \* an acknowledgement is not settled
    request,        \* its request has not reached the database
    mutations,      \* acknowledgements so far
    missed          \* bookkeeping: queries with a change nothing told the cache of

server == <<version, unpublished>>
connection == <<source, hasConnected, hadError>>
cache == <<data, invalidated, optimistic, fetch, answer, failed>>
mutation == <<pending, request, mutations>>
vars == <<server, stream, wire, connection, page, cache, mutation, missed>>

NODATA == -1
Versions == 0..MaxCommits

\* The events a write publishes, in order.  A cleanup or a change of settings
\* publishes none, and neither does a worker whose next statement fails.
Emits ==
    [report |-> <<"status_update">>, newGroup |-> <<"group_created", "status_update">>,
     ack |-> <<"jobs_acked">>, delete |-> <<"job_deleted">>, timeout |-> <<"health_update">>,
     expire |-> <<"job_expired">>, silent |-> <<>>]

EventNames == {"status_update", "group_created", "jobs_acked", "job_deleted",
               "health_update", "job_expired"}

\* The header shows the health on every page.
Shown(p) ==
    Queries \cap ({"health"} \cup CASE p = "dashboard" -> {"groups"}
                                    [] p = "group" -> {"groupJobs"}
                                    [] p = "jobs" -> {"jobs"})

\* queryKeys: a key matches the queries whose key it is a prefix of.
Matching(keys) ==
    {q \in Queries : q \in keys \/ (q = "groupJobs" /\ "groups" \in keys)}

Everything == {"health", "groups", "jobs"}

\* The keys the listener of an event invalidates.  The key of the group's own
\* jobs, which most listeners add, is under "groups" anyway.
InvalidatedBy(event) == IF event = "group_created" THEN {"groups"} ELSE Everything

Init ==
    /\ version = 0 /\ unpublished = {}
    /\ stream = "none" /\ wire = <<>>
    /\ source = "connecting" /\ hasConnected = FALSE /\ hadError = FALSE
    /\ page \in Pages
    /\ data = [q \in Queries |-> NODATA]
    /\ invalidated = {} /\ optimistic = {}
    /\ fetch = [q \in Queries |-> IF q \in Shown(page) THEN "sent" ELSE "idle"]
    /\ answer = [q \in Queries |-> NODATA]
    /\ failed = {}
    /\ pending = FALSE /\ request = FALSE /\ mutations = 0
    /\ missed = {}

-----------------------------------------------------------------------------
(* The server.                                                             *)

\* A write that publishes nothing is one the cache cannot know of.
Write(kind) ==
    /\ version < MaxCommits
    /\ version' = version + 1
    /\ \/ /\ Emits[kind] = <<>>
          /\ missed' = Queries
          /\ UNCHANGED unpublished
       \/ /\ Emits[kind] # <<>>
          /\ unpublished' = unpublished \cup {[at |-> version', events |-> Emits[kind]]}
          /\ UNCHANGED missed
    /\ UNCHANGED <<stream, wire, connection, page, cache>>

Commit == \E kind \in Writes : Write(kind) /\ UNCHANGED mutation

\* The acknowledgement of this dashboard, perhaps after the client gave up on it.
CommitMutation ==
    /\ request
    /\ request' = FALSE
    /\ Write("ack")
    /\ UNCHANGED <<pending, mutations>>

RefuseMutation ==
    /\ request
    /\ request' = FALSE
    /\ UNCHANGED <<server, stream, wire, connection, page, cache, pending, mutations, missed>>

\* Seeded fault: the hub delivers to a client that is not registered.
PublishToAll ==
    \E h \in unpublished :
        LET event == Head(h.events)
            rest == Tail(h.events)
        IN  /\ unpublished' = (unpublished \ {h}) \cup
                   (IF rest = <<>> THEN {} ELSE {[h EXCEPT !.events = rest]})
            /\ wire' = Append(wire, event)
            /\ UNCHANGED <<version, stream, connection, page, cache, mutation, missed>>

\* Handlers publish after their commit, in any order.  The event reaches a client
\* that is registered.  Another one is told by the refetch of its next open, but
\* not when it has been answered ": connected" already, nor before its first open.
Publish ==
    \E h \in unpublished :
        LET event == Head(h.events)
            rest == Tail(h.events)
            untold == \/ stream = "accepted"
                      \/ stream = "none" /\ ~hasConnected /\ ~hadError
        IN  /\ unpublished' = (unpublished \ {h}) \cup
                   (IF rest = <<>> THEN {} ELSE {[h EXCEPT !.events = rest]})
            /\ wire' = IF stream = "registered" THEN Append(wire, event) ELSE wire
            /\ missed' = IF untold THEN missed \cup Matching(InvalidatedBy(event)) ELSE missed
            /\ UNCHANGED <<version, stream, connection, page, cache, mutation>>

\* ServeEvents sends ": connected" and registers with the hub afterwards.
Accept ==
    /\ source = "connecting" /\ stream = "none" /\ wire = <<>>
    /\ stream' = "accepted"
    /\ wire' = <<"open">>
    /\ UNCHANGED <<server, connection, page, cache, mutation, missed>>

Register ==
    /\ stream = "accepted"
    /\ stream' = "registered"
    /\ UNCHANGED <<server, wire, connection, page, cache, mutation, missed>>

\* No connection, or a proxy answers it with an error status.
Refuse ==
    /\ source = "connecting" /\ stream = "none" /\ wire = <<>>
    /\ wire' \in {<<"error">>, <<"closed">>}
    /\ UNCHANGED <<server, stream, connection, page, cache, mutation, missed>>

\* The network or an overflow ends the stream and what is on the wire.
Cut ==
    /\ stream # "none"
    /\ stream' = "none"
    /\ \E n \in 0..Len(wire) : wire' = Append(SubSeq(wire, 1, n), "error")
    /\ UNCHANGED <<server, connection, page, cache, mutation, missed>>

\* The server stops and starts again over the same tables: writes that committed
\* are never published, streams end, and so do requests under way.
Restart ==
    /\ unpublished # {}
    /\ unpublished' = {}
    /\ request' = FALSE
    /\ stream' = "none"
    /\ \/ stream # "none" /\ \E n \in 0..Len(wire) : wire' = Append(SubSeq(wire, 1, n), "error")
       \/ stream = "none" /\ UNCHANGED wire
    /\ missed' = IF stream = "none" /\ ~hasConnected /\ ~hadError THEN Queries ELSE missed
    /\ UNCHANGED <<version, connection, page, cache, pending, mutations>>

-----------------------------------------------------------------------------
(* The query cache.                                                        *)

\* An invalidation fetches q again: it is mounted, and no first fetch is under way.
Refetched(q) == q \in Shown(page) /\ (fetch[q] = "idle" \/ data[q] # NODATA)

\* The start of a fetch clears the error of a query that has no data.
Send(qs) ==
    /\ failed' = failed \ {q \in qs : data[q] = NODATA}
    /\ fetch' = [q \in Queries |-> IF q \in qs THEN "sent" ELSE fetch[q]]
    /\ answer' = [q \in Queries |-> IF q \in qs THEN NODATA ELSE answer[q]]

\* A fetch that goes on although its answer is older than the invalidation
\* misses what the invalidation was about.
Invalidate(keys) ==
    LET matching == Matching(keys)
        sent == {q \in matching : Refetched(q)}
    IN  /\ Send(sent)
        /\ invalidated' = invalidated \cup matching
        /\ missed' = missed \cup {q \in matching \ sent : fetch[q] = "answered"}
        /\ UNCHANGED <<data, optimistic>>

\* A handler that reads in several statements (groups.go:13) is counted from its first:
\* the rest of the answer may be newer, not older.
ServerReads(q) ==
    /\ fetch[q] = "sent"
    /\ fetch' = [fetch EXCEPT ![q] = "answered"]
    /\ answer' = [answer EXCEPT ![q] = version]
    /\ missed' = missed \ {q}
    /\ UNCHANGED <<server, stream, wire, connection, page, data, invalidated, optimistic,
                   failed, mutation>>

Response(q) ==
    /\ fetch[q] = "answered"
    /\ data' = [data EXCEPT ![q] = answer[q]]
    /\ fetch' = [fetch EXCEPT ![q] = "idle"]
    /\ answer' = [answer EXCEPT ![q] = NODATA]
    /\ invalidated' = invalidated \ {q}
    /\ optimistic' = optimistic \ {q}
    /\ failed' = failed \ {q}
    /\ UNCHANGED <<server, stream, wire, connection, page, mutation, missed>>

\* A fetch has failed for good: the page's error card says so, and a toast when
\* the query has data.
FetchFails(q) ==
    /\ fetch[q] # "idle"
    /\ fetch' = [fetch EXCEPT ![q] = "idle"]
    /\ answer' = [answer EXCEPT ![q] = NODATA]
    /\ failed' = failed \cup {q}
    /\ missed' = missed \cup {q}
    /\ UNCHANGED <<server, stream, wire, connection, page, data, invalidated, optimistic, mutation>>

\* Seeded fault: only a query that has data polls.
PollLoaded(q) ==
    /\ q \in Shown(page) /\ fetch[q] = "idle" /\ data[q] # NODATA
    /\ Send({q})
    /\ UNCHANGED <<server, stream, wire, connection, page, data, invalidated, optimistic,
                   mutation, missed>>

\* refetchInterval, while the query is mounted.
Poll(q) ==
    /\ q \in Shown(page) /\ fetch[q] = "idle"
    /\ Send({q})
    /\ UNCHANGED <<server, stream, wire, connection, page, data, invalidated, optimistic,
                   mutation, missed>>

\* "Try Again" on the error card.
TryAgain(q) ==
    /\ q \in Shown(page) /\ q \in failed /\ Refetched(q)
    /\ Send({q})
    /\ UNCHANGED <<server, stream, wire, connection, page, data, invalidated, optimistic,
                   mutation, missed>>

\* The queries of another page mount.  Without data, or marked invalid, they are
\* fetched; others only if their data is older than staleTime.
Navigate ==
    \E p \in Pages \ {page} :
        LET mounted == {q \in Shown(p) \ Shown(page) : fetch[q] = "idle"}
            needed == {q \in mounted : data[q] = NODATA \/ q \in invalidated}
        IN  /\ page' = p
            /\ \E old \in SUBSET (mounted \ needed) : Send(needed \cup old)
            /\ UNCHANGED <<server, stream, wire, connection, data, invalidated, optimistic,
                           mutation, missed>>

-----------------------------------------------------------------------------
(* SocketContext.tsx.                                                      *)

Receive(item) == wire # <<>> /\ Head(wire) = item /\ wire' = Tail(wire)

\* Seeded fault: every open is taken for the first one.
OnOpenNoResync ==
    /\ Receive("open")
    /\ source' = "open" /\ hasConnected' = TRUE /\ hadError' = FALSE
    /\ UNCHANGED <<cache, missed>>
    /\ UNCHANGED <<server, stream, page, mutation>>

\* Every open but a clean first one makes up for the events of the outage.
OnOpen ==
    /\ Receive("open")
    /\ source' = "open" /\ hasConnected' = TRUE /\ hadError' = FALSE
    /\ \/ (hasConnected \/ hadError) /\ Invalidate(Everything)
       \/ ~hasConnected /\ ~hadError /\ UNCHANGED <<cache, missed>>
    /\ UNCHANGED <<server, stream, page, mutation>>

\* EventSource reconnects by itself after a network error; after an error status
\* it is closed for good and a timer recreates it.
OnError ==
    /\ \/ Receive("error") /\ source' = "connecting"
       \/ Receive("closed") /\ source' = "timer"
    /\ hadError' = TRUE
    /\ UNCHANGED <<server, stream, hasConnected, page, cache, mutation, missed>>

Reconnect ==
    /\ source = "timer"
    /\ source' = "connecting"
    /\ UNCHANGED <<server, stream, wire, hasConnected, hadError, page, cache, mutation, missed>>

OnEvent ==
    /\ \E event \in EventNames : Receive(event) /\ Invalidate(InvalidatedBy(event))
    /\ UNCHANGED <<server, stream, connection, page, mutation>>

-----------------------------------------------------------------------------
(* The hooks that acknowledge and delete.                                  *)

\* onMutate cancels every fetch and updates the caches that have data.
Mutate ==
    /\ ~pending /\ ~request /\ mutations < MaxMutations
    /\ pending' = TRUE /\ request' = TRUE /\ mutations' = mutations + 1
    /\ fetch' = [q \in Queries |-> "idle"]
    /\ answer' = [q \in Queries |-> NODATA]
    /\ optimistic' = {q \in Queries : data[q] # NODATA}
    /\ failed' = {q \in failed : data[q] = NODATA}
    /\ UNCHANGED <<server, stream, wire, connection, page, data, invalidated, missed>>

\* onSuccess and onError invalidate the same keys; after a lost answer or a timeout
\* the request may still be on its way.
Settle ==
    /\ pending
    /\ pending' = FALSE
    /\ Invalidate(Everything)
    /\ UNCHANGED <<server, stream, wire, connection, page, request, mutations>>

Next ==
    \/ Commit \/ CommitMutation \/ RefuseMutation \/ Publish
    \/ Accept \/ Register \/ Refuse \/ Cut \/ Restart
    \/ OnOpen \/ OnError \/ Reconnect \/ OnEvent
    \/ \E q \in Queries : ServerReads(q) \/ Response(q) \/ FetchFails(q) \/ Poll(q) \/ TryAgain(q)
    \/ Navigate \/ Mutate \/ Settle

Spec == Init /\ [][Next]_vars

\* The timers of refetchInterval fire, and fetches that are made again and again are
\* not lost or replaced for ever.  Nothing is assumed of the event stream.
FairSpec ==
    /\ Spec
    /\ \A q \in Queries : WF_vars(Poll(q)) /\ SF_vars(ServerReads(q)) /\ SF_vars(Response(q))

-----------------------------------------------------------------------------
(* Properties.                                                             *)

\* The state is well formed; in particular a client's wire ends with the end of
\* its stream, nothing follows it, and an open source has had its open.
TypeOK ==
    /\ version \in Versions
    /\ unpublished \subseteq [at : Versions, events : Seq(EventNames) \ {<<>>}]
    /\ stream \in {"none", "accepted", "registered"}
    /\ wire \in Seq(EventNames \cup {"open", "error", "closed"})
    /\ \A n \in DOMAIN wire : wire[n] \in {"error", "closed"} => n = Len(wire) /\ stream = "none"
    /\ source \in {"connecting", "open", "timer"}
    /\ source = "open" => hasConnected /\ ~hadError
    /\ page \in Pages
    /\ data \in [Queries -> Versions \cup {NODATA}]
    /\ invalidated \subseteq Queries
    /\ optimistic \subseteq {q \in Queries : data[q] # NODATA}
    /\ fetch \in [Queries -> {"idle", "sent", "answered"}]
    /\ answer \in [Queries -> Versions \cup {NODATA}]
    /\ \A q \in Queries : answer[q] = NODATA <=> fetch[q] # "answered"
    /\ pending \in BOOLEAN /\ request \in BOOLEAN
    /\ mutations \in 0..MaxMutations
    /\ failed \subseteq Queries
    /\ missed \subseteq Queries

\* What is on the screen for q is the server's state.
Current(q) == data[q] = version /\ q \notin optimistic /\ q \notin failed

\* Nothing is under way that would change what is shown for q.
AtRest(q) ==
    /\ q \in Shown(page) /\ fetch[q] = "idle"
    /\ source = "open" /\ stream = "registered" /\ wire = <<>>
    /\ unpublished = {} /\ ~pending /\ ~request

\* A live dashboard at rest shows the server's state without any poll: through lost
\* streams, reconnections, pages left and visited again within staleTime, events out
\* of commit order and acknowledgements that fail or answer late
\* (SocketContext.tsx:45-56).  The exceptions are the changes in "missed".
AtRestIsCurrent == \A q \in Queries : AtRest(q) /\ q \notin missed => Current(q)

\* A page that stays on the screen becomes current whatever it missed, by polling
\* (useGroups.ts:14, "so a wall-monitor dashboard doesn't stay stale indefinitely").
CatchesUp ==
    \A q \in Queries : q \in Shown(page) /\ ~Current(q) ~> q \notin Shown(page) \/ Current(q)
=============================================================================
