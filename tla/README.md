# A verification of StatShed in TLA+

StatShed is a status board.  Clients report the status of *jobs*, which belong
to *groups*, over HTTP; a Go server keeps them in SQLite, a background worker
marks the jobs that hang or have gone stale and deletes the expired ones, and
every change is pushed over Server-Sent Events to dashboards, which also let
people acknowledge failures and change settings.

The modules here are translated from the server's code under `src/internal` and
the dashboard's under `src/frontend/src`.
Each definition's place in the code is in `PROJECT.json` under `map`.

## The system

| Component | State it keeps | Operations | What is hard about it |
|---|---|---|---|
| Job store (`internal/store`) | tables `groups`, `jobs`, `config` | report, acknowledge, delete, timeout and expiration pass, cleanup, settings | row ids are reused; the refresh of `expires_at`; cascading deletes; instants read before the lock |
| Handlers (`internal/api`) | none between requests; within one, what it has read | the routes under `/api` | they read on one handle and write on another, later; several statements without a transaction |
| Worker (`internal/background`) | what a tick has read and done so far | `Tick` every 60 s: timeout pass, expiration pass, events | each statement commits by itself; a later one may fail; handlers commit in between |
| Realtime hub (`internal/realtime`) | the map of client channels, `closed`/`done` | `Broadcast`, `register`, `unregister`, `Close`, and one `ServeEvents` handler per client | overflow, disconnection and shutdown in any order |
| Browser client (`frontend/src`) | query cache, the `EventSource` | fetch, poll, invalidate on an event | events against responses; lost streams; answers that come too late |
| Mutation hooks (`useAckJob`, `useAckGroup`, `useAckAll`, `useDeleteJob`) | the cached lists and counts, changed before the answer | acknowledge, delete | a refusal, a late commit, a poll or an event under an optimistic change; counts adjusted twice |
| Forms (`GroupConfigForm`, `GlobalConfigForm`, `JobSubmitForm`) | what was loaded, what was typed, saves on their way | open, type, save, close | data that changes under an open form; overlapping and failing saves; the network gone |
| Log viewer (`LogViewerModal`) | two queries, the tail or all, the position among the errors | open, show all, jump, retry | a log replaced under the reader; line numbers of a tail; retries and timeouts |
| Process (`cmd/statshed-server`) | signal context | start, graceful shutdown | shutdown against handlers and the worker |

The store serialises writers: its write handle has one connection
(`store.go:60`), so each write transaction is one atomic action of the models,
and each *statement outside a transaction* is one too.  Reads use another handle
and see the last committed state.  The hub serialises its operations with a mutex.
Everything between two of those points is an interleaving point.

What each component has to get right:

- **Store**: keys stay keys although ids are reused; an ack is on a failing job
  only, and never outlives a recovery; `expires_at` follows the settings; a
  cleanup that removes groups never takes a fresh job along.
- **Acknowledge handlers**: each acknowledgement is announced exactly once.
- **Group settings handler**: the cross-field rule, the refresh of
  `expires_at`, and no PUT undoing another's fields.
- **Worker**: no job is marked too early, a tick announces exactly what it did,
  and in the end every expired job goes and every hung one is noticed.
- **Dashboard**: when nothing is under way it shows the server's state; what it
  could not know of it shows after the next poll.
- **Mutation hooks**: what a click promises is what the refetch shows, nothing of it
  stays if the server never does it, and no count is negative.
- **Forms**: a field the user left alone is saved as it was loaded, an optimistic value
  goes away, a dialog closes on success only, and the schema is as strict as the server.
- **Log viewer**: line numbers are places in the log, the position among the errors
  fits the log on the screen, and loading comes to an end.
- **Hub**: no panic, a stream without gaps or a disconnection, and a shutdown
  that does not wait for slow clients.

## The modules

| Module | Models | Extends |
|---|---|---|
| `JobStore` | every statement and transaction that writes the tables | |
| `JobStoreProofs` | its theorems | `JobStore` |
| `AckFlow` | `ackJob`, `ackGroup`, `ackAll`, split at each database access and event | `JobStore` |
| `ConfigFlow` | `PUT /api/groups/{name}/config`, split at each read and statement | `JobStore` |
| `ConfigFlowProofs` | its theorems | `ConfigFlow`, `JobStoreProofs` |
| `Maintenance` | the worker's tick, statement by statement, with failures | `JobStore` |
| `Server` | the requests of `AckFlow` and the worker of `Maintenance` in one process | `AckFlow`, `Maintenance` |
| `ServerProofs` | theorems of `AckFlow`, `Maintenance` and `Server` | `Server`, `JobStoreProofs` |
| `RealtimeHub` | `Hub` and `ServeEvents` | |
| `EventFeed` | what a client is promised, without channels or handlers | |
| `RealtimeHubProofs` | theorems of `RealtimeHub`, with the refinement of `EventFeed` | `RealtimeHub` |
| `LiveDashboard` | the query cache and `EventSource` of a dashboard, over an abstract server | |
| `LiveDashboardProofs` | its theorems | `LiveDashboard` |
| `OptimisticCache` | the contents of the query cache under the four mutation hooks | |
| `OptimisticCacheProofs` | its theorems | `OptimisticCache` |
| `SettingsForms` | the three forms, with the query and the mutation under each | |
| `SettingsFormsProofs` | its theorems | `SettingsForms` |
| `LogViewer` | a log from its upload to the rows of the dialog | |
| `LogViewerProofs` | its theorems | `LogViewer` |
| `MC...` | values for TLC | |

A definition whose comment begins with *Seeded fault* is not part of a model: it
is the faulty variant of the definition below it that the mutation tests of
`PROJECT.json` put in its place, to show that a property can fail.

### JobStore

`groups` and `jobs` are sets of rows; a row is a record of the columns that some
property speaks of.  An `UPDATE` maps the set, a `DELETE` filters it.  The
optional settings of a group are `NULL` when it inherits the global ones; `KEEP`
is a field that a PUT body does not contain.  All durations are ticks of one
clock.

| Code | Action |
|---|---|
| `POST /api/status`, `UpsertJob` (one transaction) | `Report` |
| `MarkAcked`, `AckUnhealthy` | `Ack` |
| `DeleteJob` | `Delete` |
| `RunTimeoutPass`, its two `UPDATE`s | `TimeoutPass` |
| `RunExpirationPass`, one `DELETE ... LIMIT` | `ExpirationPass` |
| `AdminCleanup` (one transaction) | `Cleanup` |
| `SetGlobalConfig` (one transaction) | `Configure`, first disjunct |
| `PUT .../config` of a group, `SetGroupConfig` | `ConfigureGroup`, a disjunct of `Configure` |
| the same, `CascadeGroupExpiration` | `RefreshGroup`, a disjunct of `Configure` |

Handlers take the time before they wait for the connection; `Captured` lets each
write carry an instant up to `MaxLag` old.

The PUT of a group's settings runs two statements without a transaction, so it is two actions, and
nothing ties one to the other: reports, other PUTs and a change of the global setting come
between them, and after an error (`group_config.go:138`) the second one never comes.  Which PUT may
follow which is left to `ConfigFlow`; here the second statement may come at any time with any
window.  That is more than the program does, so what holds here holds of it (`PutsImplementStore`).

`expires_at` is therefore *not* simply `updated_at` plus the present window.  The timeout pass moves
`updated_at` and leaves `expires_at`; a failed or overtaken refresh leaves an expiry that was computed from
an earlier setting.  `windows` is a history variable: for each group, every expiration that has applied to it
since its jobs were last refreshed.  `ExpiryMatchesConfig` says what is left: each job expires by one of
those, never beyond it, and exactly at it unless the timeout pass was the last writer.  A refresh leaves one
window behind, so no older setting survives it.

### AckFlow

A request reads, decides and writes at different moments.  `acks` counts how
often the row of an id became acknowledged, told from the tables alone; `said`
counts the events that named it.  `Accounted` relates the two through every
interleaving with a second request, reports, deletions, cleanups and the worker.

Between `groupOrNotFound` and the `UPDATE` a cleanup may delete the group and a
report may create another with the same row id: run `ackflow_group`.

### ConfigFlow

The handler reads the group and the two global settings, checks the rule, stores
the patch and refreshes the jobs: five steps.  Every other write of the server commits between them (`Others`):
reports, acknowledgements, deletions, both passes of the worker, cleanups and `PUT /api/config`.
`raced` and `broken` are bookkeeping for the properties: the groups a setting of which changed under a
request in flight, and those for which the second statement failed.  Outside
`raced` and `broken` the refresh is right (`UndisturbedExpiry`: each job expires by the present setting, in the
sense of `Fits`, which allows for what the timeout pass does to `updated_at`), and a request
nobody has overtaken obeys the rule (`UndisturbedRule`).  Inside, neither is; what is left there is
`ExpiryMatchesConfig`, which `TablesIntactUnderPuts` proves of this module too.  See *Known gaps*.

`PUT /api/config` never checks the rule; a group may leave it that way in the
code too, so no property here claims the contrary.

### Maintenance

`stage` is the statement the worker runs next.  `pending` is what the worker has done to
the jobs, told from the tables before and after a step, less what it has
announced.  A failing statement ends its pass: what it has committed stays, its
announcement is lost (`docs/restapi.md:436` does not mention that; the dashboards
poll every minute), and the tick goes on with the next pass.

`Restart` ends the process within a tick: what it has committed stays and is never
announced, and the next process starts with a tick of its own.  `JobsExpire` and
`HangsAreNoticed` hold all the same.

### Server

`AckFlow` takes a pass of the worker for one step, and nobody acknowledges in `Maintenance`.
`Server` puts the two into one process, statement by statement: a request may acknowledge a job
between the `UPDATE` that marks it and the event that announces it, and the worker may mark
again what a request is about to announce.  `RestartServer` ends the worker's tick and every request;
what they had still to announce is never announced, so the account starts anew.
`ChangesAnnounced` is `Accounted` and `TickAnnouncesAll` together.

### RealtimeHub and EventFeed

Each hub operation is one action; a handler is a `pc` with the priority check,
the `select`, the write and the deferred `unregister` as separate steps.  Event
`n` is the n-th broadcast.  `EventFeed` has no channels, buffers or handlers: a
client joins, is fed each event in order, is at most `Lag` behind, or is cut
off.  `RealtimeHub` refines it with `Lag` = depth + 1, for the event the
handler has taken and not written.

### LiveDashboard

The server is a version number, one more for each write (a read of several statements,
such as `ListGroups`, counts as read at its first); a query's data is the
version it was read at.  Handlers publish after their commit, in any order, to a
stream that is `accepted` by its `": connected"` and `registered` a step later
(`sse.go:52-56`).  On the other side `OnOpen`, `OnError`, `OnEvent` and
`Reconnect` are the callbacks of `SocketContext.tsx`.  The cache follows
TanStack Query as the hooks use it: `Invalidate` fetches the queries on the
screen again and marks the others; a fetch in flight is replaced, but the first
fetch of a query is not, it is joined.  `Mutate` and `Settle` are
`onMutate` and `onSuccess`/`onError` of `useAckGroup`; the request commits before
or after its client has given up.  `failed` is the error card that a page shows in
place of its data, with its button (`TryAgain`).  `Restart` ends the server: streams break and
events not yet published are lost.

`AtRestIsCurrent` says that such a dashboard, once nothing is under way, is
current without a poll, but for the changes in `missed`.  Those are exactly:

- writes that publish nothing: cleanups and settings, and a worker's pass whose
  next statement failed, or whose process ended;
- events published between `": connected"` and `register`, or before the first
  open of a page whose queries had been answered already.  "The initial open
  needs no resync" (`SocketContext.tsx:45`) does not hold for those;
- an event that arrives while the first answer of its query, or an answer for
  a page that is not on the screen, is on its way and is older;
- a refetch that failed for good.

Each of the four is necessary: without it the property is violated.
`CatchesUp` says that polling makes up for all of them.

### OptimisticCache

LiveDashboard says *which* fetches happen; this module what is in them.  A job is its
status and its ack, a group's row and the overall health are the counts of
`ListGroups` and `Health`.  `AckJobData`, `AckGroupData`, `AckAllData` and `DeleteData`
are what the four `onMutate` make of the cached lists and counts; `Serve` is the request at
the server, before or after its client has given up (`Settle`).  Buttons are guards on
what the cards on the page show, which may be stale, so that a job can be acknowledged
twice or after its deletion.

`PredictsServer` compares the optimistic cache with what the server would answer after
the request, for a click on data that is up to date: all lists, all counts, and the overall
status after an acknowledgement.  The health of a single group, and the overall status after a
deletion, are left to the refetch.  `NothingLeftBehind` is about the end: when no
mutation waits, what is cached is current or marked for a refetch.

### SettingsForms

One of the three forms with its query (`cache`, `fetch`, `failed`, `invalid`), the fields
(`base` is what the form was reset to, `values` what they hold) and its saves.  A save is on
its way, applied or refused, given up or `paused` for want of a network, and it may belong
to a form that is not mounted any more (`mine`).  `Refill` is the reset effect; it runs on
new data and drops what was typed.  `Valid` is the form's schema, `Accepts` the server's;
`ServerRuleKept` compares them.  `UntouchedAsLoaded` is about forms that were loaded: one whose first load is
paused for want of a network has nothing in the cache, is neither loading nor failed, and can be saved with its
defaults.

### LogViewer

A log is a number of lines, those that match the error pattern and those that a `CR` or another
separator ends in place of an `LF`; what is stored or sent of it is an interval.  Server
(`ProcessLog`, `GetJobLog`), request (`Headers`, `Body`, the errors and `Retry`) and dialog are
in one module because line numbers depend on all three.  A log in which lines end without `LF`
has fewer rows than lines, and the numbers beside the rows of a tail are then not places in the log:
`NumbersArePlaces` excludes it.

## Model checking

| Run | Shows | Bounds |
|---|---|---|
| `jobstore` | all properties of `JobStore` | 2 groups, 2 job names, 2 statuses reported, 2 rows per table, clock 0..2, lag 1 (100,430 states) |
| `hub` | all properties of `RealtimeHub`, refinement and liveness | 2 clients, buffer 1, 2 events |
| `ackflow` | `Accounted` | 2 requests, 2 groups, 2 rows, clock 0..2 |
| `configflow` | `UndisturbedExpiry`, `NoLostField`, `UndisturbedRule` | 2 PUTs, 1 group, 1 job, four patches, every other writer, clock 0..2 (435,168 states) |
| `server` | `ChangesAnnounced`, `NoFalseAlarm`, `NoEarlyTransition` | 1 request beside the worker, 1 group, 2 jobs, batches of 1, clock 0..2 |
| `maintenance_live` | `WorkerTypeOK`, `JobsExpire`, `HangsAreNoticed` | 1 group, 2 jobs, batches of 1, clock 0..3 |
| `dashboard` | `AtRestIsCurrent`, `CatchesUp` | 1 query on one of 2 pages, 2 writes, 1 acknowledgement, 1 restart |
| `optimistic` | `CacheTypeOK`, `NothingLeftBehind`, `PredictsServer` | 3 jobs in 2 groups, 3 pages, 2 clicks or changes |
| `forms` | `GuessIsTemporary`, `ServerRuleKept`, `UntouchedAsLoaded`, `ClosesOnSuccess` | each form, 1 edited field, 2 saves, changes by others or losses of the network |
| `viewer` | `ViewerTypeOK`, `NumbersArePlaces`, `LoadingEnds` | 4 logs, 3 lines kept, 2 sent, 1 retry, 2 changes |
| `ackflow_group` | violated: a request for one group acknowledges jobs of another | 1 request |
| `forms_inherit` | violated: saving a group that inherits its expiration gives it the form's 24 hours | as `forms` |

Why the bounds are enough.  Two rows per table are enough for an id to be deleted
below and above another one, and to be reused.  A limit is 1 to 3 ticks, and a
lag 1, so that a row can be before, at and beyond its limit within the clock's
range.  A channel for one event overflows at the second; a third event, with
one in hand and one in the channel, passes too but takes more than a run's share of time, and the theorems of
`RealtimeHubProofs` cover it with all depths and numbers of events.  Batches of one make every pass over
two rows a pass of several batches.  Two requests are the least that race, and a
third only adds interleavings of pairs for properties about pairs; one is the least that meets the
worker within a tick, and the theorems of `ServerProofs` cover any number.  Two writes
let events leave in the other order than their commits; queries do not influence one another
except by the keys that match them, and `groupJobs` is the one under another key; the theorems of
`LiveDashboardProofs` cover all queries and pages together.
Three jobs in two groups give a job acknowledged beside another of its group, one alone
in its group, and a job in progress, the three cases the counts distinguish; two clicks
are the least that overlap.  The form's numbers lie below, at and above each bound, and the logs
fit, fill and exceed what is sent and what is kept.  `MaxId`,
`MaxClock`, `MaxLag`, `MaxEvents`, `MaxCommits`, `MaxMutations`, `MaxActs`, `MaxEdits` and `MaxChanges` bound
otherwise unbounded counters in guards; reaching one disables further reports, ticks, events or clicks.

Symmetry is used where names (`jobstore`, `server`) or requests (`ackflow`) are only
compared, and never in a run with a liveness property.

### Fairness

- `RealtimeHub!FairSpec`: weak fairness of each handler (no write outlasts
  `writeTimeout`, `sse.go:16`) and strong fairness of its two `select` cases,
  since Go chooses at random among ready cases.  Nothing is assumed of
  broadcasts, clients or the shutdown.
- `Maintenance!FairWorker`: the clock and the worker go on (a `time.Ticker` and
  one goroutine, `worker.go:29`), and a statement that is retried tick after tick
  does not fail, and is not cut off by a restart, for ever.  Nothing is assumed of clients: reports may stop or never stop.

- `LiveDashboard!FairSpec`: the timers of `refetchInterval` fire (the window has
  the focus), and a query that is fetched again and again is answered at some time before
  it fails or is replaced.  Nothing is assumed of the event stream, which may be down for ever.
- `LogViewer!Spec`: the timer of `apiRequest` ends a request without headers (`client.ts:35`), and
  the delay before a retry ends.  Nothing is assumed of a body that has begun, or of the user.

Deadlock is checked in all runs but those of the hub, which rightly stops when
every client has left; the other systems rest only when a bound is reached, and
there acknowledgements, passes and polls that change nothing are still enabled.

## Findings and known gaps

Two runs end in a trace, because the code does something else than its documentation says:

- `ackflow_group`: `POST /api/groups/{name}/ack` may acknowledge the jobs of another group, which has
  been given the row id of one deleted in between (`ack.go:97`, `docs/restapi.md:169`).
- `forms_inherit`: the group dialog shows 24 hours for a group that inherits its expiration and
  stores them with the next save of any field (`GroupConfigForm.tsx:130`).  `docs/frontend/expiring.md:215` does
  give 24 as the default of the dialog's input; the comment in the form guards against just such a save, and `null`
  means the global setting (`docs/restapi.md:210`).

Statements that are in the modules, are no part of a run, and do not hold.  Added to the
`.cfg` of the module's run, each gives a trace:

- `RealtimeHub!NoLateWrite`: a handler past its priority check writes one buffered event after
  `Close`.  `AtMostOneLateWrite` is what holds.
- `ConfigFlow!AcceptedObeysRule`: two PUTs, each within the rule, break it together.
- `ConfigFlow!RetriedExpiry`: a PUT repeated after its refresh failed repairs nothing, since the
  settings are no longer changed by it.
- `Maintenance!ExpiredGroupNamed` (run `server`): `job_expired` may come without the name of its group.
- `OptimisticCache!PredictsFromPage`: the hooks look for a job in the lists of the jobs page
  first (`useDeleteJob.ts:33`), and a list left behind there may be older than the card that was
  clicked; the counts are wrong until the refetch.

Observed while modelling, and of no consequence beyond a moment or a comment: acknowledging a group
shows it *healthy* even with a job in progress, and deleting a job leaves the overall status to the
refetch; `showAll` survives closing the log dialog (`LogViewerModal.tsx:75`); a failed background
refetch does set `isError`, so pages show their error card in place of the data
(`queryClient.ts:6-8` expects the contrary); the header's health stays as it was while
refetches fail (`Header.tsx:26`).

## Proofs

Checked by TLAPS for every value of the constants that satisfies the named assumption of the module:
`StoreAssumption` with `RequestsAssumption` or `FlowAssumption`, `HubAssumption`, `DashboardAssumption`,
`CacheAssumption`, `FormsAssumption` or `ViewerAssumption`.  They give the types of the constants and say that `NULL` is
none of the records it is compared with.

`JobStoreProofs`.  `Inv` is the conjunction of `TypeOK`, `Integrity`, `AckedImpliesUnhealthy`,
`ExpiryMatchesConfig` and `WindowsInv` (what applies to a group now is among its `windows`).  Neither
`Integrity` nor `ExpiryMatchesConfig` is inductive by itself.  Keys stay keys because `NewId` exceeds every id
in use (`NewIdFresh`, from the finiteness of `1..MaxId`).  A report preserves `ExpiryMatchesConfig` through
`WindowsInv`, an insertion through the group every job has, and the refresh because that group is the only one
(`Integrity`; `CascadeStep`).  An ack preserves `AckedImpliesUnhealthy` only through the second look
at the status.  `InvNext` has one lemma per kind of write.  The action properties `NewFailureNeedsAck` and
`GroupsDieWithOldJobsOnly` follow from `Inv` step by step.

`ServerProofs`, the requests.  `FlowInv` adds to `Inv` the types of the handlers, `Accounted` itself and
`Targeted` (a request about to write by id has one).  First every step of `AckFlow` is shown to be a step of
`JobStore` (`FlowStepIsStoreStep`), which gives `Inv` and, as a theorem of its own,
`FlowImplementsStore`.  Then the account: an `UPDATE` flips exactly the rows it reports, because
ids are keys (`FlippedAreHit`); it adds one publisher for each (`MarkingKeepsAccount`), an event
takes one away (`PublishingKeepsAccount`), and nothing else flips a row (`NothingFlips`).

`ServerProofs`, the worker.  `PendingInv` says, for each statement the worker may run next, what it has
done and not yet announced, in terms of the ids that `RETURNING` gave it.  It needs that an `UPDATE`
changes exactly the rows it returns (`DoneByTransition`), hence that ids are keys.
`LimitsInv` says that the limits read at the start are settings that were in force during the
tick, which is all that `NoEarlyTransition` can ask for.

`ServerProofs`, both.  `ServerInv` is the conjunction of the two invariants; what is new is that neither
disturbs the other.  A request leaves alone what `PendingInv` and `LimitsInv` speak of
(`HandlerLeavesWorker`), and no statement of the worker turns a row that is not acknowledged into
one that is (`WorkerFlipsNothing`), so that the account stands still under it (`QuietStep`).  A `Server` is not a `JobStore`:
the worker writes the instant at which its tick began, however late the statement runs, where the passes
of `JobStore` write the present or an instant at most `MaxLag` old.  `Inv` survives because such a row
has an older report than that instant (`OverdueIsOld`, `TransitionStep`).

`RealtimeHubProofs`.  `HubInv` ties the map of clients to the channels and to
where each handler is, which gives `NoPanic`, `MapIsOpenChannels` and
`AtMostOneLateWrite`.  `StreamInv` says that what a client has received, what
its handler holds and what is buffered are one run of consecutive events; a
write that fails may lose the event in hand, but then the handler is on its way
out.  From both, `GapFree`.

For the refinement, `FeedInv` says how far behind a client is: by what its channel holds and at most
one event more, the one in hand or lost by a failed write (`Near`).  A broadcast that finds the
channel full cuts off a client that is `Lag` behind, as `EventFeed` demands (`DropCutsOff`).

`ConfigFlowProofs`.  The heart is `FreshInv`: what a request has read of a group and of the global
settings still stands in the tables, as long as nothing raced with it; that is why the checks it made
are still good when it writes.  Every step of the handlers is a step of `JobStore` (`StoreStep`), so `Inv` holds
(`PutsImplementStore`, `TablesIntactUnderPuts`).  `UndisturbedExpiry` then comes from `QuietWindows`: the
`windows` of a group that nothing disturbed, and that waits for no refresh, hold its present setting and no
other, so the window by which `Inv` lets a job expire is that one.  The other writers cannot spoil it: of them only
`PUT /api/config` changes what applies to a group that exists, and then it either refreshes the jobs itself or
counts as a disturbance.

`LiveDashboardProofs`.  Every query is in one of three ways (`Told`): a change of it is `missed`;
something under way will make for a refetch (`Due`: a handler that has yet to publish, an event or the
end of the stream on the wire, an outage to make up for, an acknowledgement to settle); or what it
has, or will have, is the server's state (`Fresh`).  `HandlersInv` (the last event of a handler tells
all queries) and `WireInv` (a stream that ended says so on the wire) make that inductive.  At
rest nothing is due, which leaves `AtRestIsCurrent`.

`OptimisticCacheProofs`.  `CacheInv` adds to `CacheTypeOK` and `NothingLeftBehind` that an answer on its way is what
the server holds now, unless a change is still to be announced (`AnswersFresh`): the click cancels the answers that
were under way.  The summaries are
cardinalities of sets of jobs, so `PredictsServer` is about what moving one job, or all that are
failing, does to each of those sets (`SummaryAfterAck`, `SummaryAfterDelete`): the hooks subtract one or
zero a count at a time, and arrive at the server's counts (`OneAckedIsRight`, `AcknowledgedIsRight`, `AllAckedIsRight`,
`WithoutIsRight`).  Only a click changes a prediction (`OnlyClicks`).

`SettingsFormsProofs`.  `IInv` ties an open form to what the query holds (`FormInv`: its base is the
cache, filled in), which with the reset effect gives `UntouchedAsLoaded`, and lets no save of which nobody
waits be anything but on its way.  `ServerRuleKept` comes down to the schema's comparison
of the two fields, for any bounds of the numbers.

`LogViewerProofs`.  `IsAnswer` describes what the server sends, the last `Sent` of the last `Total`
lines; the number of rows and the index of a row are cardinalities of intervals (`NumberIsPlace`).
The position among the errors stays in range because equal texts have equal errors (`SameErrors`)
and a new text resets it (`PositionKept`).

| Theorem | Property |
|---|---|
| `TypeCorrect`, `KeysIntact`, `AckOnlyUnhealthy`, `ExpiryInWindow` | `TypeOK`, `Integrity`, `AckedImpliesUnhealthy`, `ExpiryMatchesConfig` |
| `FreshFailureUnacked`, `CleanupSparesFreshJobs` | `NewFailureNeedsAck`, `GroupsDieWithOldJobsOnly` |
| `FlowTypeCorrect`, `AcksAnnouncedOnce` | `FlowTypeOK`, `Accounted` of `AckFlow` |
| `FlowImplementsStore` | `JobStore!Spec`, of `AckFlow` |
| `HubTypeCorrect`, `HubNeverPanics`, `HubMapExact`, `ShutdownStopsWrites`, `StreamsGapFree` | `TypeOK`, `NoPanic`, `MapIsOpenChannels`, `AtMostOneLateWrite`, `GapFree` |
| `HubImplementsFeed` | the initial states and steps of `EventFeed`, without its fairness |
| `TablesIntactUnderWorker`, `WorkerTypeCorrect`, `AnnouncesAll`, `NoAlarmIsFalse`, `MarkedInTime` | `Inv` of `JobStore`; `WorkerTypeOK`, `TickAnnouncesAll`, `NoFalseAlarm`, `NoEarlyTransition`, of `Maintenance` |
| `ServerTablesIntact`, `EveryChangeAnnounced`, `ServerAlarmsAreTrue`, `ServerMarksInTime` | `Inv` of `JobStore`; `ChangesAnnounced`, `NoFalseAlarm`, `NoEarlyTransition`, of `Server` |
| `PutsImplementStore` | `JobStore!Spec`, of `ConfigFlow` |
| `TablesIntactUnderPuts`, `FlowTypeCorrect`, `ExpiryFitsUndisturbed`, `NoFieldLost`, `RuleKeptUndisturbed` | `Inv` of `JobStore`; `FlowTypeOK`, `UndisturbedExpiry`, `NoLostField`, `UndisturbedRule` |
| `DashboardTypeCorrect`, `RestIsCurrent` | `TypeOK`, `AtRestIsCurrent` of `LiveDashboard` |
| `FormTypeCorrect`, `GuessesEnd`, `SchemaKeepsServerRule`, `DialogClosesOnSuccess`, `UntouchedFieldsAsLoaded` | `FormTypeOK`, `GuessIsTemporary`, `ServerRuleKept`, `ClosesOnSuccess`, `UntouchedAsLoaded` |
| `CacheTypeCorrect`, `NothingLeft`, `ClicksPredict` | `CacheTypeOK`, `NothingLeftBehind`, `PredictsServer` |
| `ViewerTypeCorrect`, `NumbersRight` | `ViewerTypeOK`, `NumbersArePlaces` |

Only model-checked: what needs fairness, which is
beyond the prover (`CatchesUp`, `JobsExpire`, `HangsAreNoticed`, `LoadingEnds` and the liveness of the hub
and of `EventFeed`).

## Not modelled

- Parsing of requests, middleware, CORS, compression, logging, static files,
  configuration from the environment: no state beyond one request.
- `message`, `acked_at`, `created_at`, and the text of a log: no property speaks of them.
- Sub-second differences between timestamps written by Go (microseconds) and by
  SQLite's `datetime()` (whole seconds): one tick of the clock stands for both.
- An error of `Flush` in `sse.go:43`, which returns none: the connection keeps it, and the next write fails
  with it.  `RealtimeHub` lets any write fail, and counts what was written before as received.
- The dry run of a cleanup, which rolls back; migrations, which run before anything else.
- The grace period of a shutdown: `Restart` may come at any point, which includes its end.
- Of the pages: filters, sorting, paging, animation, colours and layout, which are functions of
  the data they show; toasts; the theme.
- Of the query cache: removal of unused data after `gcTime` and the refetch on window
  focus, which only add fetches.
- The loss of the network in `LiveDashboard`, `OptimisticCache` and `LogViewer`, other than as failed
  requests and streams: TanStack Query pauses requests then, as `SettingsForms` models for the forms.

## What is left

`ConfigFlow` and `Server` in one composition; paging and sorting of the job list as functions against a reference
definition.
