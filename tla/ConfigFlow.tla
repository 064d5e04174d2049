----------------------------- MODULE ConfigFlow -----------------------------
(***************************************************************************)
(* PUT /api/groups/{name}/config (internal/api/group_config.go) over the   *)
(* store.  The handler reads the group, reads the global settings, checks  *)
(* the cross-field rule against what it has read, and then runs two        *)
(* statements that are not one transaction: the UPDATE of the group and,   *)
(* if the expiration override changed, the refresh of its jobs.  Every     *)
(* other writer of the store (reports, acknowledgements, deletions, the    *)
(* worker's passes, cleanups, PUT /api/config, other PUTs) commits         *)
(* anywhere in between, and either statement may fail on its own.          *)
(***************************************************************************)
EXTENDS JobStore

CONSTANT Puts   \* PUT requests for group settings, any of them at a time

ASSUME FlowAssumption == NULL \notin GroupRows

VARIABLES
    pc,      \* where a request's handler is
    body,    \* its patch
    old,     \* the group row it read
    global,  \* the global settings it read
    raced,   \* ids of groups a setting of which changed under such a request
    broken   \* ids of groups whose settings were stored and their jobs not refreshed

flow == <<pc, body, old, global>>
flowVars == <<vars, flow, raced, broken>>

Phases == {"idle", "staleness", "expiration", "write", "cascade", "reread",
           "ok", "notFound", "rejected", "failed"}

Ended == {"ok", "notFound", "rejected", "failed"}

FlowInit ==
    /\ Init
    /\ pc = [q \in Puts |-> "idle"]
    /\ body = [q \in Puts |-> NULL]
    /\ old = [q \in Puts |-> NULL]
    /\ global = [q \in Puts |-> DefaultConfig]
    /\ raced = {}
    /\ broken = {}

-----------------------------------------------------------------------------
(* Bookkeeping for the properties: whose reads have become stale.          *)

InFlight(q) == pc[q] \notin Ended \cup {"idle", "reread"}

\* The settings the outcome of a PUT depends on, as they stand for group i.
SettingsOf(i) == <<cfg, {r \in groups : r.id = i}>>

\* The requests among qs that a step disturbs.
Disturbs(qs) ==
    raced' = raced \cup {i \in {old[q].id : q \in {p \in qs : InFlight(p)}} :
                            SettingsOf(i) # SettingsOf(i)'}

-----------------------------------------------------------------------------
(* The handler.                                                            *)

Goto(q, from, to) == pc[q] = from /\ pc' = [pc EXCEPT ![q] = to]

ReadOnly == UNCHANGED <<vars, raced, broken>>

\* Seeded fault: equal windows are let through.
CrossFieldLoose(group, settings) ==
    group.enabled => EffectiveOr(group.staleness, settings.staleness)
                        <= EffectiveOr(group.expiration, settings.expiration)

\* The cross-field rule, on the group as it would become and the global settings
\* the handler has read.
CrossFieldOK(group, settings) ==
    group.enabled => EffectiveOr(group.staleness, settings.staleness)
                        < EffectiveOr(group.expiration, settings.expiration)

\* Seeded fault: the handler goes on after it has answered 404.
ReadGroupAndGoOn(q) ==
    \E g \in GroupNames, patch \in GroupPatches :
        /\ body' = [body EXCEPT ![q] = patch]
        /\ Goto(q, "idle", "staleness")
        /\ old' = [old EXCEPT ![q] = IF GroupKnown(g) THEN GroupNamed(g) ELSE @]
        /\ UNCHANGED global
        /\ ReadOnly

\* 404 for a group that does not exist.
ReadGroup(q) ==
    \E g \in GroupNames, patch \in GroupPatches :
        /\ body' = [body EXCEPT ![q] = patch]
        /\ \/ GroupKnown(g) /\ Goto(q, "idle", "staleness") /\ old' = [old EXCEPT ![q] = GroupNamed(g)]
           \/ ~GroupKnown(g) /\ Goto(q, "idle", "notFound") /\ UNCHANGED old
        /\ UNCHANGED global
        /\ ReadOnly

\* Config reads the settings one by one.
ReadStaleness(q) ==
    /\ Goto(q, "staleness", "expiration")
    /\ global' = [global EXCEPT ![q].staleness = cfg.staleness]
    /\ UNCHANGED <<body, old>>
    /\ ReadOnly

\* The group as the request would leave it, if it is still as it was read.
Wanted(q) == PatchedGroup(old[q], body[q])

\* The last read, and the check of the rule.
CheckRule(q) ==
    /\ pc[q] = "expiration"
    /\ global' = [global EXCEPT ![q].expiration = cfg.expiration]
    /\ pc' = [pc EXCEPT ![q] = IF CrossFieldOK(Wanted(q), global'[q]) THEN "write" ELSE "rejected"]
    /\ UNCHANGED <<body, old>>
    /\ ReadOnly

\* Seeded fault: clearing the override does not count as a change.
ExpirationSetAnew(q) ==
    body[q].expiration \notin {KEEP, NULL} /\ body[q].expiration # old[q].expiration

ExpirationChanged(q) == body[q].expiration # KEEP /\ body[q].expiration # old[q].expiration

\* Seeded fault: the whole row is written back as it was read.
WriteWholeGroup(q) ==
    /\ Goto(q, "write", IF ExpirationChanged(q) THEN "cascade" ELSE "reread")
    /\ groups' = {IF r.id = old[q].id THEN Wanted(q) ELSE r : r \in groups}
    /\ UNCHANGED <<jobs, cfg, clock, body, old, global, broken>>
    /\ Record(windows)
    /\ Disturbs(Puts \ {q})

\* The UPDATE of the group: the fields in the body and no others.
WriteGroup(q) ==
    /\ Goto(q, "write", IF ExpirationChanged(q) THEN "cascade" ELSE "reread")
    /\ SetGroupConfig(old[q].id, body[q])
    /\ Disturbs(Puts \ {q})
    /\ UNCHANGED <<clock, body, old, global, broken>>

\* The refresh, with the expiration that was computed for the check.
Cascade(q) ==
    /\ Goto(q, "cascade", "reread")
    /\ CascadeGroupExpiration(old[q].id, EffectiveOr(Wanted(q).expiration, global[q].expiration))
    /\ UNCHANGED <<clock, body, old, global, raced, broken>>

\* The group is read again for the response.
Reread(q) == Goto(q, "reread", "ok") /\ UNCHANGED <<body, old, global>> /\ ReadOnly

\* A read or a statement fails and the handler answers 500; what it has stored
\* so far stays.
Fails(q) ==
    /\ \/ \E from \in {"staleness", "expiration", "write", "reread"} :
             Goto(q, from, "failed") /\ UNCHANGED broken
       \/ Goto(q, "cascade", "failed") /\ broken' = broken \cup {old[q].id}
    /\ UNCHANGED <<vars, body, old, global, raced>>

Handle(q) ==
    \/ ReadGroup(q) \/ ReadStaleness(q) \/ CheckRule(q)
    \/ WriteGroup(q) \/ Cascade(q) \/ Reread(q) \/ Fails(q)

\* Every other write of the server: the requests beside the PUTs and the worker.
Others ==
    /\ \/ Report \/ Ack \/ Delete \/ TimeoutPass \/ ExpirationPass \/ Cleanup
       \/ \E patch \in ConfigPatches : SetGlobalConfig(patch)
    /\ Disturbs(Puts)
    /\ UNCHANGED <<clock, flow, broken>>

FlowNext ==
    \/ \E q \in Puts : Handle(q)
    \/ Others
    \/ Advance /\ UNCHANGED <<flow, raced, broken>>

FlowSpec == FlowInit /\ [][FlowNext]_flowVars

-----------------------------------------------------------------------------
(* Properties.                                                             *)

\* The handlers' state is well formed, and none runs on without its group.
FlowTypeOK ==
    /\ pc \in [Puts -> Phases]
    /\ body \in [Puts -> GroupPatches \cup {NULL}]
    /\ old \in [Puts -> GroupRows \cup {NULL}]
    /\ \A q \in Puts : old[q] = NULL <=> pc[q] \in {"idle", "notFound"}
    /\ global \in [Puts -> Settings]
    /\ raced \subseteq Ids
    /\ broken \subseteq Ids

\* Jobs of group s expire when its settings say.
ExpiryFits(s) == \A r \in JobsOf(s.id) : Fits(r, EffectiveExpiration(s))

\* Staleness, where it is enabled, comes strictly before expiration.
ObeysRule(s) == s.enabled => EffectiveOr(s.staleness, cfg.staleness) < EffectiveExpiration(s)

\* Unless a setting changed under a request, or a refresh failed, the expiry of
\* every job fits the settings of its group whenever no refresh is due: reports,
\* acknowledgements, deletions and passes of the worker that come between the two
\* statements do no harm.
UndisturbedExpiry ==
    \A s \in groups :
        s.id \notin raced \cup broken /\ (\A q \in Puts : pc[q] = "cascade" => old[q].id # s.id)
            => ExpiryFits(s)

\* A setting changes only to what a request for it asked: concurrent PUTs of
\* different fields do not undo each other (groups.go:24).
NoLostField ==
    [][\A r \in groups, s \in groups' : r.id = s.id /\ r # s /\ r.name = s.name =>
          \E q \in Puts : pc[q] = "write" /\ s = PatchedGroup(r, body[q])]_flowVars

\* A request that no change of settings has overtaken leaves its group within
\* the cross-field rule (group_config.go:121).
UndisturbedRule ==
    [][\A q \in Puts : WriteGroup(q) /\ old[q].id \notin raced =>
          \A s \in groups' : s.id = old[q].id => ObeysRule(s)]_flowVars

\* docs/restapi.md:318: with staleness enabled the effective staleness is less
\* than the effective expiration, "otherwise 400", whatever runs beside the request.
AcceptedObeysRule ==
    [][\A q \in Puts : WriteGroup(q) => \A s \in groups' : s.id = old[q].id => ObeysRule(s)]_flowVars

Settled == \A q \in Puts : ~InFlight(q)

\* docs/frontend/expiring.md:88: a PUT refreshes expires_at of the group's jobs to
\* updated_at plus its expiration.  So does a PUT that is answered 200 after one
\* for the same expiration failed, with no other change of settings around.
RetriedExpiry ==
    \A q \in Puts : pc[q] = "ok" /\ Settled /\ raced = {} =>
        \A s \in groups : s.id = old[q].id /\ body[q].expiration = s.expiration => ExpiryFits(s)
=============================================================================
