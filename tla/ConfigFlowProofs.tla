-------------------------- MODULE ConfigFlowProofs --------------------------
(***************************************************************************)
(* Theorems of ConfigFlow, for any number of PUTs of any groups' settings  *)
(* beside every other writer of the store: their statements are statements *)
(* of JobStore, what a request that was not overtaken may rely on, and     *)
(* that no field is lost.                                                  *)
(***************************************************************************)
EXTENDS ConfigFlow, JobStoreProofs

-----------------------------------------------------------------------------
(* The invariant.                                                          *)

\* A request no change of settings has overtaken: what it has read still stands.
Fresh(q) ==
    /\ pc[q] \in {"staleness", "expiration", "write"} => old[q] \in groups
    /\ pc[q] \in {"expiration", "write"} => global[q].staleness = cfg.staleness
    /\ pc[q] \in {"write", "cascade"} => global[q].expiration = cfg.expiration
    /\ pc[q] = "write" => CrossFieldOK(Wanted(q), global[q])
    /\ pc[q] = "cascade" => Wanted(q) \in groups

FreshInv == \A q \in Puts : InFlight(q) /\ old[q].id \notin raced => Fresh(q)

\* A request has a body once it has begun, one that sets the expiration if a
\* refresh is due.
BodyInv ==
    \A q \in Puts : /\ pc[q] # "idle" => body[q] \in GroupPatches
                    /\ pc[q] = "cascade" => body[q].expiration # KEEP

\* Nothing is due for group i: no request disturbed or broken, none about to refresh.
Quiet(i) == i \notin raced \cup broken /\ \A q \in Puts : pc[q] = "cascade" => old[q].id # i

\* Then what applies to the group now is all that applied since its last refresh.
QuietWindows == \A s \in groups : Quiet(s.id) => windows[s.id] = {EffectiveExpiration(s)}

FlowInv == Inv /\ FlowTypeOK /\ BodyInv /\ FreshInv /\ QuietWindows

\* A request in flight has read a group.
LEMMA InFlightIs ==
    ASSUME FlowTypeOK, NEW q \in Puts
    PROVE  /\ InFlight(q) <=> pc[q] \in {"staleness", "expiration", "write", "cascade"}
           /\ InFlight(q) => old[q] \in GroupRows /\ old[q].id \in Ids
BY DEF FlowTypeOK, InFlight, Ended, Phases, GroupRows

\* What it wants of the group keeps the keys.
LEMMA WantedType ==
    ASSUME FlowTypeOK, BodyInv, NEW q \in Puts, InFlight(q)
    PROVE  /\ Wanted(q) \in GroupRows /\ Wanted(q).id = old[q].id /\ Wanted(q).name = old[q].name
           /\ Wanted(q).expiration = Patched(old[q].expiration, body[q].expiration)
<1>1. body[q] \in GroupPatches /\ old[q] \in GroupRows
  BY InFlightIs DEF BodyInv, InFlight
<1> QED
  BY <1>1, PatchedGroupType DEF Wanted

-----------------------------------------------------------------------------
(* Every step is a step of the store.                                      *)

\* Each step of a handler, and of anyone beside it, is one statement of JobStore or
\* touches no table; the ids that are raced or broken stay so.
LEMMA StoreStep ==
    ASSUME FlowTypeOK, BodyInv, [FlowNext]_flowVars
    PROVE  [Next]_vars /\ raced \subseteq raced' /\ broken \subseteq broken'
<1>1. ASSUME NEW q \in Puts,
             ReadGroup(q) \/ ReadStaleness(q) \/ CheckRule(q) \/ Reread(q) \/ Fails(q)
      PROVE  UNCHANGED vars /\ raced' = raced /\ broken \subseteq broken'
  BY <1>1 DEF ReadGroup, ReadStaleness, CheckRule, Reread, Fails, ReadOnly
<1>2. ASSUME NEW q \in Puts, WriteGroup(q)
      PROVE  Next /\ raced \subseteq raced' /\ broken' = broken
  <2>1. SetGroupConfig(old[q].id, body[q]) /\ raced \subseteq raced' /\ UNCHANGED <<clock, broken>>
    BY <1>2 DEF WriteGroup, Disturbs
  <2>2. pc[q] = "write" /\ InFlight(q)
    BY <1>2 DEF WriteGroup, Goto, InFlight, Ended
  <2>3. body[q] \in GroupPatches /\ old[q].id \in Ids
    BY <2>2, InFlightIs DEF BodyInv
  <2>4. ConfigureGroup
    BY <2>1, <2>3 DEF ConfigureGroup
  <2> QED
    BY <2>1, <2>4 DEF Next, Write, Configure
<1>3. ASSUME NEW q \in Puts, Cascade(q)
      PROVE  Next /\ raced' = raced /\ broken' = broken
  <2> DEFINE hours == EffectiveOr(Wanted(q).expiration, global[q].expiration)
  <2>1. CascadeGroupExpiration(old[q].id, hours) /\ UNCHANGED <<clock, raced, broken>>
    BY <1>3 DEF Cascade
  <2>2. pc[q] = "cascade" /\ InFlight(q)
    BY <1>3 DEF Cascade, Goto, InFlight, Ended
  <2>3. /\ body[q] \in GroupPatches /\ body[q].expiration # KEEP /\ old[q].id \in Ids
        /\ Wanted(q) \in GroupRows /\ Wanted(q).expiration = body[q].expiration
        /\ global[q] \in Settings
    BY <2>2, InFlightIs, WantedType DEF BodyInv, FlowTypeOK, Patched
  <2>4. hours \in Timeouts /\ body[q].expiration \in {NULL, hours}
    BY <2>3 DEF EffectiveOr, GroupRows, Settings
  <2> HIDE DEF hours
  <2>5. RefreshGroup
    BY <2>1, <2>3, <2>4 DEF RefreshGroup
  <2> QED
    BY <2>1, <2>5 DEF Next, Write, Configure
<1>4. CASE Others
  BY <1>4 DEF Others, Disturbs, Next, Write, Configure
<1>5. CASE Advance /\ UNCHANGED <<flow, raced, broken>>
  BY <1>5 DEF Next
<1>6. CASE UNCHANGED flowVars
  BY <1>6 DEF flowVars
<1> QED
  BY <1>1, <1>2, <1>3, <1>4, <1>5, <1>6 DEF FlowNext, Handle

\* A step beside the handlers adds groups or removes some, and changes none.
LEMMA OthersGroups ==
    ASSUME Others
    PROVE  groups \subseteq groups' \/ groups' \subseteq groups
<1>1. CASE Report
  BY <1>1 DEF Report, UpsertJob
<1>2. CASE Cleanup
  BY <1>2 DEF Cleanup, AdminCleanup
<1>3. CASE ~Report /\ ~Cleanup
  BY <1>3, Zenon DEF Others, Ack, MarkAcked, AckUnhealthy, Delete, DeleteJob, TimeoutPass, TransitionOverdue,
     ExpirationPass, ExpireBatch, SetGlobalConfig
<1> QED
  BY <1>1, <1>2, <1>3

-----------------------------------------------------------------------------
(* Every step keeps the handlers' types.                                   *)

\* Types, and bodies of the requests that have begun, are kept.
LEMMA FlowTypeNext ==
    ASSUME Tables, FlowTypeOK, BodyInv, [FlowNext]_flowVars
    PROVE  FlowTypeOK' /\ BodyInv'
<1> USE DEF flow
<1>0. cfg \in Settings /\ NULL \notin GroupRows
  BY FlowAssumption DEF Tables, TypeOK
<1>1. ASSUME NEW qs \in SUBSET Puts, Disturbs(qs) PROVE raced' \subseteq Ids
  BY <1>1, InFlightIs DEF Disturbs, FlowTypeOK
<1>2. ASSUME NEW q \in Puts, ReadGroup(q) PROVE FlowTypeOK' /\ BodyInv'
  <2>1. PICK g \in GroupNames, patch \in GroupPatches :
            /\ body' = [body EXCEPT ![q] = patch]
            /\ \/ GroupKnown(g) /\ Goto(q, "idle", "staleness") /\ old' = [old EXCEPT ![q] = GroupNamed(g)]
               \/ ~GroupKnown(g) /\ Goto(q, "idle", "notFound") /\ UNCHANGED old
    BY <1>2 DEF ReadGroup
  <2>2. UNCHANGED <<global, raced, broken>>
    BY <1>2 DEF ReadGroup, ReadOnly
  <2>3. GroupKnown(g) => GroupNamed(g) \in GroupRows
    BY DEF GroupKnown, GroupNamed, Tables, TypeOK
  <2>4. BodyInv' /\ body' \in [Puts -> GroupPatches \cup {NULL}]
    BY <2>1 DEF FlowTypeOK, BodyInv, Goto
  <2>5. CASE GroupKnown(g) /\ Goto(q, "idle", "staleness") /\ old' = [old EXCEPT ![q] = GroupNamed(g)]
    BY <1>0, <2>2, <2>3, <2>4, <2>5 DEF FlowTypeOK, Goto, Phases
  <2>6. CASE ~GroupKnown(g) /\ Goto(q, "idle", "notFound") /\ UNCHANGED old
    BY <1>0, <2>2, <2>4, <2>6 DEF FlowTypeOK, Goto, Phases
  <2> QED
    BY <2>1, <2>4, <2>5, <2>6
<1>3. ASSUME NEW q \in Puts, NEW to \in Phases \ {"idle", "notFound"},
             pc[q] \notin {"idle", "notFound"}, pc' = [pc EXCEPT ![q] = to],
             to = "cascade" => body[q].expiration # KEEP,
             UNCHANGED <<body, old>>, global' \in [Puts -> Settings], raced' \subseteq Ids, broken' \subseteq Ids
      PROVE  FlowTypeOK' /\ BodyInv'
  BY <1>3 DEF FlowTypeOK, BodyInv
<1>4. ASSUME NEW q \in Puts, ReadStaleness(q) PROVE FlowTypeOK' /\ BodyInv'
  <2>1. global' \in [Puts -> Settings]
    BY <1>0, <1>4 DEF ReadStaleness, FlowTypeOK, Settings
  <2> QED
    BY <1>3, <1>4, <2>1 DEF ReadStaleness, ReadOnly, Goto, FlowTypeOK, Phases
<1>5. ASSUME NEW q \in Puts, CheckRule(q) PROVE FlowTypeOK' /\ BodyInv'
  <2>1. global' \in [Puts -> Settings]
    BY <1>0, <1>5 DEF CheckRule, FlowTypeOK, Settings
  <2>2. PICK to \in {"write", "rejected"} : pc' = [pc EXCEPT ![q] = to]
    BY <1>5 DEF CheckRule
  <2> QED
    BY <1>3, <1>5, <2>1, <2>2 DEF CheckRule, ReadOnly, FlowTypeOK, Phases
<1>6. ASSUME NEW q \in Puts, WriteGroup(q) PROVE FlowTypeOK' /\ BodyInv'
  <2>1. raced' \subseteq Ids
    BY <1>1, <1>6 DEF WriteGroup
  <2>2. PICK to \in {"cascade", "reread"} :
            pc' = [pc EXCEPT ![q] = to] /\ (to = "cascade" => ExpirationChanged(q))
    BY <1>6 DEF WriteGroup, Goto
  <2> QED
    BY <1>3, <1>6, <2>1, <2>2 DEF WriteGroup, Goto, FlowTypeOK, Phases, ExpirationChanged
<1>7. ASSUME NEW q \in Puts, Cascade(q) \/ Reread(q) PROVE FlowTypeOK' /\ BodyInv'
  BY <1>3, <1>7 DEF Cascade, Reread, ReadOnly, Goto, FlowTypeOK, Phases
<1>8. ASSUME NEW q \in Puts, Fails(q) PROVE FlowTypeOK' /\ BodyInv'
  <2>1. /\ pc[q] \in {"staleness", "expiration", "write", "reread", "cascade"}
        /\ pc' = [pc EXCEPT ![q] = "failed"]
        /\ UNCHANGED <<body, old, global, raced>>
        /\ broken' = broken \/ (pc[q] = "cascade" /\ broken' = broken \cup {old[q].id})
    BY <1>8 DEF Fails, Goto
  <2>2. broken' \subseteq Ids
    BY <2>1, InFlightIs DEF FlowTypeOK
  <2> QED
    BY <1>3, <2>1, <2>2 DEF FlowTypeOK, Phases
<1>9. CASE Others
  <2>1. raced' \subseteq Ids
    BY <1>1, <1>9 DEF Others
  <2> QED
    BY <1>9, <2>1 DEF Others, FlowTypeOK, BodyInv
<1>10. CASE (Advance /\ UNCHANGED <<flow, raced, broken>>) \/ UNCHANGED flowVars
  BY <1>10 DEF flowVars, FlowTypeOK, BodyInv
<1> QED
  BY <1>2, <1>4, <1>5, <1>6, <1>7, <1>8, <1>9, <1>10 DEF FlowNext, Handle

-----------------------------------------------------------------------------
(* What a request has read still stands, or it is raced.                   *)

\* A step that does not disturb a request leaves its settings as they are.
LEMMA Undisturbed ==
    ASSUME NEW qs \in SUBSET Puts, Disturbs(qs), NEW q \in qs, InFlight(q), old[q].id \notin raced'
    PROVE  /\ cfg' = cfg
           /\ \A r : r.id = old[q].id => (r \in groups <=> r \in groups')
<1>1. PICK i : i = old[q].id
  OBVIOUS
<1>2. SettingsOf(i) = SettingsOf(i)'
  BY <1>1 DEF Disturbs
<1>3. cfg' = cfg /\ {r \in groups : r.id = i} = {r \in groups' : r.id = i}
  BY <1>2 DEF SettingsOf
<1> QED
  BY <1>1, <1>3

\* A request stays fresh as long as its settings do.
LEMMA StaysFresh ==
    ASSUME FlowTypeOK, BodyInv, FreshInv, NEW q \in Puts, InFlight(q), old[q].id \notin raced,
           pc'[q] = pc[q], UNCHANGED <<body, old>>, global'[q] = global[q], cfg' = cfg,
           \A r : r.id = old[q].id => (r \in groups <=> r \in groups')
    PROVE  Fresh(q)'
<1>1. Fresh(q)
  BY DEF FreshInv
<1>2. Wanted(q)' = Wanted(q) /\ Wanted(q).id = old[q].id
  BY WantedType DEF Wanted, PatchedGroup
<1> QED
  BY <1>1, <1>2 DEF Fresh, CrossFieldOK, EffectiveOr

\* What an undisturbed request has read still stands after any step.
LEMMA FreshNext ==
    ASSUME Tables, FlowTypeOK, BodyInv, FreshInv, [FlowNext]_flowVars
    PROVE  FreshInv'
<1> USE DEF flow
<1>0. FlowTypeOK' /\ BodyInv' /\ raced \subseteq raced'
  BY FlowTypeNext, StoreStep
<1> SUFFICES ASSUME NEW p \in Puts, InFlight(p)', old'[p].id \notin raced'
             PROVE  Fresh(p)'
  BY DEF FreshInv
<1>1. ASSUME UNCHANGED <<groups, cfg, old, body>>, pc'[p] = pc[p], global'[p] = global[p]
      PROVE  Fresh(p)'
  <2>1. InFlight(p) /\ old[p].id \notin raced
    BY <1>0, <1>1 DEF InFlight
  <2> QED
    BY <1>1, <2>1, StaysFresh
<1>2. ASSUME NEW qs \in SUBSET Puts, p \in qs, Disturbs(qs),
             UNCHANGED <<old, body>>, pc'[p] = pc[p], global'[p] = global[p]
      PROVE  Fresh(p)'
  <2>1. InFlight(p) /\ old[p].id \notin raced /\ old[p].id \notin raced'
    BY <1>0, <1>2 DEF InFlight
  <2>2. cfg' = cfg /\ \A r : r.id = old[p].id => (r \in groups <=> r \in groups')
    BY <1>2, <2>1, Undisturbed
  <2> QED
    BY <1>2, <2>1, <2>2, StaysFresh
<1>3. ASSUME NEW q \in Puts, ReadGroup(q) PROVE Fresh(p)'
  <2>1. PICK g \in GroupNames, patch \in GroupPatches :
            /\ body' = [body EXCEPT ![q] = patch]
            /\ \/ GroupKnown(g) /\ Goto(q, "idle", "staleness") /\ old' = [old EXCEPT ![q] = GroupNamed(g)]
               \/ ~GroupKnown(g) /\ Goto(q, "idle", "notFound") /\ UNCHANGED old
    BY <1>3 DEF ReadGroup
  <2>2. UNCHANGED <<global, groups, cfg, raced>>
    BY <1>3 DEF ReadGroup, ReadOnly, vars
  <2>3. CASE p # q
    <3>1. pc'[p] = pc[p] /\ old'[p] = old[p] /\ body'[p] = body[p]
      BY <2>1, <2>3 DEF Goto, FlowTypeOK
    <3>2. InFlight(p) /\ old[p].id \notin raced /\ Fresh(p)
      BY <1>0, <3>1 DEF InFlight, FreshInv
    <3>3. Wanted(p)' = Wanted(p)
      BY <3>1 DEF Wanted, PatchedGroup
    <3> QED
      BY <2>2, <3>1, <3>2, <3>3 DEF Fresh, CrossFieldOK, EffectiveOr
  <2>4. CASE p = q
    <3>1. GroupKnown(g) /\ pc'[p] = "staleness" /\ old'[p] = GroupNamed(g)
      BY <2>1, <2>4 DEF Goto, FlowTypeOK, InFlight, Ended
    <3>2. GroupNamed(g) \in groups
      BY <3>1 DEF GroupKnown, GroupNamed
    <3> QED
      BY <2>2, <3>1, <3>2 DEF Fresh
  <2> QED
    BY <2>3, <2>4
<1>4. ASSUME NEW q \in Puts, ReadStaleness(q) PROVE Fresh(p)'
  <2>1. /\ pc[q] = "staleness" /\ pc' = [pc EXCEPT ![q] = "expiration"]
        /\ global' = [global EXCEPT ![q].staleness = cfg.staleness]
        /\ UNCHANGED <<groups, cfg, body, old, raced>>
    BY <1>4 DEF ReadStaleness, Goto, ReadOnly, vars
  <2>2. CASE p # q
    BY <1>1, <2>1, <2>2 DEF FlowTypeOK
  <2>3. CASE p = q
    <3>1. InFlight(p) /\ Fresh(p) /\ old[p] \in groups
      BY <1>0, <2>1, <2>3, InFlightIs DEF FreshInv, Fresh
    <3>2. pc'[p] = "expiration" /\ global'[p].staleness = cfg.staleness
      BY <2>1, <2>3 DEF FlowTypeOK, Settings
    <3> QED
      BY <2>1, <3>1, <3>2 DEF Fresh
  <2> QED
    BY <2>2, <2>3
<1>5. ASSUME NEW q \in Puts, CheckRule(q) PROVE Fresh(p)'
  <2>1. /\ pc[q] = "expiration"
        /\ pc' = [pc EXCEPT ![q] = IF CrossFieldOK(Wanted(q), global'[q]) THEN "write" ELSE "rejected"]
        /\ global' = [global EXCEPT ![q].expiration = cfg.expiration]
        /\ UNCHANGED <<groups, cfg, body, old, raced>>
    BY <1>5 DEF CheckRule, ReadOnly, vars
  <2>2. CASE p # q
    BY <1>1, <2>1, <2>2 DEF FlowTypeOK
  <2>3. CASE p = q
    <3>1. InFlight(p) /\ Fresh(p) /\ old[p] \in groups /\ global[p].staleness = cfg.staleness
      BY <1>0, <2>1, <2>3, InFlightIs DEF FreshInv, Fresh
    <3>2. global'[p].expiration = cfg.expiration /\ global'[p].staleness = global[p].staleness
      BY <2>1, <2>3 DEF FlowTypeOK, Settings
    <3>3. pc'[p] = "write" /\ CrossFieldOK(Wanted(p), global'[p])
      BY <1>0, <2>1, <2>3 DEF FlowTypeOK, InFlight, Ended
    <3>4. Wanted(p)' = Wanted(p)
      BY <2>1 DEF Wanted, PatchedGroup
    <3> QED
      BY <2>1, <3>1, <3>2, <3>3, <3>4 DEF Fresh, CrossFieldOK, EffectiveOr
  <2> QED
    BY <2>2, <2>3
<1>6. ASSUME NEW q \in Puts, WriteGroup(q) PROVE Fresh(p)'
  <2>1. /\ pc[q] = "write" /\ pc' = [pc EXCEPT ![q] = IF ExpirationChanged(q) THEN "cascade" ELSE "reread"]
        /\ groups' = {IF r.id = old[q].id THEN PatchedGroup(r, body[q]) ELSE r : r \in groups}
        /\ cfg' = cfg /\ Disturbs(Puts \ {q})
        /\ UNCHANGED <<body, old, global>>
    BY <1>6 DEF WriteGroup, SetGroupConfig, Goto
  <2>2. CASE p # q
    BY <1>2, <2>1, <2>2 DEF FlowTypeOK
  <2>3. CASE p = q
    <3>1. InFlight(p) /\ Fresh(p) /\ old[p] \in groups /\ global[p].expiration = cfg.expiration
      BY <1>0, <2>1, <2>3, InFlightIs DEF FreshInv, Fresh
    <3>2. pc'[p] = "cascade"
      BY <2>1, <2>3 DEF FlowTypeOK, InFlight, Ended
    <3>3. Wanted(p) \in groups'
      BY <2>1, <2>3, <3>1 DEF Wanted
    <3>4. Wanted(p)' = Wanted(p)
      BY <2>1 DEF Wanted, PatchedGroup
    <3> QED
      BY <2>1, <3>1, <3>2, <3>3, <3>4 DEF Fresh
  <2> QED
    BY <2>2, <2>3
<1>7. ASSUME NEW q \in Puts, Cascade(q) \/ Reread(q) \/ Fails(q) PROVE Fresh(p)'
  <2>1. PICK to \in {"reread", "ok", "failed"} :
            /\ pc' = [pc EXCEPT ![q] = to]
            /\ UNCHANGED <<groups, cfg, body, old, global, raced>>
    BY <1>7, Zenon DEF Cascade, CascadeGroupExpiration, Reread, Fails, ReadOnly, Goto, vars
  <2>2. p # q
    BY <1>0, <2>1, InFlightIs DEF FlowTypeOK, InFlight, Ended
  <2> QED
    BY <1>1, <2>1, <2>2 DEF FlowTypeOK
<1>8. CASE Others
  BY <1>2, <1>8 DEF Others
<1>9. CASE (Advance /\ UNCHANGED <<flow, raced, broken>>) \/ UNCHANGED flowVars
  BY <1>1, <1>9 DEF Advance, db, flowVars, vars
<1> QED
  BY <1>3, <1>4, <1>5, <1>6, <1>7, <1>8, <1>9 DEF FlowNext, Handle

-----------------------------------------------------------------------------
(* The windows of a group that nothing is due for.                         *)

\* An UPDATE and the refresh after it leave the group with one window, undisturbed.
LEMMA WindowsNext ==
    ASSUME FlowInv, [FlowNext]_flowVars, Inv'
    PROVE  QuietWindows'
<1> USE DEF flow
<1>0. /\ FlowTypeOK /\ BodyInv /\ FreshInv
      /\ raced \subseteq raced' /\ broken \subseteq broken'
      /\ \A r \in groups : r.id \in Ids /\ r \in GroupRows
      /\ \A r, s \in groups : r.id = s.id => r = s
      /\ cfg \in Settings /\ windows \in [Ids -> SUBSET Timeouts]
      /\ groups' \subseteq GroupRows /\ cfg' \in Settings
      /\ \A r, s \in groups' : r.id = s.id => r = s
  BY StoreStep DEF FlowInv, Inv, TypeOK, Integrity, GroupRows
<1> SUFFICES ASSUME NEW s \in groups', Quiet(s.id)'
             PROVE  windows'[s.id] = {EffectiveExpiration(s)'}
  BY DEF QuietWindows, Quiet, EffectiveExpiration
<1>1. s.id \in Ids /\ s.id \notin raced \cup broken \cup raced' \cup broken'
  BY <1>0 DEF Quiet, GroupRows
<1>2. ASSUME \A q \in Puts : pc[q] = "cascade" => (pc'[q] = "cascade" /\ old'[q] = old[q]) \/ old[q].id \in broken'
      PROVE  Quiet(s.id)
  BY <1>1, <1>2 DEF Quiet
<1>3. ASSUME UNCHANGED <<groups, cfg, windows>>, Quiet(s.id)
      PROVE  windows'[s.id] = {EffectiveExpiration(s)'}
  BY <1>3 DEF FlowInv, QuietWindows, EffectiveExpiration
<1>4. ASSUME NEW kept \in [Ids -> SUBSET Timeouts], Record(kept)
      PROVE  windows'[s.id] = kept[s.id] \cup {EffectiveExpiration(s)'}
  BY <1>0, <1>4, RecordWindows
<1>5. ASSUME Record(windows), Quiet(s.id),
             NEW r \in groups, r.id = s.id, EffectiveExpiration(s)' = EffectiveExpiration(r)
      PROVE  windows'[s.id] = {EffectiveExpiration(s)'}
  <2>1. windows[s.id] = {EffectiveExpiration(r)}
    BY <1>5 DEF FlowInv, QuietWindows
  <2> QED
    BY <1>0, <1>4, <1>5, <2>1
<1>6. ASSUME NEW q \in Puts,
             ReadGroup(q) \/ ReadStaleness(q) \/ CheckRule(q) \/ Reread(q) \/ Fails(q)
      PROVE  windows'[s.id] = {EffectiveExpiration(s)'}
  <2>1. UNCHANGED <<groups, cfg, windows>>
    BY <1>6 DEF ReadGroup, ReadStaleness, CheckRule, Reread, Fails, ReadOnly, vars
  <2>2. \/ pc[q] # "cascade" /\ \A p \in Puts \ {q} : pc'[p] = pc[p] /\ old'[p] = old[p]
        \/ /\ pc[q] = "cascade" /\ old[q].id \in broken'
           /\ \A p \in Puts \ {q} : pc'[p] = pc[p] /\ old'[p] = old[p]
    BY <1>0, <1>6 DEF ReadGroup, ReadStaleness, CheckRule, Reread, Fails, Goto, FlowTypeOK
  <2> QED
    BY <1>2, <1>3, <2>1, <2>2
<1>7. ASSUME NEW q \in Puts, WriteGroup(q)
      PROVE  windows'[s.id] = {EffectiveExpiration(s)'}
  <2>1. /\ pc[q] = "write" /\ pc' = [pc EXCEPT ![q] = IF ExpirationChanged(q) THEN "cascade" ELSE "reread"]
        /\ groups' = {IF r.id = old[q].id THEN PatchedGroup(r, body[q]) ELSE r : r \in groups}
        /\ cfg' = cfg /\ Record(windows) /\ UNCHANGED <<body, old, global>>
    BY <1>7 DEF WriteGroup, SetGroupConfig, Goto
  <2>2. Quiet(s.id)
    BY <1>0, <1>2, <2>1 DEF FlowTypeOK
  <2>3. body[q] \in GroupPatches /\ InFlight(q) /\ old[q] \in GroupRows
    BY <1>0, <2>1, InFlightIs DEF BodyInv
  <2>4. PICK r \in groups : s = IF r.id = old[q].id THEN PatchedGroup(r, body[q]) ELSE r
    BY <2>1
  <2>5. CASE r.id # old[q].id
    BY <1>5, <2>1, <2>2, <2>4, <2>5 DEF EffectiveExpiration
  <2>6. CASE r.id = old[q].id
    <3>1. s.id = old[q].id /\ s.expiration = Patched(r.expiration, body[q].expiration)
      BY <1>0, <2>3, <2>4, <2>6, PatchedGroupType
    <3>2. r = old[q]
      <4>1. old[q] \in groups
        BY <1>0, <1>1, <2>1, <2>3, <3>1 DEF FreshInv, Fresh
      <4> QED
        BY <1>0, <2>6, <4>1
    <3>3. ~ExpirationChanged(q)
      BY <1>0, <2>1, <3>1 DEF Quiet, FlowTypeOK
    <3>4. s.expiration = r.expiration
      BY <3>1, <3>2, <3>3 DEF ExpirationChanged, Patched
    <3>5. EffectiveExpiration(s)' = EffectiveExpiration(r)
      BY <2>1, <3>4 DEF EffectiveExpiration
    <3> QED
      BY <1>5, <2>1, <2>2, <2>6, <3>1, <3>5
  <2> QED
    BY <2>5, <2>6
<1>8. ASSUME NEW q \in Puts, Cascade(q)
      PROVE  windows'[s.id] = {EffectiveExpiration(s)'}
  <2> DEFINE hours == EffectiveOr(Wanted(q).expiration, global[q].expiration)
             kept == Refreshed({old[q].id}, hours)
  <2>1. /\ pc[q] = "cascade" /\ pc' = [pc EXCEPT ![q] = "reread"]
        /\ UNCHANGED <<groups, cfg, body, old, global>> /\ Record(kept)
    BY <1>8 DEF Cascade, CascadeGroupExpiration, Goto
  <2>2. InFlight(q) /\ Wanted(q) \in GroupRows /\ Wanted(q).id = old[q].id /\ global[q] \in Settings
    BY <1>0, <2>1, WantedType, InFlightIs DEF FlowTypeOK
  <2>3. hours \in Timeouts
    BY <2>2 DEF GroupRows, Settings, EffectiveOr
  <2>4. /\ kept \in [Ids -> SUBSET Timeouts]
        /\ kept[s.id] = IF s.id = old[q].id THEN {hours} ELSE windows[s.id]
    BY <1>0, <1>1, <2>3 DEF Refreshed
  <2> HIDE DEF kept, hours
  <2>5. windows'[s.id] = kept[s.id] \cup {EffectiveExpiration(s)'}
    BY <1>4, <2>1, <2>4
  <2>6. CASE s.id # old[q].id
    <3>1. Quiet(s.id)
      BY <1>0, <1>1, <2>1, <2>6 DEF Quiet, FlowTypeOK
    <3>2. windows[s.id] = {EffectiveExpiration(s)} /\ EffectiveExpiration(s)' = EffectiveExpiration(s)
      BY <2>1, <3>1 DEF FlowInv, QuietWindows, EffectiveExpiration
    <3> QED
      BY <2>4, <2>5, <2>6, <3>2
  <2>7. CASE s.id = old[q].id
    <3>1. Wanted(q) \in groups /\ global[q].expiration = cfg.expiration
      BY <1>0, <1>1, <2>1, <2>2, <2>7 DEF FreshInv, Fresh
    <3>2. s = Wanted(q)
      BY <1>0, <2>1, <2>2, <2>7, <3>1
    <3>3. EffectiveExpiration(s)' = hours
      BY <2>1, <3>1, <3>2 DEF EffectiveExpiration, hours
    <3> QED
      BY <2>4, <2>5, <2>7, <3>3
  <2> QED
    BY <2>6, <2>7
<1>9. CASE Others
  <2>1. Quiet(s.id)
    BY <1>2, <1>9 DEF Others
  <2>2. CASE Report
    <3>1. groups \subseteq groups' /\ cfg' = cfg /\ Record(windows)
      BY <2>2 DEF Report, UpsertJob
    <3>2. CASE s \in groups
      BY <1>5, <2>1, <3>1, <3>2 DEF EffectiveExpiration
    <3>3. CASE s \notin groups
      <4>1. \A r \in groups : r.id # s.id
        BY <1>0, <3>1, <3>3
      <4>2. windows[s.id] = {}
        BY <1>1, <4>1 DEF FlowInv, Inv, WindowsInv
      <4> QED
        BY <1>0, <1>4, <3>1, <4>2
    <3> QED
      BY <3>2, <3>3
  <2>3. CASE Cleanup
    <3>1. groups' \subseteq groups /\ cfg' = cfg /\ Record(windows)
      BY <2>3 DEF Cleanup, AdminCleanup
    <3> QED
      BY <1>5, <2>1, <3>1 DEF EffectiveExpiration
  <2>4. ASSUME NEW patch \in ConfigPatches, SetGlobalConfig(patch)
        PROVE  windows'[s.id] = {EffectiveExpiration(s)'}
    <3> DEFINE inherit == {r.id : r \in {g \in groups : g.expiration = NULL}}
               kept == Refreshed(inherit, cfg'.expiration)
    <3>1. /\ groups' = groups
          /\ Record(IF cfg'.expiration # cfg.expiration THEN kept ELSE windows)
      BY <2>4 DEF SetGlobalConfig
    <3>2. s \in groups /\ (s.id \in inherit <=> s.expiration = NULL)
      BY <1>0, <3>1
    <3>3. /\ kept \in [Ids -> SUBSET Timeouts]
          /\ kept[s.id] = IF s.id \in inherit THEN {cfg'.expiration} ELSE windows[s.id]
      BY <1>0, <1>1 DEF Refreshed, Settings
    <3> HIDE DEF inherit, kept
    <3>4. CASE cfg'.expiration = cfg.expiration
      <4>1. Record(windows) /\ EffectiveExpiration(s)' = EffectiveExpiration(s)
        BY <3>1, <3>4 DEF EffectiveExpiration, EffectiveOr
      <4> QED
        BY <1>5, <2>1, <3>2, <4>1
    <3>5. CASE cfg'.expiration # cfg.expiration
      <4>1. windows'[s.id] = kept[s.id] \cup {EffectiveExpiration(s)'}
        BY <1>4, <3>1, <3>3, <3>5
      <4>2. CASE s.id \in inherit
        BY <3>2, <3>3, <4>1, <4>2 DEF EffectiveExpiration, EffectiveOr
      <4>3. CASE s.id \notin inherit
        <5>1. windows[s.id] = {EffectiveExpiration(s)} /\ EffectiveExpiration(s)' = EffectiveExpiration(s)
          BY <2>1, <3>2, <4>3 DEF FlowInv, QuietWindows, EffectiveExpiration, EffectiveOr
        <5> QED
          BY <3>3, <4>1, <4>3, <5>1
      <4> QED
        BY <4>2, <4>3
    <3> QED
      BY <3>4, <3>5
  <2>5. CASE Ack \/ Delete \/ TimeoutPass \/ ExpirationPass
    <3>1. UNCHANGED <<groups, cfg, windows>>
      BY <2>5 DEF Ack, MarkAcked, AckUnhealthy, Delete, DeleteJob, TimeoutPass, TransitionOverdue,
         ExpirationPass, ExpireBatch
    <3> QED
      BY <1>3, <2>1, <3>1
  <2> QED
    BY <1>9, <2>2, <2>3, <2>4, <2>5 DEF Others
<1>10. CASE (Advance /\ UNCHANGED <<flow, raced, broken>>) \/ UNCHANGED flowVars
  BY <1>2, <1>3, <1>10 DEF Advance, db, flowVars, vars
<1> QED
  BY <1>6, <1>7, <1>8, <1>9, <1>10 DEF FlowNext, Handle

\* No request has begun.
LEMMA FlowInvInit == FlowInit => FlowInv
<1> SUFFICES ASSUME FlowInit PROVE FlowInv
  OBVIOUS
<1>1. Inv
  BY InvInit DEF FlowInit
<1> QED
  BY <1>1, StoreAssumption
  DEF FlowInit, Init, FlowInv, FlowTypeOK, Phases, BodyInv, FreshInv, InFlight, Ended, QuietWindows

\* Every step keeps the invariant.
LEMMA FlowInvNext == FlowInv /\ [FlowNext]_flowVars => FlowInv'
<1> SUFFICES ASSUME FlowInv, [FlowNext]_flowVars PROVE FlowInv'
  OBVIOUS
<1>1. Inv' /\ Tables /\ FlowTypeOK /\ BodyInv /\ FreshInv
  BY StoreStep, InvNext DEF FlowInv, Inv, Tables
<1> QED
  BY <1>1, FlowTypeNext, FreshNext, WindowsNext DEF FlowInv

\* The invariant holds of every reachable state.
LEMMA FlowInvAlways == FlowSpec => []FlowInv
BY FlowInvInit, FlowInvNext, PTL DEF FlowSpec

-----------------------------------------------------------------------------
(* The theorems.                                                           *)

\* The program of the handlers implements the store's: every step of a PUT of a group's
\* settings, raced and broken off as it may be, is one statement of JobStore or changes
\* no table, and so is every step beside it.
THEOREM PutsImplementStore == FlowSpec => Spec
<1>1. FlowInit => Init
  BY DEF FlowInit
<1>2. FlowInv /\ [FlowNext]_flowVars => [Next]_vars
  BY StoreStep DEF FlowInv
<1> QED
  BY <1>1, <1>2, FlowInvAlways, PTL DEF FlowSpec, Spec

\* So the store's invariants hold although the two statements of a request are not one
\* transaction: keys, acks, and an expiry by a setting that applied since the last refresh.
THEOREM TablesIntactUnderPuts == FlowSpec => []Inv
BY PutsImplementStore, StoreInvariant, PTL

\* The handlers' state is well formed, and none runs on without its group.
THEOREM FlowTypeCorrect == FlowSpec => []FlowTypeOK
<1>1. FlowInv => FlowTypeOK
  BY DEF FlowInv
<1> QED
  BY <1>1, FlowInvAlways, PTL

\* Where no change of settings overtook a request and no refresh failed, every job expires
\* when the settings of its group say, once no refresh is due, whatever the worker and the
\* other requests did meanwhile: its group is left with the one window that applies now.
THEOREM ExpiryFitsUndisturbed == FlowSpec => []UndisturbedExpiry
<1>1. FlowInv => UndisturbedExpiry
  <2> SUFFICES ASSUME FlowInv, NEW s \in groups, Quiet(s.id), NEW r \in JobsOf(s.id)
               PROVE  Fits(r, EffectiveExpiration(s))
    BY DEF UndisturbedExpiry, ExpiryFits, Quiet
  <2>1. r \in jobs /\ r.group = s.id
    BY DEF JobsOf
  <2>2. PICK w \in windows[s.id] : Fits(r, w)
    BY <2>1 DEF FlowInv, Inv, ExpiryMatchesConfig
  <2> QED
    BY <2>2 DEF FlowInv, QuietWindows
<1> QED
  BY <1>1, FlowInvAlways, PTL

\* A setting only changes to what a request for it asked.
THEOREM NoFieldLost == FlowSpec => NoLostField
<1> DEFINE Asked == \A r \in groups, s \in groups' : r.id = s.id /\ r # s /\ r.name = s.name =>
                        \E q \in Puts : pc[q] = "write" /\ s = PatchedGroup(r, body[q])
<1>1. ASSUME FlowInv, FlowNext PROVE Asked
  <2> SUFFICES ASSUME NEW r \in groups, NEW s \in groups', r.id = s.id, r # s
               PROVE  \E q \in Puts : pc[q] = "write" /\ s = PatchedGroup(r, body[q])
    OBVIOUS
  <2>0. Tables /\ FlowTypeOK /\ BodyInv /\ Tables'
    BY <1>1, FlowInvNext DEF FlowInv, Inv, Tables
  <2>1. ~(groups' \subseteq groups) /\ ~(groups \subseteq groups')
    BY <2>0 DEF Tables, Integrity
  <2>2. ASSUME NEW q \in Puts, WriteGroup(q)
        PROVE  pc[q] = "write" /\ s = PatchedGroup(r, body[q])
    <3>1. /\ pc[q] = "write" /\ body[q] \in GroupPatches
          /\ groups' = {IF t.id = old[q].id THEN PatchedGroup(t, body[q]) ELSE t : t \in groups}
      BY <2>0, <2>2 DEF WriteGroup, SetGroupConfig, Goto, BodyInv
    <3>2. PICK t \in groups : s = IF t.id = old[q].id THEN PatchedGroup(t, body[q]) ELSE t
      BY <3>1
    <3>3. t.id = s.id
      BY <2>0, <3>1, <3>2, PatchedGroupType DEF Tables, TypeOK
    <3>4. t = r
      BY <2>0, <3>3 DEF Tables, Integrity
    <3> QED
      BY <3>1, <3>2, <3>4
  <2>3. ASSUME NEW q \in Puts,
               ReadGroup(q) \/ ReadStaleness(q) \/ CheckRule(q) \/ Cascade(q) \/ Reread(q) \/ Fails(q)
        PROVE  FALSE
    BY <2>1, <2>3, Zenon DEF ReadGroup, ReadStaleness, CheckRule, Cascade, CascadeGroupExpiration, Reread,
       Fails, ReadOnly, vars
  <2>4. ~Others
    BY <2>1, OthersGroups
  <2>5. ~Advance
    BY <2>1 DEF Advance, db
  <2> QED
    BY <1>1, <2>2, <2>3, <2>4, <2>5, Zenon DEF FlowNext, Handle
<1>2. FlowInv /\ [FlowNext]_flowVars => [Asked]_flowVars
  BY <1>1, Zenon
<1> QED
  BY <1>2, FlowInvAlways, PTL DEF FlowSpec, NoLostField

\* A request that nothing has overtaken leaves its group within the cross-field rule.
THEOREM RuleKeptUndisturbed == FlowSpec => UndisturbedRule
<1> DEFINE Obeys == \A q \in Puts : WriteGroup(q) /\ old[q].id \notin raced =>
                        \A s \in groups' : s.id = old[q].id => ObeysRule(s)
<1>1. ASSUME FlowInv PROVE Obeys
  <2> SUFFICES ASSUME NEW q \in Puts, WriteGroup(q), old[q].id \notin raced,
                      NEW s \in groups', s.id = old[q].id
               PROVE  ObeysRule(s)
    OBVIOUS
  <2>1. /\ pc[q] = "write"
        /\ groups' = {IF t.id = old[q].id THEN PatchedGroup(t, body[q]) ELSE t : t \in groups}
    BY DEF WriteGroup, SetGroupConfig, Goto
  <2>2. /\ old[q] \in groups /\ body[q] \in GroupPatches
        /\ global[q].staleness = cfg.staleness /\ global[q].expiration = cfg.expiration
        /\ CrossFieldOK(Wanted(q), global[q])
    BY <1>1, <2>1, InFlightIs DEF FlowInv, FreshInv, Fresh, BodyInv
  <2>3. PICK t \in groups : s = IF t.id = old[q].id THEN PatchedGroup(t, body[q]) ELSE t
    BY <2>1
  <2>4. t.id = s.id
    BY <1>1, <2>2, <2>3, PatchedGroupType DEF FlowInv, Inv, TypeOK
  <2>5. s = Wanted(q)
    BY <1>1, <2>2, <2>3, <2>4 DEF FlowInv, Inv, Integrity, Wanted
  <2> QED
    BY <2>2, <2>5 DEF ObeysRule, CrossFieldOK, EffectiveExpiration
<1>2. FlowInv => [Obeys]_flowVars
  BY <1>1, Zenon
<1> QED
  BY <1>2, FlowInvAlways, PTL DEF UndisturbedRule
=============================================================================
