--------------------------- MODULE JobStoreProofs ---------------------------
EXTENDS JobStore, TLAPS, WellFoundedInduction

\* Rowids: the id of a new row is larger than every id in use.
LEMMA NewIdFresh ==
    ASSUME NEW rows, \A r \in rows : r.id \in Ids
    PROVE  /\ NewId(rows) \in Nat \ {0}
           /\ \A r \in rows : r.id < NewId(rows)
<1>1. CASE rows = {}
  BY <1>1 DEF NewId
<1>2. CASE rows # {}
  <2> DEFINE ids == {r.id : r \in rows}
             bounds == {n \in Nat : \A i \in ids : i <= n}
  <2>1. ids \subseteq Nat /\ ids # {} /\ \A i \in ids : i >= 1 /\ i <= MaxId
    BY <1>2, StoreAssumption DEF Ids
  <2>2. MaxId \in bounds
    BY <2>1, StoreAssumption
  <2>3. PICK n \in bounds : \A m \in bounds : ~(<<m, n>> \in OpToRel(<, Nat))
    BY <2>2, NatLessThanWellFounded, WFMin
  <2>4. \A m \in bounds : n <= m
    <3> SUFFICES ASSUME NEW m \in bounds, m < n
                 PROVE  FALSE
      OBVIOUS
    <3>1. <<m, n>> \in Nat \X Nat
      OBVIOUS
    <3>2. <<m, n>> \in OpToRel(<, Nat)
      BY <3>1 DEF OpToRel
    <3> QED
      BY <3>2, <2>3
  <2>5. n \in ids
    <3>1. n # 0
      BY <2>1
    <3>2. n - 1 \in Nat /\ ~(n <= n - 1)
      BY <3>1
    <3>3. n - 1 \notin bounds
      BY <3>2, <2>4
    <3>4. PICK i \in ids : ~(i <= n - 1)
      BY <3>2, <3>3
    <3> QED
      BY <3>4, <2>1
  <2> DEFINE top == Max(ids)
  <2>6. top \in ids /\ \A i \in ids : top >= i
    BY <2>5 DEF Max
  <2>7. NewId(rows) = 1 + top
    BY <1>2 DEF NewId
  <2>8. \A r \in rows : r.id \in ids
    OBVIOUS
  <2> HIDE DEF bounds, ids, top
  <2>9. top \in Nat
    BY <2>1, <2>6
  <2>10. \A r \in rows : r.id \in Nat /\ top >= r.id
    BY <2>1, <2>6, <2>8
  <2> QED
    BY <2>7, <2>9, <2>10
<1> QED
  BY <1>1, <1>2

-----------------------------------------------------------------------------
(* The invariant of the tables is the conjunction of the four invariants   *)
(* TLC checks and of what the history says of the present: what applies to  *)
(* a group now is one of its windows, and a row id not in use has none, so  *)
(* that a group that takes it starts afresh.                                *)

WindowsInv ==
    /\ \A s \in groups : EffectiveExpiration(s) \in windows[s.id]
    /\ \A i \in Ids : (\A s \in groups : s.id # i) => windows[i] = {}

Inv == TypeOK /\ Integrity /\ AckedImpliesUnhealthy /\ ExpiryMatchesConfig /\ WindowsInv

\* What holds of the tables whether or not a refresh of expires_at is due.
Tables == TypeOK /\ Integrity /\ AckedImpliesUnhealthy

\* The effective value of a setting is a timeout, overridden or not.
LEMMA EffectiveType ==
    ASSUME cfg \in Settings, NEW s \in GroupRows
    PROVE  EffectiveExpiration(s) \in Nat \ {0}
BY StoreAssumption DEF GroupRows, Settings, EffectiveExpiration, EffectiveOr

\* The history after a step: of a group's windows those that were kept, and what
\* applies to the group now.
LEMMA RecordWindows ==
    ASSUME groups' \subseteq GroupRows, cfg' \in Settings,
           NEW kept \in [Ids -> SUBSET Timeouts], Record(kept)
    PROVE  /\ windows' \in [Ids -> SUBSET Timeouts]
           /\ WindowsInv'
           /\ \A s \in groups' :
                 /\ kept[s.id] \subseteq windows'[s.id]
                 /\ (\A t \in groups' : t.id = s.id => t = s) =>
                       windows'[s.id] = kept[s.id] \cup {EffectiveExpiration(s)'}
<1> DEFINE now(i) == {EffectiveOr(s.expiration, cfg'.expiration) : s \in {t \in groups' : t.id = i}}
<1>1. \A i \in Ids : now(i) \subseteq Timeouts
  BY StoreAssumption DEF GroupRows, Settings, EffectiveOr
<1>2. windows' = [i \in Ids |-> IF \E s \in groups' : s.id = i THEN kept[i] \cup now(i) ELSE {}]
  BY DEF Record
<1>3. \A s \in groups' : s.id \in Ids
  BY DEF GroupRows
<1>4. ASSUME NEW s \in groups' PROVE EffectiveExpiration(s)' = EffectiveOr(s.expiration, cfg'.expiration)
  BY DEF EffectiveExpiration, EffectiveOr
<1>5. \A s \in groups' : /\ EffectiveExpiration(s)' \in now(s.id)
                         /\ (\A t \in groups' : t.id = s.id => t = s) =>
                               now(s.id) = {EffectiveExpiration(s)'}
  BY <1>4
<1> HIDE DEF now
<1>6. \A s \in groups' : windows'[s.id] = kept[s.id] \cup now(s.id)
  BY <1>2, <1>3
<1>7. windows' \in [Ids -> SUBSET Timeouts]
  BY <1>1, <1>2
<1>8. WindowsInv'
  <2>1. \A s \in groups' : EffectiveExpiration(s)' \in windows'[s.id]
    BY <1>5, <1>6
  <2>2. \A i \in Ids : (\A s \in groups' : s.id # i) => windows'[i] = {}
    BY <1>2
  <2> QED
    BY <2>1, <2>2 DEF WindowsInv, EffectiveExpiration
<1> QED
  BY <1>5, <1>6, <1>7, <1>8

\* A report writes one row, of a known or a new group, with its expiry.
LEMMA UpsertRows ==
    ASSUME Tables, NEW g \in GroupNames, NEW j \in JobNames, NEW st \in Statuses,
           NEW now \in Nat, UpsertJob(g, j, st, now), InBound, UNCHANGED clock
    PROVE  /\ Tables' /\ WindowsInv' /\ cfg' = cfg
           /\ \A s \in groups' : windows[s.id] \subseteq windows'[s.id]
           /\ \E group \in groups' :
                 /\ groups' = groups \cup {group}
                 /\ \A t \in jobs' :
                       \/ t \in jobs
                       \/ t.group = group.id /\ t.updatedAt = now /\ t.expiresAt = now + EffectiveExpiration(group)
<1> DEFINE group == IF GroupKnown(g) THEN GroupNamed(g) ELSE NewGroup(g)
           same(r) == r.group = group.id /\ r.name = j
<1>1. TypeOK /\ Integrity /\ AckedImpliesUnhealthy
  BY DEF Tables
<1>2. /\ groups' = groups \cup {group}
      /\ jobs' = IF \E r \in jobs : same(r)
                 THEN {IF same(r) THEN UpdatedJob(r, group, st, now) ELSE r : r \in jobs}
                 ELSE jobs \cup {InsertedJob(group, j, st, now)}
      /\ cfg' = cfg
      /\ Record(windows)
  BY DEF UpsertJob
<1>3. /\ group \in GroupRows
      /\ group.name = g
      /\ group \in groups \/ \A s \in groups : s.id < group.id /\ s.name # g
  <2>1. CASE GroupKnown(g)
    BY <2>1, <1>1 DEF GroupKnown, GroupNamed, TypeOK
  <2>2. CASE ~GroupKnown(g)
    <3>1. \A s \in groups : s.id \in Ids
      BY <1>1 DEF TypeOK, GroupRows
    <3>2. \A s \in groups : s.id < NewId(groups)
      BY <3>1, NewIdFresh
    <3>3. group = NewGroup(g) /\ group.id \in Ids
      BY <2>2, <1>2 DEF InBound, NewGroup
    <3> QED
      BY <3>2, <3>3, <2>2 DEF NewGroup, GroupRows, GroupKnown
  <2> QED
    BY <2>1, <2>2
<1>4. EffectiveExpiration(group) \in Nat
  BY <1>1, <1>3, EffectiveType DEF TypeOK
<1> HIDE DEF group
<1>5. /\ windows' \in [Ids -> SUBSET Timeouts] /\ WindowsInv'
      /\ \A s \in groups' : windows[s.id] \subseteq windows'[s.id]
  BY <1>1, <1>2, <1>3, RecordWindows DEF TypeOK
<1>6. CASE \E r \in jobs : same(r)
  <2>1. jobs' = {IF same(r) THEN UpdatedJob(r, group, st, now) ELSE r : r \in jobs}
    BY <1>2, <1>6
  <2>2. group \in groups /\ groups' = groups
    BY <1>1, <1>2, <1>3, <1>6 DEF Integrity, TypeOK, GroupRows, Ids
  <2> DEFINE new(r) == UpdatedJob(r, group, st, now)
  <2>3. \A r \in jobs : /\ new(r) \in JobRows
                        /\ new(r).id = r.id /\ new(r).group = r.group /\ new(r).name = r.name
                        /\ new(r).acked => st \in UnhealthyStatuses
                        /\ new(r).status = st
                        /\ new(r).updatedAt = now
                        /\ new(r).expiresAt = now + EffectiveExpiration(group)
    <3>1. now + EffectiveExpiration(group) \in Nat
      BY <1>4
    <3> QED
      BY <3>1, <1>1 DEF TypeOK, JobRows, UpdatedJob, Healthy
  <2> HIDE DEF new
  <2>4. jobs' = {IF same(r) THEN new(r) ELSE r : r \in jobs}
    BY <2>1 DEF new
  <2>5. TypeOK'
    BY <2>2, <2>3, <2>4, <1>1, <1>2, <1>5 DEF TypeOK
  <2>6. Integrity'
    BY <2>2, <2>3, <2>4, <1>1 DEF Integrity
  <2>7. AckedImpliesUnhealthy'
    BY <2>3, <2>4, <1>1 DEF AckedImpliesUnhealthy
  <2>8. \A t \in jobs' :
           \/ t \in jobs
           \/ t.group = group.id /\ t.updatedAt = now /\ t.expiresAt = now + EffectiveExpiration(group)
    BY <2>3, <2>4
  <2> QED
    BY <1>2, <1>5, <2>5, <2>6, <2>7, <2>8 DEF Tables
<1>7. CASE ~\E r \in jobs : same(r)
  <2> DEFINE new == InsertedJob(group, j, st, now)
  <2>1. jobs' = jobs \cup {new}
    BY <1>2, <1>7
  <2>2. /\ new.group = group.id /\ new.name = j /\ ~new.acked
        /\ new.updatedAt = now /\ new.expiresAt = now + EffectiveExpiration(group)
    BY DEF InsertedJob
  <2>3. new.id \in Ids /\ \A r \in jobs : r.id < new.id
    <3>1. \A r \in jobs : r.id \in Ids
      BY <1>1 DEF TypeOK, JobRows
    <3> QED
      BY <3>1, <2>1, NewIdFresh DEF InBound, InsertedJob
  <2>4. new \in JobRows
    <3>1. group.id \in Ids /\ now + EffectiveExpiration(group) \in Nat
      BY <1>3, <1>4 DEF GroupRows
    <3> QED
      BY <3>1, <2>3 DEF JobRows, InsertedJob
  <2> HIDE DEF new
  <2>5. TypeOK'
    BY <2>1, <2>4, <1>1, <1>2, <1>3, <1>5 DEF TypeOK
  <2>6. Integrity'
    <3>1. \A r, s \in groups' : r.id = s.id \/ r.name = s.name => r = s
      BY <1>1, <1>2, <1>3 DEF Integrity, TypeOK, GroupRows, Ids
    <3>2. \A r \in jobs : r.id # new.id /\ <<r.group, r.name>> # <<new.group, new.name>>
      BY <2>2, <2>3, <1>1, <1>7 DEF TypeOK, JobRows, Ids
    <3>3. \A r, s \in jobs' : r.id = s.id \/ <<r.group, r.name>> = <<s.group, s.name>> => r = s
      BY <3>2, <2>1, <1>1 DEF Integrity
    <3>4. \A r \in jobs' : \E s \in groups' : s.id = r.group
      BY <2>1, <2>2, <1>1, <1>2 DEF Integrity
    <3> QED
      BY <3>1, <3>3, <3>4 DEF Integrity
  <2>7. AckedImpliesUnhealthy'
    BY <2>1, <2>2, <1>1 DEF AckedImpliesUnhealthy
  <2>8. \A t \in jobs' :
           \/ t \in jobs
           \/ t.group = group.id /\ t.updatedAt = now /\ t.expiresAt = now + EffectiveExpiration(group)
    BY <2>1, <2>2
  <2> QED
    BY <1>2, <1>5, <2>5, <2>6, <2>7, <2>8 DEF Tables
<1> QED
  BY <1>6, <1>7

\* So it preserves the invariant.
LEMMA UpsertStep ==
    ASSUME Inv, NEW g \in GroupNames, NEW j \in JobNames, NEW st \in Statuses,
           NEW now \in Nat, UpsertJob(g, j, st, now), InBound, UNCHANGED clock
    PROVE  Inv'
<1>1. /\ Tables' /\ WindowsInv' /\ cfg' = cfg
      /\ \A s \in groups' : windows[s.id] \subseteq windows'[s.id]
  BY UpsertRows DEF Inv, Tables
<1>2. PICK group \in groups' :
          /\ groups' = groups \cup {group}
          /\ \A t \in jobs' :
                \/ t \in jobs
                \/ t.group = group.id /\ t.updatedAt = now /\ t.expiresAt = now + EffectiveExpiration(group)
  BY UpsertRows DEF Inv, Tables
<1>3. EffectiveExpiration(group)' = EffectiveExpiration(group) /\ EffectiveExpiration(group) \in Nat
  BY <1>1, EffectiveType DEF Tables, TypeOK, Inv, EffectiveExpiration
<1>4. ASSUME NEW t \in jobs' PROVE \E w \in windows'[t.group] : Fits(t, w)
  <2>1. CASE t \in jobs
    <3>1. \E s \in groups' : s.id = t.group
      BY <1>1 DEF Tables, Integrity
    <3> QED
      BY <1>1, <2>1, <3>1 DEF Inv, ExpiryMatchesConfig
  <2>2. CASE t \notin jobs
    <3>1. t.group = group.id /\ t.updatedAt = now /\ t.expiresAt = now + EffectiveExpiration(group)
      BY <1>2, <2>2
    <3>2. EffectiveExpiration(group) \in windows'[group.id]
      BY <1>1, <1>3 DEF WindowsInv
    <3>3. Fits(t, EffectiveExpiration(group))
      BY <1>3, <3>1 DEF Fits
    <3> QED
      BY <3>1, <3>2, <3>3
  <2> QED
    BY <2>1, <2>2
<1> QED
  BY <1>1, <1>4 DEF Inv, Tables, ExpiryMatchesConfig

\* Deletions: what is left of the tables is still consistent.
LEMMA ShrinkTables ==
    ASSUME Tables, groups' \subseteq groups, jobs' \subseteq jobs, cfg' = cfg, clock' \in Nat,
           windows' \in [Ids -> SUBSET Timeouts],
           \A r \in jobs' : \E s \in groups' : s.id = r.group
    PROVE  Tables'
BY DEF Tables, TypeOK, Integrity, AckedImpliesUnhealthy

\* A step that only removes rows, and no group that still has jobs, keeps the invariant.
LEMMA ShrinkStep ==
    ASSUME Inv, groups' \subseteq groups, jobs' \subseteq jobs, cfg' = cfg, clock' \in Nat,
           Record(windows) \/ UNCHANGED <<groups, windows>>,
           \A r \in jobs' : \E s \in groups' : s.id = r.group
    PROVE  Inv'
<1>1. /\ windows' \in [Ids -> SUBSET Timeouts] /\ WindowsInv'
      /\ \A s \in groups' : windows[s.id] \subseteq windows'[s.id]
  <2>1. CASE Record(windows)
    BY <2>1, RecordWindows DEF Inv, TypeOK
  <2>2. CASE UNCHANGED <<groups, windows>>
    BY <2>2 DEF Inv, TypeOK, WindowsInv, EffectiveExpiration
  <2> QED
    BY <2>1, <2>2
<1>2. TypeOK' /\ Integrity' /\ AckedImpliesUnhealthy'
  BY <1>1, ShrinkTables DEF Inv, Tables
<1>3. ExpiryMatchesConfig'
  BY <1>1 DEF Inv, ExpiryMatchesConfig
<1> QED
  BY <1>1, <1>2, <1>3 DEF Inv

\* An acknowledgement, of whatever set of ackable jobs.
LEMMA AckStep ==
    ASSUME Inv, NEW A \in SUBSET jobs, \A r \in A : Ackable(r),
           jobs' = {IF r \in A THEN Acked(r) ELSE r : r \in jobs},
           UNCHANGED <<groups, cfg, windows, clock>>
    PROVE  Inv'
<1>1. \A r \in A : /\ Acked(r) \in JobRows
                   /\ Acked(r).id = r.id /\ Acked(r).group = r.group /\ Acked(r).name = r.name
                   /\ Acked(r).status = r.status /\ r.status \in UnhealthyStatuses
                   /\ Acked(r).updatedAt = r.updatedAt /\ Acked(r).expiresAt = r.expiresAt
  BY DEF Inv, TypeOK, JobRows, Acked, Ackable
<1>2. TypeOK'
  BY <1>1 DEF Inv, TypeOK
<1>3. Integrity'
  BY <1>1 DEF Inv, Integrity
<1>4. AckedImpliesUnhealthy'
  BY <1>1 DEF Inv, AckedImpliesUnhealthy
<1>5. ExpiryMatchesConfig'
  BY <1>1 DEF Inv, ExpiryMatchesConfig, Fits
<1>6. WindowsInv'
  BY DEF Inv, WindowsInv, EffectiveExpiration
<1> QED
  BY <1>2, <1>3, <1>4, <1>5, <1>6 DEF Inv

\* A transition by the timeout pass only moves updated_at forward, so the expiry
\* it leaves alone stays within the window.
LEMMA TransitionStep ==
    ASSUME Inv, NEW overdue \in SUBSET jobs, NEW st \in {"timeout", "stale"}, NEW now \in Nat,
           \A r \in overdue : r.updatedAt < now,
           TransitionOverdue(overdue, st, now), UNCHANGED clock
    PROVE  Inv'
<1> DEFINE new(r) == [r EXCEPT !.status = st, !.acked = FALSE, !.updatedAt = now]
<1>1. \A r \in jobs : /\ new(r) \in JobRows
                      /\ new(r).id = r.id /\ new(r).group = r.group /\ new(r).name = r.name
                      /\ new(r).status = st /\ ~new(r).acked
                      /\ new(r).updatedAt = now /\ new(r).expiresAt = r.expiresAt
  BY DEF Inv, TypeOK, JobRows, Statuses
<1>2. /\ jobs' = {IF r \in overdue THEN new(r) ELSE r : r \in jobs}
      /\ UNCHANGED <<groups, cfg, windows>>
  BY DEF TransitionOverdue
<1> HIDE DEF new
<1>3. TypeOK'
  BY <1>1, <1>2 DEF Inv, TypeOK
<1>4. Integrity'
  BY <1>1, <1>2 DEF Inv, Integrity
<1>5. AckedImpliesUnhealthy'
  BY <1>1, <1>2 DEF Inv, AckedImpliesUnhealthy
<1>6. ASSUME NEW r \in jobs
      PROVE  \E w \in windows'[r.group] : Fits(IF r \in overdue THEN new(r) ELSE r, w)
  <2>1. PICK w \in windows[r.group] : Fits(r, w)
    BY DEF Inv, ExpiryMatchesConfig
  <2>2. w \in Nat /\ r.expiresAt \in Nat /\ r.updatedAt \in Nat
    BY <2>1, StoreAssumption DEF Inv, TypeOK, JobRows
  <2>3. r \in overdue => r.expiresAt <= now + w
    BY <2>1, <2>2 DEF Fits
  <2>4. r \in overdue => Fits(new(r), w)
    BY <1>1, <2>3 DEF Fits
  <2> QED
    BY <1>2, <2>1, <2>4
<1>7. ExpiryMatchesConfig'
  <2> SUFFICES ASSUME NEW t \in jobs' PROVE \E w \in windows'[t.group] : Fits(t, w)
    BY DEF ExpiryMatchesConfig
  <2>1. PICK r \in jobs : t = IF r \in overdue THEN new(r) ELSE r
    BY <1>2
  <2>2. t.group = r.group
    BY <1>1, <2>1
  <2> QED
    BY <1>6, <2>1, <2>2
<1>8. WindowsInv'
  BY <1>2 DEF Inv, WindowsInv, EffectiveExpiration
<1> QED
  BY <1>3, <1>4, <1>5, <1>7, <1>8 DEF Inv

\* A refresh of expires_at: every job of the groups expires by the new window, and
\* no other changes.
LEMMA CascadeStep ==
    ASSUME Inv, NEW ids, NEW hours \in Timeouts, jobs' = Cascaded(ids, hours),
           Record(Refreshed(ids, hours)), cfg' \in Settings, UNCHANGED <<groups, clock>>
    PROVE  Inv'
<1> DEFINE new(r) == [r EXCEPT !.expiresAt = r.updatedAt + hours]
           kept == Refreshed(ids, hours)
<1>0. hours \in Nat
  BY StoreAssumption
<1>1. \A r \in jobs : /\ new(r) \in JobRows
                      /\ new(r).id = r.id /\ new(r).group = r.group /\ new(r).name = r.name
                      /\ new(r).status = r.status /\ new(r).acked = r.acked
                      /\ new(r).updatedAt = r.updatedAt /\ new(r).expiresAt = r.updatedAt + hours
  BY <1>0 DEF Inv, TypeOK, JobRows
<1>2. jobs' = {IF r.group \in ids THEN new(r) ELSE r : r \in jobs}
  BY DEF Cascaded
<1>3. kept \in [Ids -> SUBSET Timeouts] /\ \A i \in Ids : kept[i] = IF i \in ids THEN {hours} ELSE windows[i]
  BY DEF Refreshed, Inv, TypeOK
<1> HIDE DEF new, kept
<1>4. /\ windows' \in [Ids -> SUBSET Timeouts] /\ WindowsInv'
      /\ \A s \in groups' : kept[s.id] \subseteq windows'[s.id]
  <2>1. Record(kept) /\ groups' \subseteq GroupRows
    BY DEF kept, Inv, TypeOK
  <2> QED
    BY <1>3, <2>1, RecordWindows
<1>5. TypeOK'
  BY <1>1, <1>2, <1>4 DEF Inv, TypeOK
<1>6. Integrity'
  BY <1>1, <1>2 DEF Inv, Integrity
<1>7. AckedImpliesUnhealthy'
  BY <1>1, <1>2 DEF Inv, AckedImpliesUnhealthy
<1>8. ExpiryMatchesConfig'
  <2> SUFFICES ASSUME NEW t \in jobs' PROVE \E w \in windows'[t.group] : Fits(t, w)
    BY DEF ExpiryMatchesConfig
  <2>1. PICK r \in jobs : t = IF r.group \in ids THEN new(r) ELSE r
    BY <1>2
  <2>2. t.group = r.group /\ r.group \in Ids /\ kept[r.group] \subseteq windows'[r.group]
    BY <1>1, <1>4, <2>1 DEF Inv, Integrity, TypeOK, JobRows
  <2>3. CASE r.group \in ids
    <3>1. hours \in windows'[t.group]
      BY <1>3, <2>2, <2>3
    <3>2. t.updatedAt \in Nat /\ t.expiresAt = t.updatedAt + hours
      BY <1>1, <2>1, <2>3 DEF Inv, TypeOK, JobRows
    <3>3. Fits(t, hours)
      BY <1>0, <3>2 DEF Fits
    <3> QED
      BY <3>1, <3>3
  <2>4. CASE r.group \notin ids
    BY <1>3, <2>1, <2>2, <2>4 DEF Inv, ExpiryMatchesConfig
  <2> QED
    BY <2>3, <2>4
<1> QED
  BY <1>4, <1>5, <1>6, <1>7, <1>8 DEF Inv

-----------------------------------------------------------------------------
(* The invariant is inductive.                                             *)

\* An instant a handler captured is a natural number, at most the clock.
LEMMA CapturedType ==
    ASSUME clock \in Nat, NEW now \in Captured
    PROVE  now \in Nat /\ now <= clock
BY DEF Captured

\* The invariant holds of the empty database.
LEMMA InvInit == Init => Inv
BY StoreAssumption DEF Init, Inv, TypeOK, Integrity, AckedImpliesUnhealthy, ExpiryMatchesConfig, WindowsInv

\* Neither UPDATE of the timeout pass breaks it.
LEMMA InvTimeoutPass ==
    ASSUME Inv, TimeoutPass, UNCHANGED clock
    PROVE  Inv'
<1>1. PICK now \in Captured : \/ TransitionOverdue(TimedOut(cfg.progress, now), "timeout", now)
                              \/ TransitionOverdue(GoneStale(cfg.staleness, now), "stale", now)
  BY DEF TimeoutPass
<1>2. now \in Nat /\ cfg \in Settings
  BY CapturedType DEF Inv, TypeOK
<1>3. \A r \in jobs : r.updatedAt \in Nat /\ GroupWithId(r.group) \in GroupRows
  BY DEF Inv, TypeOK, Integrity, JobRows, GroupWithId
<1>4. ASSUME NEW s \in GroupRows
      PROVE  /\ EffectiveOr(s.progress, cfg.progress) \in Nat \ {0}
             /\ EffectiveOr(s.staleness, cfg.staleness) \in Nat \ {0}
  BY <1>2, StoreAssumption DEF EffectiveOr, GroupRows, Settings
<1>5. \A r \in TimedOut(cfg.progress, now) : r \in jobs /\ r.updatedAt < now
  BY <1>2, <1>3, <1>4 DEF TimedOut, Overdue
<1>6. \A r \in GoneStale(cfg.staleness, now) : r \in jobs /\ r.updatedAt < now
  BY <1>2, <1>3, <1>4 DEF GoneStale, Overdue
<1>7. CASE TransitionOverdue(TimedOut(cfg.progress, now), "timeout", now)
  BY <1>2, <1>5, <1>7, TransitionStep
<1>8. CASE TransitionOverdue(GoneStale(cfg.staleness, now), "stale", now)
  BY <1>2, <1>6, <1>8, TransitionStep
<1> QED
  BY <1>1, <1>7, <1>8

\* A patch leaves well-formed settings, and the keys of a group.
LEMMA PatchedConfigType ==
    ASSUME cfg \in Settings, NEW patch \in ConfigPatches
    PROVE  [progress |-> Patched(cfg.progress, patch.progress),
            staleness |-> Patched(cfg.staleness, patch.staleness),
            expiration |-> Patched(cfg.expiration, patch.expiration)] \in Settings
<1>1. /\ Patched(cfg.progress, patch.progress) \in Timeouts
      /\ Patched(cfg.staleness, patch.staleness) \in Timeouts
      /\ Patched(cfg.expiration, patch.expiration) \in Timeouts
  BY StoreAssumption DEF ConfigPatch, Settings, Patched
<1> QED
  BY <1>1 DEF Settings

\* A patched group is a group of the same id and name.
LEMMA PatchedGroupType ==
    ASSUME NEW r \in GroupRows, NEW patch \in GroupPatches
    PROVE  /\ PatchedGroup(r, patch) \in GroupRows
           /\ PatchedGroup(r, patch).id = r.id
           /\ PatchedGroup(r, patch).name = r.name
           /\ PatchedGroup(r, patch).expiration = Patched(r.expiration, patch.expiration)
<1>1. /\ Patched(r.progress, patch.progress) \in Timeouts \cup {NULL}
      /\ Patched(r.staleness, patch.staleness) \in Timeouts \cup {NULL}
      /\ Patched(r.expiration, patch.expiration) \in Timeouts \cup {NULL}
  BY StoreAssumption DEF GroupPatch, GroupRows, Patched
<1>2. patch \in GroupPatch
  BY StoreAssumption
<1>3. Patched(r.enabled, patch.enabled) \in BOOLEAN
  BY <1>2, Zenon DEF GroupPatch, GroupRows, Patched
<1> QED
  BY <1>1, <1>3 DEF PatchedGroup, GroupRows

\* The UPDATE of a group's settings keeps the keys and adds what applies now to
\* the group's windows; the jobs are as they were.
LEMMA SetGroupStep ==
    ASSUME Inv, NEW i, NEW patch \in GroupPatches, SetGroupConfig(i, patch), UNCHANGED clock
    PROVE  Inv'
<1> DEFINE new(r) == PatchedGroup(r, patch)
<1>1. /\ groups' = {IF r.id = i THEN new(r) ELSE r : r \in groups}
      /\ UNCHANGED <<jobs, cfg>> /\ Record(windows)
  BY DEF SetGroupConfig
<1>2. \A r \in groups : new(r) \in GroupRows /\ new(r).id = r.id /\ new(r).name = r.name
  BY PatchedGroupType DEF Inv, TypeOK
<1> HIDE DEF new
<1>3. /\ groups' \subseteq GroupRows
      /\ \A r \in groups : \E s \in groups' : s.id = r.id
  BY <1>1, <1>2 DEF Inv, TypeOK
<1>4. /\ windows' \in [Ids -> SUBSET Timeouts] /\ WindowsInv'
      /\ \A s \in groups' : windows[s.id] \subseteq windows'[s.id]
  BY <1>1, <1>3, RecordWindows DEF Inv, TypeOK
<1>5. TypeOK'
  BY <1>1, <1>3, <1>4 DEF Inv, TypeOK
<1>6. Integrity'
  <2>1. \A r, s \in groups' : r.id = s.id \/ r.name = s.name => r = s
    BY <1>1, <1>2 DEF Inv, Integrity
  <2>2. \A r \in jobs' : \E s \in groups' : s.id = r.group
    BY <1>1, <1>3 DEF Inv, Integrity
  <2> QED
    BY <1>1, <2>1, <2>2 DEF Inv, Integrity
<1>7. AckedImpliesUnhealthy'
  BY <1>1 DEF Inv, AckedImpliesUnhealthy
<1>8. ExpiryMatchesConfig'
  BY <1>1, <1>4, <1>6 DEF Inv, ExpiryMatchesConfig, Integrity
<1> QED
  BY <1>4, <1>5, <1>6, <1>7, <1>8 DEF Inv

\* No change of settings breaks it, with or without the refresh that belongs to it.
LEMMA InvConfigure ==
    ASSUME Inv, Configure, UNCHANGED clock
    PROVE  Inv'
<1>1. ASSUME NEW patch \in ConfigPatches, SetGlobalConfig(patch)
      PROVE  Inv'
  <2> DEFINE inherit == {r.id : r \in {s \in groups : s.expiration = NULL}}
  <2>1. /\ cfg' = [progress |-> Patched(cfg.progress, patch.progress),
                   staleness |-> Patched(cfg.staleness, patch.staleness),
                   expiration |-> Patched(cfg.expiration, patch.expiration)]
        /\ jobs' = IF cfg'.expiration # cfg.expiration
                   THEN Cascaded(inherit, cfg'.expiration)
                   ELSE jobs
        /\ groups' = groups
        /\ Record(IF cfg'.expiration # cfg.expiration
                  THEN Refreshed(inherit, cfg'.expiration)
                  ELSE windows)
    BY <1>1 DEF SetGlobalConfig
  <2>2. cfg' \in Settings
    BY <2>1, PatchedConfigType DEF Inv, TypeOK
  <2> HIDE DEF inherit
  <2>3. CASE cfg'.expiration # cfg.expiration
    <3>1. cfg'.expiration \in Timeouts
      BY <2>2 DEF Settings
    <3>2. jobs' = Cascaded(inherit, cfg'.expiration) /\ Record(Refreshed(inherit, cfg'.expiration))
      BY <2>1, <2>3
    <3> QED
      BY <2>1, <2>2, <3>1, <3>2, CascadeStep
  <2>4. CASE cfg'.expiration = cfg.expiration
    <3>1. jobs' = jobs /\ groups' = groups /\ Record(windows)
      BY <2>1, <2>4
    <3>2. /\ windows' \in [Ids -> SUBSET Timeouts] /\ WindowsInv'
          /\ \A s \in groups' : windows[s.id] \subseteq windows'[s.id]
      BY <2>2, <3>1, RecordWindows DEF Inv, TypeOK
    <3>3. TypeOK' /\ Integrity' /\ AckedImpliesUnhealthy'
      BY <2>2, <3>1, <3>2 DEF Inv, TypeOK, Integrity, AckedImpliesUnhealthy
    <3>4. ExpiryMatchesConfig'
      BY <3>1, <3>2 DEF Inv, ExpiryMatchesConfig, Integrity
    <3> QED
      BY <3>2, <3>3, <3>4 DEF Inv
  <2> QED
    BY <2>3, <2>4
<1>2. CASE ConfigureGroup
  BY <1>2, SetGroupStep DEF ConfigureGroup
<1>3. CASE RefreshGroup
  <2>1. PICK i \in Ids, hours \in Timeouts : CascadeGroupExpiration(i, hours)
    BY <1>3 DEF RefreshGroup
  <2>2. /\ jobs' = Cascaded({i}, hours) /\ Record(Refreshed({i}, hours))
        /\ cfg' \in Settings /\ UNCHANGED <<groups, clock>>
    BY <2>1 DEF CascadeGroupExpiration, Inv, TypeOK
  <2> QED
    BY <2>2, CascadeStep
<1> QED
  BY <1>1, <1>2, <1>3 DEF Configure

\* No acknowledge breaks it.
LEMMA InvAck ==
    ASSUME Inv, Ack, UNCHANGED clock
    PROVE  Inv'
<1>1. ASSUME NEW i \in Ids, MarkAcked(i)
      PROVE  Inv'
  <2> DEFINE A == {r \in jobs : r.id = i /\ Ackable(r)}
  <2>1. jobs' = {IF r \in A THEN Acked(r) ELSE r : r \in jobs} /\ UNCHANGED <<groups, cfg, windows>>
    BY <1>1 DEF MarkAcked
  <2>2. A \in SUBSET jobs /\ \A r \in A : Ackable(r)
    OBVIOUS
  <2> HIDE DEF A
  <2> QED
    BY <2>1, <2>2, AckStep
<1>2. ASSUME NEW i \in Ids \cup {NULL}, AckUnhealthy(i)
      PROVE  Inv'
  <2> DEFINE A == {r \in jobs : Ackable(r) /\ (i = NULL \/ r.group = i)}
  <2>1. jobs' = {IF r \in A THEN Acked(r) ELSE r : r \in jobs} /\ UNCHANGED <<groups, cfg, windows>>
    BY <1>2 DEF AckUnhealthy
  <2>2. A \in SUBSET jobs /\ \A r \in A : Ackable(r)
    OBVIOUS
  <2> HIDE DEF A
  <2> QED
    BY <2>1, <2>2, AckStep
<1> QED
  BY <1>1, <1>2 DEF Ack

\* Cleanup removes groups only with all their jobs.
LEMMA InvCleanup ==
    ASSUME Inv, Cleanup, UNCHANGED clock
    PROVE  Inv'
<1>1. PICK statuses \in CleanupStatuses, age \in CleanupAges, now \in Captured :
          AdminCleanup(statuses, now - age)
  BY DEF Cleanup
<1> DEFINE emptied == Emptied({r \in jobs : r.status \in statuses /\ r.updatedAt < now - age})
<1>2. /\ groups' = {r \in groups : r.id \notin emptied}
      /\ jobs' \subseteq {r \in jobs : r.group \notin emptied}
      /\ cfg' = cfg /\ Record(windows)
  BY <1>1 DEF AdminCleanup
<1> HIDE DEF emptied
<1>3. \A r \in jobs' : \E s \in groups' : s.id = r.group
  BY <1>2 DEF Inv, Integrity
<1> QED
  BY <1>2, <1>3, ShrinkStep DEF Inv, TypeOK

\* Every step preserves the invariant.
LEMMA InvNext == Inv /\ [Next]_vars => Inv'
<1> SUFFICES ASSUME Inv, [Next]_vars
             PROVE  Inv'
  OBVIOUS
<1>1. CASE UNCHANGED vars
  BY <1>1 DEF vars, Inv, TypeOK, Integrity, AckedImpliesUnhealthy, ExpiryMatchesConfig,
     WindowsInv, EffectiveExpiration
<1>2. CASE Advance
  BY <1>2, ShrinkStep DEF Advance, db, Inv, TypeOK, Integrity
<1>3. ASSUME Write, UNCHANGED clock
      PROVE  Inv'
  <2>1. CASE Report
    <3>1. PICK g \in GroupNames, j \in JobNames, st \in Reported, now \in Captured :
              UpsertJob(g, j, st, now) /\ InBound
      BY <2>1 DEF Report
    <3>2. st \in Statuses /\ now \in Nat
      BY StoreAssumption, CapturedType DEF Inv, TypeOK
    <3> QED
      BY <3>1, <3>2, <1>3, UpsertStep
  <2>2. CASE Ack
    BY <2>2, <1>3, InvAck
  <2>3. CASE Delete
    <3>1. jobs' \subseteq jobs /\ UNCHANGED <<groups, cfg, windows>>
      BY <2>3 DEF Delete, DeleteJob
    <3>2. clock' \in Nat /\ \A r \in jobs' : \E s \in groups' : s.id = r.group
      BY <3>1, <1>3 DEF Inv, TypeOK, Integrity
    <3> QED
      BY <3>1, <3>2, ShrinkStep
  <2>4. CASE TimeoutPass
    BY <2>4, <1>3, InvTimeoutPass
  <2>5. CASE ExpirationPass
    <3>1. jobs' \subseteq jobs /\ UNCHANGED <<groups, cfg, windows>>
      BY <2>5 DEF ExpirationPass, ExpireBatch
    <3>2. clock' \in Nat /\ \A r \in jobs' : \E s \in groups' : s.id = r.group
      BY <3>1, <1>3 DEF Inv, TypeOK, Integrity
    <3> QED
      BY <3>1, <3>2, ShrinkStep
  <2>6. CASE Cleanup
    BY <2>6, <1>3, InvCleanup
  <2>7. CASE Configure
    BY <2>7, <1>3, InvConfigure
  <2> QED
    BY <2>1, <2>2, <2>3, <2>4, <2>5, <2>6, <2>7, <1>3 DEF Write
<1> QED
  BY <1>1, <1>2, <1>3 DEF Next

\* The tables satisfy the four invariants in every reachable state, for every
\* set of groups, jobs, settings, patches and bounds, and although the statements
\* of PUT /api/groups/<name>/config commit one by one.
THEOREM StoreInvariant == Spec => []Inv
BY InvInit, InvNext, PTL DEF Spec

\* Every write leaves well-formed rows.
THEOREM TypeCorrect == Spec => []TypeOK
<1>1. Inv => TypeOK
  BY DEF Inv
<1> QED
  BY <1>1, StoreInvariant, PTL

\* Keys stay unique and references resolve, although rowids are reused.
THEOREM KeysIntact == Spec => []Integrity
<1>1. Inv => Integrity
  BY DEF Inv
<1> QED
  BY <1>1, StoreInvariant, PTL

\* No interleaving of reports, acks and passes leaves an ack on a healthy job.
THEOREM AckOnlyUnhealthy == Spec => []AckedImpliesUnhealthy
<1>1. Inv => AckedImpliesUnhealthy
  BY DEF Inv
<1> QED
  BY <1>1, StoreInvariant, PTL

\* However the two statements of PUT /api/groups/<name>/config, other PUTs, reports
\* and passes of the worker interleave, and whether or not the second one follows,
\* each job expires by a setting that applied to its group since the last refresh.
THEOREM ExpiryInWindow == Spec => []ExpiryMatchesConfig
<1>1. Inv => ExpiryMatchesConfig
  BY DEF Inv
<1> QED
  BY <1>1, StoreInvariant, PTL

-----------------------------------------------------------------------------
(* Action properties.                                                      *)

\* An ack given to one failure never covers a later one that follows a recovery.
THEOREM FreshFailureUnacked == Spec => NewFailureNeedsAck
<1> DEFINE A == \A r \in jobs, s \in jobs' :
          r.id = s.id /\ r.status \in Healthy /\ s.status \in UnhealthyStatuses => ~s.acked
<1>1. ASSUME Inv, [Next]_vars
      PROVE  [A]_vars
  <2> SUFFICES ASSUME NEW r \in jobs, NEW s \in jobs', r.id = s.id, r.status \in Healthy,
                      s.status \in UnhealthyStatuses, Next
               PROVE  ~s.acked
    BY <1>1
  <2>1. /\ \A t \in jobs : t.id = s.id => t = r
        /\ r.acked = FALSE
    BY <1>1 DEF Inv, Integrity, AckedImpliesUnhealthy, Healthy, TypeOK, JobRows
  <2>2. CASE jobs' \subseteq jobs
    BY <2>1, <2>2
  <2>3. CASE Report
    <3>1. PICK g \in GroupNames, j \in JobNames, st \in Reported, now \in Captured :
              UpsertJob(g, j, st, now)
      BY <2>3 DEF Report
    <3> DEFINE group == IF GroupKnown(g) THEN GroupNamed(g) ELSE NewGroup(g)
               new(t) == UpdatedJob(t, group, st, now)
    <3>2. \A t \in jobs : new(t).id = t.id /\ (new(t).acked => t.acked)
      BY <1>1 DEF UpdatedJob, Inv, TypeOK, JobRows
    <3>3. InsertedJob(group, j, st, now).acked = FALSE
      BY DEF InsertedJob
    <3> HIDE DEF group
    <3>4. \/ \E t \in jobs : s = t \/ s = new(t)
          \/ s = InsertedJob(group, j, st, now)
      BY <3>1 DEF UpsertJob, group
    <3> HIDE DEF new
    <3> QED
      BY <3>2, <3>3, <3>4, <2>1
  <2>4. CASE Ack
    <3>1. PICK t \in jobs : s = t \/ (Ackable(t) /\ s = Acked(t))
      BY <2>4 DEF Ack, MarkAcked, AckUnhealthy
    <3>2. t.id = s.id /\ (Ackable(t) => t.status \in UnhealthyStatuses)
      BY <3>1, <1>1 DEF Ackable, Acked, Inv, TypeOK, JobRows
    <3> QED
      BY <3>1, <3>2, <2>1 DEF Healthy
  <2>5. CASE TimeoutPass
    <3>1. \E t \in jobs : s.id = t.id /\ (s.acked => s = t)
      <4>1. ASSUME NEW overdue, NEW st, NEW now, TransitionOverdue(overdue, st, now)
            PROVE  \E t \in jobs : s.id = t.id /\ (s.acked => s = t)
        BY <4>1, <1>1 DEF TransitionOverdue, Inv, TypeOK, JobRows
      <4> QED
        BY <4>1, <2>5 DEF TimeoutPass
    <3> QED
      BY <3>1, <2>1
  <2>6. CASE Configure
    <3>1. \E t \in jobs : s.id = t.id /\ s.acked = t.acked
      <4>1. ASSUME NEW ids, NEW hours, jobs' = Cascaded(ids, hours)
            PROVE  \E t \in jobs : s.id = t.id /\ s.acked = t.acked
        BY <4>1, <1>1 DEF Cascaded, Inv, TypeOK, JobRows
      <4>2. \/ jobs' = jobs
            \/ \E ids, hours : jobs' = Cascaded(ids, hours)
        BY <2>6, Zenon DEF Configure, SetGlobalConfig, ConfigureGroup, SetGroupConfig, RefreshGroup,
           CascadeGroupExpiration
      <4> QED
        BY <4>1, <4>2
    <3> QED
      BY <3>1, <2>1
  <2>7. CASE Delete \/ ExpirationPass \/ Cleanup \/ Advance
    <3>1. jobs' \subseteq jobs
      BY <2>7 DEF Delete, DeleteJob, ExpirationPass, ExpireBatch, Cleanup, AdminCleanup, Advance, db
    <3> QED
      BY <3>1, <2>2
  <2> QED
    BY <2>3, <2>4, <2>5, <2>6, <2>7 DEF Next, Write
<1> QED
  BY <1>1, StoreInvariant, PTL DEF Spec, NewFailureNeedsAck

\* A cleanup never takes a fresh job along with its group.
THEOREM CleanupSparesFreshJobs == Spec => GroupsDieWithOldJobsOnly
<1> DEFINE A == \A g \in groups : (\A s \in groups' : s.id # g.id) =>
          /\ JobsOf(g.id) # {}
          /\ \A r \in JobsOf(g.id) : \E age \in CleanupAges : r.updatedAt < clock - age
<1>1. ASSUME Inv, [Next]_vars
      PROVE  [A]_vars
  <2> SUFFICES ASSUME NEW g \in groups, \A s \in groups' : s.id # g.id, Next
               PROVE  /\ JobsOf(g.id) # {}
                      /\ \A r \in JobsOf(g.id) : \E age \in CleanupAges : r.updatedAt < clock - age
    BY <1>1
  <2>1. CASE groups \subseteq groups'
    BY <2>1
  <2>2. CASE Cleanup
    <3>1. PICK statuses \in CleanupStatuses, age \in CleanupAges, now \in Captured :
              AdminCleanup(statuses, now - age)
      BY <2>2 DEF Cleanup
    <3> DEFINE matching == {r \in jobs : r.status \in statuses /\ r.updatedAt < now - age}
    <3>2. g.id \in Emptied(matching)
      BY <3>1 DEF AdminCleanup
    <3>3. JobsOf(g.id) # {} /\ JobsOf(g.id) \subseteq matching
      BY <3>2 DEF Emptied, JobsOf
    <3>4. /\ clock \in Nat /\ age \in Nat /\ now \in Nat /\ now <= clock
          /\ \A r \in jobs : r.updatedAt \in Nat
      BY <1>1, CapturedType, StoreAssumption DEF Inv, TypeOK, JobRows
    <3> QED
      BY <3>3, <3>4
  <2>3. CASE Configure
    <3>1. CASE (\E patch \in ConfigPatches : SetGlobalConfig(patch)) \/ RefreshGroup
      BY <3>1, <2>1 DEF SetGlobalConfig, RefreshGroup, CascadeGroupExpiration
    <3>2. CASE ConfigureGroup
      <4>1. PICK i \in Ids, patch \in GroupPatches : SetGroupConfig(i, patch)
        BY <3>2 DEF ConfigureGroup
      <4>2. \A r \in groups : PatchedGroup(r, patch).id = r.id
        BY <1>1 DEF Inv, TypeOK, GroupRows, PatchedGroup
      <4>3. \E s \in groups' : s.id = g.id
        BY <4>1, <4>2 DEF SetGroupConfig
      <4> QED
        BY <4>3
    <3> QED
      BY <2>3, <3>1, <3>2 DEF Configure
  <2>4. CASE Report \/ Ack \/ Delete \/ TimeoutPass \/ ExpirationPass \/ Advance
    <3>1. groups \subseteq groups'
      BY <2>4 DEF Report, UpsertJob, Ack, MarkAcked, AckUnhealthy, Delete, DeleteJob, TimeoutPass,
         TransitionOverdue, ExpirationPass, ExpireBatch, Advance, db
    <3> QED
      BY <3>1, <2>1
  <2> QED
    BY <2>2, <2>3, <2>4 DEF Next, Write
<1> QED
  BY <1>1, StoreInvariant, PTL DEF Spec, GroupsDieWithOldJobsOnly
=============================================================================
