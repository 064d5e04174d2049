------------------------ MODULE SettingsFormsProofs ------------------------
(***************************************************************************)
(* Theorems of SettingsForms, for all numbers, bounds and settings.        *)
(***************************************************************************)
EXTENDS SettingsForms, TLAPS

-----------------------------------------------------------------------------
(* The types.                                                              *)

Values == Minutes \cup Hours \cup BOOLEAN \cup {NULL}
Over(fields) == {s \in [fields -> Values] : \A f \in fields : s[f] \in Range(f)}

Entered == Over(Fields[form])               \* what a form holds or sends
Stored == Over(Columns[form]) \cup {NULL}   \* what a query holds

Requests == [id : Nat, put : Entered, waiting : BOOLEAN, mine : BOOLEAN,
             snapshot : Stored \X BOOLEAN, stage : {"sent", "paused", "applied", "refused"}]

TypeInv ==
    /\ form \in Forms
    /\ server \in Over(Columns[form])
    /\ cache \in Stored /\ answer \in Stored
    /\ base \in Entered /\ values \in Entered
    /\ saves \subseteq Requests
    /\ {guess, invalid, failed, online, mounted, open} \subseteq BOOLEAN
    /\ fetch \in {"idle", "sent", "answered", "paused"}
    /\ acts \in Nat

\* A range is part of the values, and of the fields of a form.
LEMMA Ranges ==
    /\ Range("progress") = Minutes \cup {NULL}
    /\ Range("enabled") = BOOLEAN
    /\ Range("staleness") = Hours \cup {NULL}
    /\ Range("expiration") = Hours \cup {NULL}
    /\ \A f : Range(f) \subseteq Values
<1>1. \A f : Range(f) \subseteq Values
  BY DEF Range, Values
<1> QED
  BY <1>1 DEF Range

\* The fields of each form and the columns of its settings.
LEMMA FieldsAre ==
    /\ Forms = {"global", "group", "submit"}
    /\ Fields["global"] = {"progress", "staleness"}
    /\ Fields["group"] = {"progress", "expiration", "enabled", "staleness"}
    /\ Fields["submit"] = {"progress"}
    /\ Columns["global"] = {"progress", "staleness", "expiration"}
    /\ Columns["group"] = Fields["group"]
    /\ Columns["submit"] = Fields["submit"]
BY DEF Forms, Fields, Columns

\* The form's fields are columns.
LEMMA FieldsAreColumns == ASSUME NEW f \in Forms PROVE Fields[f] \subseteq Columns[f]
BY FieldsAre

\* Holds is membership in Over.
LEMMA HoldsOver ==
    ASSUME NEW fields, NEW s
    PROVE  s \in Over(fields) <=> Holds(s, fields)
<1>1. ASSUME s \in Over(fields) PROVE Holds(s, fields)
  BY <1>1 DEF Over, Holds
<1>2. ASSUME Holds(s, fields) PROVE s \in Over(fields)
  BY <1>2, Ranges DEF Over, Holds
<1> QED
  BY <1>1, <1>2

\* What the fields are reset to is well typed.
LEMMA BlankType == ASSUME form \in Forms PROVE Blank \in Entered
<1> DEFINE v(f) == CASE f = "enabled" -> FALSE [] f = "expiration" -> DefaultHours [] OTHER -> NULL
<1>1. \A f \in Fields[form] : v(f) \in Range(f)
  BY FieldsAre, Ranges, FormsAssumption
<1>2. \A f \in Fields[form] : v(f) \in Values
  BY <1>1, Ranges
<1>3. Blank = [f \in Fields[form] |-> v(f)]
  BY DEF Blank
<1> HIDE DEF v
<1> QED
  BY <1>1, <1>2, <1>3 DEF Entered, Over

\* What the fields are reset to from loaded settings is well typed.
LEMMA FilledType ==
    ASSUME form \in Forms, NEW s \in Over(Columns[form])
    PROVE  Filled(s) \in Entered
<1> DEFINE v(f) == IF f = "expiration" /\ s[f] = NULL THEN DefaultHours ELSE s[f]
<1>1. \A f \in Fields[form] : s[f] \in Range(f)
  BY FieldsAreColumns DEF Over
<1>2. \A f \in Fields[form] : v(f) \in Range(f)
  BY <1>1, Ranges, FormsAssumption
<1>3. \A f \in Fields[form] : v(f) \in Values
  BY <1>2, Ranges
<1>4. Filled(s) = [f \in Fields[form] |-> v(f)]
  BY DEF Filled
<1> HIDE DEF v
<1> QED
  BY <1>2, <1>3, <1>4 DEF Entered, Over

\* What a form sends is well typed.
LEMMA BodyType == ASSUME form \in Forms, values \in Entered PROVE Body \in Entered
<1>1. CASE form = "group" /\ ~values.enabled
  <2>1. Body = [values EXCEPT !["staleness"] = NULL]
    BY <1>1 DEF Body
  <2>2. NULL \in Range("staleness") /\ NULL \in Values
    BY Ranges
  <2>3. Body \in [Fields[form] -> Values]
    BY <2>1, <2>2 DEF Entered, Over
  <2>4. \A f \in Fields[form] : Body[f] = IF f = "staleness" THEN NULL ELSE values[f]
    BY <2>1 DEF Entered, Over
  <2> QED
    BY <2>2, <2>3, <2>4 DEF Entered, Over
<1>2. CASE ~(form = "group" /\ ~values.enabled)
  BY <1>2 DEF Body
<1> QED
  BY <1>1, <1>2

\* A request merged into settings.
LEMMA MergedType ==
    ASSUME form \in Forms, NEW put \in Entered, NEW s \in Over(Columns[form])
    PROVE  Merged(put, s) \in Over(Columns[form])
<1>1. DOMAIN put = Fields[form] /\ DOMAIN s = Columns[form]
  BY DEF Entered, Over
<1> DEFINE v(f) == IF f \in DOMAIN put THEN put[f] ELSE s[f]
<1>2. \A f \in Columns[form] : v(f) \in Range(f) /\ v(f) \in Values
  BY <1>1 DEF Entered, Over
<1>3. Merged(put, s) = [f \in Columns[form] |-> v(f)]
  BY <1>1 DEF Merged
<1> HIDE DEF v
<1> QED
  BY <1>2, <1>3 DEF Over

-----------------------------------------------------------------------------
(* The invariant.                                                          *)

\* An open form shows what the query holds.
FormInv ==
    /\ open => mounted
    /\ open /\ cache # NULL => base = Filled(cache)

\* Only the settings are a query: the dialog of a status loads nothing.
QueryInv ==
    /\ answer # NULL => fetch = "answered"
    /\ ~HasQuery => /\ cache = NULL /\ ~guess /\ fetch = "idle"
                    /\ \A r \in saves : r.snapshot[1] = NULL

\* The saves on their way.
SavesInv ==
    /\ \A r \in saves : r.id <= acts
    /\ \A r \in saves : r.waiting \/ r.stage = "sent"
    /\ ServerRuleKept

IInv == TypeInv /\ FormInv /\ QueryInv /\ SavesInv /\ GuessIsTemporary

-----------------------------------------------------------------------------
(* Types are kept.                                                         *)

\* A reset keeps the types of the fields, and shows what the query then holds.
LEMMA RefillType ==
    ASSUME TypeInv, NEW settings \in Stored, NEW isOpen \in BOOLEAN, Refill(settings, isOpen)
    PROVE  base' \in Entered /\ values' \in Entered
<1>1. CASE isOpen /\ settings # NULL /\ (~open \/ settings # cache)
  <2>1. Filled(settings) \in Entered
    BY <1>1, FilledType DEF TypeInv, Stored
  <2> QED
    BY <1>1, <2>1 DEF Refill
<1>2. CASE ~(isOpen /\ settings # NULL /\ (~open \/ settings # cache))
  BY <1>2 DEF Refill, TypeInv
<1> QED
  BY <1>1, <1>2

\* A new save is well typed.
LEMMA RequestType ==
    ASSUME TypeInv, NEW n \in Nat, NEW b \in {"sent", "paused"}
    PROVE  [id |-> n, put |-> Body, waiting |-> TRUE, mine |-> TRUE,
            snapshot |-> <<cache, guess>>, stage |-> b] \in Requests
<1>1. Body \in Entered
  BY BodyType DEF TypeInv
<1> QED
  BY <1>1 DEF TypeInv, Requests

\* What the client and the network do to a save keeps its type.
LEMMA ReplacedType ==
    ASSUME TypeInv, NEW r \in saves
    PROVE  /\ [r EXCEPT !.mine = FALSE] \in Requests
           /\ [r EXCEPT !.waiting = FALSE] \in Requests
           /\ \A b \in {"sent", "applied", "refused"} : [r EXCEPT !.stage = b] \in Requests
<1>1. r \in Requests
  BY DEF TypeInv
<1> QED
  BY <1>1 DEF Requests

\* So does settling one.
LEMMA SettledType ==
    ASSUME TypeInv, NEW r \in saves, Settled(r)
    PROVE  saves' \subseteq Requests
BY ReplacedType DEF Settled, TypeInv

\* A fetch keeps the types of the query.
LEMMA FetchType ==
    ASSUME TypeInv
    PROVE  /\ Fetch => fetch' \in {"sent", "paused"} /\ answer' \in Stored
           /\ StartFetch => /\ fetch' \in {"sent", "paused"} /\ answer' \in Stored
                            /\ failed' \in BOOLEAN
           /\ Invalidate => /\ fetch' \in {"idle", "sent", "answered", "paused"} /\ answer' \in Stored
                            /\ {invalid', failed'} \subseteq BOOLEAN
BY DEF TypeInv, Fetch, StartFetch, Invalidate, Stored, HasQuery

\* Every step keeps the types.
LEMMA TypeNext == ASSUME TypeInv, [Next]_vars PROVE TypeInv'
<1> USE DEF query, page
<1>0. ASSUME form' = form
      PROVE  /\ Entered' = Entered /\ Stored' = Stored /\ Requests' = Requests
             /\ Over(Columns[form])' = Over(Columns[form])
  BY <1>0 DEF Entered, Stored, Requests, Over
<1>1. CASE Poll
  BY <1>0, <1>1, FetchType DEF Poll, TypeInv
<1>2. CASE ServerReads
  BY <1>0, <1>2 DEF ServerReads, TypeInv, Stored
<1>3. CASE Response
  <2>1. base' \in Entered /\ values' \in Entered
    BY <1>3, RefillType DEF Response, TypeInv
  <2> QED
    BY <1>0, <1>3, <2>1 DEF Response, Idle, TypeInv, Stored
<1>4. CASE FetchFails
  BY <1>0, <1>4 DEF FetchFails, Idle, TypeInv, Stored
<1>5. CASE OpenDialog
  <2>1. base' \in Entered /\ values' \in Entered
    BY <1>5, RefillType, BlankType DEF OpenDialog, TypeInv
  <2> QED
    BY <1>0, <1>5, <2>1 DEF OpenDialog, TypeInv
<1>6. CASE CloseDialog
  BY <1>0, <1>6 DEF CloseDialog, TypeInv
<1>7. CASE Leave
  <2>1. saves' \subseteq Requests
    BY <1>7, ReplacedType DEF Leave
  <2>2. base' \in Entered /\ values' \in Entered
    BY <1>7, BlankType DEF Leave, TypeInv
  <2> QED
    BY <1>0, <1>7, <2>1, <2>2 DEF Leave, TypeInv
<1>8. CASE Return
  <2>1. base' \in Entered /\ values' \in Entered
    BY <1>8, RefillType DEF Return, TypeInv
  <2>2. /\ fetch' \in {"idle", "sent", "answered", "paused"} /\ answer' \in Stored
        /\ failed' \in BOOLEAN
    BY <1>8, FetchType DEF Return, TypeInv
  <2> QED
    BY <1>0, <1>8, <2>1, <2>2 DEF Return, TypeInv
<1>9. ASSUME NEW f \in Fields[form], NEW v \in Range(f), Type(f, v)
      PROVE  TypeInv'
  <2>1. values' \in Entered
    BY <1>9, Ranges DEF Type, TypeInv, Entered, Over
  <2> QED
    BY <1>0, <1>9, <2>1 DEF Type, TypeInv
<1>10. CASE Save
  <2> DEFINE b == IF online THEN "sent" ELSE "paused"
             s == [id |-> acts + 1, put |-> Body, waiting |-> TRUE, mine |-> TRUE,
                   snapshot |-> <<cache, guess>>, stage |-> b]
  <2>6. b \in {"sent", "paused"} /\ acts + 1 \in Nat
    BY DEF TypeInv
  <2> HIDE DEF b
  <2>4. s \in Requests
    BY <2>6, RequestType
  <2> USE DEF b
  <2>5. saves' = saves \cup {s} /\ acts' = acts + 1
    BY <1>10 DEF Save
  <2> HIDE DEF s
  <2>1. saves' \subseteq Requests /\ acts' \in Nat
    BY <2>4, <2>5 DEF TypeInv
  <2>2. CASE HasQuery /\ cache # NULL
    <3>1. cache \in Over(Columns[form])
      BY <2>2 DEF TypeInv, Stored
    <3>2. cache' \in Stored
      BY <1>10, <2>2, <3>1, BodyType, MergedType DEF Save, TypeInv, Stored
    <3>3. base' \in Entered /\ values' \in Entered
      BY <1>10, <2>2, <3>2, RefillType DEF Save, TypeInv
    <3> QED
      BY <1>0, <1>10, <2>1, <2>2, <3>2, <3>3 DEF Save, SetByHook, Idle, TypeInv, Stored
  <2>3. CASE ~(HasQuery /\ cache # NULL)
    BY <1>0, <1>10, <2>1, <2>3 DEF Save, Idle, TypeInv, Stored
  <2> QED
    BY <2>2, <2>3
<1>11. ASSUME NEW r \in saves, Serve(r)
       PROVE  TypeInv'
  <2>1. saves' \subseteq Requests
    BY <1>11, ReplacedType DEF Serve, Replaced, TypeInv
  <2>2. r.put \in Entered
    BY DEF TypeInv, Requests
  <2>3. server' \in Over(Columns[form])
    BY <1>11, <2>2, MergedType DEF Serve, TypeInv
  <2> QED
    BY <1>0, <1>11, <2>1, <2>3 DEF Serve, TypeInv
<1>12. ASSUME NEW r \in saves, Succeed(r)
       PROVE  TypeInv'
  BY <1>0, <1>12, SettledType, FetchType DEF Succeed, TypeInv
<1>13. ASSUME NEW r \in saves, Fail(r)
       PROVE  TypeInv'
  <2>1. saves' \subseteq Requests
    BY <1>13, SettledType DEF Fail
  <2>2. fetch' \in {"idle", "sent", "answered", "paused"} /\ answer' \in Stored
    BY <1>13, FetchType DEF Fail, TypeInv
  <2>3. cache' \in Stored /\ {guess', failed'} \subseteq BOOLEAN
    BY <1>13 DEF Fail, RollBack, TypeInv, Requests
  <2>4. base' \in Entered /\ values' \in Entered
    BY <1>13, <2>3, RefillType DEF Fail, RollBack, TypeInv
  <2> QED
    BY <1>0, <1>13, <2>1, <2>2, <2>3, <2>4 DEF Fail, HasQuery, TypeInv
<1>14. CASE Change
  <2>1. server' \in Over(Columns[form])
    BY <1>14, HoldsOver, FormsAssumption DEF Change, TypeInv
  <2> QED
    BY <1>0, <1>14, <2>1 DEF Change, TypeInv
<1>15. CASE GoOffline
  <2>1. online' \in BOOLEAN
    BY <1>15, Zenon DEF GoOffline
  <2>3. acts' \in Nat
    BY <1>15 DEF GoOffline, TypeInv
  <2>2. UNCHANGED <<form, server, query, page, saves>>
    BY <1>15 DEF GoOffline
  <2> QED
    BY <1>0, <2>1, <2>2, <2>3 DEF TypeInv
<1>16. CASE GoOnline
  <2> DEFINE s(r) == IF r.stage = "paused" THEN [r EXCEPT !.stage = "sent"] ELSE r
  <2>1. \A r \in saves : s(r) \in Requests
    BY ReplacedType DEF TypeInv
  <2>2. saves' = {s(r) : r \in saves}
    BY <1>16 DEF GoOnline
  <2> HIDE DEF s
  <2>3. saves' \subseteq Requests
    BY <2>1, <2>2
  <2>4. /\ online' = TRUE /\ fetch' \in {"idle", "sent", "answered", "paused"}
        /\ UNCHANGED <<form, server, cache, guess, invalid, answer, failed, page, acts>>
    BY <1>16 DEF GoOnline, TypeInv
  <2> QED
    BY <1>0, <2>3, <2>4 DEF TypeInv
<1>17. CASE UNCHANGED vars
  BY <1>0, <1>17 DEF vars, TypeInv
<1> QED
  BY <1>1, <1>2, <1>3, <1>4, <1>5, <1>6, <1>7, <1>8, <1>9, <1>10, <1>11, <1>12, <1>13,
     <1>14, <1>15, <1>16, <1>17 DEF Next

-----------------------------------------------------------------------------
(* The saves on their way are kept.                                        *)

\* Whatever is on its way afterwards was on its way before, with the same request.
Kept == \A s \in saves' : \E r \in saves :
            /\ s.id = r.id /\ s.put = r.put /\ s.snapshot = r.snapshot
            /\ s.waiting \/ s.stage = "sent"

\* Only a Save adds one.
LEMMA SavesKept == ASSUME TypeInv, SavesInv, [Next]_vars PROVE Save \/ Kept
<1>1. ASSUME UNCHANGED saves PROVE Kept
  BY <1>1 DEF Kept, SavesInv
<1>2. ASSUME NEW r \in saves, Settled(r) PROVE Kept
  BY <1>2 DEF Settled, Kept, SavesInv, TypeInv, Requests
<1>3. ASSUME NEW r \in saves, Serve(r) PROVE Kept
  BY <1>3 DEF Serve, Replaced, Kept, SavesInv, TypeInv, Requests
<1>4. CASE Leave
  BY <1>4 DEF Leave, Kept, SavesInv, TypeInv, Requests
<1>5. CASE GoOnline
  <2>1. saves' = {IF r.stage = "paused" THEN [r EXCEPT !.stage = "sent"] ELSE r : r \in saves}
    BY <1>5 DEF GoOnline
  <2> QED
    BY <2>1 DEF Kept, SavesInv, TypeInv, Requests
<1>6. ASSUME NEW f \in Fields[form], NEW v \in Range(f), Type(f, v) PROVE Kept
  BY <1>1, <1>6 DEF Type
<1>7. ASSUME NEW r \in saves, Succeed(r) \/ Fail(r) PROVE Kept
  BY <1>2, <1>7 DEF Succeed, Fail
<1>8. CASE Poll \/ ServerReads \/ Response \/ FetchFails \/ OpenDialog \/ CloseDialog
  BY <1>1, <1>8 DEF Poll, ServerReads, Response, FetchFails, OpenDialog, CloseDialog
<1>9. CASE Return \/ Change \/ GoOffline \/ UNCHANGED vars
  BY <1>1, <1>9 DEF Return, Change, GoOffline, vars
<1> QED
  BY <1>3, <1>4, <1>5, <1>6, <1>7, <1>8, <1>9 DEF Next

\* No step changes the form, and no step but a Save takes an id.
LEMMA FormKept ==
    ASSUME TypeInv, [Next]_vars
    PROVE  form' = form /\ acts <= acts'
<1>0. acts \in Nat
  BY DEF TypeInv
<1>1. CASE Poll \/ ServerReads \/ Response \/ FetchFails \/ OpenDialog \/ CloseDialog
  <2>1. UNCHANGED <<form, acts>>
    BY <1>1, Zenon DEF Poll, ServerReads, Response, FetchFails, OpenDialog, CloseDialog
  <2> QED
    BY <1>0, <2>1
<1>2. CASE Leave \/ Return \/ UNCHANGED vars
  <2>1. UNCHANGED <<form, acts>>
    BY <1>2, Zenon DEF Leave, Return, vars
  <2> QED
    BY <1>0, <2>1
<1>3. ASSUME NEW f \in Fields[form], NEW v \in Range(f), Type(f, v) PROVE form' = form /\ acts <= acts'
  BY <1>0, <1>3 DEF Type
<1>4. CASE Save
  <2>1. form' = form /\ acts' = acts + 1
    BY <1>4, Zenon DEF Save
  <2> QED
    BY <1>0, <2>1
<1>5. ASSUME NEW r \in saves, Serve(r) \/ Succeed(r) \/ Fail(r) PROVE form' = form /\ acts <= acts'
  BY <1>0, <1>5 DEF Serve, Succeed, Fail
<1>6. CASE Change \/ GoOffline
  BY <1>0, <1>6 DEF Change, GoOffline
<1>7. CASE GoOnline
  <2>1. UNCHANGED <<form, acts>>
    BY <1>7 DEF GoOnline
  <2> QED
    BY <1>0, <2>1
<1> QED
  BY <1>1, <1>2, <1>3, <1>4, <1>5, <1>6, <1>7 DEF Next

\* What the dialog's schema lets through keeps the server's rule.
LEMMA BodyKeepsRule ==
    ASSUME TypeInv, form = "group", Valid
    PROVE  CrossFieldOK(Body)
<1>1. DOMAIN values = {"progress", "expiration", "enabled", "staleness"}
  BY FieldsAre DEF TypeInv, Entered, Over
<1>2. CASE values.enabled
  <2>1. Body = values
    BY <1>2 DEF Body
  <2>2. values.staleness # NULL /\ values.expiration # NULL /\ values.staleness < values.expiration
    BY <1>2 DEF Valid
  <2> QED
    BY <2>1, <2>2 DEF CrossFieldOK, EffectiveOr
<1>3. CASE ~values.enabled
  <2>1. Body.enabled = values.enabled
    BY <1>1, <1>3 DEF Body
  <2> QED
    BY <1>3, <2>1 DEF CrossFieldOK
<1> QED
  BY <1>2, <1>3

\* A Save adds one, with an id of its own.
LEMMA SaveAdds ==
    ASSUME Save
    PROVE  \E s : /\ saves' = saves \cup {s} /\ acts' = acts + 1
                  /\ s.id = acts' /\ s.put = Body /\ s.waiting /\ s.snapshot = <<cache, guess>>
<1> DEFINE s == [id |-> acts', put |-> Body, waiting |-> TRUE, mine |-> TRUE,
                 snapshot |-> <<cache, guess>>, stage |-> IF online THEN "sent" ELSE "paused"]
<1>1. saves' = saves \cup {s} /\ acts' = acts + 1
  BY DEF Save
<1>2. s.id = acts' /\ s.put = Body /\ s.waiting /\ s.snapshot = <<cache, guess>>
  OBVIOUS
<1> QED
  BY <1>1, <1>2, Zenon

\* Every step keeps what is known of the saves.
LEMMA SavesNext == ASSUME IInv, [Next]_vars PROVE SavesInv'
<1>1. CASE Kept
  <2>1. form' = form /\ acts <= acts' /\ acts \in Nat /\ acts' \in Nat
    BY FormKept, TypeNext DEF IInv, TypeInv
  <2>2. ASSUME NEW s \in saves'
        PROVE  s.id <= acts' /\ (s.waiting \/ s.stage = "sent")
    <3>1. PICK r \in saves : s.id = r.id /\ (s.waiting \/ s.stage = "sent")
      BY <1>1 DEF Kept
    <3>2. r.id \in Nat /\ r.id <= acts
      BY DEF IInv, TypeInv, SavesInv, Requests
    <3> QED
      BY <2>1, <3>1, <3>2
  <2>3. form = "group" => \A s \in saves' : CrossFieldOK(s.put)
    BY <1>1, Zenon DEF Kept, IInv, SavesInv, ServerRuleKept
  <2> QED
    BY <2>1, <2>2, <2>3, Zenon DEF SavesInv, ServerRuleKept, CrossFieldOK, EffectiveOr
<1>2. CASE Save
  <2>1. PICK s : /\ saves' = saves \cup {s} /\ acts' = acts + 1
                 /\ s.id = acts' /\ s.put = Body /\ s.waiting
    BY <1>2, SaveAdds
  <2>2. form' = form /\ Valid
    BY <1>2 DEF Save
  <2>3. form = "group" => CrossFieldOK(s.put)
    BY <2>1, <2>2, BodyKeepsRule DEF IInv
  <2>4. \A r \in saves' : r.id <= acts'
    BY <2>1 DEF IInv, SavesInv, TypeInv, Requests
  <2>5. \A r \in saves' : r.waiting \/ r.stage = "sent"
    BY <2>1 DEF IInv, SavesInv
  <2>6. form = "group" => \A r \in saves' : CrossFieldOK(r.put)
    BY <2>1, <2>3 DEF IInv, SavesInv, ServerRuleKept
  <2> QED
    BY <2>2, <2>4, <2>5, <2>6, Zenon DEF SavesInv, ServerRuleKept, CrossFieldOK, EffectiveOr
<1> QED
  BY <1>1, <1>2, SavesKept DEF IInv

-----------------------------------------------------------------------------
(* The query.                                                              *)

\* The form has loaded nothing and saved nothing.
LEMMA InitIInv == Init => IInv
<1> SUFFICES ASSUME Init PROVE IInv
  OBVIOUS
<1>1. form \in Forms /\ server \in Over(Columns[form]) /\ Blank \in Entered
  BY BlankType, HoldsOver, FormsAssumption DEF Init
<1>2. TypeInv
  BY <1>1 DEF Init, TypeInv, Stored
<1>3. FormInv /\ QueryInv
  BY DEF Init, FormInv, QueryInv, HasQuery
<1>4. SavesInv /\ GuessIsTemporary
  BY DEF Init, SavesInv, ServerRuleKept, GuessIsTemporary
<1> QED
  BY <1>2, <1>3, <1>4 DEF IInv

\* What a reset leaves behind when the form stays, becomes or is not open.
LEMMA RefillShows ==
    ASSUME FormInv, NEW settings, NEW isOpen, Refill(settings, isOpen), cache' = settings,
           form' = form, isOpen, settings # NULL
    PROVE  (base = Filled(cache))'
<1>1. Filled(cache)' = Filled(settings)
  BY DEF Filled
<1>2. base' = Filled(settings)
  BY DEF Refill, FormInv
<1> QED
  BY <1>1, <1>2

\* Every step keeps what is known of the fields.
LEMMA FormNext == ASSUME IInv, [Next]_vars PROVE FormInv'
<1> USE DEF query, page
<1>0. ASSUME form' = form, UNCHANGED <<cache, mounted, base>>, open' => open PROVE FormInv'
  BY <1>0, Zenon DEF IInv, FormInv, Filled
<1>1. CASE Poll \/ ServerReads \/ FetchFails \/ UNCHANGED vars
  <2>1. UNCHANGED <<form, cache, mounted, base, open>>
    BY <1>1, Zenon DEF Poll, ServerReads, FetchFails, vars
  <2> QED
    BY <1>0, <2>1
<1>12. CASE CloseDialog
  BY <1>0, <1>12 DEF CloseDialog
<1>2. CASE Response
  BY <1>2, RefillShows DEF IInv, Response, FormInv
<1>3. CASE OpenDialog
  <2>1. CASE HasQuery
    BY <1>3, <2>1, RefillShows DEF IInv, OpenDialog, FormInv
  <2>2. CASE ~HasQuery
    BY <1>3, <2>2 DEF IInv, OpenDialog, FormInv, QueryInv
  <2> QED
    BY <2>1, <2>2
<1>4. CASE Leave
  BY <1>4 DEF Leave, FormInv
<1>5. CASE Return
  BY <1>5, RefillShows DEF IInv, Return, FormInv
<1>6. ASSUME NEW f \in Fields[form], NEW v \in Range(f), Type(f, v) PROVE FormInv'
  BY <1>0, <1>6 DEF Type
<1>7. CASE Save
  <2>1. CASE HasQuery /\ cache # NULL
    BY <1>7, <2>1, RefillShows DEF IInv, Save, FormInv
  <2>2. CASE ~(HasQuery /\ cache # NULL)
    BY <1>0, <1>7, <2>2 DEF Save
  <2> QED
    BY <2>1, <2>2
<1>8. ASSUME NEW r \in saves, Serve(r) \/ Succeed(r) PROVE FormInv'
  BY <1>0, <1>8 DEF Serve, Succeed
<1>9. ASSUME NEW r \in saves, Fail(r) PROVE FormInv'
  <2>1. CASE r.snapshot[1] # NULL
    BY <1>9, <2>1, RefillShows DEF IInv, Fail, RollBack, FormInv
  <2>2. CASE r.snapshot[1] = NULL
    BY <1>0, <1>9, <2>2 DEF Fail, RollBack
  <2> QED
    BY <2>1, <2>2
<1>10. CASE Change \/ GoOffline
  BY <1>0, <1>10 DEF Change, GoOffline
<1>11. CASE GoOnline
  <2>1. UNCHANGED <<form, cache, mounted, base, open>>
    BY <1>11 DEF GoOnline
  <2> QED
    BY <1>0, <2>1
<1> QED
  BY <1>1, <1>2, <1>3, <1>4, <1>5, <1>6, <1>7, <1>8, <1>9, <1>10, <1>11, <1>12 DEF Next

\* Every step keeps what is known of the query.
LEMMA QueryNext == ASSUME IInv, [Next]_vars PROVE QueryInv'
<1> USE DEF query, page
<1>0. form' = form /\ (HasQuery' <=> HasQuery)
  BY FormKept DEF IInv, HasQuery
<1>1. answer' # NULL => fetch' = "answered"
  <2>1. CASE UNCHANGED <<fetch, answer>>
    BY <2>1 DEF IInv, QueryInv
  <2>2. CASE answer' = NULL
    BY <2>2
  <2>3. CASE fetch' = "answered"
    BY <2>3
  <2>4. CASE Poll \/ ServerReads \/ Response \/ FetchFails \/ OpenDialog \/ CloseDialog \/ Leave \/ Return
    BY <2>1, <2>2, <2>3, <2>4 DEF Poll, ServerReads, Response, FetchFails, OpenDialog, CloseDialog, Leave,
       Return, StartFetch, Fetch, Idle
  <2>5. ASSUME NEW f \in Fields[form], NEW v \in Range(f), Type(f, v)
        PROVE  answer' # NULL => fetch' = "answered"
    BY <2>1, <2>5 DEF Type
  <2>6. CASE Save
    BY <2>1, <2>2, <2>6 DEF Save, Idle
  <2>7. ASSUME NEW r \in saves, Serve(r) \/ Succeed(r) \/ Fail(r)
        PROVE  answer' # NULL => fetch' = "answered"
    BY <2>1, <2>2, <2>7 DEF Serve, Succeed, Fail, Invalidate, StartFetch, Fetch
  <2>8. CASE Change \/ GoOffline \/ UNCHANGED vars
    BY <2>1, <2>8 DEF Change, GoOffline, vars
  <2>9. CASE GoOnline
    <3>1. answer' = answer /\ (fetch = "answered" => fetch' = "answered")
      BY <2>9 DEF GoOnline
    <3> QED
      BY <3>1 DEF IInv, QueryInv
  <2> QED
    BY <2>4, <2>5, <2>6, <2>7, <2>8, <2>9 DEF Next
<1>2. ASSUME ~HasQuery
      PROVE  cache' = NULL /\ ~guess' /\ fetch' = "idle"
  <2>0. /\ cache = NULL /\ ~guess /\ fetch = "idle"
        /\ \A r \in saves : r.snapshot[1] = NULL
    BY <1>2 DEF IInv, QueryInv
  <2>1. CASE UNCHANGED <<cache, guess, fetch>>
    BY <2>0, <2>1
  <2>2. CASE OpenDialog \/ CloseDialog \/ Leave \/ Return \/ Save \/ Change \/ GoOffline
    BY <1>2, <2>1, <2>2 DEF OpenDialog, CloseDialog, Leave, Return, Save, Change, GoOffline
  <2>3. ASSUME NEW f \in Fields[form], NEW v \in Range(f), Type(f, v)
        PROVE  UNCHANGED <<cache, guess, fetch>>
    BY <2>3 DEF Type
  <2>4. ASSUME NEW r \in saves, Serve(r) \/ Succeed(r) \/ Fail(r)
        PROVE  UNCHANGED <<cache, guess, fetch>>
    BY <1>2, <2>0, <2>4 DEF Serve, Succeed, Fail, RollBack, Invalidate
  <2>5. CASE GoOnline
    <3>1. cache' = cache /\ guess' = guess /\ (fetch = "idle" => fetch' = "idle")
      BY <2>5 DEF GoOnline
    <3> QED
      BY <2>0, <3>1
  <2>6. ~Poll /\ ~ServerReads /\ ~Response /\ ~FetchFails
    BY <1>2, <2>0 DEF Poll, ServerReads, Response, FetchFails
  <2>7. CASE UNCHANGED vars
    BY <2>1, <2>7 DEF vars
  <2> QED
    BY <2>1, <2>2, <2>3, <2>4, <2>5, <2>6, <2>7 DEF Next
<1>3. ASSUME ~HasQuery, NEW s \in saves'
      PROVE  s.snapshot[1] = NULL
  <2>1. CASE Kept
    BY <1>3, <2>1, Zenon DEF Kept, IInv, QueryInv
  <2>2. CASE Save
    <3>1. PICK t : saves' = saves \cup {t} /\ t.snapshot = <<cache, guess>>
      BY <2>2, SaveAdds
    <3> QED
      BY <1>3, <3>1 DEF IInv, QueryInv
  <2> QED
    BY <2>1, <2>2, SavesKept DEF IInv
<1> QED
  BY <1>0, <1>1, <1>2, <1>3 DEF QueryInv

-----------------------------------------------------------------------------
(* Guesses.                                                                *)

\* A guess stays one only while a save waits or the data is invalid: a step that clears the
\* mark either reads the data at the server or adds a save that waits.
LEMMA GuessNext == ASSUME IInv, [Next]_vars PROVE GuessIsTemporary'
<1> USE DEF query, page
<1>0. ASSUME guess' = guess, invalid' = invalid, \A r \in saves : r.waiting => \E s \in saves' : s.waiting
      PROVE  GuessIsTemporary'
  BY <1>0, Zenon DEF IInv, GuessIsTemporary
<1>1. CASE Poll \/ ServerReads \/ FetchFails \/ OpenDialog \/ CloseDialog
  <2>1. UNCHANGED <<guess, invalid, saves>>
    BY <1>1, Zenon DEF Poll, ServerReads, FetchFails, OpenDialog, CloseDialog
  <2> QED
    BY <1>0, <2>1, Zenon
<1>2. CASE Return \/ Change \/ GoOffline \/ UNCHANGED vars
  <2>1. UNCHANGED <<guess, invalid, saves>>
    BY <1>2, Zenon DEF Return, Change, GoOffline, vars
  <2> QED
    BY <1>0, <2>1, Zenon
<1>3. CASE Response
  BY <1>3 DEF Response, GuessIsTemporary
<1>4. ASSUME NEW f \in Fields[form], NEW v \in Range(f), Type(f, v) PROVE GuessIsTemporary'
  <2>1. UNCHANGED <<guess, invalid, saves>>
    BY <1>4, Zenon DEF Type
  <2> QED
    BY <1>0, <2>1, Zenon
<1>5. CASE Leave
  <2>1. ASSUME NEW r \in saves, r.waiting PROVE \E s \in saves' : s.waiting
    <3>1. [r EXCEPT !.mine = FALSE] \in saves'
      BY <1>5, Zenon DEF Leave
    <3>2. [r EXCEPT !.mine = FALSE].waiting
      BY <2>1 DEF IInv, TypeInv, Requests
    <3> QED
      BY <3>1, <3>2, Zenon
  <2>2. UNCHANGED <<guess, invalid>>
    BY <1>5 DEF Leave
  <2> QED
    BY <1>0, <2>1, <2>2
<1>6. CASE GoOnline
  <2>1. saves' = {IF r.stage = "paused" THEN [r EXCEPT !.stage = "sent"] ELSE r : r \in saves}
    BY <1>6 DEF GoOnline
  <2>2. ASSUME NEW r \in saves, r.waiting PROVE \E s \in saves' : s.waiting
    <3> DEFINE s == IF r.stage = "paused" THEN [r EXCEPT !.stage = "sent"] ELSE r
    <3>1. s \in saves'
      BY <2>1, Zenon
    <3>2. s.waiting
      BY <2>2 DEF IInv, TypeInv, Requests
    <3> QED
      BY <3>1, <3>2, Zenon
  <2>3. UNCHANGED <<guess, invalid>>
    BY <1>6 DEF GoOnline
  <2> QED
    BY <1>0, <2>2, <2>3
<1>7. CASE Save
  <2>1. \E s \in saves' : s.waiting
    BY <1>7, SaveAdds
  <2> QED
    BY <2>1, Zenon DEF GuessIsTemporary
<1>8. ASSUME NEW r \in saves, Serve(r) PROVE GuessIsTemporary'
  <2>1. UNCHANGED <<guess, invalid>>
    BY <1>8 DEF Serve
  <2>2. ASSUME NEW q \in saves, q.waiting PROVE \E s \in saves' : s.waiting
    <3>1. CASE q # r
      BY <1>8, <2>2, <3>1 DEF Serve, Replaced
    <3>2. CASE q = r
      <4>1. PICK b \in {"applied", "refused"} : [r EXCEPT !.stage = b] \in saves'
        BY <1>8, <2>2, <3>2 DEF Serve, Replaced
      <4>2. [r EXCEPT !.stage = b].waiting
        BY <2>2, <3>2 DEF IInv, TypeInv, Requests
      <4> QED
        BY <4>1, <4>2, Zenon
    <3> QED
      BY <3>1, <3>2
  <2> QED
    BY <1>0, <2>1, <2>2
<1>9. ASSUME NEW r \in saves, Succeed(r) PROVE GuessIsTemporary'
  BY <1>9 DEF Succeed, Invalidate, IInv, QueryInv, GuessIsTemporary
<1>10. ASSUME NEW r \in saves, Fail(r) PROVE GuessIsTemporary'
  <2>1. invalid' = HasQuery /\ (~HasQuery => guess' = guess)
    BY <1>10 DEF Fail, RollBack, IInv, QueryInv
  <2> QED
    BY <2>1 DEF IInv, QueryInv, GuessIsTemporary
<1> QED
  BY <1>1, <1>2, <1>3, <1>4, <1>5, <1>6, <1>7, <1>8, <1>9, <1>10 DEF Next

\* Every step keeps the invariant.
LEMMA IInvNext == ASSUME IInv, [Next]_vars PROVE IInv'
BY TypeNext, FormNext, QueryNext, SavesNext, GuessNext DEF IInv

\* The invariant holds of every reachable state.
LEMMA IInvAlways == Spec => []IInv
BY InitIInv, IInvNext, PTL DEF Spec

-----------------------------------------------------------------------------
(* The theorems.                                                           *)

\* The state is always well formed, and an open form was filled from what the query holds.
THEOREM FormTypeCorrect == Spec => []FormTypeOK
<1>1. IInv => FormTypeOK
  <2> SUFFICES ASSUME IInv PROVE FormTypeOK
    OBVIOUS
  <2>1. Holds(server, Columns[form]) /\ Holds(base, Fields[form]) /\ Holds(values, Fields[form])
    BY HoldsOver DEF IInv, TypeInv, Entered
  <2>2. cache # NULL => Holds(cache, Columns[form])
    BY HoldsOver DEF IInv, TypeInv, Stored
  <2> QED
    BY <2>1, <2>2 DEF IInv, FormInv, QueryInv, SavesInv, FormTypeOK
<1> QED
  BY <1>1, IInvAlways, PTL

\* An optimistic or rolled-back value never stays.
THEOREM GuessesEnd == Spec => []GuessIsTemporary
<1>1. IInv => GuessIsTemporary
  BY DEF IInv
<1> QED
  BY <1>1, IInvAlways, PTL

\* Whatever the numbers and the global settings are, the dialog's schema is as strict as the
\* server's rule.
THEOREM SchemaKeepsServerRule == Spec => []ServerRuleKept
<1>1. IInv => ServerRuleKept
  BY DEF IInv, SavesInv
<1> QED
  BY <1>1, IInvAlways, PTL

\* A dialog goes away by itself only after the server has taken its request.
THEOREM DialogClosesOnSuccess == Spec => ClosesOnSuccess
<1> DEFINE Good == CloseDialog \/ Leave \/ \E r \in saves \ saves' : r.mine /\ r.stage = "applied"
<1>1. ASSUME IInv, Next, open, ~open' PROVE Good
  <2> USE DEF query, page
  <2>1. open' # open
    BY <1>1
  <2>2. ~(Poll \/ ServerReads \/ Response \/ FetchFails \/ OpenDialog \/ Return)
    BY <1>1, <2>1 DEF Poll, ServerReads, Response, FetchFails, OpenDialog, Return, IInv, FormInv
  <2>3. ASSUME NEW f \in Fields[form], NEW v \in Range(f), Type(f, v) PROVE FALSE
    BY <2>1, <2>3 DEF Type
  <2>4. ~Save
    BY <2>1 DEF Save
  <2>5. ASSUME NEW r \in saves, Serve(r) \/ Fail(r) PROVE FALSE
    BY <2>1, <2>5 DEF Serve, Fail
  <2>6. ASSUME NEW r \in saves, Succeed(r) PROVE Good
    <3>1. r.mine /\ r.stage = "applied" /\ saves' = saves \ {r}
      BY <1>1, <2>6 DEF Succeed, Settled
    <3> QED
      BY <3>1, Zenon
  <2>7. ~Change /\ ~GoOffline /\ ~GoOnline
    BY <2>1, Zenon DEF Change, GoOffline, GoOnline
  <2>8. ~CloseDialog /\ ~Leave => Good
    BY <1>1, <2>2, <2>3, <2>4, <2>5, <2>6, <2>7, Zenon DEF Next
  <2> QED
    BY <2>8, Zenon
<1>2. IInv /\ [Next]_vars => [open /\ ~open' => Good]_vars
  BY <1>1, Zenon
<1> QED
  BY <1>2, IInvAlways, PTL DEF Spec, ClosesOnSuccess

\* A save carries what was loaded in the fields the user left alone: its body is what the
\* fields hold, and an open form was filled from the data the query holds.
THEOREM UntouchedFieldsAsLoaded == Spec => UntouchedAsLoaded
<1> DEFINE Untouched == \A r \in saves' : Clicked(r) /\ HasQuery /\ cache # NULL =>
                            \A f \in {g \in Fields[form] : values[g] = base[g]} :
                                \/ r.put[f] = cache[f]
                                \/ f = "expiration" /\ cache[f] = NULL
                                \/ f = "staleness" /\ ~values.enabled
<1>1. ASSUME IInv, Next PROVE Untouched
  <2> SUFFICES ASSUME NEW r \in saves', Clicked(r), HasQuery, cache # NULL,
                      NEW f \in Fields[form], values[f] = base[f]
               PROVE  \/ r.put[f] = cache[f]
                      \/ f = "expiration" /\ cache[f] = NULL
                      \/ f = "staleness" /\ ~values.enabled
    OBVIOUS
  <2>1. ~Kept
    <3>1. SUFFICES ASSUME Kept PROVE FALSE
      OBVIOUS
    <3>2. PICK q \in saves : r.id = q.id
      BY <3>1 DEF Kept
    <3>3. q.id \in Nat /\ q.id <= acts /\ acts \in Nat /\ acts' \in Nat
      BY TypeNext, <1>1 DEF IInv, TypeInv, SavesInv, Requests
    <3> QED
      BY <3>2, <3>3 DEF Clicked
  <2>2. Save
    BY <1>1, <2>1, SavesKept DEF IInv
  <2>3. r.put = Body
    <3>1. PICK s : saves' = saves \cup {s} /\ s.put = Body /\ s.id = acts'
      BY <2>2, SaveAdds
    <3>2. \A q \in saves : q.id <= acts /\ q.id \in Nat
      BY <1>1 DEF IInv, TypeInv, SavesInv, Requests
    <3>3. acts \in Nat /\ acts' = acts + 1
      BY <1>1, <2>2 DEF Save, IInv, TypeInv
    <3> QED
      BY <3>1, <3>2, <3>3 DEF Clicked
  <2>4. base = Filled(cache)
    BY <1>1, <2>2 DEF Save, Editable, IInv, FormInv
  <2>5. (f = "expiration" /\ cache[f] = NULL) \/ values[f] = cache[f]
    BY <2>4 DEF Filled
  <2>6. Body[f] = values[f] \/ (f = "staleness" /\ ~values.enabled)
    BY <1>1 DEF Body, IInv, TypeInv, Entered, Over
  <2> QED
    BY <2>3, <2>5, <2>6
<1>2. IInv /\ [Next]_vars => [Untouched]_vars
  BY <1>1, Zenon
<1> QED
  BY <1>2, IInvAlways, PTL DEF Spec, UntouchedAsLoaded
=============================================================================
