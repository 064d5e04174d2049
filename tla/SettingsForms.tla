---------------------------- MODULE SettingsForms ----------------------------
(***************************************************************************)
(* The three forms of the browser: the settings page (GlobalConfigForm),   *)
(* the dialog of a group's settings (GroupConfigForm) and the dialog that  *)
(* submits a status (JobSubmitForm), with the hooks that save them.  The   *)
(* settings a form shows are a query that is refetched at any time and     *)
(* that a save changes before the server has answered.  One form is shown  *)
(* at a time; its page may be left and entered again while a save is on    *)
(* its way, and the browser may be offline.                                *)
(***************************************************************************)
EXTENDS Integers, FiniteSets

CONSTANTS
    NULL,
    Minutes, Hours,    \* the numbers the fields and the settings take, 0 among them
    MaxMinutes,        \* MaxProgressTimeoutMinutes, which only the server knows
    MaxHours,          \* a year, in the dialog and at the server
    DefaultHours,      \* 24, the expiration the dialog shows for an inherited one
    Globals,           \* the global settings the group inherits
    Starts,            \* per form, the settings at the server in the beginning
    MaxEdits,          \* bound: fields that differ from what was loaded
    MaxActs            \* bound: saves, changes by others and losses of the network

Fields == [global |-> {"progress", "staleness"},
           group |-> {"progress", "expiration", "enabled", "staleness"},
           submit |-> {"progress"}]   \* the texts of a status, told apart by being empty
Forms == DOMAIN Fields

\* What the server stores and answers; no form changes the global expiration.
Columns == [Fields EXCEPT !.global = @ \cup {"expiration"}]

Range(f) == CASE f = "progress" -> Minutes \cup {NULL}
              [] f = "enabled" -> BOOLEAN
              [] OTHER -> Hours \cup {NULL}

\* s gives each of these fields a value, and nothing else.
Holds(s, fields) ==
    /\ s = [f \in fields |-> s[f]]
    /\ \A f \in fields : s[f] \in Range(f)

ASSUME FormsAssumption ==
    /\ NULL \notin Minutes \cup Hours
    /\ Minutes \subseteq Nat /\ Hours \subseteq Nat /\ DefaultHours \in Hours
    /\ {MaxMinutes, MaxEdits, MaxActs} \subseteq Nat
    /\ \A f \in Forms : \A s \in Starts[f] : Holds(s, Columns[f])

VARIABLES
    form,       \* which of the forms
    server,     \* the settings stored
    cache,      \* the query's data, NULL before the first
    guess,      \* the data is an optimistic change or was rolled back to one
    invalid, fetch, answer, failed,   \* the query: failed is its isError
    online,
    mounted, open,     \* the page, and the dialog (the settings page is its own dialog)
    base, values,      \* what the form was reset to, and what its fields hold
    saves,             \* the PUTs (or the POST) on their way
    acts

query == <<cache, guess, invalid, fetch, answer, failed>>
page == <<mounted, open, base, values>>
vars == <<form, server, query, online, page, saves, acts>>

HasQuery == form # "submit"

-----------------------------------------------------------------------------
(* The forms' values.                                                      *)

\* What the fields hold before there is anything to show.
Blank == [f \in Fields[form] |->
             CASE f = "enabled" -> FALSE
               [] f = "expiration" -> DefaultHours
               [] OTHER -> NULL]

\* The settings as the form shows them.
Filled(settings) ==
    [f \in Fields[form] |->
        IF f = "expiration" /\ settings[f] = NULL THEN DefaultHours ELSE settings[f]]

AtLeast1(v) == v # NULL => v >= 1

\* Seeded fault: the rule is checked one off.
ValidLoose ==
    /\ form = "global" => \A f \in Fields[form] : values[f] # NULL /\ AtLeast1(values[f])
    /\ form = "group" =>
            /\ AtLeast1(values.progress) /\ AtLeast1(values.staleness)
            /\ values.expiration # NULL /\ values.expiration \in 1..MaxHours
            /\ values.enabled => /\ values.staleness # NULL
                                 /\ values.staleness <= values.expiration
    /\ form = "submit" => values.progress # NULL

\* The schemas.  A hidden staleness field is validated like a visible one.
Valid ==
    /\ form = "global" => \A f \in Fields[form] : values[f] # NULL /\ AtLeast1(values[f])
    /\ form = "group" =>
            /\ AtLeast1(values.progress) /\ AtLeast1(values.staleness)
            /\ values.expiration # NULL /\ values.expiration \in 1..MaxHours
            /\ values.enabled => /\ values.staleness # NULL
                                 /\ values.staleness < values.expiration
    /\ form = "submit" => values.progress # NULL

\* The request a valid form sends.
Body == IF form = "group" /\ ~values.enabled THEN [values EXCEPT !.staleness = NULL] ELSE values

\* The settings with those of the request in place of their own.
Merged(put, settings) ==
    [f \in DOMAIN settings |-> IF f \in DOMAIN put THEN put[f] ELSE settings[f]]

EffectiveOr(override, global) == IF override = NULL THEN global ELSE override

CrossFieldOK(put) ==
    put.enabled => EffectiveOr(put.staleness, Globals.staleness)
                       < EffectiveOr(put.expiration, Globals.expiration)

InBounds(put) ==
    /\ put.progress # NULL => put.progress \in 1..MaxMinutes
    /\ \A f \in {"staleness", "expiration"} \cap DOMAIN put : put[f] # NULL => put[f] \in 1..MaxHours

\* What the server makes of a request: for settings, its bounds and its rule.
Accepts(put) ==
    /\ form \in {"global", "group"} => InBounds(put)
    /\ form = "group" => CrossFieldOK(put)

-----------------------------------------------------------------------------
(* The query of the settings.                                              *)

Loading == HasQuery /\ cache = NULL /\ fetch \in {"sent", "answered"}

\* Seeded fault: the fields are only filled when the dialog opens.
RefillOnOpening(settings, isOpen) ==
    IF isOpen /\ ~open /\ settings # NULL
    THEN base' = Filled(settings) /\ values' = base'
    ELSE UNCHANGED <<base, values>>

\* The reset effect: it runs when the data or isOpen has changed, and drops what was typed.
Refill(settings, isOpen) ==
    IF isOpen /\ settings # NULL /\ (~open \/ settings # cache)
    THEN base' = Filled(settings) /\ values' = base'
    ELSE UNCHANGED <<base, values>>

Idle == fetch' = "idle" /\ answer' = NULL

\* Data set by a hook counts as a success: neither failed nor invalid any more.
SetByHook == failed' = FALSE /\ invalid' = FALSE

\* A fetch starts, in place of the one in flight; offline it waits for the network.
Fetch == fetch' = (IF online THEN "sent" ELSE "paused") /\ answer' = NULL
StartFetch == Fetch /\ failed' = (failed /\ cache # NULL)

\* The query is active on its page, and refetched when it is invalidated there.
Invalidate ==
    /\ invalid' = HasQuery
    /\ IF HasQuery /\ mounted THEN StartFetch ELSE UNCHANGED <<fetch, answer, failed>>

\* A poll, the window's focus, an event of the group, or the retry button.
Poll ==
    /\ HasQuery /\ mounted /\ fetch = "idle"
    /\ StartFetch
    /\ UNCHANGED <<form, server, cache, guess, invalid, online, page, saves, acts>>

ServerReads ==
    /\ fetch = "sent"
    /\ fetch' = "answered" /\ answer' = server
    /\ UNCHANGED <<form, server, cache, guess, invalid, failed, online, page, saves, acts>>

Response ==
    /\ fetch = "answered"
    /\ cache' = answer /\ guess' = FALSE /\ invalid' = FALSE /\ failed' = FALSE
    /\ Idle
    /\ Refill(answer, open)
    /\ UNCHANGED <<form, server, online, mounted, open, saves, acts>>

\* The last attempt has failed; the data stays, and so does the error until a success.
FetchFails ==
    /\ fetch \in {"sent", "answered"}
    /\ Idle /\ failed' = TRUE
    /\ UNCHANGED <<form, server, cache, guess, invalid, online, page, saves, acts>>

-----------------------------------------------------------------------------
(* The user.                                                               *)

Pending == \E r \in saves : r.mine /\ r.waiting

Editable == open /\ ~failed /\ ~Loading

OpenDialog ==
    /\ mounted /\ ~open
    /\ open' = TRUE
    /\ IF HasQuery THEN Refill(cache, TRUE) ELSE base' = Blank /\ values' = Blank
    /\ UNCHANGED <<form, server, query, online, mounted, saves, acts>>

CloseDialog ==
    /\ open /\ form # "global"
    /\ open' = FALSE
    /\ UNCHANGED <<form, server, query, online, mounted, base, values, saves, acts>>

\* Another page: the hook's callbacks stay, the form and what it waits for are gone.
Leave ==
    /\ mounted
    /\ mounted' = FALSE /\ open' = FALSE
    /\ base' = Blank /\ values' = Blank
    /\ saves' = {[r EXCEPT !.mine = FALSE] : r \in saves}
    /\ UNCHANGED <<form, server, query, online, acts>>

Return ==
    /\ ~mounted
    /\ mounted' = TRUE /\ open' = (form = "global")
    /\ Refill(cache, form = "global")
    /\ \/ HasQuery /\ fetch = "idle" /\ StartFetch
       \/ /\ HasQuery /\ fetch = "idle" => cache # NULL /\ ~invalid   \* fresh for 30 seconds
          /\ UNCHANGED <<fetch, answer, failed>>
    /\ UNCHANGED <<form, server, cache, guess, invalid, online, saves, acts>>

Type(f, v) ==
    /\ Editable /\ values[f] # v
    /\ values' = [values EXCEPT ![f] = v]
    /\ Cardinality({g \in Fields[form] : values'[g] # base[g]}) <= MaxEdits
    /\ UNCHANGED <<form, server, query, online, mounted, open, base, saves, acts>>

\* onMutate: the fetch in flight is cancelled, the data saved away and merged with the body.
\* Only the settings page asks for a change before it saves.
Save ==
    /\ acts < MaxActs
    /\ Editable /\ ~Pending
    /\ form = "global" => values # base
    /\ Valid
    /\ acts' = acts + 1
    /\ saves' = saves \cup
          {[id |-> acts', put |-> Body, waiting |-> TRUE, mine |-> TRUE, snapshot |-> <<cache, guess>>,
            stage |-> IF online THEN "sent" ELSE "paused"]}
    /\ IF HasQuery /\ cache # NULL
       THEN cache' = Merged(Body, cache) /\ guess' = TRUE /\ Refill(cache', open) /\ SetByHook
       ELSE UNCHANGED <<cache, guess, invalid, failed, base, values>>
    /\ IF HasQuery THEN Idle ELSE UNCHANGED <<fetch, answer>>
    /\ UNCHANGED <<form, server, online, mounted, open>>

-----------------------------------------------------------------------------
(* What becomes of a save.                                                 *)

Replaced(r, s) == saves' = (saves \ {r}) \cup {s}
\* The client is done with r; a request the server still has may take effect later.
Settled(r) == saves' = (saves \ {r}) \cup (IF r.stage = "sent" THEN {[r EXCEPT !.waiting = FALSE]} ELSE {})

Serve(r) ==
    /\ r.stage = "sent"
    /\ \/ Accepts(r.put) /\ server' = Merged(r.put, server)
          /\ IF r.waiting THEN Replaced(r, [r EXCEPT !.stage = "applied"]) ELSE saves' = saves \ {r}
       \/ UNCHANGED server
          /\ IF r.waiting THEN Replaced(r, [r EXCEPT !.stage = "refused"]) ELSE saves' = saves \ {r}
    /\ UNCHANGED <<form, query, online, page, acts>>

\* onSuccess, onSettled, and the form's own onClose.
Succeed(r) ==
    /\ r.waiting /\ r.stage = "applied"
    /\ Settled(r)
    /\ Invalidate
    /\ open' = (open /\ ~(r.mine /\ form # "global"))
    /\ UNCHANGED <<form, server, cache, guess, online, mounted, base, values, acts>>

RollBack(r) ==
    IF r.snapshot[1] # NULL
    THEN /\ cache' = r.snapshot[1] /\ guess' = r.snapshot[2] /\ failed' = FALSE
         /\ Refill(cache', open)
    ELSE /\ failed' = (failed /\ cache # NULL)
         /\ UNCHANGED <<cache, guess, base, values>>

\* Seeded fault: the rollback is not followed by a refetch.
FailWithoutRefetch(r) ==
    /\ r.waiting /\ r.stage # "paused"
    /\ Settled(r)
    /\ RollBack(r)
    /\ invalid' = FALSE
    /\ UNCHANGED <<form, server, fetch, answer, online, mounted, open, acts>>

\* Seeded fault: the dialog is closed whether the save succeeds or fails.
FailAndClose(r) ==
    /\ r.waiting /\ r.stage # "paused"
    /\ Settled(r)
    /\ Invalidate
    /\ open' = (open /\ ~(r.mine /\ form # "global"))
    /\ UNCHANGED <<form, server, cache, guess, online, mounted, base, values, acts>>

\* onError after a refusal, a timeout or the loss of the network: the data goes back to
\* what it was at the click.  Then onSettled.
Fail(r) ==
    /\ r.waiting /\ r.stage # "paused"
    /\ Settled(r)
    /\ RollBack(r)
    /\ invalid' = HasQuery
    /\ IF HasQuery /\ mounted THEN Fetch ELSE UNCHANGED <<fetch, answer>>
    /\ UNCHANGED <<form, server, online, mounted, open, acts>>

\* Another user's settings; nothing announces them.
Change ==
    /\ HasQuery /\ acts < MaxActs
    /\ server' \in Starts[form] \ {server}
    /\ acts' = acts + 1
    /\ UNCHANGED <<form, query, online, page, saves>>

GoOffline ==
    /\ online /\ acts < MaxActs
    /\ online' = FALSE /\ acts' = acts + 1
    /\ UNCHANGED <<form, server, query, page, saves>>

\* The paused saves go out, then the paused fetch.
GoOnline ==
    /\ ~online
    /\ online' = TRUE
    /\ saves' = {IF r.stage = "paused" THEN [r EXCEPT !.stage = "sent"] ELSE r : r \in saves}
    /\ fetch' = IF fetch = "paused" THEN "sent" ELSE fetch
    /\ UNCHANGED <<form, server, cache, guess, invalid, answer, failed, page, acts>>

-----------------------------------------------------------------------------
Init ==
    /\ form \in Forms
    /\ server \in Starts[form]
    /\ cache = NULL /\ guess = FALSE /\ invalid = FALSE
    /\ fetch = (IF HasQuery THEN "sent" ELSE "idle") /\ answer = NULL /\ failed = FALSE
    /\ online = TRUE
    /\ mounted = TRUE /\ open = (form = "global")
    /\ base = Blank /\ values = Blank
    /\ saves = {} /\ acts = 0

Next ==
    \/ Poll \/ ServerReads \/ Response \/ FetchFails
    \/ OpenDialog \/ CloseDialog \/ Leave \/ Return
    \/ \E f \in Fields[form] : \E v \in Range(f) : Type(f, v)
    \/ Save
    \/ \E r \in saves : Serve(r) \/ Succeed(r) \/ Fail(r)
    \/ Change \/ GoOffline \/ GoOnline

Spec == Init /\ [][Next]_vars

-----------------------------------------------------------------------------
(* Properties.                                                             *)

\* The state is well formed; above all what was typed can be told from what was loaded: an
\* open form was filled from the data the query holds now (GroupConfigForm.tsx:126).
FormTypeOK ==
    /\ Holds(server, Columns[form]) /\ Holds(base, Fields[form]) /\ Holds(values, Fields[form])
    /\ open => mounted
    /\ open /\ cache # NULL => Holds(cache, Columns[form]) /\ base = Filled(cache)
    /\ answer # NULL => fetch = "answered"
    /\ \A r \in saves : r.waiting \/ r.stage = "sent"

\* An optimistic value, or one a rollback has brought back from a change that overlapped it,
\* does not stay: once no save waits, the data was read at the server or is about to be
\* fetched again (useConfig.ts:29).
GuessIsTemporary == (\A r \in saves : ~r.waiting) /\ guess => invalid

Clicked(r) == r.id = acts' /\ acts' > acts

\* A save of settings that have been loaded carries, in every field the user left alone, the
\* setting as it was loaded, whatever fetches, rollbacks and other saves came in between.
\* Two exceptions: the dialog turns an inherited expiration into its default, and drops the
\* staleness timeout when staleness is off (GroupConfigForm.tsx:137).
UntouchedAsLoaded ==
    [][\A r \in saves' : Clicked(r) /\ HasQuery /\ cache # NULL =>
          \A f \in {g \in Fields[form] : values[g] = base[g]} :
              \/ r.put[f] = cache[f]
              \/ f = "expiration" /\ cache[f] = NULL
              \/ f = "staleness" /\ ~values.enabled]_vars

\* The dialog's schema is as strict as the server's rule: no save it lets through breaks the
\* rule that staleness comes before expiration, whatever the global settings
\* (group_config.go:121).
ServerRuleKept == form = "group" => \A r \in saves : CrossFieldOK(r.put)

\* A dialog goes away by itself only when the server has taken its request; after a refusal,
\* a timeout or a loss of the network it stays open (GroupConfigForm.tsx:144).
ClosesOnSuccess ==
    [][open /\ ~open' => \/ CloseDialog \/ Leave
                        \/ \E r \in saves \ saves' : r.mine /\ r.stage = "applied"]_vars

\* GroupConfigForm.tsx:147: a Save must not "overwrite the real server config with those
\* defaults".  Then a field the user left alone would keep its effect on the group.
UntouchedKeepsEffect ==
    [][\A r \in saves' : Clicked(r) /\ form = "group" /\ cache # NULL /\ values.expiration = base.expiration =>
              EffectiveOr(r.put.expiration, Globals.expiration)
                  = EffectiveOr(cache.expiration, Globals.expiration)]_vars
=============================================================================
