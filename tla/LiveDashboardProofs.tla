------------------------- MODULE LiveDashboardProofs -------------------------
(***************************************************************************)
(* Theorems of LiveDashboard, for any queries, pages and numbers of writes *)
(* and acknowledgements: a dashboard at rest shows what the server has,    *)
(* but for the changes in "missed".                                        *)
(***************************************************************************)
EXTENDS LiveDashboard, SequenceTheorems, TLAPS

-----------------------------------------------------------------------------
(* The invariant.                                                          *)

Broken(item) == item \in {"error", "closed"}

\* The listener of the event makes for a refetch of q.
Tells(event, q) == event \in EventNames /\ q \in Matching(InvalidatedBy(event))

\* The last event of a handler tells all queries.
HandlersInv == \A h \in unpublished : InvalidatedBy(h.events[Len(h.events)]) = Everything

\* A stream that has ended says so at the end of its wire, until the source has heard it.
WireInv ==
    stream = "none" /\ (source = "open" \/ wire # <<>>) =>
        wire # <<>> /\ Broken(wire[Len(wire)])

\* The next open makes up for an outage.
Resyncs == source # "open" /\ (hasConnected \/ hadError)

\* Something will make for a refetch of q.
Due(q) ==
    \/ pending
    \/ unpublished # {}
    \/ Resyncs
    \/ \E n \in DOMAIN wire : Broken(wire[n]) \/ Tells(wire[n], q)

\* What the cache has for q, or will have, or will ask for, is what the server has.
Fresh(q) ==
    \/ fetch[q] = "sent"
    \/ fetch[q] = "answered" /\ answer[q] = version
    \/ fetch[q] = "idle" /\ Current(q)
    \/ fetch[q] = "idle" /\ q \notin Shown(page) /\ (data[q] = NODATA \/ q \in invalidated)

Told(q) == q \in missed \/ Due(q) \/ Fresh(q)

\* The parts of TypeOK.
ServerOK ==
    /\ version \in Versions
    /\ unpublished \subseteq [at : Versions, events : Seq(EventNames) \ {<<>>}]

StreamOK ==
    /\ stream \in {"none", "accepted", "registered"}
    /\ wire \in Seq(EventNames \cup {"open", "error", "closed"})
    /\ \A n \in DOMAIN wire : Broken(wire[n]) => n = Len(wire) /\ stream = "none"
    /\ source \in {"connecting", "open", "timer"}
    /\ source = "open" => hasConnected /\ ~hadError

CacheOK ==
    /\ page \in Pages
    /\ data \in [Queries -> Versions \cup {NODATA}]
    /\ invalidated \subseteq Queries
    /\ optimistic \subseteq {q \in Queries : data[q] # NODATA}
    /\ fetch \in [Queries -> {"idle", "sent", "answered"}]
    /\ answer \in [Queries -> Versions \cup {NODATA}]
    /\ \A q \in Queries : answer[q] = NODATA <=> fetch[q] # "answered"
    /\ failed \subseteq Queries
    /\ missed \subseteq Queries

MutationOK == pending \in BOOLEAN /\ request \in BOOLEAN /\ mutations \in 0..MaxMutations

DashboardInv ==
    /\ ServerOK /\ StreamOK /\ CacheOK /\ MutationOK
    /\ hasConnected \in BOOLEAN /\ hadError \in BOOLEAN
    /\ HandlersInv /\ WireInv
    /\ \A q \in Queries : Told(q)

-----------------------------------------------------------------------------
(* Events and queries.                                                     *)

\* All queries are under the keys that most events invalidate.
LEMMA EverythingMatches == Matching(Everything) = Queries
BY DashboardAssumption DEF Matching, Everything

\* What a write publishes ends with an event that tells all queries.
LEMMA EmitsIs ==
    ASSUME NEW kind \in Writes \cup {"ack"}
    PROVE  /\ Emits[kind] \in Seq(EventNames)
           /\ Emits[kind] # <<>> => InvalidatedBy(Emits[kind][Len(Emits[kind])]) = Everything
           /\ kind = "ack" => Emits[kind] # <<>>
<1> USE DEF Emits, EventNames
<1>1. ASSUME NEW e \in EventNames PROVE <<e>> \in Seq(EventNames) /\ Len(<<e>>) = 1 /\ <<e>>[1] = e
  OBVIOUS
<1>2. <<"group_created", "status_update">> \in Seq(EventNames)
  OBVIOUS
<1>3. <<>> \in Seq(EventNames)
  OBVIOUS
<1>4. CASE kind = "newGroup"
  <2>1. Emits[kind] = <<"group_created", "status_update">>
    BY <1>4
  <2> QED
    BY <1>2, <1>4, <2>1 DEF InvalidatedBy
<1>5. CASE kind = "silent"
  <2>1. Emits[kind] = <<>>
    BY <1>5
  <2> QED
    BY <1>3, <1>5, <2>1
<1>6. CASE kind \notin {"newGroup", "silent"}
  <2>1. PICK e \in EventNames \ {"group_created"} : Emits[kind] = <<e>>
    BY <1>6, DashboardAssumption
  <2>2. <<e>> # <<>>
    OBVIOUS
  <2> QED
    BY <1>1, <2>1, <2>2 DEF InvalidatedBy
<1> QED
  BY <1>4, <1>5, <1>6

\* What has its error or a telling event beyond the first item has it in the rest.
LEMMA TailOf ==
    ASSUME NEW S, NEW w \in Seq(S), w # <<>>
    PROVE  /\ Tail(w) \in Seq(S)
           /\ Len(Tail(w)) = Len(w) - 1 /\ Len(w) \in Nat \ {0}
           /\ DOMAIN Tail(w) = 1..(Len(w) - 1)
           /\ \A n \in DOMAIN Tail(w) : Tail(w)[n] = w[n + 1]
           /\ Head(w) = w[1]
OBVIOUS

-----------------------------------------------------------------------------
(* What is left alone.                                                     *)

\* TypeOK is the conjunction of its parts.
LEMMA TypeParts == TypeOK <=> ServerOK /\ StreamOK /\ CacheOK /\ MutationOK
BY DEF TypeOK, ServerOK, StreamOK, CacheOK, MutationOK, Broken

\* The cache is left alone.
LEMMA CacheAlone ==
    ASSUME CacheOK, UNCHANGED <<page, data, invalidated, optimistic, fetch, answer, failed>>,
           missed' \subseteq Queries
    PROVE  CacheOK'
BY DEF CacheOK

\* What is fresh stays fresh.
LEMMA FreshAlone ==
    ASSUME UNCHANGED <<version, page, data, invalidated, optimistic, fetch, answer, failed>>, NEW q
    PROVE  Fresh(q)' = Fresh(q)
BY DEF Fresh, Current, Shown

\* What is due stays due.
LEMMA DueAlone ==
    ASSUME UNCHANGED <<pending, unpublished, source, hasConnected, hadError, wire>>, NEW q
    PROVE  Due(q)' = Due(q)
BY DEF Due, Resyncs

\* The stream and the source are left alone.
LEMMA StreamAlone ==
    ASSUME UNCHANGED <<stream, wire, source, hasConnected, hadError>>, StreamOK, WireInv
    PROVE  StreamOK' /\ WireInv'
BY DEF StreamOK, WireInv

\* The server and its handlers are left alone.
LEMMA ServerAlone ==
    ASSUME UNCHANGED <<version, unpublished>>, ServerOK, HandlersInv
    PROVE  ServerOK' /\ HandlersInv'
BY DEF ServerOK, HandlersInv

-----------------------------------------------------------------------------
(* Fetches.                                                                *)

\* The queries sent, and the others.
LEMMA SendIs ==
    ASSUME CacheOK, NEW qs \in SUBSET Queries, Send(qs), NEW q \in Queries
    PROVE  /\ q \in qs => fetch'[q] = "sent"
           /\ q \notin qs => /\ fetch'[q] = fetch[q] /\ answer'[q] = answer[q]
                             /\ q \in failed' <=> q \in failed
BY DEF CacheOK, Send

\* A fetch that begins is well typed.
LEMMA SendType ==
    ASSUME CacheOK, NEW qs \in SUBSET Queries, Send(qs), UNCHANGED <<data, optimistic>>,
           page' \in Pages, invalidated' \subseteq Queries, missed' \subseteq Queries
    PROVE  CacheOK'
<1>1. fetch' \in [Queries -> {"idle", "sent", "answered"}] /\ answer' \in [Queries -> Versions \cup {NODATA}]
  BY DEF CacheOK, Send
<1>2. \A q \in Queries : answer'[q] = NODATA <=> fetch'[q] # "answered"
  BY DEF CacheOK, Send
<1>3. failed' \subseteq Queries
  BY DEF CacheOK, Send
<1> QED
  BY <1>1, <1>2, <1>3 DEF CacheOK

\* A query that is fetched again has the server's state to come; the others keep what they have.
LEMMA SendFresh ==
    ASSUME CacheOK, NEW qs \in SUBSET Queries, Send(qs),
           UNCHANGED <<version, page, data, invalidated, optimistic>>, NEW q \in Queries
    PROVE  (q \in qs => Fresh(q)') /\ (Fresh(q) => Fresh(q)')
BY SendIs DEF Fresh, Current, Shown

\* An invalidation makes good for the queries it matches, but for those whose answer is
\* on its way and not replaced; the others keep what they have.
LEMMA InvalidateFresh ==
    ASSUME CacheOK, NEW keys, Invalidate(keys), UNCHANGED <<version, page>>, NEW q \in Queries
    PROVE  /\ q \in Matching(keys) => q \in missed' \/ Fresh(q)'
           /\ q \in missed => q \in missed'
           /\ q \notin Matching(keys) /\ Fresh(q) => Fresh(q)'
<1> DEFINE matching == Matching(keys)
           sent == {p \in matching : Refetched(p)}
<1>1. matching \in SUBSET Queries /\ sent \in SUBSET Queries
  BY DEF Matching
<1>2. /\ Send(sent) /\ invalidated' = invalidated \cup matching
      /\ missed' = missed \cup {p \in matching \ sent : fetch[p] = "answered"}
      /\ UNCHANGED <<data, optimistic>>
  BY DEF Invalidate
<1>3. q \in sent <=> q \in matching /\ Refetched(q)
  OBVIOUS
<1> HIDE DEF matching, sent
<1>4. /\ q \in sent => fetch'[q] = "sent"
      /\ q \notin sent => /\ fetch'[q] = fetch[q] /\ answer'[q] = answer[q]
                          /\ q \in failed' <=> q \in failed
  BY <1>1, <1>2, SendIs
<1>5. ASSUME q \in matching PROVE q \in missed' \/ Fresh(q)'
  <2>1. CASE q \in sent
    BY <1>4, <2>1 DEF Fresh
  <2>2. CASE q \notin sent
    <3>1. fetch[q] \in {"idle", "sent", "answered"}
      BY DEF CacheOK
    <3>2. CASE fetch[q] = "idle"
      <4>1. q \notin Shown(page)'
        BY <1>3, <1>5, <2>2, <3>2 DEF Refetched, Shown
      <4> QED
        BY <1>2, <1>4, <1>5, <2>2, <3>2, <4>1 DEF Fresh
    <3>3. CASE fetch[q] = "sent"
      BY <1>4, <2>2, <3>3 DEF Fresh
    <3>4. CASE fetch[q] = "answered"
      BY <1>2, <1>5, <2>2, <3>4
    <3> QED
      BY <3>1, <3>2, <3>3, <3>4
  <2> QED
    BY <2>1, <2>2
<1>6. ASSUME q \notin matching, Fresh(q) PROVE Fresh(q)'
  BY <1>2, <1>3, <1>4, <1>6 DEF Fresh, Current, Shown
<1> QED
  BY <1>2, <1>5, <1>6 DEF matching

\* An invalidation leaves the cache well typed.
LEMMA InvalidateType ==
    ASSUME CacheOK, NEW keys, Invalidate(keys), UNCHANGED page
    PROVE  CacheOK'
<1> DEFINE sent == {p \in Matching(keys) : Refetched(p)}
<1>1. Matching(keys) \subseteq Queries /\ sent \in SUBSET Queries
  BY DEF Matching
<1>2. Send(sent) /\ UNCHANGED <<data, optimistic>>
  BY DEF Invalidate
<1>3. invalidated' \subseteq Queries /\ missed' \subseteq Queries
  BY <1>1 DEF Invalidate, CacheOK
<1> QED
  BY <1>1, <1>2, <1>3, SendType DEF CacheOK

-----------------------------------------------------------------------------
(* The server.                                                             *)

\* A write is about to be told, or missed.
LEMMA WriteKeeps ==
    ASSUME DashboardInv, NEW kind \in Writes \cup {"ack"}, Write(kind), MutationOK', UNCHANGED pending
    PROVE  DashboardInv'
<1> USE DEF DashboardInv
<1>1. UNCHANGED <<stream, wire, connection, page, cache>>
  BY DEF Write
<1>2. UNCHANGED <<source, hasConnected, hadError>>
  BY <1>1 DEF connection
<1>3. UNCHANGED <<data, invalidated, optimistic, fetch, answer, failed>>
  BY <1>1 DEF cache
<1>4. version' = version + 1 /\ version' \in Versions
  BY DashboardAssumption DEF Write, ServerOK, Versions
<1>5. CASE Emits[kind] = <<>>
  <2>1. missed' = Queries /\ unpublished' = unpublished
    BY <1>5 DEF Write
  <2>2. ServerOK' /\ HandlersInv'
    BY <1>4, <2>1 DEF ServerOK, HandlersInv
  <2> QED
    BY <1>1, <1>2, <1>3, <2>1, <2>2, CacheAlone, StreamAlone DEF Told
<1>6. CASE Emits[kind] # <<>>
  <2> DEFINE h == [at |-> version', events |-> Emits[kind]]
  <2>1. missed' = missed /\ unpublished' = unpublished \cup {h}
    BY <1>6 DEF Write
  <2>2. h \in [at : Versions, events : Seq(EventNames) \ {<<>>}] /\ h.events = Emits[kind]
    BY <1>4, <1>6, EmitsIs
  <2> HIDE DEF h
  <2>3. ServerOK'
    BY <1>4, <2>1, <2>2 DEF ServerOK
  <2>4. InvalidatedBy(h.events[Len(h.events)]) = Everything
    BY <1>6, <2>2, EmitsIs
  <2>5. HandlersInv'
    BY <2>1, <2>4 DEF HandlersInv
  <2>6. \A q \in Queries : Told(q)'
    BY <2>1 DEF Told, Due
  <2>7. missed' \subseteq Queries
    BY <2>1 DEF CacheOK
  <2> QED
    BY <1>1, <1>2, <1>3, <2>3, <2>5, <2>6, <2>7, CacheAlone, StreamAlone
<1> QED
  BY <1>5, <1>6

\* A write by others, or by the request of this dashboard.
LEMMA CommitKeeps == ASSUME DashboardInv, Commit \/ CommitMutation PROVE DashboardInv'
<1>1. CASE Commit
  <2>1. PICK kind \in Writes : Write(kind) /\ UNCHANGED mutation
    BY <1>1 DEF Commit
  <2>2. MutationOK' /\ UNCHANGED pending
    BY <2>1 DEF mutation, MutationOK, DashboardInv
  <2> QED
    BY <2>1, <2>2, WriteKeeps
<1>2. CASE CommitMutation
  <2>1. MutationOK' /\ UNCHANGED pending /\ Write("ack")
    BY <1>2 DEF CommitMutation, MutationOK, DashboardInv
  <2> QED
    BY <2>1, WriteKeeps
<1> QED
  BY <1>1, <1>2

\* A refusal changes nothing.
LEMMA RefuseMutationKeeps == ASSUME DashboardInv, RefuseMutation PROVE DashboardInv'
<1> USE DEF DashboardInv
<1>1. /\ UNCHANGED <<version, unpublished, stream, wire, source, hasConnected, hadError, page, pending, missed>>
      /\ UNCHANGED <<data, invalidated, optimistic, fetch, answer, failed>>
  BY DEF RefuseMutation, server, connection, cache
<1>2. MutationOK'
  BY DEF RefuseMutation, MutationOK
<1>3. \A q \in Queries : Told(q)'
  BY <1>1, DueAlone, FreshAlone DEF Told
<1>4. missed' \subseteq Queries
  BY <1>1 DEF CacheOK
<1> QED
  BY <1>1, <1>2, <1>3, <1>4, ServerAlone, StreamAlone, CacheAlone

\* One event of a handler: what is left of it, if anything, still tells all queries.
LEMMA PublishServer ==
    ASSUME ServerOK, HandlersInv, NEW h \in unpublished, UNCHANGED version,
           unpublished' = (unpublished \ {h}) \cup
               (IF Tail(h.events) = <<>> THEN {} ELSE {[h EXCEPT !.events = Tail(h.events)]})
    PROVE  /\ ServerOK' /\ HandlersInv'
           /\ Head(h.events) \in EventNames
           /\ unpublished' = {} => InvalidatedBy(Head(h.events)) = Everything
<1>1. h \in [at : Versions, events : Seq(EventNames) \ {<<>>}]
  BY DEF ServerOK
<1>2. h.events \in Seq(EventNames) /\ h.events # <<>>
  BY <1>1
<1>3. PICK rest \in Seq(EventNames) : rest = Tail(h.events)
  BY <1>2, TailOf
<1>4. Len(rest) = Len(h.events) - 1 /\ Len(h.events) \in Nat \ {0} /\ Len(rest) \in Nat
  BY <1>2, <1>3, TailOf
<1>5. \A n \in 1..(Len(h.events) - 1) : rest[n] = h.events[n + 1]
  BY <1>2, <1>3, TailOf
<1>6. Head(h.events) = h.events[1] /\ Head(h.events) \in EventNames
  BY <1>2, TailOf
<1>7. InvalidatedBy(h.events[Len(h.events)]) = Everything
  BY DEF HandlersInv
<1>8. unpublished' = (unpublished \ {h}) \cup (IF rest = <<>> THEN {} ELSE {[h EXCEPT !.events = rest]})
  BY <1>3
<1>9. CASE rest = <<>>
  <2>1. Len(rest) = 0
    BY <1>9
  <2>2. Len(h.events) = 1
    BY <1>4, <2>1
  <2>3. unpublished' \subseteq unpublished
    BY <1>8, <1>9
  <2> QED
    BY <1>6, <1>7, <2>2, <2>3 DEF ServerOK, HandlersInv
<1>10. CASE rest # <<>>
  <2> DEFINE g == [h EXCEPT !.events = rest]
  <2>1. g \in [at : Versions, events : Seq(EventNames) \ {<<>>}] /\ g.events = rest
    BY <1>1, <1>10
  <2>2. Len(rest) \in 1..(Len(h.events) - 1) /\ Len(rest) + 1 = Len(h.events)
    <3>1. Len(rest) # 0
      BY <1>10, EmptySeq
    <3> DEFINE r == Len(rest)
               e == Len(h.events)
    <3>2. r = e - 1 /\ e \in Nat /\ r \in Nat /\ r # 0
      BY <1>4, <3>1
    <3> HIDE DEF r, e
    <3>3. r \in 1..(e - 1) /\ r + 1 = e
      BY <3>2
    <3> QED
      BY <3>3 DEF r, e
  <2>3. rest[Len(rest)] = h.events[Len(h.events)]
    BY <1>5, <2>2
  <2>4. unpublished' = (unpublished \ {h}) \cup {g}
    BY <1>8, <1>10
  <2> HIDE DEF g
  <2>5. ServerOK'
    BY <2>1, <2>4 DEF ServerOK
  <2>6. HandlersInv'
    BY <1>7, <2>1, <2>3, <2>4 DEF HandlersInv
  <2> QED
    BY <1>6, <2>4, <2>5, <2>6
<1> QED
  BY <1>9, <1>10

\* An event that reaches nobody is missed, or the next open makes up for it.
LEMMA PublishKeeps == ASSUME DashboardInv, Publish PROVE DashboardInv'
<1> USE DEF DashboardInv
<1>1. PICK h \in unpublished :
        /\ unpublished' = (unpublished \ {h}) \cup
               (IF Tail(h.events) = <<>> THEN {} ELSE {[h EXCEPT !.events = Tail(h.events)]})
        /\ wire' = IF stream = "registered" THEN Append(wire, Head(h.events)) ELSE wire
        /\ missed' = IF stream = "accepted" \/ (stream = "none" /\ ~hasConnected /\ ~hadError)
                     THEN missed \cup Matching(InvalidatedBy(Head(h.events))) ELSE missed
        /\ UNCHANGED <<version, stream, connection, page, cache, mutation>>
  BY DEF Publish
<1> DEFINE event == Head(h.events)
<1>2. /\ UNCHANGED <<version, stream, source, hasConnected, hadError, page, pending, request, mutations>>
      /\ UNCHANGED <<data, invalidated, optimistic, fetch, answer, failed>>
  BY <1>1 DEF connection, cache, mutation
<1>3. /\ ServerOK' /\ HandlersInv'
      /\ event \in EventNames
      /\ unpublished' = {} => InvalidatedBy(event) = Everything
  BY <1>1, <1>2, PublishServer
<1> HIDE DEF event
<1>3a. ~Broken(event) /\ event \in EventNames \cup {"open", "error", "closed"}
  BY <1>3 DEF EventNames, Broken
<1>4. wire \in Seq(EventNames \cup {"open", "error", "closed"})
  BY DEF StreamOK
<1>5. CASE stream = "registered"
  <2>1. wire' = Append(wire, event)
    BY <1>1, <1>5 DEF event
  <2>2. /\ wire' \in Seq(EventNames \cup {"open", "error", "closed"})
        /\ Len(wire') = Len(wire) + 1 /\ DOMAIN wire' = 1..(Len(wire) + 1) /\ Len(wire) \in Nat
        /\ wire'[Len(wire) + 1] = event
        /\ DOMAIN wire = 1..Len(wire) /\ \A n \in 1..Len(wire) : wire'[n] = wire[n]
    BY <1>3a, <1>4, <2>1
  <2>3. StreamOK' /\ WireInv'
    BY <1>2, <1>3a, <1>5, <2>2 DEF StreamOK, WireInv
  <2>4. ASSUME NEW q \in Queries PROVE Told(q)'
    <3>1. CASE unpublished' # {}
      BY <3>1 DEF Told, Due
    <3>2. CASE unpublished' = {}
      <4>1. q \in Matching(InvalidatedBy(event))
        BY <1>3, <3>2, EverythingMatches
      <4>2. Tells(wire'[Len(wire) + 1], q) /\ Len(wire) + 1 \in DOMAIN wire'
        BY <1>3, <2>2, <4>1 DEF Tells
      <4> QED
        BY <4>2 DEF Told, Due
    <3> QED
      BY <3>1, <3>2
  <2>5. missed' = missed
    BY <1>1, <1>5
  <2> QED
    BY <1>2, <1>3, <2>3, <2>4, <2>5, CacheAlone DEF CacheOK, MutationOK
<1>6. CASE stream # "registered"
  <2>1. wire' = wire
    BY <1>1, <1>6
  <2>2. missed' \subseteq Queries /\ missed \subseteq missed'
    BY <1>1 DEF CacheOK, Matching
  <2>3. ASSUME NEW q \in Queries PROVE Told(q)'
    <3>1. CASE unpublished' # {}
      BY <3>1 DEF Told, Due
    <3>2. CASE unpublished' = {} /\ (stream = "accepted" \/ (stream = "none" /\ ~hasConnected /\ ~hadError))
      <4>1. q \in Matching(InvalidatedBy(event))
        BY <1>3, <3>2, EverythingMatches
      <4> QED
        BY <1>1, <3>2, <4>1 DEF Told, event
    <3>3. CASE stream = "none" /\ (hasConnected \/ hadError) /\ source # "open"
      BY <1>2, <3>3 DEF Told, Due, Resyncs
    <3>4. CASE stream = "none" /\ source = "open"
      <4>1. wire # <<>> /\ Broken(wire[Len(wire)])
        BY <3>4 DEF WireInv
      <4>2. Len(wire) \in DOMAIN wire
        BY <1>4, <4>1
      <4> QED
        BY <2>1, <4>1, <4>2 DEF Told, Due
    <3>5. stream \in {"none", "accepted"}
      BY <1>6 DEF StreamOK
    <3> QED
      BY <3>1, <3>2, <3>3, <3>4, <3>5
  <2> QED
    BY <1>2, <1>3, <2>1, <2>2, <2>3, CacheAlone, StreamAlone DEF MutationOK
<1> QED
  BY <1>5, <1>6

-----------------------------------------------------------------------------
(* The stream.                                                             *)

\* The end of a stream follows what is left of its wire.
LEMMA CutWire ==
    ASSUME StreamOK, stream # "none", NEW n \in 0..Len(wire),
           wire' = Append(SubSeq(wire, 1, n), "error"), stream' = "none",
           UNCHANGED <<source, hasConnected, hadError>>
    PROVE  StreamOK' /\ WireInv' /\ \A q : Due(q)'
<1> DEFINE S == EventNames \cup {"open", "error", "closed"}
<1>1. wire \in Seq(S) /\ Len(wire) \in Nat /\ DOMAIN wire = 1..Len(wire) /\ "error" \in S /\ n \in 0..Len(wire)
  BY DEF StreamOK
<1> HIDE DEF S
<1>2. /\ SubSeq(wire, 1, n) \in Seq(S) /\ Len(SubSeq(wire, 1, n)) = n
      /\ \A i \in 1..n : SubSeq(wire, 1, n)[i] = wire[i]
  BY <1>1
<1>3. /\ wire' \in Seq(S) /\ Len(wire') = n + 1 /\ DOMAIN wire' = 1..(n + 1)
      /\ wire'[n + 1] = "error" /\ \A i \in 1..n : wire'[i] = wire[i]
  BY <1>1, <1>2
<1>4. \A i \in 1..n : ~Broken(wire[i])
  BY <1>1 DEF StreamOK
<1>5. Broken("error") /\ n + 1 \in DOMAIN wire' /\ wire' # <<>>
  BY <1>1, <1>3 DEF Broken
<1>6. StreamOK'
  BY <1>3, <1>4 DEF StreamOK, S
<1>7. WireInv' /\ \A q : Due(q)'
  BY <1>3, <1>5 DEF WireInv, Due
<1> QED
  BY <1>6, <1>7

\* The stream begins.
LEMMA AcceptKeeps == ASSUME DashboardInv, Accept PROVE DashboardInv'
<1> USE DEF DashboardInv
<1>1. /\ UNCHANGED <<version, unpublished, source, hasConnected, hadError, page, pending, request, mutations, missed>>
      /\ UNCHANGED <<data, invalidated, optimistic, fetch, answer, failed>>
  BY DEF Accept, server, connection, cache, mutation
<1>2. stream' = "accepted" /\ wire' = <<"open">> /\ wire = <<>>
  BY DEF Accept
<1>3. StreamOK' /\ WireInv'
  BY <1>1, <1>2 DEF StreamOK, WireInv, Broken
<1>4. ASSUME NEW q \in Queries PROVE Told(q)'
  <2>1. Due(q) => Due(q)'
    BY <1>1, <1>2 DEF Due, Resyncs
  <2> QED
    BY <1>1, <2>1, FreshAlone DEF Told
<1> QED
  BY <1>1, <1>3, <1>4, ServerAlone, CacheAlone DEF CacheOK, MutationOK

\* From now on events reach the client.
LEMMA RegisterKeeps == ASSUME DashboardInv, Register PROVE DashboardInv'
<1> USE DEF DashboardInv
<1>1. /\ UNCHANGED <<version, unpublished, wire, source, hasConnected, hadError, page, pending, request, mutations, missed>>
      /\ UNCHANGED <<data, invalidated, optimistic, fetch, answer, failed>>
  BY DEF Register, server, connection, cache, mutation
<1>2. StreamOK' /\ WireInv'
  BY <1>1 DEF Register, StreamOK, WireInv
<1>3. \A q \in Queries : Told(q)'
  BY <1>1, DueAlone, FreshAlone DEF Told
<1> QED
  BY <1>1, <1>2, <1>3, ServerAlone, CacheAlone DEF CacheOK, MutationOK

\* No stream begins: the source will hear of an error, and try again.
LEMMA RefuseKeeps == ASSUME DashboardInv, Refuse PROVE DashboardInv'
<1> USE DEF DashboardInv
<1>1. /\ UNCHANGED <<version, unpublished, stream, source, hasConnected, hadError, page, pending, request, mutations, missed>>
      /\ UNCHANGED <<data, invalidated, optimistic, fetch, answer, failed>>
  BY DEF Refuse, server, connection, cache, mutation
<1>2. PICK item \in {"error", "closed"} : wire' = <<item>>
  BY DEF Refuse
<1>3. Len(wire') = 1 /\ wire'[1] = item /\ DOMAIN wire' = {1} /\ wire' # <<>> /\ Broken(item) /\ stream = "none"
  BY <1>2 DEF Refuse, Broken
<1>4. wire' \in Seq(EventNames \cup {"open", "error", "closed"})
  BY <1>2
<1>5. StreamOK' /\ WireInv'
  BY <1>1, <1>3, <1>4 DEF StreamOK, WireInv
<1>6. \A q \in Queries : Told(q)'
  BY <1>3 DEF Told, Due
<1> QED
  BY <1>1, <1>5, <1>6, ServerAlone, CacheAlone DEF CacheOK, MutationOK

\* The stream ends: the source will hear of it.
LEMMA CutKeeps == ASSUME DashboardInv, Cut PROVE DashboardInv'
<1> USE DEF DashboardInv
<1>1. /\ UNCHANGED <<version, unpublished, source, hasConnected, hadError, page, pending, request, mutations, missed>>
      /\ UNCHANGED <<data, invalidated, optimistic, fetch, answer, failed>>
  BY DEF Cut, server, connection, cache, mutation
<1>2. StreamOK' /\ WireInv' /\ \A q : Due(q)'
  BY <1>1, CutWire DEF Cut
<1> QED
  BY <1>1, <1>2, ServerAlone, CacheAlone DEF CacheOK, MutationOK, Told

\* A stream that was open ends, and one that has been open once is opened again; else the
\* events that were lost are missed.
LEMMA RestartKeeps == ASSUME DashboardInv, Restart PROVE DashboardInv'
<1> USE DEF DashboardInv
<1>1. /\ UNCHANGED <<version, source, hasConnected, hadError, page, pending, mutations>>
      /\ UNCHANGED <<data, invalidated, optimistic, fetch, answer, failed>>
  BY DEF Restart, connection, cache
<1>2. unpublished' = {} /\ stream' = "none" /\ request' = FALSE
  BY DEF Restart
<1>3. ServerOK' /\ HandlersInv' /\ MutationOK'
  BY <1>1, <1>2 DEF ServerOK, HandlersInv, MutationOK
<1>4. missed' \subseteq Queries /\ CacheOK'
  BY <1>1, CacheAlone DEF Restart, CacheOK
<1>5. CASE stream # "none"
  <2>1. StreamOK' /\ WireInv' /\ \A q : Due(q)'
    BY <1>1, <1>5, CutWire DEF Restart
  <2> QED
    BY <1>1, <1>3, <1>4, <2>1 DEF Told
<1>6. CASE stream = "none"
  <2>1. UNCHANGED <<stream, wire>>
    BY <1>6 DEF Restart
  <2>2. ASSUME NEW q \in Queries PROVE Told(q)'
    <3>1. CASE ~hasConnected /\ ~hadError
      BY <1>6, <3>1 DEF Restart, Told
    <3>2. CASE (hasConnected \/ hadError) /\ source # "open"
      BY <1>1, <3>2 DEF Told, Due, Resyncs
    <3>3. CASE source = "open"
      <4>1. wire # <<>> /\ Broken(wire[Len(wire)])
        BY <1>6, <3>3 DEF WireInv
      <4>2. Len(wire) \in DOMAIN wire
        BY <4>1 DEF StreamOK
      <4> QED
        BY <2>1, <4>1, <4>2 DEF Told, Due
    <3> QED
      BY <3>1, <3>2, <3>3
  <2> QED
    BY <1>1, <1>3, <1>4, <2>1, <2>2, StreamAlone
<1> QED
  BY <1>5, <1>6

-----------------------------------------------------------------------------
(* The source.                                                             *)

\* The source takes the first item: the rest is still on the wire, and nothing is after an error.
LEMMA ReceiveIs ==
    ASSUME StreamOK, WireInv, NEW item, Receive(item), UNCHANGED stream
    PROVE  /\ wire' \in Seq(EventNames \cup {"open", "error", "closed"})
           /\ \A n \in DOMAIN wire' : Broken(wire'[n]) => n = Len(wire') /\ stream' = "none"
           /\ Broken(item) => wire' = <<>> /\ stream = "none"
           /\ stream = "none" /\ ~Broken(item) => wire' # <<>> /\ Broken(wire'[Len(wire')])
           /\ \A q : (\E n \in DOMAIN wire : Broken(wire[n]) \/ Tells(wire[n], q)) =>
                         \/ Broken(item) \/ Tells(item, q)
                         \/ \E n \in DOMAIN wire' : Broken(wire'[n]) \/ Tells(wire'[n], q)
<1> DEFINE S == EventNames \cup {"open", "error", "closed"}
           len == Len(wire)
<1>1. wire \in Seq(S) /\ wire # <<>> /\ wire' = Tail(wire) /\ item = Head(wire)
  BY DEF StreamOK, Receive
<1> HIDE DEF S
<1>2. /\ wire' \in Seq(S) /\ Len(wire') = len - 1 /\ len \in Nat \ {0}
      /\ DOMAIN wire' = 1..(len - 1)
      /\ \A n \in DOMAIN wire' : wire'[n] = wire[n + 1]
      /\ item = wire[1] /\ DOMAIN wire = 1..len
  BY <1>1, TailOf
<1>3. \A n \in 1..len : Broken(wire[n]) => n = len /\ stream = "none"
  BY <1>2 DEF StreamOK
<1>4. stream = "none" => Broken(wire[len])
  BY <1>1 DEF WireInv
<1> HIDE DEF len
<1>5. \A n \in DOMAIN wire' : n + 1 \in 1..len /\ (n + 1 = len => n = len - 1)
  BY <1>2
<1>6. \A n \in DOMAIN wire' : Broken(wire'[n]) => n = Len(wire') /\ stream' = "none"
  BY <1>2, <1>3, <1>5
<1>7. ASSUME Broken(item) PROVE wire' = <<>> /\ stream = "none"
  <2>1. 1 = len /\ stream = "none"
    BY <1>2, <1>3, <1>7
  <2>2. Len(wire') = 0
    BY <1>2, <2>1
  <2> QED
    BY <1>2, <2>1, <2>2, EmptySeq
<1>8. ASSUME stream = "none", ~Broken(item) PROVE wire' # <<>> /\ Broken(wire'[Len(wire')])
  <2>1. len # 1
    BY <1>2, <1>4, <1>8
  <2>2. len - 1 \in DOMAIN wire' /\ (len - 1) + 1 = len
    BY <1>2, <2>1
  <2>3. wire'[len - 1] = wire[len]
    BY <1>2, <2>2
  <2> QED
    BY <1>2, <1>4, <1>8, <2>2, <2>3
<1>9. ASSUME NEW q, NEW n \in DOMAIN wire, Broken(wire[n]) \/ Tells(wire[n], q)
      PROVE  \/ Broken(item) \/ Tells(item, q)
             \/ \E i \in DOMAIN wire' : Broken(wire'[i]) \/ Tells(wire'[i], q)
  <2>1. CASE n = 1
    BY <1>2, <1>9, <2>1
  <2>2. CASE n # 1
    <3>1. n - 1 \in DOMAIN wire' /\ (n - 1) + 1 = n
      BY <1>2, <2>2
    <3>2. wire'[n - 1] = wire[n]
      BY <1>2, <3>1
    <3> QED
      BY <1>9, <3>1, <3>2
  <2> QED
    BY <2>1, <2>2
<1> QED
  BY <1>2, <1>6, <1>7, <1>8, <1>9 DEF S

\* Every open but a clean first one makes good for all queries; before a clean first one
\* nothing was due of it.
LEMMA OnOpenKeeps == ASSUME DashboardInv, OnOpen PROVE DashboardInv'
<1> USE DEF DashboardInv
<1>1. UNCHANGED <<version, unpublished, stream, page, pending, request, mutations>>
  BY DEF OnOpen, server, mutation
<1>2. source' = "open" /\ hasConnected' = TRUE /\ hadError' = FALSE /\ Receive("open")
  BY DEF OnOpen
<1>3. ~Broken("open") /\ \A q : ~Tells("open", q)
  BY DEF Broken, Tells, EventNames
<1>4. StreamOK' /\ WireInv'
  BY <1>1, <1>2, <1>3, ReceiveIs DEF StreamOK, WireInv
<1>5. CASE (hasConnected \/ hadError) /\ Invalidate(Everything)
  <2>1. \A q \in Queries : Told(q)'
    BY <1>1, <1>5, InvalidateFresh, EverythingMatches DEF Told
  <2> QED
    BY <1>1, <1>2, <1>4, <1>5, <2>1, InvalidateType, ServerAlone DEF MutationOK
<1>6. CASE ~hasConnected /\ ~hadError /\ UNCHANGED <<cache, missed>>
  <2>1. UNCHANGED <<data, invalidated, optimistic, fetch, answer, failed, missed>>
    BY <1>6 DEF cache
  <2>2. ASSUME NEW q \in Queries PROVE Told(q)'
    <3>1. Due(q) => Due(q)'
      BY <1>1, <1>2, <1>3, <1>6, ReceiveIs DEF Due, Resyncs
    <3> QED
      BY <1>1, <2>1, <3>1, FreshAlone DEF Told
  <2> QED
    BY <1>1, <1>2, <1>4, <2>1, <2>2, CacheAlone, ServerAlone DEF MutationOK, CacheOK
<1> QED
  BY <1>5, <1>6 DEF OnOpen

\* After an error the next open makes good for all queries.
LEMMA OnErrorKeeps == ASSUME DashboardInv, OnError PROVE DashboardInv'
<1> USE DEF DashboardInv
<1>1. /\ UNCHANGED <<version, unpublished, stream, hasConnected, page, pending, request, mutations, missed>>
      /\ UNCHANGED <<data, invalidated, optimistic, fetch, answer, failed>>
  BY DEF OnError, server, cache, mutation
<1>2. PICK item \in {"error", "closed"} : Receive(item)
  BY DEF OnError
<1>3. source' \in {"connecting", "timer"} /\ hadError' = TRUE
  BY DEF OnError
<1>4. Broken(item)
  BY DEF Broken
<1>5. StreamOK' /\ WireInv'
  BY <1>1, <1>2, <1>3, <1>4, ReceiveIs DEF StreamOK, WireInv
<1>6. \A q \in Queries : Told(q)'
  BY <1>3 DEF Told, Due, Resyncs
<1> QED
  BY <1>1, <1>3, <1>5, <1>6, CacheAlone, ServerAlone DEF MutationOK, CacheOK

\* A source that is recreated is still to be opened.
LEMMA ReconnectKeeps == ASSUME DashboardInv, Reconnect PROVE DashboardInv'
<1> USE DEF DashboardInv
<1>1. /\ UNCHANGED <<version, unpublished, stream, wire, hasConnected, hadError, page, pending, request, mutations, missed>>
      /\ UNCHANGED <<data, invalidated, optimistic, fetch, answer, failed>>
  BY DEF Reconnect, server, cache, mutation
<1>2. source = "timer" /\ source' = "connecting"
  BY DEF Reconnect
<1>3. StreamOK' /\ WireInv'
  BY <1>1, <1>2 DEF StreamOK, WireInv
<1>4. ASSUME NEW q \in Queries PROVE Told(q)'
  <2>1. Due(q) => Due(q)'
    BY <1>1, <1>2 DEF Due, Resyncs
  <2> QED
    BY <1>1, <2>1, FreshAlone DEF Told
<1> QED
  BY <1>1, <1>3, <1>4, CacheAlone, ServerAlone DEF MutationOK, CacheOK

\* An event makes good for the queries it tells; the others wait for what they waited for.
LEMMA OnEventKeeps == ASSUME DashboardInv, OnEvent PROVE DashboardInv'
<1> USE DEF DashboardInv
<1>1. UNCHANGED <<version, unpublished, stream, source, hasConnected, hadError, page, pending, request, mutations>>
  BY DEF OnEvent, server, connection, mutation
<1>2. PICK event \in EventNames : Receive(event) /\ Invalidate(InvalidatedBy(event))
  BY DEF OnEvent
<1>3. ~Broken(event)
  BY DEF EventNames, Broken
<1>4. StreamOK' /\ WireInv'
  BY <1>1, <1>2, <1>3, ReceiveIs DEF StreamOK, WireInv
<1>5. ASSUME NEW q \in Queries PROVE Told(q)'
  <2>1. CASE q \in Matching(InvalidatedBy(event))
    BY <1>1, <1>2, <2>1, InvalidateFresh DEF Told
  <2>2. CASE q \notin Matching(InvalidatedBy(event))
    <3>1. ~Tells(event, q)
      BY <2>2 DEF Tells
    <3>2. Due(q) => Due(q)'
      BY <1>1, <1>2, <1>3, <3>1, ReceiveIs DEF Due, Resyncs
    <3> QED
      BY <1>1, <1>2, <2>2, <3>2, InvalidateFresh DEF Told
  <2> QED
    BY <2>1, <2>2
<1> QED
  BY <1>1, <1>2, <1>4, <1>5, InvalidateType, ServerAlone DEF MutationOK

-----------------------------------------------------------------------------
(* Queries.                                                                *)

\* Whatever becomes of a fetch leaves the server, the stream and the source alone.
LEMMA QueryStep ==
    ASSUME DashboardInv, CacheOK', UNCHANGED <<server, stream, wire, connection, mutation>>,
           \A q \in Queries : q \in missed' \/ (q \notin missed /\ (Fresh(q) => Fresh(q)')) \/ Fresh(q)'
    PROVE  DashboardInv'
<1> USE DEF DashboardInv
<1>1. UNCHANGED <<version, unpublished, stream, wire, source, hasConnected, hadError, pending, request, mutations>>
  BY DEF server, connection, mutation
<1>2. \A q \in Queries : Told(q)'
  BY <1>1, DueAlone DEF Told
<1> QED
  BY <1>1, <1>2, ServerAlone, StreamAlone DEF MutationOK

\* An answer is of the version at which it was read.
LEMMA ServerReadsKeeps == ASSUME DashboardInv, NEW q \in Queries, ServerReads(q) PROVE DashboardInv'
<1> USE DEF DashboardInv
<1>1. /\ fetch' = [fetch EXCEPT ![q] = "answered"] /\ answer' = [answer EXCEPT ![q] = version]
      /\ missed' = missed \ {q}
      /\ UNCHANGED <<version, page, data, invalidated, optimistic, failed>>
      /\ UNCHANGED <<server, stream, wire, connection, mutation>>
  BY DEF ServerReads, server
<1>2. version \in Versions /\ version # NODATA
  BY DashboardAssumption DEF ServerOK, Versions, NODATA
<1>3. CacheOK'
  BY <1>1, <1>2 DEF CacheOK
<1>4. Fresh(q)'
  BY <1>1 DEF Fresh, CacheOK
<1>5. ASSUME NEW p \in Queries, p # q PROVE (p \in missed => p \in missed') /\ (Fresh(p) => Fresh(p)')
  BY <1>1, <1>5 DEF Fresh, Current, Shown, CacheOK
<1> QED
  BY <1>1, <1>3, <1>4, <1>5, QueryStep

\* The answer is in the cache.
LEMMA ResponseKeeps == ASSUME DashboardInv, NEW q \in Queries, Response(q) PROVE DashboardInv'
<1> USE DEF DashboardInv
<1>1. /\ fetch[q] = "answered"
      /\ data' = [data EXCEPT ![q] = answer[q]]
      /\ fetch' = [fetch EXCEPT ![q] = "idle"] /\ answer' = [answer EXCEPT ![q] = NODATA]
      /\ invalidated' = invalidated \ {q} /\ optimistic' = optimistic \ {q} /\ failed' = failed \ {q}
      /\ UNCHANGED <<version, page, missed>>
      /\ UNCHANGED <<server, stream, wire, connection, mutation>>
  BY DEF Response, server
<1>2. CacheOK'
  BY <1>1 DEF CacheOK
<1>3. Fresh(q) => Fresh(q)'
  BY <1>1 DEF Fresh, Current, CacheOK
<1>4. ASSUME NEW p \in Queries, p # q PROVE Fresh(p) => Fresh(p)'
  BY <1>1, <1>4 DEF Fresh, Current, Shown, CacheOK
<1> QED
  BY <1>1, <1>2, <1>3, <1>4, QueryStep

\* A fetch that fails for good is missed.
LEMMA FetchFailsKeeps == ASSUME DashboardInv, NEW q \in Queries, FetchFails(q) PROVE DashboardInv'
<1> USE DEF DashboardInv
<1>1. /\ fetch' = [fetch EXCEPT ![q] = "idle"] /\ answer' = [answer EXCEPT ![q] = NODATA]
      /\ failed' = failed \cup {q} /\ missed' = missed \cup {q}
      /\ UNCHANGED <<version, page, data, invalidated, optimistic>>
      /\ UNCHANGED <<server, stream, wire, connection, mutation>>
  BY DEF FetchFails, server
<1>2. CacheOK'
  BY <1>1 DEF CacheOK
<1>3. ASSUME NEW p \in Queries, p # q PROVE Fresh(p) => Fresh(p)'
  BY <1>1, <1>3 DEF Fresh, Current, Shown, CacheOK
<1> QED
  BY <1>1, <1>2, <1>3, QueryStep

\* A query is fetched again.
LEMMA PollKeeps == ASSUME DashboardInv, NEW q \in Queries, Poll(q) \/ TryAgain(q) PROVE DashboardInv'
<1> USE DEF DashboardInv
<1>1. /\ Send({q})
      /\ UNCHANGED <<version, page, data, invalidated, optimistic, missed>>
      /\ UNCHANGED <<server, stream, wire, connection, mutation>>
  BY DEF Poll, TryAgain, server
<1>2. CacheOK'
  BY <1>1, SendType DEF CacheOK
<1>3. \A p \in Queries : Fresh(p) => Fresh(p)'
  BY <1>1, SendFresh
<1> QED
  BY <1>1, <1>2, <1>3, QueryStep

\* A page that comes on the screen fetches what it has not, or what is marked invalid.
LEMMA NavigateKeeps == ASSUME DashboardInv, Navigate PROVE DashboardInv'
<1> USE DEF DashboardInv
<1> DEFINE mounted(p) == {q \in Shown(p) \ Shown(page) : fetch[q] = "idle"}
           needed(p) == {q \in mounted(p) : data[q] = NODATA \/ q \in invalidated}
<1>0. PICK p \in Pages :
        /\ page' = p
        /\ \E old \in SUBSET (mounted(p) \ needed(p)) : Send(needed(p) \cup old)
        /\ UNCHANGED <<server, stream, wire, connection, data, invalidated, optimistic, mutation, missed>>
  BY DEF Navigate
<1>1. PICK old \in SUBSET (mounted(p) \ needed(p)) : Send(needed(p) \cup old)
  BY <1>0
<1> DEFINE sent == needed(p) \cup old
<1>2. \A q : q \in needed(p) <=> q \in Shown(p) /\ q \notin Shown(page) /\ fetch[q] = "idle"
                                    /\ (data[q] = NODATA \/ q \in invalidated)
  OBVIOUS
<1>3. sent \in SUBSET Queries /\ needed(p) \subseteq sent /\ Send(sent)
  BY <1>1 DEF Shown
<1> HIDE DEF needed, mounted, sent
<1>4. UNCHANGED <<version, data, invalidated, optimistic, missed>>
  BY <1>0 DEF server
<1>5. CacheOK'
  BY <1>0, <1>3, <1>4, SendType DEF CacheOK
<1>6. ASSUME NEW q \in Queries, Fresh(q) PROVE Fresh(q)'
  <2>1. CASE q \in sent
    BY <1>3, <2>1, SendIs DEF Fresh
  <2>2. CASE q \notin sent
    <3>1. fetch'[q] = fetch[q] /\ answer'[q] = answer[q] /\ (q \in failed' <=> q \in failed)
      BY <1>3, <2>2, SendIs
    <3>2. q \notin needed(p)
      BY <1>3, <2>2
    <3>3. Shown(page)' = Shown(p)
      BY <1>0 DEF Shown
    <3> QED
      BY <1>2, <1>4, <1>6, <3>1, <3>2, <3>3 DEF Fresh, Current
  <2> QED
    BY <2>1, <2>2
<1> QED
  BY <1>0, <1>4, <1>5, <1>6, QueryStep

-----------------------------------------------------------------------------
(* The hooks.                                                              *)

\* An acknowledgement makes for a refetch when it settles.
LEMMA MutateKeeps == ASSUME DashboardInv, Mutate PROVE DashboardInv'
<1> USE DEF DashboardInv
<1>1. UNCHANGED <<version, unpublished, stream, wire, source, hasConnected, hadError, page, data, invalidated, missed>>
  BY DEF Mutate, server, connection
<1>2. MutationOK' /\ pending'
  BY DashboardAssumption DEF Mutate, MutationOK
<1>3. CacheOK'
  BY <1>1 DEF Mutate, CacheOK
<1>4. \A q \in Queries : Told(q)'
  BY <1>2 DEF Told, Due
<1> QED
  BY <1>1, <1>2, <1>3, <1>4, ServerAlone, StreamAlone

\* It settles, and makes good for all queries.
LEMMA SettleKeeps == ASSUME DashboardInv, Settle PROVE DashboardInv'
<1> USE DEF DashboardInv
<1>1. UNCHANGED <<version, unpublished, stream, wire, source, hasConnected, hadError, page>>
  BY DEF Settle, server, connection
<1>2. MutationOK' /\ Invalidate(Everything)
  BY DEF Settle, MutationOK
<1>3. \A q \in Queries : Told(q)'
  BY <1>1, <1>2, InvalidateFresh, EverythingMatches DEF Told
<1> QED
  BY <1>1, <1>2, <1>3, InvalidateType, ServerAlone, StreamAlone

-----------------------------------------------------------------------------
(* The theorems.                                                           *)

\* The queries on the screen are being fetched, nothing is on the wire.
LEMMA InitDashboard == Init => DashboardInv
<1> SUFFICES ASSUME Init PROVE DashboardInv
  OBVIOUS
<1>0. hasConnected \in BOOLEAN /\ hadError \in BOOLEAN /\ HandlersInv
  BY DEF Init, HandlersInv
<1>1. MutationOK
  <2>1. 0 \in 0..MaxMutations
    BY DashboardAssumption
  <2>2. pending \in BOOLEAN /\ request \in BOOLEAN /\ mutations = 0
    BY DEF Init
  <2> QED
    BY <2>1, <2>2 DEF MutationOK
<1>1a. ServerOK
  <2>1. 0 \in Versions
    BY DashboardAssumption DEF Versions
  <2> QED
    BY <2>1 DEF Init, ServerOK
<1>2. StreamOK /\ WireInv
  BY EmptySeq DEF Init, StreamOK, WireInv, Broken
<1>3. CacheOK
  BY DEF Init, CacheOK
<1>4. ASSUME NEW q \in Queries PROVE Fresh(q)
  BY DEF Init, Fresh
<1> QED
  BY <1>0, <1>1, <1>1a, <1>2, <1>3, <1>4 DEF DashboardInv, Told

\* Every step keeps the invariant.
LEMMA DashboardNext == DashboardInv /\ [Next]_vars => DashboardInv'
<1> SUFFICES ASSUME DashboardInv, [Next]_vars PROVE DashboardInv'
  OBVIOUS
<1>1. CASE Next
  BY <1>1, CommitKeeps, RefuseMutationKeeps, PublishKeeps, AcceptKeeps, RegisterKeeps, RefuseKeeps,
     CutKeeps, RestartKeeps, OnOpenKeeps, OnErrorKeeps, ReconnectKeeps, OnEventKeeps, ServerReadsKeeps,
     ResponseKeeps, FetchFailsKeeps, PollKeeps, NavigateKeeps, MutateKeeps, SettleKeeps DEF Next
<1>2. CASE UNCHANGED vars
  <2>1. UNCHANGED <<server, stream, wire, connection, page, cache, mutation, missed>>
    BY <1>2 DEF vars
  <2>2. UNCHANGED <<version, page, data, invalidated, optimistic, fetch, answer, failed>>
    BY <2>1 DEF cache, server
  <2>3. CacheOK'
    BY <2>1, <2>2, CacheAlone DEF DashboardInv, CacheOK
  <2>4. \A q \in Queries : Fresh(q)' = Fresh(q)
    BY <2>2, FreshAlone
  <2> QED
    BY <2>1, <2>3, <2>4, QueryStep
<1> QED
  BY <1>1, <1>2

\* The invariant holds of every reachable state.
LEMMA DashboardAlways == Spec => []DashboardInv
<1>1. Init => DashboardInv
  BY InitDashboard
<1>2. DashboardInv /\ [Next]_vars => DashboardInv'
  BY DashboardNext
<1> QED
  BY <1>1, <1>2, PTL DEF Spec

\* The state is well formed; nothing follows the end of a stream, and an open source has had
\* its open.
THEOREM DashboardTypeCorrect == Spec => []TypeOK
<1>1. DashboardInv => TypeOK
  BY TypeParts DEF DashboardInv
<1> QED
  BY <1>1, DashboardAlways, PTL

\* A dashboard with nothing under way shows what the server has, without any poll
\* (SocketContext.tsx:45-56), but for the queries in "missed".
THEOREM RestIsCurrent == Spec => []AtRestIsCurrent
<1>1. DashboardInv => AtRestIsCurrent
  <2> SUFFICES ASSUME DashboardInv, NEW q \in Queries, AtRest(q), q \notin missed
               PROVE  Current(q)
    BY DEF AtRestIsCurrent
  <2>1. ~Due(q)
    BY DEF AtRest, Due, Resyncs
  <2>2. Fresh(q)
    BY <2>1 DEF DashboardInv, Told
  <2> QED
    BY <2>2 DEF Fresh, AtRest
<1> QED
  BY <1>1, DashboardAlways, PTL
=============================================================================
