------------------------- MODULE RealtimeHubProofs -------------------------
(***************************************************************************)
(* Theorems of RealtimeHub, for any number of clients and any buffer       *)
(* depth: it does not panic, a stream has no gaps, and the hub with its    *)
(* handlers implements EventFeed.                                          *)
(***************************************************************************)
EXTENDS RealtimeHub, SequenceTheorems, TLAPS

\* A handler that has not registered, or has returned, is not in the map.
Unregistered == \A c \in Clients :
                   pc[c] \in {"idle", "opening", "connected", "returned"} => c \notin clients

\* Only a write chosen before the shutdown counts as late, and it is followed by
\* the priority check, which ends the handler.
LateInv ==
    \A c \in Clients :
        /\ ~closed => late[c] = 0
        /\ late[c] = 0 \/ (late[c] = 1 /\ pc[c] \in {"check", "returning", "returned"})

HubInv == TypeOK /\ NoPanic /\ MapIsOpenChannels /\ Unregistered /\ LateInv

\* The invariant holds of a hub without clients.
LEMMA HubInit == Init => HubInv
<1> SUFFICES ASSUME Init
             PROVE  HubInv
  OBVIOUS
<1>1. TypeOK
  <2>1. <<>> \in Seq(Nat)
    OBVIOUS
  <2>2. buffer \in [Clients -> Seq(Nat)] /\ received \in [Clients -> Seq(Nat)]
    BY <2>1 DEF Init
  <2>3. /\ chan \in [Clients -> {"none", "open", "closed"}]
        /\ pc \in [Clients -> Steps]
    BY DEF Init, Steps
  <2>4. /\ held \in [Clients -> Nat]
        /\ joined \in [Clients -> Nat]
        /\ late \in [Clients -> Nat]
    BY DEF Init
  <2>5. \A c \in Clients : Len(buffer[c]) <= clientBufferDepth
    <3> SUFFICES ASSUME NEW c \in Clients
                 PROVE  Len(buffer[c]) <= clientBufferDepth
      OBVIOUS
    <3>1. Len(buffer[c]) = 0
      BY DEF Init
    <3>2. 0 <= clientBufferDepth
      BY HubAssumption
    <3> QED
      BY <3>1, <3>2
  <2> QED
    BY <2>2, <2>3, <2>4, <2>5 DEF Init, TypeOK
<1>2. NoPanic /\ MapIsOpenChannels /\ Unregistered /\ LateInv
  BY DEF Init, NoPanic, MapIsOpenChannels, Unregistered, LateInv
<1> QED
  BY <1>1, <1>2 DEF HubInv

\* The steps that only move a handler along.
Moves(c) == Connect(c) \/ WriteConnected(c) \/ CheckDone(c) \/ SelectReturn(c) \/ SelectPing(c)
               \/ WritePing(c)

\* Where a handler may go, and from where.
Edge(from, to) ==
    \/ from = "idle" /\ to = "opening"
    \/ from = "opening" /\ to \in {"connected", "returned"}
    \/ from = "check" /\ to = (IF closed THEN "returning" ELSE "select")
    \/ from = "select" /\ to \in {"returning", "pinging"}
    \/ from = "pinging" /\ to = "check"

\* A handler step that touches no stream goes along one edge of the control flow of ServeEvents.
LEMMA MovesEdge ==
    ASSUME NEW c \in Clients, TypeOK, Moves(c)
    PROVE  \E to \in Steps : /\ Edge(pc[c], to)
                             /\ pc' = [pc EXCEPT ![c] = to]
                             /\ UNCHANGED <<hub, buffer, streams>>
<1>1. CASE WriteConnected(c)
  BY <1>1 DEF WriteConnected, Goto, Edge, Steps
<1>2. CASE Connect(c) \/ CheckDone(c) \/ SelectReturn(c) \/ SelectPing(c) \/ WritePing(c)
  BY <1>2 DEF Connect, CheckDone, SelectReturn, SelectPing, WritePing, Goto, Edge, Steps
<1> QED
  BY <1>1, <1>2 DEF Moves

\* A step of the system, by what it may change for one client.
LEMMA NextSplit ==
    ASSUME Next
    PROVE  \/ Broadcast \/ Close
           \/ \E c \in Clients : \/ Moves(c) \/ Leave(c) \/ Register(c) \/ Unregister(c)
                                 \/ SelectEvent(c) \/ WriteEvent(c) \/ WriteFails(c)
BY DEF Next, Handler, Moves

\* Every step leaves well-typed state.
LEMMA HubType == TypeOK /\ [Next]_vars => TypeOK'
<1> SUFFICES ASSUME TypeOK, [Next]_vars
             PROVE  TypeOK'
  OBVIOUS
<1>1. CASE Broadcast
  <2>1. \A c \in Clients : Append(buffer[c], sent') \in Seq(Nat)
    BY <1>1 DEF Broadcast, Full, TypeOK
  <2>2. ASSUME NEW c \in Clients
        PROVE  Len(buffer'[c]) <= clientBufferDepth
    <3>1. CASE c \in clients \ Full
      <4>1. Len(buffer[c]) < clientBufferDepth
        BY <3>1, HubAssumption DEF Full, TypeOK
      <4>2. buffer[c] \in Seq(Nat) /\ buffer'[c] = Append(buffer[c], sent')
        BY <1>1, <3>1 DEF Broadcast, TypeOK
      <4> QED
        BY <4>1, <4>2, HubAssumption
    <3>2. CASE c \notin clients \ Full
      BY <1>1, <3>2 DEF Broadcast, TypeOK
    <3> QED
      BY <3>1, <3>2
  <2> QED
    BY <1>1, <2>1, <2>2 DEF Broadcast, Full, TypeOK, streams
<1>2. CASE Close
  BY <1>2 DEF Close, Drop, TypeOK, streams
<1>3. ASSUME NEW c \in Clients, Moves(c)
      PROVE  TypeOK'
  BY <1>3, MovesEdge DEF TypeOK, hub, streams
<1>4. ASSUME NEW c \in Clients, Leave(c)
      PROVE  TypeOK'
  BY <1>4 DEF Leave, TypeOK, streams
<1>5. ASSUME NEW c \in Clients, Register(c)
      PROVE  TypeOK'
  BY <1>5 DEF Register, TypeOK, streams, Steps
<1>6. ASSUME NEW c \in Clients, Unregister(c)
      PROVE  TypeOK'
  <2>1. pc' \in [Clients -> Steps]
    BY <1>6 DEF Unregister, TypeOK, Steps
  <2> QED
    BY <1>6, <2>1 DEF Unregister, Drop, TypeOK, streams
<1>7. ASSUME NEW c \in Clients, SelectEvent(c)
      PROVE  TypeOK'
  <2>1. Head(buffer[c]) \in Nat /\ Tail(buffer[c]) \in Seq(Nat)
    BY <1>7 DEF SelectEvent, TypeOK
  <2>2. pc' \in [Clients -> Steps]
    BY <1>7 DEF SelectEvent, Goto, TypeOK, Steps
  <2>3. ASSUME NEW d \in Clients
        PROVE  Len(buffer'[d]) <= clientBufferDepth
    <3>1. CASE d = c
      <4>1. buffer[c] \in Seq(Nat) /\ buffer[c] # <<>> /\ buffer'[c] = Tail(buffer[c])
        BY <1>7 DEF SelectEvent, TypeOK
      <4>2. Len(Tail(buffer[c])) = Len(buffer[c]) - 1
        BY <4>1
      <4> QED
        BY <3>1, <4>1, <4>2, HubAssumption DEF TypeOK
    <3>2. CASE d # c
      BY <1>7, <3>2 DEF SelectEvent, TypeOK
    <3> QED
      BY <3>1, <3>2
  <2> QED
    BY <2>1, <2>2, <2>3, <1>7 DEF SelectEvent, TypeOK, hub
<1>8. ASSUME NEW c \in Clients, WriteEvent(c)
      PROVE  TypeOK'
  <2>1. Append(received[c], held[c]) \in Seq(Nat)
    BY DEF TypeOK
  <2>2. pc' \in [Clients -> Steps]
    BY <1>8 DEF WriteEvent, Goto, TypeOK, Steps
  <2>3. late' \in [Clients -> Nat]
    BY <1>8 DEF WriteEvent, TypeOK
  <2> QED
    BY <2>1, <2>2, <2>3, <1>8 DEF WriteEvent, TypeOK, hub
<1>9. ASSUME NEW c \in Clients, WriteFails(c)
      PROVE  TypeOK'
  BY <1>9 DEF WriteFails, Goto, TypeOK, hub, Steps
<1>10. CASE UNCHANGED vars
  BY <1>10 DEF vars, TypeOK
<1> QED
  BY <1>1, <1>2, <1>3, <1>4, <1>5, <1>6, <1>7, <1>8, <1>9, <1>10, NextSplit

\* Every step preserves the invariant.
LEMMA HubNext == HubInv /\ [Next]_vars => HubInv'
<1> SUFFICES ASSUME HubInv, [Next]_vars
             PROVE  (NoPanic /\ MapIsOpenChannels /\ Unregistered /\ LateInv)'
  BY HubType DEF HubInv
<1>1. TypeOK /\ NoPanic /\ MapIsOpenChannels /\ Unregistered /\ LateInv
  BY DEF HubInv
<1> USE DEF NoPanic, MapIsOpenChannels, Unregistered, LateInv
<1>2. CASE Broadcast
  BY <1>1, <1>2 DEF Broadcast, Full, streams, TypeOK
<1>3. CASE Close
  BY <1>1, <1>3 DEF Close, Drop, streams, TypeOK
<1>4. ASSUME NEW c \in Clients, Moves(c)
      PROVE  (NoPanic /\ MapIsOpenChannels /\ Unregistered /\ LateInv)'
  BY <1>1, <1>4, MovesEdge DEF Edge, hub, streams, TypeOK
<1>5. ASSUME NEW c \in Clients, Leave(c)
      PROVE  (NoPanic /\ MapIsOpenChannels /\ Unregistered /\ LateInv)'
  BY <1>1, <1>5 DEF Leave, streams
<1>6. ASSUME NEW c \in Clients, Register(c)
      PROVE  (NoPanic /\ MapIsOpenChannels /\ Unregistered /\ LateInv)'
  <2>1. (NoPanic /\ MapIsOpenChannels)'
    BY <1>1, <1>6 DEF Register, streams, TypeOK
  <2>2. (Unregistered /\ LateInv)'
    BY <1>1, <1>6 DEF Register, streams, TypeOK
  <2> QED
    BY <2>1, <2>2
<1>7. ASSUME NEW c \in Clients, Unregister(c)
      PROVE  (NoPanic /\ MapIsOpenChannels /\ Unregistered /\ LateInv)'
  BY <1>1, <1>7 DEF Unregister, Drop, streams, TypeOK
<1>8. ASSUME NEW c \in Clients, SelectEvent(c)
      PROVE  (NoPanic /\ MapIsOpenChannels /\ Unregistered /\ LateInv)'
  BY <1>1, <1>8 DEF SelectEvent, Goto, hub, TypeOK
<1>9. ASSUME NEW c \in Clients, WriteEvent(c)
      PROVE  (NoPanic /\ MapIsOpenChannels /\ Unregistered /\ LateInv)'
  <2>0. pc[c] = "writing" /\ late' = [late EXCEPT ![c] = IF closed THEN @ + 1 ELSE @]
    BY <1>9 DEF WriteEvent, Goto
  <2>3. late[c] = 0
    BY <2>0, <1>1
  <2>4. late'[c] = IF closed THEN late[c] + 1 ELSE late[c]
    BY <2>0, <1>1 DEF TypeOK
  <2>1. late[c] = 0 /\ late'[c] \in {0, 1} /\ (~closed => late'[c] = 0)
    BY <2>3, <2>4
  <2>2. pc'[c] = "check" /\ \A d \in Clients \ {c} : pc'[d] = pc[d] /\ late'[d] = late[d]
    BY <1>9 DEF WriteEvent, Goto, TypeOK, HubInv
  <2> QED
    BY <2>1, <2>2, <1>1, <1>9 DEF WriteEvent, hub
<1>10. ASSUME NEW c \in Clients, WriteFails(c)
      PROVE  (NoPanic /\ MapIsOpenChannels /\ Unregistered /\ LateInv)'
  BY <1>1, <1>10 DEF WriteFails, Goto, hub, TypeOK
<1>11. CASE UNCHANGED vars
  BY <1>1, <1>11 DEF vars
<1> QED
  BY <1>2, <1>3, <1>4, <1>5, <1>6, <1>7, <1>8, <1>9, <1>10, <1>11, NextSplit

\* The inductive invariant holds in every reachable state.
THEOREM HubInvariant == Spec => []HubInv
BY HubInit, HubNext, PTL DEF Spec

\* Every variable keeps its type, and no channel holds more than its capacity.
THEOREM HubTypeCorrect == Spec => []TypeOK
<1>1. HubInv => TypeOK
  BY DEF HubInv
<1> QED
  BY <1>1, HubInvariant, PTL

\* No interleaving of overflow, disconnection and shutdown closes a channel twice
\* or sends on a closed one, for any number of clients and any buffer depth.
THEOREM HubNeverPanics == Spec => []NoPanic
<1>1. HubInv => NoPanic
  BY DEF HubInv
<1> QED
  BY <1>1, HubInvariant, PTL

\* The map holds exactly the open channels.
THEOREM HubMapExact == Spec => []MapIsOpenChannels
<1>1. HubInv => MapIsOpenChannels
  BY DEF HubInv
<1> QED
  BY <1>1, HubInvariant, PTL

\* A handler writes at most one event after the shutdown began.
THEOREM ShutdownStopsWrites == Spec => []AtMostOneLateWrite
<1>1. HubInv => AtMostOneLateWrite
  <2> SUFFICES ASSUME HubInv, NEW c \in Clients
               PROVE  late[c] <= 1
    BY DEF AtMostOneLateWrite
  <2>1. late[c] = 0 \/ late[c] = 1
    BY DEF HubInv, LateInv
  <2> QED
    BY <2>1
<1> QED
  BY <1>1, HubInvariant, PTL
-----------------------------------------------------------------------------
(* The stream of a client, by position.                                    *)

\* The last event its handler has taken off the channel.
Taken(c) == joined[c] + Len(received[c]) + (IF pc[c] = "writing" THEN 1 ELSE 0)

Streaming(c) == pc[c] \notin {"returning", "returned"}

\* What was written starts at registration; what the handler holds is the next
\* event and the channel continues it; a live client's channel ends with the
\* event broadcast last.
Stream(c) ==
    /\ \A i \in 1..Len(received[c]) : received[c][i] = joined[c] + i
    /\ pc[c] \in {"idle", "opening", "connected"} => received[c] = <<>> /\ buffer[c] = <<>>
    /\ Streaming(c) =>
          /\ pc[c] = "writing" => held[c] = Taken(c)
          /\ \A i \in 1..Len(buffer[c]) : buffer[c][i] = Taken(c) + i
          /\ c \in clients => sent = Taken(c) + Len(buffer[c])

StreamInv == \A c \in Clients : Stream(c)

\* A client none of whose state changes keeps its stream.
LEMMA StreamSame ==
    ASSUME NEW c \in Clients, Stream(c),
           joined'[c] = joined[c], received'[c] = received[c], pc'[c] = pc[c],
           buffer'[c] = buffer[c], held'[c] = held[c], sent' = sent,
           c \in clients' => c \in clients
    PROVE  Stream(c)'
BY DEF Stream, Streaming, Taken

\* So does one whose handler only moves along, or ends.
LEMMA StreamMoves ==
    ASSUME NEW c \in Clients, NEW to \in Steps, Stream(c), TypeOK, Unregistered,
           pc' = [pc EXCEPT ![c] = to],
           \/ to \in {"returning", "returned"}
           \/ pc[c] \in {"idle", "opening"} /\ to \in {"opening", "connected"}
           \/ pc[c] \in {"check", "select", "pinging"} /\ to \in {"check", "select", "pinging"},
           joined' = joined, received' = received, buffer' = buffer, sent' = sent,
           clients' = clients, \/ held' = held \/ to \in {"returning", "returned"}
    PROVE  Stream(c)'
<1>1. pc'[c] = to
  BY DEF TypeOK
<1> QED
  BY <1>1 DEF Stream, Streaming, Taken, Unregistered

\* An event broadcast goes to the end of every live channel.
LEMMA StreamBroadcast ==
    ASSUME NEW c \in Clients, Stream(c), TypeOK, Unregistered, Broadcast
    PROVE  Stream(c)'
<1>1. /\ joined' = joined /\ received' = received /\ pc' = pc /\ held' = held
      /\ sent' = sent + 1 /\ clients' = clients \ Full
  BY DEF Broadcast, streams
<1>2. CASE c \in clients'
  <2>1. c \in clients \ Full
    BY <1>1, <1>2
  <2>2. buffer'[c] = Append(buffer[c], sent + 1) /\ buffer[c] \in Seq(Nat) /\ sent + 1 \in Nat
    BY <2>1, <1>1 DEF Broadcast, TypeOK
  <2>3. /\ Len(buffer'[c]) = Len(buffer[c]) + 1
        /\ \A i \in 1..Len(buffer[c]) : buffer'[c][i] = buffer[c][i]
        /\ buffer'[c][Len(buffer[c]) + 1] = sent + 1
    BY <2>2, AppendProperties
  <2>4. Taken(c)' = Taken(c) /\ Taken(c) \in Nat /\ Len(buffer[c]) \in Nat
    BY <1>1, <2>2 DEF Taken, TypeOK
  <2>5. pc[c] \notin {"idle", "opening", "connected"}
    BY <2>1 DEF Unregistered
  <2>6. ASSUME Streaming(c)
        PROVE  /\ \A i \in 1..Len(buffer'[c]) : buffer'[c][i] = Taken(c) + i
               /\ sent' = Taken(c) + Len(buffer'[c])
    <3>1. sent = Taken(c) + Len(buffer[c]) /\ \A i \in 1..Len(buffer[c]) : buffer[c][i] = Taken(c) + i
      BY <2>1, <2>6 DEF Stream
    <3>2. ASSUME NEW i \in 1..Len(buffer'[c])
          PROVE  buffer'[c][i] = Taken(c) + i
      <4>1. CASE i = Len(buffer[c]) + 1
        BY <4>1, <3>1, <2>3, <2>4
      <4>2. CASE i \in 1..Len(buffer[c])
        BY <4>2, <3>1, <2>3
      <4> QED
        BY <4>1, <4>2, <2>3, <2>4
    <3>3. sent' = Taken(c) + Len(buffer'[c])
      BY <3>1, <2>3, <2>4, <1>1
    <3> QED
      BY <3>2, <3>3
  <2> QED
    BY <1>1, <2>4, <2>5, <2>6 DEF Stream, Streaming
<1>3. CASE c \notin clients'
  <2>1. buffer'[c] = buffer[c]
    BY <1>1, <1>3 DEF Broadcast, TypeOK
  <2> QED
    BY <1>1, <1>3, <2>1 DEF Stream, Streaming, Taken
<1> QED
  BY <1>2, <1>3

\* Registration starts the stream at the next event.
LEMMA StreamRegister ==
    ASSUME NEW c \in Clients, Stream(c), TypeOK, Register(c)
    PROVE  Stream(c)'
<1>1. /\ pc'[c] = "check" /\ joined'[c] = sent /\ sent' = sent
      /\ received'[c] = <<>> /\ buffer'[c] = <<>>
  BY DEF Register, Stream, TypeOK, streams
<1>2. sent \in Nat
  BY DEF TypeOK
<1> QED
  BY <1>1, <1>2 DEF Stream, Streaming, Taken

\* The handler takes the first event of the channel.
LEMMA StreamSelect ==
    ASSUME NEW c \in Clients, Stream(c), TypeOK, SelectEvent(c)
    PROVE  Stream(c)'
<1>1. /\ pc[c] = "select" /\ pc'[c] = "writing" /\ held'[c] = Head(buffer[c])
      /\ buffer[c] # <<>> /\ buffer[c] \in Seq(Nat) /\ buffer'[c] = Tail(buffer[c])
      /\ joined' = joined /\ received' = received /\ sent' = sent /\ clients' = clients
  BY DEF SelectEvent, Goto, hub, TypeOK
<1>2. /\ Len(buffer[c]) \in Nat /\ Len(buffer[c]) > 0
      /\ Len(buffer'[c]) = Len(buffer[c]) - 1
      /\ \A i \in 1..Len(buffer'[c]) : buffer'[c][i] = buffer[c][i + 1]
  BY <1>1, HeadTailProperties, EmptySeq
<1>3. Head(buffer[c]) = buffer[c][1]
  BY <1>1
<1>4. Taken(c) \in Nat /\ Taken(c)' = Taken(c) + 1 /\ sent \in Nat
  BY <1>1 DEF Taken, TypeOK
<1>5. /\ \A i \in 1..Len(buffer[c]) : buffer[c][i] = Taken(c) + i
      /\ c \in clients => sent = Taken(c) + Len(buffer[c])
  BY <1>1 DEF Stream, Streaming
<1>6. held'[c] = Taken(c) + 1
  BY <1>1, <1>2, <1>3, <1>5
<1>7. \A i \in 1..Len(buffer'[c]) : buffer'[c][i] = Taken(c)' + i
  BY <1>2, <1>4, <1>5
<1>8. c \in clients' => sent' = Taken(c)' + Len(buffer'[c])
  BY <1>1, <1>2, <1>4, <1>5
<1> QED
  BY <1>1, <1>4, <1>6, <1>7, <1>8 DEF Stream, Streaming

\* The event in hand goes to the end of what was written.
LEMMA StreamWrite ==
    ASSUME NEW c \in Clients, Stream(c), TypeOK, WriteEvent(c)
    PROVE  Stream(c)'
<1>1. /\ pc[c] = "writing" /\ pc'[c] = "check"
      /\ received[c] \in Seq(Nat) /\ held[c] \in Nat
      /\ received'[c] = Append(received[c], held[c])
      /\ joined' = joined /\ buffer' = buffer /\ sent' = sent /\ clients' = clients
  BY DEF WriteEvent, Goto, hub, TypeOK
<1>2. /\ Len(received[c]) \in Nat /\ Len(received'[c]) = Len(received[c]) + 1
      /\ \A i \in 1..Len(received[c]) : received'[c][i] = received[c][i]
      /\ received'[c][Len(received[c]) + 1] = held[c]
  BY <1>1, AppendProperties, LenProperties
<1>3. Taken(c)' = Taken(c) /\ Taken(c) = joined[c] + Len(received[c]) + 1 /\ joined[c] \in Nat
  BY <1>1, <1>2 DEF Taken, TypeOK
<1>4. /\ held[c] = Taken(c)
      /\ \A i \in 1..Len(received[c]) : received[c][i] = joined[c] + i
  BY <1>1 DEF Stream, Streaming
<1>5. \A i \in 1..Len(received'[c]) : received'[c][i] = joined'[c] + i
  BY <1>1, <1>2, <1>3, <1>4
<1> QED
  BY <1>1, <1>3, <1>5 DEF Stream, Streaming

\* Every step preserves the order of the streams.
LEMMA StreamNext == HubInv /\ StreamInv /\ [Next]_vars => StreamInv'
<1> SUFFICES ASSUME HubInv, StreamInv, [Next]_vars, NEW c \in Clients
             PROVE  Stream(c)'
  BY DEF StreamInv
<1>0. Stream(c) /\ TypeOK /\ Unregistered
  BY DEF StreamInv, HubInv
<1>1. CASE Broadcast
  BY <1>0, <1>1, StreamBroadcast
<1>2. CASE Close
  BY <1>0, <1>2, StreamSame DEF Close, Drop, streams
<1>3. ASSUME NEW d \in Clients, Moves(d)
      PROVE  Stream(c)'
  <2>1. PICK to \in Steps : /\ Edge(pc[d], to)
                            /\ pc' = [pc EXCEPT ![d] = to]
                            /\ UNCHANGED <<hub, buffer, streams>>
    BY <1>0, <1>3, MovesEdge
  <2>2. CASE c = d
    <3>1. \/ to \in {"returning", "returned"}
          \/ pc[c] \in {"idle", "opening"} /\ to \in {"opening", "connected"}
          \/ pc[c] \in {"check", "select", "pinging"} /\ to \in {"check", "select", "pinging"}
      BY <2>1, <2>2 DEF Edge
    <3> QED
      BY <1>0, <2>1, <2>2, <3>1, StreamMoves DEF hub, streams
  <2>3. CASE c # d
    BY <1>0, <2>1, <2>3, StreamSame DEF hub, streams, TypeOK
  <2> QED
    BY <2>2, <2>3
<1>4. ASSUME NEW d \in Clients, Leave(d)
      PROVE  Stream(c)'
  BY <1>0, <1>4, StreamSame DEF Leave, streams
<1>5. ASSUME NEW d \in Clients, Register(d)
      PROVE  Stream(c)'
  <2>1. CASE c = d
    BY <1>0, <1>5, <2>1, StreamRegister
  <2>2. CASE c # d
    BY <1>0, <1>5, <2>2, StreamSame DEF Register, streams, TypeOK
  <2> QED
    BY <2>1, <2>2
<1>6. ASSUME NEW d \in Clients, Unregister(d)
      PROVE  Stream(c)'
  <2>1. CASE c = d
    BY <1>0, <1>6, <2>1 DEF Unregister, Drop, streams, TypeOK, Stream, Streaming, Taken
  <2>2. CASE c # d
    BY <1>0, <1>6, <2>2, StreamSame DEF Unregister, Drop, streams, TypeOK
  <2> QED
    BY <2>1, <2>2
<1>7. ASSUME NEW d \in Clients, SelectEvent(d)
      PROVE  Stream(c)'
  <2>1. CASE c = d
    BY <1>0, <1>7, <2>1, StreamSelect
  <2>2. CASE c # d
    BY <1>0, <1>7, <2>2, StreamSame DEF SelectEvent, Goto, hub, TypeOK
  <2> QED
    BY <2>1, <2>2
<1>8. ASSUME NEW d \in Clients, WriteEvent(d)
      PROVE  Stream(c)'
  <2>1. CASE c = d
    BY <1>0, <1>8, <2>1, StreamWrite
  <2>2. CASE c # d
    BY <1>0, <1>8, <2>2, StreamSame DEF WriteEvent, Goto, hub, TypeOK
  <2> QED
    BY <2>1, <2>2
<1>9. ASSUME NEW d \in Clients, WriteFails(d)
      PROVE  Stream(c)'
  <2>1. CASE c = d
    BY <1>0, <1>9, <2>1 DEF WriteFails, Goto, hub, TypeOK, Stream, Streaming, Taken
  <2>2. CASE c # d
    BY <1>0, <1>9, <2>2, StreamSame DEF WriteFails, Goto, hub, TypeOK
  <2> QED
    BY <2>1, <2>2
<1>10. CASE UNCHANGED vars
  BY <1>0, <1>10, StreamSame DEF vars
<1> QED
  BY <1>1, <1>2, <1>3, <1>4, <1>5, <1>6, <1>7, <1>8, <1>9, <1>10, NextSplit

\* Empty streams are in order.
LEMMA StreamInit == Init => StreamInv
<1> SUFFICES ASSUME Init, NEW c \in Clients
             PROVE  Stream(c)
  BY DEF StreamInv
<1>1. received[c] = <<>> /\ buffer[c] = <<>> /\ pc[c] = "idle" /\ c \notin clients
  BY DEF Init
<1>2. 1..Len(received[c]) = {} /\ 1..Len(buffer[c]) = {}
  BY <1>1
<1> QED
  BY <1>1, <1>2 DEF Stream

\* Positions determine a sequence: the form GapFree is stated in.
LEMMA RunOf ==
    ASSUME NEW c \in Clients, joined[c] \in Nat, NEW s \in Seq(Nat), NEW n \in Nat,
           Len(s) = n, \A i \in 1..n : s[i] = joined[c] + i
    PROVE  s = Run(c, n)
<1>1. s = [i \in 1..n |-> s[i]]
  BY LenProperties
<1> QED
  BY <1>1 DEF Run

\* Three stretches that continue each other make one.
LEMMA ConcatRun ==
    ASSUME NEW j \in Nat, NEW r \in Seq(Nat), NEW h \in Seq(Nat), NEW b \in Seq(Nat),
           \A i \in 1..Len(r) : r[i] = j + i,
           \A i \in 1..Len(h) : h[i] = j + Len(r) + i,
           \A i \in 1..Len(b) : b[i] = j + Len(r) + Len(h) + i
    PROVE  r \o h \o b = [i \in 1..(Len(r) + Len(h) + Len(b)) |-> j + i]
<1>1. Len(r) \in Nat /\ Len(h) \in Nat /\ Len(b) \in Nat
  BY LenProperties
<1>2. /\ r \o h \in Seq(Nat)
      /\ Len(r \o h) = Len(r) + Len(h)
      /\ \A i \in 1..Len(r) + Len(h) : (r \o h)[i] = IF i <= Len(r) THEN r[i] ELSE h[i - Len(r)]
  BY ConcatProperties
<1>3. \A i \in 1..Len(r) + Len(h) : (r \o h)[i] = j + i
  BY <1>1, <1>2
<1> DEFINE rh == r \o h
<1>4. rh \in Seq(Nat) /\ Len(rh) = Len(r) + Len(h) /\ \A i \in 1..Len(rh) : rh[i] = j + i
  BY <1>2, <1>3
<1> HIDE DEF rh
<1>5. /\ rh \o b \in Seq(Nat)
      /\ Len(rh \o b) = Len(rh) + Len(b)
      /\ \A i \in 1..Len(rh) + Len(b) : (rh \o b)[i] = IF i <= Len(rh) THEN rh[i] ELSE b[i - Len(rh)]
  BY <1>4, ConcatProperties
<1>6. \A i \in 1..Len(rh) + Len(b) : (rh \o b)[i] = j + i
  BY <1>1, <1>4, <1>5
<1>7. rh \o b = [i \in 1..Len(rh \o b) |-> (rh \o b)[i]]
  BY <1>5, LenProperties
<1>8. rh \o b = [i \in 1..(Len(rh) + Len(b)) |-> j + i]
  BY <1>5, <1>6, <1>7
<1> QED
  BY <1>4, <1>8 DEF rh

\* A stream in order is gap-free.
LEMMA StreamGapFree == HubInv /\ StreamInv => GapFree
<1> SUFFICES ASSUME HubInv, StreamInv, NEW c \in Clients
             PROVE  /\ received[c] = Run(c, Len(received[c]))
                    /\ c \in clients /\ pc[c] # "returning" =>
                          received[c] \o InHand(c) \o buffer[c] = Run(c, sent - joined[c])
  BY DEF GapFree
<1>0. Stream(c) /\ TypeOK
  BY DEF StreamInv, HubInv
<1>1. /\ received[c] \in Seq(Nat) /\ InHand(c) \in Seq(Nat) /\ buffer[c] \in Seq(Nat)
      /\ joined[c] \in Nat /\ sent \in Nat
  BY <1>0 DEF TypeOK, InHand
<1>2. Len(received[c]) \in Nat /\ Len(InHand(c)) \in Nat /\ Len(buffer[c]) \in Nat
  BY <1>1, LenProperties
<1>3. received[c] = Run(c, Len(received[c]))
  BY <1>0, <1>1, <1>2, RunOf DEF Stream
<1>4. ASSUME c \in clients, pc[c] # "returning"
      PROVE  received[c] \o InHand(c) \o buffer[c] = Run(c, sent - joined[c])
  <2>1. Streaming(c)
    <3>1. pc[c] # "returned"
      BY <1>4 DEF HubInv, Unregistered
    <3> QED
      BY <1>4, <3>1 DEF Streaming
  <2>2. /\ Taken(c) = joined[c] + Len(received[c]) + Len(InHand(c))
        /\ \A i \in 1..Len(InHand(c)) : InHand(c)[i] = joined[c] + Len(received[c]) + i
    BY <1>0, <1>1, <1>2, <2>1 DEF Taken, InHand, Stream
  <2>3. /\ \A i \in 1..Len(received[c]) : received[c][i] = joined[c] + i
        /\ \A i \in 1..Len(buffer[c]) : buffer[c][i] = Taken(c) + i
        /\ sent = Taken(c) + Len(buffer[c])
    BY <1>0, <2>1, <1>4 DEF Stream
  <2>4. sent - joined[c] = Len(received[c]) + Len(InHand(c)) + Len(buffer[c])
    <3> DEFINE a == Len(received[c])
               h == Len(InHand(c))
               b == Len(buffer[c])
    <3>1. /\ a \in Nat /\ h \in Nat /\ b \in Nat /\ joined[c] \in Nat /\ sent \in Nat
          /\ sent = joined[c] + a + h + b
      BY <1>1, <1>2, <2>2, <2>3
    <3> HIDE DEF a, h, b
    <3>2. sent - joined[c] = a + h + b
      BY <3>1
    <3> QED
      BY <3>2 DEF a, h, b
  <2>5. \A i \in 1..Len(buffer[c]) :
           buffer[c][i] = joined[c] + Len(received[c]) + Len(InHand(c)) + i
    BY <2>2, <2>3
  <2>6. received[c] \o InHand(c) \o buffer[c] =
           [i \in 1..(Len(received[c]) + Len(InHand(c)) + Len(buffer[c])) |-> joined[c] + i]
    BY <1>1, <2>2, <2>3, <2>5, ConcatRun
  <2> QED
    BY <2>4, <2>6 DEF Run
<1> QED
  BY <1>3, <1>4

\* Nothing is lost, repeated or reordered on a live connection, for any number of
\* clients, any buffer depth and any run of events.
THEOREM StreamsGapFree == Spec => []GapFree
<1>1. Init => HubInv /\ StreamInv
  BY HubInit, StreamInit
<1>2. HubInv /\ StreamInv /\ [Next]_vars => (HubInv /\ StreamInv)'
  BY HubNext, StreamNext
<1>3. HubInv /\ StreamInv => GapFree
  BY StreamGapFree
<1> QED
  BY <1>1, <1>2, <1>3, PTL DEF Spec

-----------------------------------------------------------------------------
(* The hub implements EventFeed, as far as safety goes: clients join, are fed  *)
(* and are cut off by its steps as EventFeed allows.                           *)

\* How many events a client has not been given.
Behind(c) == sent - joined[c] - Len(received[c])

\* A channel exists from registration on.
Channel(c) ==
    /\ pc[c] \in {"idle", "opening", "connected"} => chan[c] = "none"
    /\ pc[c] \in {"check", "select", "writing", "pinging", "returning"} => chan[c] # "none"

\* What a handler holds and will take has been broadcast.
Ahead(c) == Streaming(c) => Taken(c) + Len(buffer[c]) <= sent

\* A client in the map is behind by its channel and at most one event, in hand or lost
\* by the write that has failed.
Near(c) == c \in clients => Len(buffer[c]) <= Behind(c) /\ Behind(c) <= Len(buffer[c]) + 1

FeedInv == \A c \in Clients : Channel(c) /\ Ahead(c) /\ Near(c)

\* Nobody has joined in the beginning.
LEMMA FeedInvInit == Init => FeedInv
<1> SUFFICES ASSUME Init, NEW c \in Clients
             PROVE  Channel(c) /\ Ahead(c) /\ Near(c)
  BY DEF FeedInv
<1>1. /\ received[c] = <<>> /\ buffer[c] = <<>> /\ pc[c] = "idle" /\ chan[c] = "none"
      /\ c \notin clients /\ joined[c] = 0 /\ sent = 0
  BY DEF Init
<1>2. Len(received[c]) = 0 /\ Len(buffer[c]) = 0
  BY <1>1
<1> QED
  BY <1>1, <1>2 DEF Channel, Ahead, Near, Taken

\* A registered, streaming client is behind by its channel and what its handler holds.
LEMMA BehindStreaming ==
    ASSUME NEW c \in Clients, TypeOK, Stream(c), Streaming(c), c \in clients
    PROVE  Behind(c) = Len(buffer[c]) + (IF pc[c] = "writing" THEN 1 ELSE 0)
<1>1. sent = Taken(c) + Len(buffer[c])
  BY DEF Stream
<1>2. /\ sent \in Nat /\ joined[c] \in Nat
      /\ Len(received[c]) \in Nat /\ Len(buffer[c]) \in Nat
  BY LenProperties DEF TypeOK
<1> DEFINE r == Len(received[c])
           b == Len(buffer[c])
           h == IF pc[c] = "writing" THEN 1 ELSE 0
<1>3. r \in Nat /\ b \in Nat /\ h \in Nat /\ sent = joined[c] + r + h + b
  BY <1>1, <1>2 DEF Taken
<1> HIDE DEF r, b, h
<1>4. sent - joined[c] - r = b + h
  BY <1>2, <1>3
<1> QED
  BY <1>4 DEF Behind, r, b, h

\* A step that leaves a client's stream alone leaves it as far behind.
LEMMA FeedSame ==
    ASSUME NEW c \in Clients, Channel(c), Ahead(c), Near(c),
           joined'[c] = joined[c], received'[c] = received[c], pc'[c] = pc[c],
           buffer'[c] = buffer[c], sent' = sent, c \in clients' => c \in clients,
           chan'[c] = chan[c] \/ (chan[c] # "none" /\ chan'[c] # "none")
    PROVE  Channel(c)' /\ Ahead(c)' /\ Near(c)'
BY DEF Channel, Ahead, Near, Behind, Streaming, Taken

\* Arithmetic of Behind and Taken.
LEMMA Distances ==
    ASSUME NEW s \in Nat, NEW j \in Nat, NEW r \in Nat
    PROVE  /\ s - j - r \in Int
           /\ (s + 1) - j - r = (s - j - r) + 1
           /\ s - j - (r + 1) = (s - j - r) - 1
           /\ j + (r + 1) + 0 = j + r + 1
OBVIOUS

\* An event more for the channel, or one dropped client more.
LEMMA FeedBroadcast ==
    ASSUME NEW c \in Clients, HubInv, Channel(c), Ahead(c), Near(c), Broadcast
    PROVE  Channel(c)' /\ Ahead(c)' /\ Near(c)'
<1>1. /\ joined' = joined /\ received' = received /\ pc' = pc
      /\ sent' = sent + 1 /\ clients' = clients \ Full
      /\ chan'[c] = IF c \in Full THEN "closed" ELSE chan[c]
  BY DEF Broadcast, streams
<1>2. /\ TypeOK /\ MapIsOpenChannels
  BY DEF HubInv
<1>3. /\ sent \in Nat /\ joined[c] \in Nat
      /\ Len(received[c]) \in Nat /\ Len(buffer[c]) \in Nat /\ Taken(c) \in Nat
  BY <1>2, LenProperties DEF TypeOK, Taken
<1>4. Channel(c)'
  BY <1>1, <1>2 DEF Channel, Full, MapIsOpenChannels
<1>5. Taken(c)' = Taken(c) /\ Behind(c)' = Behind(c) + 1 /\ Behind(c) \in Int
  <2>1. Taken(c)' = Taken(c)
    BY <1>1 DEF Taken
  <2>2. Behind(c)' = (sent + 1) - joined[c] - Len(received[c])
    BY <1>1 DEF Behind
  <2> QED
    BY <2>1, <2>2, <1>3, Distances DEF Behind
<1>6. CASE c \in clients \ Full
  <2>1. buffer'[c] = Append(buffer[c], sent + 1) /\ buffer[c] \in Seq(Nat)
    BY <1>1, <1>2, <1>6 DEF Broadcast, TypeOK
  <2>2. Len(buffer'[c]) = Len(buffer[c]) + 1
    BY <2>1
  <2>3. Near(c)'
    <3>1. Len(buffer[c]) <= Behind(c) /\ Behind(c) <= Len(buffer[c]) + 1
      BY <1>6 DEF Near
    <3> QED
      BY <3>1, <2>2, <1>3, <1>5 DEF Near
  <2>4. Ahead(c)'
    BY <1>1, <1>3, <1>5, <2>2 DEF Ahead, Streaming
  <2> QED
    BY <1>4, <2>3, <2>4
<1>7. CASE c \notin clients \ Full
  <2>1. buffer'[c] = buffer[c]
    BY <1>1, <1>7 DEF Broadcast
  <2>2. Ahead(c)' /\ Near(c)'
    BY <1>1, <1>3, <1>5, <1>7, <2>1 DEF Ahead, Near, Streaming
  <2> QED
    BY <1>4, <2>2
<1> QED
  BY <1>6, <1>7

\* A handler that takes an event, writes it, or fails to.
LEMMA FeedHandler ==
    ASSUME NEW c \in Clients, HubInv, Stream(c), Channel(c), Ahead(c), Near(c),
           SelectEvent(c) \/ WriteEvent(c) \/ WriteFails(c)
    PROVE  Channel(c)' /\ Ahead(c)' /\ Near(c)'
<1>0. TypeOK
  BY DEF HubInv
<1>1. /\ joined' = joined /\ chan' = chan /\ sent' = sent /\ clients' = clients
  BY DEF SelectEvent, WriteEvent, WriteFails, hub
<1>2. /\ sent \in Nat /\ joined[c] \in Nat
      /\ Len(received[c]) \in Nat /\ Len(buffer[c]) \in Nat /\ Taken(c) \in Nat
  BY <1>0, LenProperties DEF TypeOK, Taken
<1>3. CASE SelectEvent(c)
  <2>1. /\ pc[c] = "select" /\ pc'[c] = "writing" /\ received' = received
        /\ buffer[c] # <<>> /\ buffer[c] \in Seq(Nat) /\ buffer'[c] = Tail(buffer[c])
    BY <1>0, <1>3 DEF SelectEvent, Goto, TypeOK
  <2>2. Len(buffer'[c]) = Len(buffer[c]) - 1
    BY <2>1
  <2>3. Taken(c)' = Taken(c) + 1 /\ Behind(c)' = Behind(c)
    BY <1>1, <1>2, <2>1 DEF Taken, Behind
  <2>4. c \in clients => Behind(c) = Len(buffer[c])
    <3> SUFFICES ASSUME c \in clients PROVE Behind(c) = Len(buffer[c])
      OBVIOUS
    <3>1. Streaming(c)
      BY <2>1 DEF Streaming
    <3>2. Behind(c) = Len(buffer[c]) + (IF pc[c] = "writing" THEN 1 ELSE 0)
      BY <3>1, <1>0, BehindStreaming
    <3> QED
      BY <3>2, <2>1, <1>2
  <2>5. Ahead(c)'
    BY <1>1, <1>2, <2>1, <2>2, <2>3 DEF Ahead, Streaming
  <2>6. Near(c)'
    BY <1>1, <1>2, <2>2, <2>3, <2>4 DEF Near
  <2>7. Channel(c)'
    BY <1>1, <2>1 DEF Channel
  <2> QED
    BY <2>5, <2>6, <2>7
<1>4. CASE WriteEvent(c)
  <2>1. /\ pc[c] = "writing" /\ pc'[c] = "check" /\ buffer' = buffer
        /\ received[c] \in Seq(Nat) /\ held[c] \in Nat
        /\ received'[c] = Append(received[c], held[c])
    BY <1>0, <1>4 DEF WriteEvent, Goto, TypeOK
  <2>2. Len(received'[c]) = Len(received[c]) + 1
    BY <2>1
  <2>3. Taken(c)' = Taken(c) /\ Behind(c)' = Behind(c) - 1
    <3>1. Taken(c)' = joined[c] + (Len(received[c]) + 1) + 0 /\ Taken(c) = joined[c] + Len(received[c]) + 1
      BY <1>1, <2>1, <2>2 DEF Taken
    <3>2. Behind(c)' = sent - joined[c] - (Len(received[c]) + 1)
      BY <1>1, <2>2 DEF Behind
    <3>3. Taken(c)' = Taken(c)
      BY <3>1, <1>2
    <3>4. sent - joined[c] - (Len(received[c]) + 1) = (sent - joined[c] - Len(received[c])) - 1
      BY <1>2, Distances
    <3> QED
      BY <3>2, <3>3, <3>4 DEF Behind
  <2>4. c \in clients => Behind(c) = Len(buffer[c]) + 1
    <3> SUFFICES ASSUME c \in clients PROVE Behind(c) = Len(buffer[c]) + 1
      OBVIOUS
    <3>1. Streaming(c)
      BY <2>1 DEF Streaming
    <3>2. Behind(c) = Len(buffer[c]) + (IF pc[c] = "writing" THEN 1 ELSE 0)
      BY <3>1, <1>0, BehindStreaming
    <3> QED
      BY <3>2, <2>1, <1>2
  <2>5. Ahead(c)'
    BY <1>1, <1>2, <2>1, <2>3 DEF Ahead, Streaming
  <2>6. Near(c)'
    BY <1>1, <1>2, <2>1, <2>3, <2>4 DEF Near
  <2>7. Channel(c)'
    BY <1>1, <2>1 DEF Channel
  <2> QED
    BY <2>5, <2>6, <2>7
<1>5. CASE WriteFails(c)
  <2>1. /\ pc[c] \in {"writing", "pinging"} /\ pc'[c] = "returning"
        /\ buffer' = buffer /\ received' = received
    BY <1>0, <1>5 DEF WriteFails, Goto, TypeOK
  <2> QED
    BY <1>1, <2>1 DEF Channel, Ahead, Near, Behind, Streaming
<1> QED
  BY <1>3, <1>4, <1>5

\* Every step keeps clients as near and handlers as far as the events allow.
LEMMA FeedInvNext == HubInv /\ StreamInv /\ FeedInv /\ [Next]_vars => FeedInv'
<1> SUFFICES ASSUME HubInv, StreamInv, FeedInv, [Next]_vars, NEW c \in Clients
             PROVE  Channel(c)' /\ Ahead(c)' /\ Near(c)'
  BY DEF FeedInv
<1>0. TypeOK /\ MapIsOpenChannels /\ Stream(c) /\ Channel(c) /\ Ahead(c) /\ Near(c)
  BY DEF StreamInv, HubInv, FeedInv
<1>1. CASE Broadcast
  BY <1>0, <1>1, FeedBroadcast
<1>2. CASE Close
  <2>1. chan'[c] = chan[c] \/ (chan[c] # "none" /\ chan'[c] # "none")
    BY <1>0, <1>2 DEF Close, Drop, MapIsOpenChannels
  <2> QED
    BY <1>0, <1>2, <2>1, FeedSame DEF Close, Drop, streams
<1>3. ASSUME NEW d \in Clients, Moves(d)
      PROVE  Channel(c)' /\ Ahead(c)' /\ Near(c)'
  <2>1. PICK to \in Steps : /\ Edge(pc[d], to)
                            /\ pc' = [pc EXCEPT ![d] = to]
                            /\ UNCHANGED <<hub, buffer, streams>>
    BY <1>0, <1>3, MovesEdge
  <2>2. CASE c = d
    <3>1. pc'[c] = to
      BY <2>1, <2>2, <1>0 DEF TypeOK
    <3> QED
      BY <1>0, <2>1, <2>2, <3>1 DEF Edge, hub, streams, Channel, Ahead, Near, Behind, Streaming, Taken
  <2>3. CASE c # d
    BY <1>0, <2>1, <2>3, FeedSame DEF hub, streams, TypeOK
  <2> QED
    BY <2>2, <2>3
<1>4. ASSUME NEW d \in Clients, Leave(d)
      PROVE  Channel(c)' /\ Ahead(c)' /\ Near(c)'
  BY <1>0, <1>4, FeedSame DEF Leave, streams
<1>5. ASSUME NEW d \in Clients, Register(d)
      PROVE  Channel(c)' /\ Ahead(c)' /\ Near(c)'
  <2>1. CASE c = d
    <3>1. /\ pc'[c] = "check" /\ joined'[c] = sent /\ sent' = sent
          /\ received'[c] = <<>> /\ buffer'[c] = <<>> /\ chan'[c] # "none"
      BY <1>0, <1>5, <2>1 DEF Register, Stream, TypeOK, streams
    <3>2. sent \in Nat /\ Len(received'[c]) = 0 /\ Len(buffer'[c]) = 0
      BY <1>0, <3>1 DEF TypeOK
    <3> QED
      BY <3>1, <3>2 DEF Channel, Ahead, Near, Behind, Streaming, Taken
  <2>2. CASE c # d
    BY <1>0, <1>5, <2>2, FeedSame DEF Register, streams, TypeOK
  <2> QED
    BY <2>1, <2>2
<1>6. ASSUME NEW d \in Clients, Unregister(d)
      PROVE  Channel(c)' /\ Ahead(c)' /\ Near(c)'
  <2>1. CASE c = d
    BY <1>0, <1>6, <2>1 DEF Unregister, Drop, streams, TypeOK, Channel, Ahead, Near, Streaming
  <2>2. CASE c # d
    BY <1>0, <1>6, <2>2, FeedSame DEF Unregister, Drop, streams, TypeOK
  <2> QED
    BY <2>1, <2>2
<1>7. ASSUME NEW d \in Clients, SelectEvent(d) \/ WriteEvent(d) \/ WriteFails(d)
      PROVE  Channel(c)' /\ Ahead(c)' /\ Near(c)'
  <2>1. CASE c = d
    BY <1>0, <1>7, <2>1, FeedHandler
  <2>2. CASE c # d
    BY <1>0, <1>7, <2>2, FeedSame DEF SelectEvent, WriteEvent, WriteFails, Goto, hub, TypeOK
  <2> QED
    BY <2>1, <2>2
<1>8. CASE UNCHANGED vars
  BY <1>0, <1>8, FeedSame DEF vars
<1> QED
  BY <1>1, <1>2, <1>3, <1>4, <1>5, <1>6, <1>7, <1>8, NextSplit
-----------------------------------------------------------------------------
(* The refinement.                                                         *)

\* A broadcast is published: a client is cut off exactly when its channel is full.
LEMMA BroadcastPublishes ==
    ASSUME HubInv, FeedInv, Broadcast
    PROVE  Feed!Publish
<1>0. TypeOK /\ MapIsOpenChannels
  BY DEF HubInv
<1>1. /\ sent < MaxEvents /\ sent' = sent + 1 /\ joined' = joined /\ received' = received
      /\ chan' = [c \in Clients |-> IF c \in Full THEN "closed" ELSE chan[c]]
  BY DEF Broadcast, streams
<1>2. \A c \in Clients : Feed!Behind(c) = Behind(c)
  BY DEF Feed!Behind, Behind
<1>3. \A c \in Clients : c \in clients <=> Links[c] = "live"
  BY <1>0 DEF MapIsOpenChannels, Links, TypeOK
<1>4. \A c \in Full : Behind(c) >= (clientBufferDepth + 1) - 1
  <2> SUFFICES ASSUME NEW c \in Full PROVE Behind(c) >= (clientBufferDepth + 1) - 1
    OBVIOUS
  <2>1. c \in clients /\ c \in Clients /\ Len(buffer[c]) >= clientBufferDepth
    BY <1>0 DEF Full, TypeOK
  <2>2. Near(c) /\ Len(buffer[c]) \in Nat /\ Behind(c) \in Int
    BY <2>1, <1>0, LenProperties, Distances DEF FeedInv, TypeOK, Behind
  <2> QED
    BY <2>1, <2>2, HubAssumption DEF Near
<1>5. \A c \in clients \ Full : Behind(c) < clientBufferDepth + 1
  <2> SUFFICES ASSUME NEW c \in clients \ Full PROVE Behind(c) < clientBufferDepth + 1
    OBVIOUS
  <2>1. c \in Clients /\ Len(buffer[c]) \in Nat /\ Near(c) /\ Behind(c) \in Int
    BY <1>0, LenProperties, Distances DEF FeedInv, TypeOK, Behind
  <2>2. Len(buffer[c]) < clientBufferDepth
    BY <2>1, HubAssumption DEF Full
  <2> QED
    BY <2>1, <2>2, HubAssumption DEF Near
<1>6. \A c \in Clients : Links'[c] = IF c \in Full THEN "cut" ELSE Links[c]
  <2> SUFFICES ASSUME NEW c \in Clients PROVE Links'[c] = IF c \in Full THEN "cut" ELSE Links[c]
    OBVIOUS
  <2>1. chan'[c] = IF c \in Full THEN "closed" ELSE chan[c]
    BY <1>1
  <2> QED
    BY <2>1 DEF Links
<1>7. Full \in SUBSET {c \in Clients : Links[c] = "live"}
  BY <1>0, <1>3 DEF Full, TypeOK
<1> QED
  <2>1. \A c \in Full : Feed!Behind(c) >= (clientBufferDepth + 1) - 1
    BY <1>2, <1>4, <1>7
  <2>2. \A c \in Clients \ Full : Links[c] = "live" => Feed!Behind(c) < clientBufferDepth + 1
    BY <1>2, <1>3, <1>5 DEF Links
  <2>3. Links' = [c \in Clients |-> IF c \in Full THEN "cut" ELSE Links[c]]
    BY <1>6 DEF Links
  <2> QED
    BY <1>1, <1>7, <2>1, <2>2, <2>3 DEF Feed!Publish

\* Channels that are closed cut their clients off.
LEMMA DropCutsOff ==
    ASSUME NEW dropped, dropped \subseteq clients, HubInv, Drop(dropped),
           sent' = sent, joined' = joined, received' = received
    PROVE  Feed!CutOff(dropped) /\ dropped \in SUBSET Clients
<1>1. \A c \in dropped : c \in Clients /\ chan[c] = "open"
  BY DEF HubInv, MapIsOpenChannels
<1>2. \A c \in dropped : Links[c] = "live"
  BY <1>1 DEF Links
<1>3. \A c \in Clients : Links'[c] = IF c \in dropped THEN "cut" ELSE Links[c]
  <2> SUFFICES ASSUME NEW c \in Clients PROVE Links'[c] = IF c \in dropped THEN "cut" ELSE Links[c]
    OBVIOUS
  <2>1. chan'[c] = IF c \in dropped THEN "closed" ELSE chan[c]
    BY DEF Drop
  <2> QED
    BY <2>1 DEF Links
<1>4. \A c \in dropped : Links[c] = "live"
  BY <1>1, <1>2 DEF Links
<1>5. Links' = [c \in Clients |-> IF c \in dropped THEN "cut" ELSE Links[c]]
  BY <1>3 DEF Links
<1> QED
  BY <1>1, <1>4, <1>5 DEF Feed!CutOff

\* Registration joins, on a hub that is closed as a client cut off.
LEMMA RegisterJoins ==
    ASSUME NEW c \in Clients, HubInv, FeedInv, Register(c)
    PROVE  Feed!Join(c)
<1>0. TypeOK
  BY DEF HubInv
<1>1. chan[c] = "none" /\ Links[c] = "away"
  BY DEF Register, FeedInv, Channel, Links
<1>2. PICK to \in {"open", "closed"} : chan' = [chan EXCEPT ![c] = to]
  BY DEF Register
<1>3. \A d \in Clients : chan'[d] = IF d = c THEN to ELSE chan[d]
  BY <1>0, <1>2 DEF TypeOK
<1> DEFINE l == IF to = "open" THEN "live" ELSE "cut"
<1>4. ASSUME NEW d \in Clients
      PROVE  Links'[d] = IF d = c THEN l ELSE Links[d]
  BY <1>3 DEF Links
<1>5. Links' = [Links EXCEPT ![c] = l]
  BY <1>4 DEF Links
<1>6. joined' = [joined EXCEPT ![c] = sent] /\ sent' = sent /\ received' = received /\ l \in {"live", "cut"}
  BY DEF Register, streams
<1> HIDE DEF l
<1>7. Links[c] = "away"
  BY <1>1 DEF Links
<1> QED
  BY <1>5, <1>6, <1>7 DEF Feed!Join

\* A write delivers the next event.
LEMMA WriteDelivers ==
    ASSUME NEW c \in Clients, HubInv, StreamInv, FeedInv, WriteEvent(c)
    PROVE  Feed!Deliver(c)
<1>0. TypeOK /\ Stream(c) /\ Channel(c) /\ Ahead(c)
  BY DEF HubInv, StreamInv, FeedInv
<1>1. /\ pc[c] = "writing" /\ received' = [received EXCEPT ![c] = Append(@, held[c])]
      /\ joined' = joined /\ chan' = chan /\ sent' = sent
  BY DEF WriteEvent, Goto, hub
<1>2. /\ held[c] = Taken(c) /\ Taken(c) = joined[c] + Len(received[c]) + 1
      /\ Taken(c) + Len(buffer[c]) <= sent
  BY <1>0, <1>1 DEF Stream, Streaming, Taken, Ahead
<1>3. /\ sent \in Nat /\ joined[c] \in Nat
      /\ Len(received[c]) \in Nat /\ Len(buffer[c]) \in Nat
  BY <1>0, LenProperties DEF TypeOK
<1>4. sent - joined[c] - Len(received[c]) > 0
  BY <1>2, <1>3
<1>5. Links[c] # "away"
  BY <1>0, <1>1 DEF Channel, Links, TypeOK
<1>6. received' = [received EXCEPT ![c] = Append(@, joined[c] + Len(@) + 1)]
  BY <1>1, <1>2
<1>7. Links[c] # "away" /\ Links' = Links
  BY <1>1, <1>5 DEF Links
<1> QED
  BY <1>1, <1>4, <1>6, <1>7 DEF Feed!Deliver, Feed!Behind

\* Cutting clients off is a step of EventFeed.
LEMMA CutOffSteps ==
    ASSUME NEW cut, cut \in SUBSET Clients, Feed!CutOff(cut)
    PROVE  Feed!Next
BY Zenon DEF Feed!Next

\* Every step of the hub is one of EventFeed or changes nothing a client can see.
LEMMA FeedStep == HubInv /\ StreamInv /\ FeedInv /\ [Next]_vars => [Feed!Next]_(Feed!vars)
<1> SUFFICES ASSUME HubInv, StreamInv, FeedInv, [Next]_vars
             PROVE  Feed!Next \/ UNCHANGED Feed!vars
  OBVIOUS
<1>0. TypeOK
  BY DEF HubInv
<1>1. CASE Broadcast
  BY <1>1, BroadcastPublishes DEF Feed!Next
<1>2. CASE Close
  <2>1. Drop(clients) /\ sent' = sent /\ joined' = joined /\ received' = received
    BY <1>2 DEF Close, streams
  <2>2. Feed!CutOff(clients) /\ clients \in SUBSET Clients
    <3>1. clients \subseteq clients
      OBVIOUS
    <3> QED
      BY <2>1, <3>1, DropCutsOff
  <2> QED
    BY <2>2, CutOffSteps
<1>3. ASSUME NEW c \in Clients, Moves(c) \/ Leave(c) \/ SelectEvent(c) \/ WriteFails(c)
      PROVE  UNCHANGED Feed!vars
  <2>1. UNCHANGED <<sent, joined, received, chan>>
    <3>1. CASE Moves(c)
      BY <3>1, <1>0, MovesEdge DEF hub, streams
    <3>2. CASE Leave(c) \/ SelectEvent(c) \/ WriteFails(c)
      BY <3>2 DEF Leave, SelectEvent, WriteFails, hub, streams
    <3> QED
      BY <1>3, <3>1, <3>2
  <2> QED
    BY <2>1 DEF Feed!vars, Links
<1>4. ASSUME NEW c \in Clients, Register(c)
      PROVE  Feed!Next
  BY <1>4, RegisterJoins DEF Feed!Next
<1>5. ASSUME NEW c \in Clients, Unregister(c)
      PROVE  Feed!Next
  <2>1. Drop(clients \cap {c}) /\ sent' = sent /\ joined' = joined /\ received' = received
    BY <1>5 DEF Unregister, streams
  <2>2. Feed!CutOff(clients \cap {c}) /\ clients \cap {c} \in SUBSET Clients
    <3>1. clients \cap {c} \subseteq clients
      OBVIOUS
    <3> QED
      BY <2>1, <3>1, DropCutsOff
  <2> QED
    BY <2>2, CutOffSteps
<1>6. ASSUME NEW c \in Clients, WriteEvent(c)
      PROVE  Feed!Next
  BY <1>6, WriteDelivers DEF Feed!Next
<1>7. CASE UNCHANGED vars
  BY <1>7 DEF vars, Feed!vars, Links
<1> QED
  BY <1>1, <1>2, <1>3, <1>4, <1>5, <1>6, <1>7, NextSplit

\* A hub without clients is a feed nobody has joined.
LEMMA FeedInit == Init => Feed!Init
BY DEF Init, Feed!Init, Links

\* The hub implements EventFeed, but for its fairness: a client is fed every event since it
\* joined, in order and once, is never more than its buffer and one event behind, and is
\* otherwise cut off (hub.go:11), for any number of clients and any buffer depth.
THEOREM HubImplementsFeed == Spec => Feed!Init /\ [][Feed!Next]_(Feed!vars)
<1>1. Init => HubInv /\ StreamInv /\ FeedInv /\ Feed!Init
  BY HubInit, StreamInit, FeedInvInit, FeedInit
<1>2. HubInv /\ StreamInv /\ FeedInv /\ [Next]_vars => (HubInv /\ StreamInv /\ FeedInv)'
  BY HubNext, StreamNext, FeedInvNext
<1>3. HubInv /\ StreamInv /\ FeedInv /\ [Next]_vars => [Feed!Next]_(Feed!vars)
  BY FeedStep
<1> QED
  BY <1>1, <1>2, <1>3, PTL DEF Spec
=============================================================================
