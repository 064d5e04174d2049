---------------------------- MODULE RealtimeHub ----------------------------
(***************************************************************************)
(* internal/realtime: the Hub that fans events out, and the ServeEvents    *)
(* handlers that stream them, one per connected client.                    *)
(*                                                                         *)
(* Broadcast, register, unregister and Close run under Hub.mu and are one  *)
(* action each.  A handler runs beside them: the priority check, the       *)
(* select, the write and the deferred unregister are separate steps.       *)
(* Event number n is the n-th one broadcast.  A client is one connection;  *)
(* a browser that reconnects is another client.                            *)
(***************************************************************************)
EXTENDS Integers, Sequences

CONSTANTS
    Clients,            \* connections to GET /api/events
    clientBufferDepth,  \* capacity of a client's channel (64 in the code)
    MaxEvents           \* bound: events ever broadcast

ASSUME HubAssumption ==
    /\ clientBufferDepth \in Nat \ {0}
    /\ MaxEvents \in Nat

VARIABLES
    sent,       \* how many events have been broadcast
    clients,    \* Hub.clients
    closed,     \* Hub.closed, and Hub.done closed with it
    chan,       \* a client's channel: "none" before register, "open", "closed"
    buffer,     \* the events in it
    pc,         \* where the client's handler is
    held,       \* the event the handler has taken off the channel, 0 for none
    gone,       \* the clients whose request context is done
    joined,     \* events broadcast before the client's register
    received,   \* the events written to the client
    late,       \* how many of them were written after Close
    panicked    \* close of a closed channel, or send on one

vars == <<sent, clients, closed, chan, buffer, pc, held, gone, joined, received, late, panicked>>

\* What a client's stream consists of, and what only its handler touches.
streams == <<held, received, late>>

Steps == {"idle", "opening", "connected", "check", "select", "writing", "pinging",
          "returning", "returned"}

Init ==
    /\ sent = 0
    /\ clients = {}
    /\ closed = FALSE
    /\ chan = [c \in Clients |-> "none"]
    /\ buffer = [c \in Clients |-> <<>>]
    /\ pc = [c \in Clients |-> "idle"]
    /\ held = [c \in Clients |-> 0]
    /\ gone = {}
    /\ joined = [c \in Clients |-> 0]
    /\ received = [c \in Clients |-> <<>>]
    /\ late = [c \in Clients |-> 0]
    /\ panicked = FALSE

-----------------------------------------------------------------------------
(* The hub.                                                                *)

\* Seeded fault: the channel is closed but its entry stays in the map.
DropKeepingEntry(dropped) ==
    /\ clients' = clients
    /\ chan' = [c \in Clients |-> IF c \in dropped THEN "closed" ELSE chan[c]]
    /\ panicked' = (panicked \/ \E c \in dropped : chan[c] = "closed")

\* delete(h.clients, ch); close(ch).
Drop(dropped) ==
    /\ clients' = clients \ dropped
    /\ chan' = [c \in Clients |-> IF c \in dropped THEN "closed" ELSE chan[c]]
    /\ panicked' = (panicked \/ \E c \in dropped : chan[c] = "closed")

\* Seeded fault: one event too many is taken for a client.
FullLate == {c \in clients : Len(buffer[c]) > clientBufferDepth}

\* The clients whose channel has no room: the non-blocking send would fail.
Full == {c \in clients : Len(buffer[c]) >= clientBufferDepth}

\* A full client is dropped, every other one gets the event.  Sending on a
\* closed channel panics.
Broadcast ==
    LET full == Full
    IN  /\ sent < MaxEvents
        /\ sent' = sent + 1
        /\ clients' = clients \ full
        /\ chan' = [c \in Clients |-> IF c \in full THEN "closed" ELSE chan[c]]
        /\ buffer' = [c \in Clients |->
                         IF c \in clients \ full THEN Append(buffer[c], sent') ELSE buffer[c]]
        /\ panicked' = (panicked \/ \E c \in clients : chan[c] = "closed")
        /\ UNCHANGED <<closed, pc, gone, joined, streams>>

\* Seeded fault: Close does not release the lock, so register waits for ever.
RegisterBlocked(c) ==
    /\ pc[c] = "connected"
    /\ ~closed
    /\ pc' = [pc EXCEPT ![c] = "check"]
    /\ joined' = [joined EXCEPT ![c] = sent]
    /\ chan' = [chan EXCEPT ![c] = "open"]
    /\ clients' = clients \cup {c}
    /\ UNCHANGED <<sent, closed, buffer, gone, streams, panicked>>

\* On a hub that is closed the client gets a closed channel.
Register(c) ==
    /\ pc[c] = "connected"
    /\ pc' = [pc EXCEPT ![c] = "check"]
    /\ joined' = [joined EXCEPT ![c] = sent]
    /\ \/ /\ closed
          /\ chan' = [chan EXCEPT ![c] = "closed"]
          /\ UNCHANGED clients
       \/ /\ ~closed
          /\ chan' = [chan EXCEPT ![c] = "open"]
          /\ clients' = clients \cup {c}
    /\ UNCHANGED <<sent, closed, buffer, gone, streams, panicked>>

Close ==
    /\ ~closed
    /\ closed' = TRUE
    /\ Drop(clients)
    /\ UNCHANGED <<sent, buffer, pc, gone, joined, streams>>

\* The handler's deferred unregister; a no-op for a client already dropped.
Unregister(c) ==
    /\ pc[c] = "returning"
    /\ pc' = [pc EXCEPT ![c] = "returned"]
    /\ Drop(clients \cap {c})
    /\ UNCHANGED <<sent, closed, buffer, gone, joined, streams>>

-----------------------------------------------------------------------------
(* A handler.                                                              *)

hub == <<sent, clients, closed, chan, gone, joined, panicked>>

Goto(c, from, to) == pc[c] = from /\ pc' = [pc EXCEPT ![c] = to]

Connect(c) == Goto(c, "idle", "opening") /\ UNCHANGED <<hub, buffer, streams>>

\* ": connected" opens the stream before the client is registered; a failed
\* write ends the handler before there is anything to unregister.
WriteConnected(c) ==
    /\ Goto(c, "opening", "connected") \/ Goto(c, "opening", "returned")
    /\ UNCHANGED <<hub, buffer, streams>>

\* Seeded fault: no priority check, the select decides alone.
CheckNothing(c) == Goto(c, "check", "select") /\ UNCHANGED <<hub, buffer, streams>>

\* The priority check at the top of the loop.
CheckDone(c) ==
    /\ Goto(c, "check", IF closed THEN "returning" ELSE "select")
    /\ UNCHANGED <<hub, buffer, streams>>

\* Seeded fault: a receive from a closed channel is not told from an event.
ReturnIgnoringDrop(c) ==
    /\ c \in gone \/ closed
    /\ Goto(c, "select", "returning")
    /\ UNCHANGED <<hub, buffer, streams>>

\* The select returns: the client left, the hub shut down, or the channel is
\* closed and empty.
SelectReturn(c) ==
    /\ c \in gone \/ closed \/ (buffer[c] = <<>> /\ chan[c] = "closed")
    /\ Goto(c, "select", "returning")
    /\ UNCHANGED <<hub, buffer, streams>>

\* Events still buffered on a closed channel are received first.  When several
\* cases are ready the select takes any of them.
SelectEvent(c) ==
    /\ buffer[c] # <<>>
    /\ Goto(c, "select", "writing")
    /\ held' = [held EXCEPT ![c] = Head(buffer[c])]
    /\ buffer' = [buffer EXCEPT ![c] = Tail(@)]
    /\ UNCHANGED <<hub, received, late>>

SelectPing(c) == Goto(c, "select", "pinging") /\ UNCHANGED <<hub, buffer, streams>>

WriteEvent(c) ==
    /\ Goto(c, "writing", "check")
    /\ held' = [held EXCEPT ![c] = 0]
    /\ received' = [received EXCEPT ![c] = Append(@, held[c])]
    /\ late' = [late EXCEPT ![c] = IF closed THEN @ + 1 ELSE @]
    /\ UNCHANGED <<hub, buffer>>

WritePing(c) == Goto(c, "pinging", "check") /\ UNCHANGED <<hub, buffer, streams>>

\* Seeded fault: the error of a write is ignored.
WriteErrorIgnored(c) ==
    /\ Goto(c, "writing", "check") \/ Goto(c, "pinging", "check")
    /\ held' = [held EXCEPT ![c] = 0]
    /\ UNCHANGED <<hub, buffer, received, late>>

\* A write fails when the client is dead or stalled for writeTimeout.
WriteFails(c) ==
    /\ Goto(c, "writing", "returning") \/ Goto(c, "pinging", "returning")
    /\ held' = [held EXCEPT ![c] = 0]
    /\ UNCHANGED <<hub, buffer, received, late>>

Leave(c) ==
    /\ pc[c] \notin {"idle", "returned"}
    /\ c \notin gone
    /\ gone' = gone \cup {c}
    /\ UNCHANGED <<sent, clients, closed, chan, buffer, pc, joined, streams, panicked>>

Handler(c) ==
    \/ WriteConnected(c) \/ Register(c)
    \/ CheckDone(c)
    \/ SelectReturn(c) \/ SelectEvent(c) \/ SelectPing(c)
    \/ WriteEvent(c) \/ WritePing(c) \/ WriteFails(c)
    \/ Unregister(c)

Next ==
    \/ Broadcast
    \/ Close
    \/ \E c \in Clients : Connect(c) \/ Leave(c) \/ Handler(c)

Spec == Init /\ [][Next]_vars

\* A handler that can step does, since no write outlasts its deadline.  Its
\* select does not pass over a ready case for ever: Go chooses among the ready
\* cases at random, and the ping is ready once in 25 seconds only.  Events,
\* connections, departures and the shutdown need never come.
FairSpec ==
    /\ Spec
    /\ \A c \in Clients : /\ WF_vars(Handler(c))
                          /\ SF_vars(SelectReturn(c))
                          /\ SF_vars(SelectEvent(c))

-----------------------------------------------------------------------------
(* Properties.                                                             *)

\* Every variable has its type, and no channel is filled beyond its capacity.
TypeOK ==
    /\ sent \in Nat
    /\ clients \subseteq Clients
    /\ closed \in BOOLEAN
    /\ chan \in [Clients -> {"none", "open", "closed"}]
    /\ buffer \in [Clients -> Seq(Nat)]
    /\ \A c \in Clients : Len(buffer[c]) <= clientBufferDepth
    /\ pc \in [Clients -> Steps]
    /\ held \in [Clients -> Nat]
    /\ gone \subseteq Clients
    /\ joined \in [Clients -> Nat]
    /\ received \in [Clients -> Seq(Nat)]
    /\ late \in [Clients -> Nat]
    /\ panicked \in BOOLEAN

\* However overflow, disconnection and shutdown interleave, no channel is closed
\* twice and nothing is sent on a closed one (hub.go:96).
NoPanic == ~panicked

\* The hub's map is exactly the set of open channels: a client is not dropped
\* and still broadcast to, nor forgotten with its handler left waiting.
MapIsOpenChannels == clients = {c \in Clients : chan[c] = "open"}

\* The events from client c's registration to the n-th after it.
Run(c, n) == [i \in 1..n |-> joined[c] + i]

InHand(c) == IF pc[c] = "writing" THEN <<held[c]>> ELSE <<>>

\* Nothing is lost, repeated or reordered on a live connection: what the client
\* has, what its handler holds and what is buffered are every event since it
\* registered (hub.go:11).  A client that was dropped got a gap-free prefix.
GapFree ==
    \A c \in Clients :
        /\ received[c] = Run(c, Len(received[c]))
        /\ c \in clients /\ pc[c] # "returning" =>
              received[c] \o InHand(c) \o buffer[c] = Run(c, sent - joined[c])

\* How a channel looks to its client.
Links == [c \in Clients |-> IF chan[c] = "none" THEN "away"
                            ELSE IF chan[c] = "open" THEN "live" ELSE "cut"]

\* The same promise as a specification of its own: the hub implements EventFeed,
\* where a client is at most its buffer and one event in hand behind.
Feed == INSTANCE EventFeed WITH
            Lag <- clientBufferDepth + 1,
            link <- Links,
            feed <- received

FeedSpec == Feed!Spec

\* Shutdown lets a handler finish at most the write it had already chosen.
AtMostOneLateWrite == \A c \in Clients : late[c] <= 1

\* The comment on Hub.done (hub.go:32): after Close a handler never writes the
\* events still buffered on its channel.
NoLateWrite == \A c \in Clients : late[c] = 0

\* After Close every handler returns, so the server's shutdown is not held up
\* by a stream; new connections are turned away at once.
ShutdownDrains == \A c \in Clients : closed /\ pc[c] # "idle" ~> pc[c] = "returned"

\* A client the hub has dropped is disconnected, so that it can resync, even if
\* events keep coming.
DroppedDisconnects == \A c \in Clients : chan[c] = "closed" ~> pc[c] = "returned"
=============================================================================
