----------------------------- MODULE EventFeed -----------------------------
(***************************************************************************)
(* What the realtime hub promises a client, without channels or handlers:  *)
(* from the moment it joins, a live client is fed every event, in order    *)
(* and once.  It is never more than Lag events behind: a client that does  *)
(* not keep up is cut off, so that it knows it has to resync, instead of   *)
(* missing an event (hub.go:11).  A client may be cut off for other        *)
(* reasons too: it left, its connection failed, the server is stopping.    *)
(***************************************************************************)
EXTENDS Integers, Sequences

CONSTANTS Clients, Lag, MaxEvents

VARIABLES
    sent,     \* events published so far
    link,     \* "away", "live" or "cut"
    joined,   \* events published before the client joined
    feed      \* the events it has been given

vars == <<sent, link, joined, feed>>

Behind(c) == sent - joined[c] - Len(feed[c])

Init ==
    /\ sent = 0
    /\ link = [c \in Clients |-> "away"]
    /\ joined = [c \in Clients |-> 0]
    /\ feed = [c \in Clients |-> <<>>]

Join(c) ==
    /\ link[c] = "away"
    /\ \E l \in {"live", "cut"} : link' = [link EXCEPT ![c] = l]
    /\ joined' = [joined EXCEPT ![c] = sent]
    /\ UNCHANGED <<sent, feed>>

\* Whoever is too far behind is cut off; no one within Lag - 1 is.
Publish ==
    /\ sent < MaxEvents
    /\ sent' = sent + 1
    /\ \E slow \in SUBSET {c \in Clients : link[c] = "live"} :
          /\ \A c \in slow : Behind(c) >= Lag - 1
          /\ \A c \in Clients \ slow : link[c] = "live" => Behind(c) < Lag
          /\ link' = [c \in Clients |-> IF c \in slow THEN "cut" ELSE link[c]]
    /\ UNCHANGED <<joined, feed>>

\* The next event and no other.
Deliver(c) ==
    /\ link[c] # "away"
    /\ Behind(c) > 0
    /\ feed' = [feed EXCEPT ![c] = Append(@, joined[c] + Len(@) + 1)]
    /\ UNCHANGED <<sent, link, joined>>

CutOff(cut) ==
    /\ \A c \in cut : link[c] = "live"
    /\ link' = [c \in Clients |-> IF c \in cut THEN "cut" ELSE link[c]]
    /\ UNCHANGED <<sent, joined, feed>>

Next ==
    \/ Publish
    \/ \E c \in Clients : Join(c) \/ Deliver(c)
    \/ \E cut \in SUBSET Clients : CutOff(cut)

\* A live client that is behind is served or cut off.
Served(c) == link[c] = "live" /\ Behind(c) > 0 /\ (Deliver(c) \/ CutOff({c}))

Spec == Init /\ [][Next]_vars /\ \A c \in Clients : WF_vars(Served(c))
=============================================================================
