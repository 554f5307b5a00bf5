----------------------------- MODULE SyncStream -----------------------------
(***************************************************************************)
(* The live form of GET /v1/sync at one node: a client connects with the   *)
(* id of the last event it received, gets a page of stored public units,   *)
(* and from then on the public units clients submit, over the broadcast    *)
(* channel that POST /v1/units sends to.                                   *)
(*                                                                         *)
(* An action is what happens between two await points.  The store survives *)
(* a crash (the SQLite backend); the channel and the connections do not.   *)
(***************************************************************************)
EXTENDS Units, FiniteSets, Sequences

CONSTANTS Client,      \* who connects
          Offered,     \* bound: the units clients submit here
          Federated,   \* bound: the units the federation task pulls to here
          PageLimit,   \* units in the replayed page (50 by default, at most 500)
          Capacity,    \* SSE_CHANNEL_CAPACITY (256): what the channel retains
          MaxFaults    \* bound: crashes, disconnections and dropped handlers

ASSUME SyncStreamAssumption ==
    /\ Offered \subseteq Unit
    /\ Federated \subseteq Unit /\ \A u \in Federated : IsPublic(u)
    /\ PageLimit \in Nat \ {0}
    /\ Capacity \in Nat \ {0}
    /\ MaxFaults \in Nat

VARIABLES
    store,     \* the units the node holds
    handlers,  \* units stored by a POST handler that has yet to broadcast
    channel,   \* the units broadcast since the process started
    \* The connection of each client.
    phase,     \* where the stream of c is
    position,  \* position[c]: index in channel of c's next live event
    after,     \* after[c]: the cursor c connected with
    batch,     \* batch[c]: units of the replayed page not yet sent
    \* What each client has seen.
    last,      \* last[c]: id of the last event c received, 0 before the first
    received,  \* received[c]: the units c received, over all its connections
    lagged,    \* lagged[c]: c got a lag event on this connection
    \* History, for the properties only.
    past,      \* past[c]: public units past the cursor when c connected
    joined,    \* joined[c]: length of the channel when c connected
    whole,     \* whole[c]: the replayed page was the last
    faults     \* faults so far

connVars == <<phase, position, after, batch>>
seenVars == <<last, received, lagged>>
pastVars == <<past, joined, whole>>
vars == <<store, handlers, channel, connVars, seenVars, pastVars, faults>>

Phase == {"off", "list", "replay", "live"}

TypeOK ==
    /\ store \subseteq Unit
    /\ handlers \subseteq Unit
    /\ channel \in Seq(Unit)
    /\ phase \in [Client -> Phase]
    /\ position \in [Client -> Nat]
    /\ \A c \in Client : phase[c] # "off" => position[c] \in 1 .. Len(channel) + 1
    /\ after \in [Client -> Nat]
    /\ batch \in [Client -> SUBSET Unit]
    /\ last \in [Client -> Nat]
    /\ received \in [Client -> SUBSET Unit]
    /\ lagged \in [Client -> BOOLEAN]
    /\ past \in [Client -> SUBSET Unit]
    /\ joined \in [Client -> Nat]
    /\ whole \in [Client -> BOOLEAN]
    /\ faults \in Nat

Init ==
    /\ store = {} /\ handlers = {} /\ channel = <<>>
    /\ phase = [c \in Client |-> "off"]
    /\ position = [c \in Client |-> 1]
    /\ after = [c \in Client |-> 0]
    /\ batch = [c \in Client |-> {}]
    /\ last = [c \in Client |-> 0]
    /\ received = [c \in Client |-> {}]
    /\ lagged = [c \in Client |-> FALSE]
    /\ past = [c \in Client |-> {}]
    /\ joined = [c \in Client |-> 0]
    /\ whole = [c \in Client |-> FALSE]
    /\ faults = 0
-----------------------------------------------------------------------------
\* One more fault, while the budget lasts.
Fault == faults < MaxFaults /\ faults' = faults + 1

\* list_units for the sync endpoint, and the page it cuts off.
Stream(i) == {u \in store : IsPublic(u) /\ u.id > i}

FirstPage(S) == {u \in S : Cardinality({v \in S : v.id < u.id}) < PageLimit}
-----------------------------------------------------------------------------
(***************************************************************************)
(* Writers of the store.                                                   *)
(***************************************************************************)

\* POST /v1/units up to and including a put_unit that succeeds.
Submit(u) ==
    /\ u \in Offered /\ ~HasId(store, u.id)
    /\ store' = store \union {u}
    /\ handlers' = handlers \union {u}
    /\ UNCHANGED <<channel, connVars, seenVars, pastVars, faults>>

\* Faulty variant: every unit is broadcast.
BroadcastAll(u) ==
    /\ u \in handlers
    /\ handlers' = handlers \ {u}
    /\ channel' = Append(channel, u)
    /\ UNCHANGED <<store, connVars, seenVars, pastVars, faults>>

\* The rest of the handler: a public unit goes to the channel.
Broadcast(u) ==
    /\ u \in handlers
    /\ handlers' = handlers \ {u}
    /\ channel' = IF IsPublic(u) THEN Append(channel, u) ELSE channel
    /\ UNCHANGED <<store, connVars, seenVars, pastVars, faults>>

\* The client of a POST goes away and the server drops the handler.
DropHandler(u) ==
    /\ u \in handlers
    /\ handlers' = handlers \ {u}
    /\ Fault
    /\ UNCHANGED <<store, channel, connVars, seenVars, pastVars>>

\* The federation task stores a pulled unit, and tells nobody.
Pull(u) ==
    /\ u \in Federated /\ ~HasId(store, u.id)
    /\ store' = store \union {u}
    /\ UNCHANGED <<handlers, channel, connVars, seenVars, pastVars, faults>>
-----------------------------------------------------------------------------
(***************************************************************************)
(* The connection of client c.                                             *)
(***************************************************************************)

\* Faulty variant: the subscription starts one event too late.
ConnectSkipping(c) ==
    /\ phase[c] = "off"
    /\ phase' = [phase EXCEPT ![c] = "list"]
    /\ position' = [position EXCEPT ![c] = Len(channel) + 2]
    /\ after' = [after EXCEPT ![c] = last[c]]
    /\ lagged' = [lagged EXCEPT ![c] = FALSE]
    /\ past' = [past EXCEPT ![c] = Stream(last[c])]
    /\ joined' = [joined EXCEPT ![c] = Len(channel)]
    /\ UNCHANGED <<store, handlers, channel, batch, last, received, whole, faults>>

\* `sync' asked for an event stream: the node subscribes to the channel before
\* it reads the store.  The client sends the id of the last event it received.
Connect(c) ==
    /\ phase[c] = "off"
    /\ phase' = [phase EXCEPT ![c] = "list"]
    /\ position' = [position EXCEPT ![c] = Len(channel) + 1]
    /\ after' = [after EXCEPT ![c] = last[c]]
    /\ lagged' = [lagged EXCEPT ![c] = FALSE]
    /\ past' = [past EXCEPT ![c] = Stream(last[c])]
    /\ joined' = [joined EXCEPT ![c] = Len(channel)]
    /\ UNCHANGED <<store, handlers, channel, batch, last, received, whole, faults>>

\* list_units: one page; whether there is more is not looked at.
List(c) ==
    /\ phase[c] = "list"
    /\ phase' = [phase EXCEPT ![c] = "replay"]
    /\ batch' = [batch EXCEPT ![c] = FirstPage(Stream(after[c]))]
    /\ whole' = [whole EXCEPT ![c] = FirstPage(Stream(after[c])) = Stream(after[c])]
    /\ UNCHANGED <<store, handlers, channel, position, after, seenVars, past, joined, faults>>

\* c receives an event for u.
Receive(c, u) ==
    /\ received' = [received EXCEPT ![c] = @ \union {u}]
    /\ last' = [last EXCEPT ![c] = u.id]

\* The historical half of the stream, in the order of the ids.
Replay(c, u) ==
    /\ phase[c] = "replay"
    /\ u \in batch[c] /\ \A v \in batch[c] : u.id <= v.id
    /\ batch' = [batch EXCEPT ![c] = @ \ {u}]
    /\ Receive(c, u)
    /\ UNCHANGED <<store, handlers, channel, phase, position, after, lagged, pastVars, faults>>

\* Faulty variant: the node subscribes when the replay is over.
GoLiveSubscribing(c) ==
    /\ phase[c] = "replay" /\ batch[c] = {}
    /\ phase' = [phase EXCEPT ![c] = "live"]
    /\ position' = [position EXCEPT ![c] = Len(channel) + 1]
    /\ UNCHANGED <<store, handlers, channel, after, batch, seenVars, pastVars, faults>>

\* The historical half is exhausted: the chained live half is polled from now on.
GoLive(c) ==
    /\ phase[c] = "replay" /\ batch[c] = {}
    /\ phase' = [phase EXCEPT ![c] = "live"]
    /\ UNCHANGED <<store, handlers, channel, position, after, batch, seenVars, pastVars, faults>>

\* The oldest index the channel retains.
Oldest == IF Len(channel) > Capacity THEN Len(channel) - Capacity + 1 ELSE 1

\* Faulty variant: a receiver that fell behind waits for what is gone.
LiveStuck(c) ==
    /\ phase[c] = "live"
    /\ position[c] \in Oldest..Len(channel)
    /\ position' = [position EXCEPT ![c] = @ + 1]
    /\ Receive(c, channel[position[c]])
    /\ UNCHANGED <<store, handlers, channel, phase, after, batch, lagged, pastVars, faults>>

\* The live half: the next unit, or a lag event when the channel has dropped it.
Live(c) ==
    /\ phase[c] = "live"
    /\ \/ /\ position[c] \in Oldest..Len(channel)
          /\ position' = [position EXCEPT ![c] = @ + 1]
          /\ Receive(c, channel[position[c]])
          /\ UNCHANGED lagged
       \/ /\ position[c] < Oldest
          /\ position' = [position EXCEPT ![c] = Oldest]
          /\ lagged' = [lagged EXCEPT ![c] = TRUE]
          /\ UNCHANGED <<last, received>>
    /\ UNCHANGED <<store, handlers, channel, phase, after, batch, pastVars, faults>>

\* Of the connection nothing remains but what the client has seen.
Off(C) ==
    /\ phase' = [c \in Client |-> IF c \in C THEN "off" ELSE phase[c]]
    /\ batch' = [c \in Client |-> IF c \in C THEN {} ELSE batch[c]]

Disconnect(c) ==
    /\ phase[c] # "off"
    /\ Off({c})
    /\ Fault
    /\ UNCHANGED <<store, handlers, channel, position, after, seenVars, pastVars>>

\* The process dies and is started again on the same database.
Crash ==
    /\ Fault
    /\ handlers' = {}
    /\ channel' = <<>>
    /\ Off(Client)
    /\ UNCHANGED <<store, position, after, seenVars, pastVars>>
-----------------------------------------------------------------------------
\* The stream of c goes on.
StreamStep(c) == List(c) \/ (\E u \in batch[c] : Replay(c, u)) \/ GoLive(c) \/ Live(c)

Next ==
    \/ \E u \in Unit : Submit(u) \/ Broadcast(u) \/ DropHandler(u) \/ Pull(u)
    \/ \E c \in Client : Connect(c) \/ StreamStep(c) \/ Disconnect(c)
    \/ Crash

Spec == Init /\ [][Next]_vars

\* A client that is connected goes on reading, and the server goes on serving it.
Fairness == \A c \in Client : WF_vars(StreamStep(c))

FairSpec == Spec /\ Fairness
-----------------------------------------------------------------------------
(***************************************************************************)
(* Properties.                                                             *)
(***************************************************************************)

\* What the connection of c is for: the public units past its cursor when it
\* connected, and those broadcast since.
Due(c) == past[c] \union {channel[i] : i \in joined[c] + 1 .. Len(channel)}

\* Where replay and live events meet nothing falls between: once c has read all
\* there is it has everything due, unless it got a lag event or the replayed
\* page was cut off (sync subscribes before it lists; lag is never silent).
QuietIsComplete ==
    \A c \in Client :
        phase[c] = "live" /\ position[c] > Len(channel) /\ whole[c] /\ ~lagged[c] =>
            Due(c) \subseteq received[c]

\* No unit that is not public is sent to anyone, nor is on its way.
OnlyPublicStreamed ==
    \A c \in Client : \A u \in received[c] \union batch[c] \union Due(c) : IsPublic(u)

\* Every public unit submitted while c is connected reaches c, or c gets a lag
\* event, or the connection is closed.
Pushed ==
    \A c \in Client, u \in Unit :
        phase[c] # "off" /\ u \in Due(c) /\ u \notin past[c] ~>
            u \in received[c] \/ lagged[c] \/ phase[c] = "off"
-----------------------------------------------------------------------------
(***************************************************************************)
(* The inductive invariant of the proofs.                                  *)
(***************************************************************************)

\* Nothing but public units is on a way to a client.
PublicInv ==
    /\ \A i \in 1 .. Len(channel) : IsPublic(channel[i])
    /\ \A c \in Client : \A u \in past[c] \union batch[c] \union received[c] : IsPublic(u)

\* What connection c still owes: the page is to be read from the cursor on or is
\* being sent, and the channel is read from where c joined it.
OwedInv(c) ==
    /\ phase[c] # "off" =>
          /\ joined[c] < position[c]
          /\ past[c] \subseteq Stream(after[c])
          /\ ~lagged[c] => \A i \in joined[c] + 1 .. position[c] - 1 : channel[i] \in received[c]
    /\ phase[c] \in {"replay", "live"} /\ whole[c] => past[c] \subseteq received[c] \union batch[c]
    /\ phase[c] = "live" => batch[c] = {}

IInv == TypeOK /\ PublicInv /\ \A c \in Client : OwedInv(c)
=============================================================================
