--------------------------- MODULE SyncStreamProofs ---------------------------
(***************************************************************************)
(* Proofs about SyncStream, for any set of clients and of units, any size  *)
(* of the page and of the channel, and any number of faults.               *)
(***************************************************************************)
EXTENDS SyncStream, TLAPS

USE DEF connVars, seenVars, pastVars

\* A step is a stuttering step or one of the actions.
LEMMA StepCases ==
    ASSUME [Next]_vars
    PROVE  \/ UNCHANGED vars
           \/ \E u \in Unit : Submit(u)
           \/ \E u \in Unit : Broadcast(u)
           \/ \E u \in Unit : DropHandler(u)
           \/ \E u \in Unit : Pull(u)
           \/ \E c \in Client : Connect(c)
           \/ \E c \in Client : List(c)
           \/ \E c \in Client : \E u \in batch[c] : Replay(c, u)
           \/ \E c \in Client : GoLive(c)
           \/ \E c \in Client : Live(c)
           \/ \E c \in Client : Disconnect(c)
           \/ Crash
  BY DEF Next, StreamStep

LEMMA FaultType == ASSUME TypeOK, Fault \/ UNCHANGED faults PROVE faults' \in Nat
  BY DEF TypeOK, Fault

\* The page for a cursor holds public units of the store, past the cursor.
LEMMA PageFacts ==
    ASSUME TypeOK, NEW i \in Nat
    PROVE  /\ FirstPage(Stream(i)) \subseteq Stream(i) /\ Stream(i) \subseteq Unit
           /\ \A u \in Stream(i) : IsPublic(u)
  BY DEF TypeOK, FirstPage, Stream

\* An id is a number that a cursor can be.
LEMMA IdType == ASSUME NEW u \in Unit PROVE u.id \in Nat
<1>1. u \in UnitRecord
  BY UnitAssumption
<1> QED
  BY <1>1 DEF UnitRecord

\* The channel retains the last event, if there is one.
LEMMA OldestFacts ==
    ASSUME TypeOK
    PROVE  Len(channel) \in Nat /\ Oldest \in 1 .. Len(channel) + 1
<1>1. Len(channel) \in Nat
  BY DEF TypeOK
<1> QED
  BY <1>1, SyncStreamAssumption DEF Oldest

\* A connection that a step leaves alone owes what it owed.
LEMMA ConnectionKeeps ==
    ASSUME TypeOK, NEW c \in Client, OwedInv(c),
           store \subseteq store', channel' = channel \/ phase[c] = "off",
           phase'[c] = phase[c], position'[c] = position[c], after'[c] = after[c],
           batch'[c] = batch[c], past'[c] = past[c], joined'[c] = joined[c],
           whole'[c] = whole[c], lagged'[c] = lagged[c], received'[c] = received[c]
    PROVE  OwedInv(c)'
<1>1. \A i : Stream(i) \subseteq Stream(i)'
  BY DEF Stream
<1> QED
  BY <1>1 DEF OwedInv
-----------------------------------------------------------------------------
(***************************************************************************)
(* The writers of the store.                                               *)
(***************************************************************************)

\* The store grows, and nobody is told.
LEMMA StoreKeeps ==
    ASSUME IInv, store \subseteq store', store' \subseteq Unit, handlers' \subseteq Unit,
           UNCHANGED <<channel, connVars, seenVars, pastVars>>, faults' \in Nat
    PROVE  IInv'
<1>1. TypeOK'
  BY DEF IInv, TypeOK
<1>2. PublicInv'
  BY DEF IInv, PublicInv
<1>3. ASSUME NEW c \in Client PROVE OwedInv(c)'
  BY ConnectionKeeps DEF IInv
<1> QED
  BY <1>1, <1>2, <1>3 DEF IInv

LEMMA BroadcastKeeps ==
    ASSUME IInv, NEW u \in Unit, Broadcast(u)
    PROVE  IInv'
<1> USE DEF Broadcast
<1>1. TypeOK
  BY DEF IInv
<1>2. CASE ~IsPublic(u)
  <2>1. handlers' \subseteq Unit /\ faults' \in Nat /\ store' = store /\ store \subseteq Unit
    BY <1>1 DEF TypeOK
  <2> QED
    BY <1>2, <2>1, StoreKeeps
<1>3. CASE IsPublic(u)
  <2>1. channel' = Append(channel, u)
    BY <1>3
  <2>2. /\ channel' \in Seq(Unit) /\ Len(channel) \in Nat /\ Len(channel') = Len(channel) + 1
        /\ \A i \in 1 .. Len(channel) : channel'[i] = channel[i]
        /\ channel'[Len(channel) + 1] = u
    BY <1>1, <2>1 DEF TypeOK
  <2>3. TypeOK'
    <3>1. \A c \in Client : phase[c] # "off" => position[c] \in 1 .. Len(channel') + 1
      BY <1>1, <2>2 DEF TypeOK
    <3> QED
      BY <1>1, <2>2, <3>1 DEF TypeOK
  <2>4. PublicInv'
    <3>1. \A i \in 1 .. Len(channel') : IsPublic(channel'[i])
      <4>1. SUFFICES ASSUME NEW i \in 1 .. Len(channel) + 1 PROVE IsPublic(channel'[i])
        BY <2>2
      <4>2. i \in 1 .. Len(channel) \/ i = Len(channel) + 1
        BY <2>2
      <4> QED
        BY <1>3, <2>2, <4>2 DEF IInv, PublicInv
    <3> QED
      BY <3>1 DEF IInv, PublicInv
  <2>5. ASSUME NEW c \in Client PROVE OwedInv(c)'
    <3>1. OwedInv(c) /\ (phase[c] # "off" => position[c] \in 1 .. Len(channel) + 1)
      BY <1>1 DEF IInv, TypeOK
    <3>2. ASSUME phase[c] # "off", ~lagged[c], NEW i \in joined[c] + 1 .. position[c] - 1
          PROVE  channel'[i] \in received[c]
      <4>1. joined[c] \in Nat /\ position[c] \in Nat
        BY <1>1 DEF TypeOK
      <4>2. i \in 1 .. Len(channel)
        BY <2>2, <3>1, <3>2, <4>1
      <4> QED
        BY <2>2, <3>1, <3>2, <4>2 DEF OwedInv
    <3>3. \A i : Stream(i)' = Stream(i)
      BY DEF Stream
    <3> QED
      BY <3>1, <3>2, <3>3 DEF OwedInv
  <2> QED
    BY <2>3, <2>4, <2>5 DEF IInv
<1> QED
  BY <1>2, <1>3
-----------------------------------------------------------------------------
(***************************************************************************)
(* The connections.                                                        *)
(***************************************************************************)
LEMMA ConnectKeeps ==
    ASSUME IInv, NEW c \in Client, Connect(c)
    PROVE  IInv'
<1> USE DEF Connect
<1>1. TypeOK /\ Len(channel) \in Nat
  BY OldestFacts DEF IInv
<1>2. last[c] \in Nat /\ Stream(last[c]) \subseteq Unit /\ \A u \in Stream(last[c]) : IsPublic(u)
  <2>1. last[c] \in Nat
    BY <1>1 DEF TypeOK
  <2> QED
    BY <1>1, <2>1, PageFacts
<1>3. TypeOK'
  <2>1. phase' \in [Client -> Phase] /\ position' \in [Client -> Nat] /\ after' \in [Client -> Nat]
    BY <1>1, <1>2 DEF TypeOK, Phase
  <2>2. /\ lagged' \in [Client -> BOOLEAN] /\ past' \in [Client -> SUBSET Unit]
        /\ joined' \in [Client -> Nat]
    BY <1>1, <1>2 DEF TypeOK
  <2>3. ASSUME NEW e \in Client, phase'[e] # "off" PROVE position'[e] \in 1 .. Len(channel') + 1
    BY <1>1, <2>3 DEF TypeOK
  <2> QED
    BY <1>1, <2>1, <2>2, <2>3 DEF TypeOK
<1>4. PublicInv'
  BY <1>1, <1>2 DEF IInv, PublicInv, TypeOK
<1>5. ASSUME NEW e \in Client PROVE OwedInv(e)'
  <2>1. CASE e # c
    BY <1>1, <1>5, <2>1, ConnectionKeeps DEF IInv, TypeOK
  <2>2. CASE e = c
    <3>1. /\ phase'[c] = "list" /\ position'[c] = Len(channel) + 1 /\ joined'[c] = Len(channel)
          /\ after'[c] = last[c] /\ past'[c] = Stream(last[c])
      BY <1>1 DEF TypeOK
    <3>2. past'[c] \subseteq Stream(after[c])'
      BY <3>1 DEF Stream
    <3>3. joined'[c] < position'[c] /\ joined'[c] + 1 .. position'[c] - 1 = {}
      BY <1>1, <3>1
    <3> QED
      BY <2>2, <3>1, <3>2, <3>3 DEF OwedInv
  <2> QED
    BY <2>1, <2>2
<1> QED
  BY <1>3, <1>4, <1>5 DEF IInv

LEMMA ListKeeps ==
    ASSUME IInv, NEW c \in Client, List(c)
    PROVE  IInv'
<1> USE DEF List
<1>1. TypeOK
  BY DEF IInv
<1> DEFINE S == Stream(after[c])
<1>2. FirstPage(S) \subseteq S /\ S \subseteq Unit /\ \A u \in S : IsPublic(u)
  <2>1. after[c] \in Nat
    BY <1>1 DEF TypeOK
  <2> QED
    BY <1>1, <2>1, PageFacts
<1>3. TypeOK'
  <2>1. phase' \in [Client -> Phase] /\ batch' \in [Client -> SUBSET Unit] /\ whole' \in [Client -> BOOLEAN]
    BY <1>1, <1>2 DEF TypeOK, Phase
  <2>2. ASSUME NEW e \in Client, phase'[e] # "off" PROVE position'[e] \in 1 .. Len(channel') + 1
    BY <1>1, <2>2 DEF TypeOK
  <2> QED
    BY <1>1, <2>1, <2>2 DEF TypeOK
<1>4. PublicInv'
  BY <1>1, <1>2 DEF IInv, PublicInv, TypeOK
<1>5. ASSUME NEW e \in Client PROVE OwedInv(e)'
  <2>1. CASE e # c
    BY <1>1, <1>5, <2>1, ConnectionKeeps DEF IInv, TypeOK
  <2>2. CASE e = c
    <3>1. phase'[c] = "replay" /\ batch'[c] = FirstPage(S) /\ whole'[c] = (FirstPage(S) = S)
      BY <1>1 DEF TypeOK
    <3>2. OwedInv(c) /\ past[c] \subseteq S
      BY DEF IInv, OwedInv
    <3>3. past'[c] \subseteq Stream(after[c])'
      BY <3>2 DEF Stream
    <3>4. /\ joined'[c] < position'[c]
          /\ ~lagged'[c] => \A i \in joined'[c] + 1 .. position'[c] - 1 : channel'[i] \in received'[c]
      BY <3>2 DEF OwedInv
    <3>5. past' = past
      OBVIOUS
    <3> HIDE DEF S
    <3>6. ASSUME whole'[c] PROVE past'[c] \subseteq batch'[c]
      <4>1. batch'[c] = S
        BY <3>1, <3>6
      <4> QED
        BY <3>2, <3>5, <4>1
    <3> QED
      BY <2>2, <3>1, <3>3, <3>4, <3>6 DEF OwedInv
  <2> QED
    BY <2>1, <2>2
<1> QED
  BY <1>3, <1>4, <1>5 DEF IInv

LEMMA ReplayKeeps ==
    ASSUME IInv, NEW c \in Client, NEW u \in batch[c], Replay(c, u)
    PROVE  IInv'
<1> USE DEF Replay, Receive
<1>1. TypeOK
  BY DEF IInv
<1>2. u \in Unit /\ u.id \in Nat /\ IsPublic(u)
  BY <1>1, IdType DEF TypeOK, IInv, PublicInv
<1>3. TypeOK'
  <2>1. /\ batch' \in [Client -> SUBSET Unit] /\ received' \in [Client -> SUBSET Unit]
        /\ last' \in [Client -> Nat]
    BY <1>1, <1>2 DEF TypeOK
  <2> QED
    BY <1>1, <2>1 DEF TypeOK
<1>4. PublicInv'
  BY <1>1, <1>2 DEF IInv, PublicInv, TypeOK
<1>5. ASSUME NEW e \in Client PROVE OwedInv(e)'
  <2>1. CASE e # c
    BY <1>1, <1>5, <2>1, ConnectionKeeps DEF IInv, TypeOK
  <2>2. CASE e = c
    <3>1. batch'[c] = batch[c] \ {u} /\ received'[c] = received[c] \union {u}
      BY <1>1 DEF TypeOK
    <3>2. \A i : Stream(i)' = Stream(i)
      BY DEF Stream
    <3>3. OwedInv(c)
      BY DEF IInv
    <3> QED
      BY <2>2, <3>1, <3>2, <3>3 DEF OwedInv
  <2> QED
    BY <2>1, <2>2
<1> QED
  BY <1>3, <1>4, <1>5 DEF IInv

LEMMA GoLiveKeeps ==
    ASSUME IInv, NEW c \in Client, GoLive(c)
    PROVE  IInv'
<1> USE DEF GoLive
<1>1. TypeOK
  BY DEF IInv
<1>2. TypeOK'
  <2>1. phase' \in [Client -> Phase]
    BY <1>1 DEF TypeOK, Phase
  <2>2. ASSUME NEW e \in Client, phase'[e] # "off" PROVE position'[e] \in 1 .. Len(channel') + 1
    BY <1>1, <2>2 DEF TypeOK
  <2> QED
    BY <1>1, <2>1, <2>2 DEF TypeOK
<1>3. PublicInv'
  BY DEF IInv, PublicInv
<1>4. ASSUME NEW e \in Client PROVE OwedInv(e)'
  <2>1. CASE e # c
    BY <1>1, <1>4, <2>1, ConnectionKeeps DEF IInv, TypeOK
  <2>2. CASE e = c
    <3>1. phase'[c] = "live"
      BY <1>1 DEF TypeOK
    <3>2. \A i : Stream(i)' = Stream(i)
      BY DEF Stream
    <3>3. OwedInv(c)
      BY DEF IInv
    <3> QED
      BY <2>2, <3>1, <3>2, <3>3 DEF OwedInv
  <2> QED
    BY <2>1, <2>2
<1> QED
  BY <1>2, <1>3, <1>4 DEF IInv

\* An event is read at its place, or the places the channel no longer retains are
\* skipped and the client is told.
LEMMA LiveKeeps ==
    ASSUME IInv, NEW c \in Client, Live(c)
    PROVE  IInv'
<1> USE DEF Live, Receive
<1>1. TypeOK /\ Len(channel) \in Nat /\ Oldest \in 1 .. Len(channel) + 1
  BY OldestFacts DEF IInv
<1>2. position[c] \in Nat /\ joined[c] \in Nat /\ OwedInv(c) /\ phase[c] = "live"
  BY <1>1 DEF TypeOK, IInv
<1>3. \A i : Stream(i)' = Stream(i)
  BY DEF Stream
<1>4. ASSUME NEW e \in Client, e # c, OwedInv(e),
             \A f \in Client \ {c} :
                /\ position'[f] = position[f] /\ received'[f] = received[f]
                /\ lagged'[f] = lagged[f]
      PROVE  OwedInv(e)'
  BY <1>1, <1>4, ConnectionKeeps
<1>5. CASE /\ position[c] \in Oldest .. Len(channel)
           /\ position' = [position EXCEPT ![c] = @ + 1]
           /\ Receive(c, channel[position[c]])
           /\ UNCHANGED lagged
  <2> DEFINE i == position[c]
             u == channel[i]
  <2>1. i \in 1 .. Len(channel) /\ u \in Unit /\ u.id \in Nat /\ IsPublic(u)
    <3>1. i \in 1 .. Len(channel)
      BY <1>1, <1>2, <1>5
    <3>2. u \in Unit
      BY <1>1, <3>1 DEF TypeOK
    <3> QED
      BY <3>1, <3>2, IdType DEF IInv, PublicInv
  <2> HIDE DEF u
  <2>2. /\ position' = [position EXCEPT ![c] = i + 1] /\ last' = [last EXCEPT ![c] = u.id]
        /\ received' = [received EXCEPT ![c] = received[c] \union {u}]
    BY <1>5 DEF u
  <2>3. /\ position' \in [Client -> Nat] /\ last' \in [Client -> Nat]
        /\ received' \in [Client -> SUBSET Unit]
    BY <1>1, <1>2, <2>1, <2>2 DEF TypeOK
  <2>4. TypeOK'
    <3>1. ASSUME NEW e \in Client, phase'[e] # "off" PROVE position'[e] \in 1 .. Len(channel') + 1
      <4>1. position'[e] = IF e = c THEN i + 1 ELSE position[e]
        BY <1>1, <2>2 DEF TypeOK
      <4>2. phase[e] # "off" => position[e] \in 1 .. Len(channel) + 1
        BY <1>1 DEF TypeOK
      <4> QED
        BY <1>1, <2>1, <3>1, <4>1, <4>2
    <3> QED
      BY <1>1, <1>5, <2>3, <3>1 DEF TypeOK
  <2>5. PublicInv'
    BY <1>1, <2>1, <2>2 DEF IInv, PublicInv, TypeOK
  <2>6. OwedInv(c)'
    <3>1. position'[c] = i + 1 /\ received'[c] = received[c] \union {u}
      BY <1>1, <2>2 DEF TypeOK
    <3>2. ASSUME ~lagged[c], NEW j \in joined[c] + 1 .. i PROVE channel[j] \in received[c] \union {u}
      <4>1. j \in joined[c] + 1 .. i - 1 \/ j = i
        BY <1>2, <3>2
      <4> QED
        BY <1>2, <3>2, <4>1 DEF OwedInv, u
    <3>3. joined[c] < i + 1 /\ (i + 1) - 1 = i
      BY <1>2 DEF OwedInv
    <3> QED
      BY <1>2, <1>3, <1>5, <3>1, <3>2, <3>3 DEF OwedInv
  <2>7. \A e \in Client : OwedInv(e)'
    BY <1>1, <1>4, <1>5, <2>2, <2>6 DEF IInv, TypeOK
  <2> QED
    BY <2>4, <2>5, <2>7 DEF IInv
<1>6. CASE /\ position[c] < Oldest
           /\ position' = [position EXCEPT ![c] = Oldest]
           /\ lagged' = [lagged EXCEPT ![c] = TRUE]
           /\ UNCHANGED <<last, received>>
  <2>1. position' \in [Client -> Nat] /\ lagged' \in [Client -> BOOLEAN]
    BY <1>1, <1>6 DEF TypeOK
  <2>2. TypeOK'
    <3>1. ASSUME NEW e \in Client, phase'[e] # "off" PROVE position'[e] \in 1 .. Len(channel') + 1
      BY <1>1, <1>6, <3>1 DEF TypeOK
    <3> QED
      BY <1>1, <1>6, <2>1, <3>1 DEF TypeOK
  <2>3. PublicInv'
    BY <1>6 DEF IInv, PublicInv
  <2>4. OwedInv(c)'
    <3>1. position'[c] = Oldest /\ lagged'[c]
      BY <1>1, <1>6 DEF TypeOK
    <3>2. joined[c] < Oldest
      BY <1>1, <1>2, <1>6 DEF OwedInv
    <3> QED
      BY <1>2, <1>3, <1>6, <3>1, <3>2 DEF OwedInv
  <2>5. \A e \in Client : OwedInv(e)'
    BY <1>1, <1>4, <1>6, <2>4 DEF IInv, TypeOK
  <2> QED
    BY <2>2, <2>3, <2>5 DEF IInv
<1> QED
  BY <1>5, <1>6

LEMMA DisconnectKeeps ==
    ASSUME IInv, NEW c \in Client, Disconnect(c)
    PROVE  IInv'
<1> USE DEF Disconnect, Off
<1>1. TypeOK
  BY DEF IInv
<1>2. TypeOK'
  <2>1. phase' \in [Client -> Phase] /\ batch' \in [Client -> SUBSET Unit]
    BY <1>1 DEF TypeOK, Phase
  <2> QED
    BY <1>1, <2>1, FaultType DEF TypeOK
<1>3. PublicInv'
  BY DEF IInv, PublicInv
<1>4. ASSUME NEW e \in Client PROVE OwedInv(e)'
  <2>1. CASE e # c
    BY <1>1, <1>4, <2>1, ConnectionKeeps DEF IInv, TypeOK
  <2>2. CASE e = c
    BY <2>2 DEF OwedInv
  <2> QED
    BY <2>1, <2>2
<1> QED
  BY <1>2, <1>3, <1>4 DEF IInv

LEMMA CrashKeeps ==
    ASSUME IInv, Crash
    PROVE  IInv'
<1> USE DEF Crash, Off
<1>1. TypeOK
  BY DEF IInv
<1>2. \A c \in Client : phase'[c] = "off" /\ batch'[c] = {}
  OBVIOUS
<1>3. TypeOK'
  <2>1. phase' \in [Client -> Phase] /\ batch' \in [Client -> SUBSET Unit] /\ channel' \in Seq(Unit)
    BY <1>1 DEF TypeOK, Phase
  <2> QED
    BY <1>1, <1>2, <2>1, FaultType DEF TypeOK
<1>4. PublicInv'
  BY <1>2 DEF IInv, PublicInv
<1>5. ASSUME NEW c \in Client PROVE OwedInv(c)'
  BY <1>2 DEF OwedInv
<1> QED
  BY <1>3, <1>4, <1>5 DEF IInv
-----------------------------------------------------------------------------
(***************************************************************************)
(* The theorems.                                                           *)
(***************************************************************************)
LEMMA InvInit == Init => IInv
<1> SUFFICES ASSUME Init PROVE IInv
  OBVIOUS
<1> USE DEF Init
<1>1. TypeOK
  BY DEF TypeOK, Phase
<1>2. PublicInv
  BY DEF PublicInv
<1>3. \A c \in Client : OwedInv(c)
  BY DEF OwedInv
<1> QED
  BY <1>1, <1>2, <1>3 DEF IInv

LEMMA InvStep == IInv /\ [Next]_vars => IInv'
<1> SUFFICES ASSUME IInv, [Next]_vars PROVE IInv'
  OBVIOUS
<1>1. TypeOK /\ store \subseteq Unit /\ handlers \subseteq Unit /\ faults \in Nat
  BY DEF IInv, TypeOK
<1>2. CASE UNCHANGED vars
  BY <1>1, <1>2, StoreKeeps DEF vars
<1>3. ASSUME NEW u \in Unit, Submit(u) PROVE IInv'
  BY <1>1, <1>3, StoreKeeps DEF Submit
<1>4. ASSUME NEW u \in Unit, DropHandler(u) PROVE IInv'
  BY <1>1, <1>4, StoreKeeps, FaultType DEF DropHandler
<1>5. ASSUME NEW u \in Unit, Pull(u) PROVE IInv'
  BY <1>1, <1>5, StoreKeeps DEF Pull
<1> QED
  BY <1>2, <1>3, <1>4, <1>5, StepCases, BroadcastKeeps, ConnectKeeps, ListKeeps, ReplayKeeps,
     GoLiveKeeps, LiveKeeps, DisconnectKeeps, CrashKeeps

\* Whatever clients connect, submit and read in whatever order, and wherever the
\* process crashes, the invariant the properties rest on holds.
THEOREM Invariance == Spec => []IInv
<1>1. Init => IInv
  BY InvInit
<1>2. IInv /\ [Next]_vars => IInv'
  BY InvStep
<1> QED
  BY <1>1, <1>2, PTL DEF Spec

\* The receiver of a connection is never past the end of the channel, also after
\* it was set to the oldest event retained.
THEOREM TypeCorrect == Spec => []TypeOK
<1>1. IInv => TypeOK
  BY DEF IInv
<1> QED
  BY <1>1, Invariance, PTL

\* A client that has read all there is has every unit due to it: the replayed page
\* and the subscription, made before it is listed, leave no gap of any width.
THEOREM QuietIsCompleteHolds == Spec => []QuietIsComplete
<1>1. ASSUME IInv PROVE QuietIsComplete
  <2>1. SUFFICES ASSUME NEW c \in Client, phase[c] = "live", position[c] > Len(channel),
                        whole[c], ~lagged[c], NEW u \in Due(c)
                 PROVE  u \in received[c]
    BY DEF QuietIsComplete
  <2>2. OwedInv(c) /\ Len(channel) \in Nat /\ position[c] \in 1 .. Len(channel) + 1 /\ joined[c] \in Nat
    BY <1>1, <2>1, OldestFacts DEF IInv, TypeOK
  <2>3. CASE u \in past[c]
    BY <2>1, <2>2, <2>3 DEF OwedInv
  <2>4. CASE u \notin past[c]
    <3>1. PICK i \in joined[c] + 1 .. Len(channel) : u = channel[i]
      BY <2>1, <2>4 DEF Due
    <3>2. i \in joined[c] + 1 .. position[c] - 1
      BY <2>1, <2>2, <3>1
    <3> QED
      BY <2>1, <2>2, <3>1, <3>2 DEF OwedInv
  <2> QED
    BY <2>3, <2>4
<1> QED
  BY <1>1, Invariance, PTL

\* No unit that is not public gets into the event stream: not from the store, and
\* not over the channel.
THEOREM OnlyPublicStreamedHolds == Spec => []OnlyPublicStreamed
<1>1. ASSUME IInv PROVE OnlyPublicStreamed
  <2>1. SUFFICES ASSUME NEW c \in Client, NEW u \in received[c] \union batch[c] \union Due(c)
                 PROVE  IsPublic(u)
    BY DEF OnlyPublicStreamed
  <2>2. Len(channel) \in Nat /\ joined[c] \in Nat
    BY <1>1, OldestFacts DEF IInv, TypeOK
  <2>3. CASE u \in received[c] \union batch[c] \union past[c]
    BY <1>1, <2>3 DEF IInv, PublicInv
  <2>4. CASE \E i \in joined[c] + 1 .. Len(channel) : u = channel[i]
    BY <1>1, <2>2, <2>4 DEF IInv, PublicInv
  <2> QED
    BY <2>1, <2>3, <2>4 DEF Due
<1> QED
  BY <1>1, Invariance, PTL
=============================================================================
