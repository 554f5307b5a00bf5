------------------------- MODULE ReplicationProofs --------------------------
(***************************************************************************)
(* Proofs about Replication, for any set of nodes and units, any peer      *)
(* lists, any page size and any number of handlers and faults.             *)
(***************************************************************************)
EXTENDS Replication, FiniteSetTheorems, TLAPS

USE DEF storeVars, visitVars

\* A step is a stuttering step or one of the actions.
LEMMA StepCases ==
    ASSUME [Next]_vars
    PROVE  \/ UNCHANGED vars
           \/ \E n \in Node, u \in Unit, caller \in Author \union {Nobody} : Submit(n, u, caller)
           \/ \E n \in Node, u \in Unit : AnswerConflict(n, u) \/ AnswerCreated(n, u)
           \/ \E n \in Node : DropHandler(n)
           \/ \E n \in Node : WakeUp(n)
           \/ \E n \in Node, p \in Node : StartPeer(n, p)
           \/ \E n \in Node : EndRound(n)
           \/ \E n \in Node : ServeSync(n)
           \/ \E n \in Node, u \in Unit : StorePulled(n, u)
           \/ \E n \in Node, u \in Unit : ScorePulled(n, u)
           \/ \E n \in Node : NextPage(n)
           \/ \E n \in Node : FinishPeer(n)
           \/ \E n \in Node : SyncError(n)
           \/ \E n \in Node : Crash(n)
  BY DEF Next, HandlerStep, TaskStep, vars
-----------------------------------------------------------------------------
\* Type correctness.
LEMMA TypeInit == Init => TypeOK
  BY ReplicationAssumption DEF Init, TypeOK, Phase

LEMMA CredibilityType ==
    ASSUME TypeOK, NEW n \in Node, NEW u \in Unit, NEW source \in Node,
           SetCredibility(n, u, source) \/ UNCHANGED credibility
    PROVE  credibility' \in [Node -> [Unit -> Node \union {Nobody}]]
<1>1. credibility \in [Node -> [Unit -> Node \union {Nobody}]]
  BY DEF TypeOK
<1> QED
  BY <1>1 DEF SetCredibility

LEMMA CursorType ==
    ASSUME TypeOK, NEW n \in Node, peer[n] \in Node, SetCursor(n)
    PROVE  cursor' \in [Node -> [Node -> Nat]]
<1>1. cursor \in [Node -> [Node -> Nat]] /\ next[n] \in Nat
  BY DEF TypeOK
<1> QED
  BY <1>1 DEF SetCursor

LEMMA SubmitTypes ==
    ASSUME TypeOK, NEW n \in Node, NEW u \in Unit, NEW caller, Submit(n, u, caller)
    PROVE  /\ store' \in [Node -> SUBSET Unit]
           /\ handlers' \in [Node -> SUBSET Handler]
           /\ published' \in [Node -> SUBSET Unit]
<1>1. /\ store \in [Node -> SUBSET Unit]
      /\ handlers \in [Node -> SUBSET Handler]
      /\ published \in [Node -> SUBSET Unit]
  BY DEF TypeOK
<1>2. [unit |-> u, at |-> "credit"] \in Handler /\ [unit |-> u, at |-> "compare"] \in Handler
  BY DEF Handler
<1>3. store' \in [Node -> SUBSET Unit]
  BY <1>1 DEF Submit, PutUnit, PutConflict
<1>4. handlers' \in [Node -> SUBSET Handler]
  BY <1>1, <1>2 DEF Submit
<1>5. published' \in [Node -> SUBSET Unit]
  BY <1>1 DEF Submit
<1> QED
  BY <1>3, <1>4, <1>5

LEMMA AnswerCreatedTypes ==
    ASSUME TypeOK, NEW n \in Node, NEW u \in Unit, AnswerCreated(n, u)
    PROVE  /\ credibility' \in [Node -> [Unit -> Node \union {Nobody}]]
           /\ handlers' \in [Node -> SUBSET Handler]
           /\ answered' \in [Node -> SUBSET Unit]
           /\ faults' \in Nat
<1>1. credibility' \in [Node -> [Unit -> Node \union {Nobody}]]
  BY CredibilityType DEF AnswerCreated
<1>2. handlers \in [Node -> SUBSET Handler] /\ answered \in [Node -> SUBSET Unit] /\ faults \in Nat
  BY DEF TypeOK
<1>3. handlers' \in [Node -> SUBSET Handler]
  BY <1>2 DEF AnswerCreated
<1>4. answered' \in [Node -> SUBSET Unit]
  BY <1>2 DEF AnswerCreated
<1>5. faults' \in Nat
  BY <1>2 DEF AnswerCreated, Fault
<1> QED
  BY <1>1, <1>3, <1>4, <1>5

LEMMA StorePulledTypes ==
    ASSUME TypeOK, NEW n \in Node, NEW u \in Unit, StorePulled(n, u)
    PROVE  /\ store' \in [Node -> SUBSET Unit]
           /\ phase' \in [Node -> Phase]
           /\ page' \in [Node -> SUBSET Unit]
<1>1. /\ store \in [Node -> SUBSET Unit]
      /\ phase \in [Node -> Phase]
      /\ page \in [Node -> SUBSET Unit]
  BY DEF TypeOK
<1>2. store' \in [Node -> SUBSET Unit]
  BY <1>1 DEF StorePulled, PutUnit, PutConflict
<1>3. phase' \in [Node -> Phase]
  BY <1>1 DEF StorePulled, Phase
<1>4. page' \in [Node -> SUBSET Unit]
  BY <1>1 DEF StorePulled
<1> QED
  BY <1>2, <1>3, <1>4

LEMMA ScorePulledTypes ==
    ASSUME TypeOK, PageInv, NEW n \in Node, NEW u \in Unit, ScorePulled(n, u)
    PROVE  /\ credibility' \in [Node -> [Unit -> Node \union {Nobody}]]
           /\ phase' \in [Node -> Phase]
           /\ page' \in [Node -> SUBSET Unit]
           /\ faults' \in Nat
<1>1. peer[n] \in Node
  BY DEF ScorePulled, PageInv, PageInvAt, Visiting
<1>2. credibility' \in [Node -> [Unit -> Node \union {Nobody}]]
  BY <1>1, CredibilityType DEF ScorePulled
<1>3. phase \in [Node -> Phase] /\ page \in [Node -> SUBSET Unit] /\ faults \in Nat
  BY DEF TypeOK
<1>4. phase' \in [Node -> Phase]
  BY <1>3 DEF ScorePulled, Phase
<1>5. page' \in [Node -> SUBSET Unit]
  BY <1>3 DEF ScorePulled
<1>6. faults' \in Nat
  BY <1>3 DEF ScorePulled, Fault
<1> QED
  BY <1>2, <1>4, <1>5, <1>6

LEMMA TypeStep ==
    ASSUME TypeOK, [Next]_vars, PageInv
    PROVE  TypeOK'
<1> USE DEF TypeOK, Phase, Fault
<1>1. CASE UNCHANGED vars
  BY <1>1 DEF vars
<1>2. ASSUME NEW n \in Node, NEW u \in Unit, NEW caller, Submit(n, u, caller)
      PROVE  TypeOK'
  BY <1>2, SubmitTypes DEF Submit
<1>3. ASSUME NEW n \in Node, NEW u \in Unit, AnswerConflict(n, u) PROVE TypeOK'
  BY <1>3 DEF AnswerConflict
<1>4. ASSUME NEW n \in Node, NEW u \in Unit, AnswerCreated(n, u) PROVE TypeOK'
  BY <1>4, AnswerCreatedTypes DEF AnswerCreated
<1>5. ASSUME NEW n \in Node, DropHandler(n) PROVE TypeOK'
  BY <1>5 DEF DropHandler
<1>6. ASSUME NEW n \in Node, WakeUp(n) PROVE TypeOK'
  BY <1>6, ReplicationAssumption DEF WakeUp
<1>7. ASSUME NEW n \in Node, NEW p \in Node, StartPeer(n, p) PROVE TypeOK'
  BY <1>7 DEF StartPeer, Stream
<1>8. ASSUME NEW n \in Node, EndRound(n) PROVE TypeOK'
  BY <1>8 DEF EndRound
<1>9. ASSUME NEW n \in Node, ServeSync(n) PROVE TypeOK'
  <2>1. peer[n] \in Node
    BY <1>9 DEF ServeSync, PageInv, PageInvAt, Visiting
  <2>2. FirstPage(Stream(peer[n], cursor[n][peer[n]])) \in SUBSET Unit
    BY <2>1 DEF FirstPage, Stream
  <2>3. \A w \in FirstPage(Stream(peer[n], cursor[n][peer[n]])) : w.id \in Nat
    BY <2>2, UnitAssumption DEF UnitRecord
  <2> QED
    BY <1>9, <2>2, <2>3 DEF ServeSync
<1>10. ASSUME NEW n \in Node, NEW u \in Unit, StorePulled(n, u) PROVE TypeOK'
  BY <1>10, StorePulledTypes DEF StorePulled
<1>11. ASSUME NEW n \in Node, NEW u \in Unit, ScorePulled(n, u) PROVE TypeOK'
  BY <1>11, ScorePulledTypes DEF ScorePulled
<1>12. ASSUME NEW n \in Node, NextPage(n) PROVE TypeOK'
  <2>1. peer[n] \in Node
    BY <1>12 DEF NextPage, PageInv, PageInvAt, Visiting
  <2>2. cursor' \in [Node -> [Node -> Nat]]
    BY <1>12, <2>1, CursorType DEF NextPage
  <2> QED
    BY <1>12, <2>2 DEF NextPage
<1>13. ASSUME NEW n \in Node, FinishPeer(n) PROVE TypeOK'
  <2>1. peer[n] \in Node
    BY <1>13 DEF FinishPeer, Drained, PageInv, PageInvAt, Visiting
  <2>2. cursor' \in [Node -> [Node -> Nat]]
    BY <1>13, <2>1, CursorType DEF FinishPeer
  <2> QED
    BY <1>13, <2>2 DEF FinishPeer, LeaveVisit
<1>14. ASSUME NEW n \in Node, SyncError(n) PROVE TypeOK'
  BY <1>14 DEF SyncError, LeaveVisit
<1>15. ASSUME NEW n \in Node, Crash(n) PROVE TypeOK'
  BY <1>15 DEF Crash, LeaveVisit
<1> QED
  BY <1>1, <1>2, <1>3, <1>4, <1>5, <1>6, <1>7, <1>8, <1>9, <1>10, <1>11, <1>12, <1>13,
     <1>14, <1>15, StepCases
-----------------------------------------------------------------------------
(***************************************************************************)
(* What a step does to the stores.                                         *)
(***************************************************************************)

\* A step leaves every store alone or puts one unit into one of them; a client
\* published that unit, or it was the next one of a page.
LEMMA StoreCases ==
    ASSUME [Next]_vars
    PROVE  \/ UNCHANGED <<store, published>>
           \/ \E n \in Node, u \in Unit :
                 /\ PutUnit(n, u)
                 /\ published' = [published EXCEPT ![n] = @ \union {u}]
           \/ \E n \in Node, u \in Unit :
                 /\ PutUnit(n, u)
                 /\ Working(n) /\ IsHead(n, u)
                 /\ UNCHANGED published
<1>1. CASE UNCHANGED vars
  BY <1>1 DEF vars
<1>2. ASSUME NEW n \in Node, NEW u \in Unit, NEW caller, Submit(n, u, caller)
      PROVE  \/ UNCHANGED <<store, published>>
             \/ PutUnit(n, u) /\ published' = [published EXCEPT ![n] = @ \union {u}]
  BY <1>2 DEF Submit, PutConflict
<1>3. ASSUME NEW n \in Node, NEW u \in Unit, StorePulled(n, u)
      PROVE  \/ UNCHANGED <<store, published>>
             \/ PutUnit(n, u) /\ Working(n) /\ IsHead(n, u) /\ UNCHANGED published
  BY <1>3 DEF StorePulled, PutConflict, Working
<1>4. ASSUME NEW n \in Node, NEW u \in Unit,
             AnswerConflict(n, u) \/ AnswerCreated(n, u) \/ ScorePulled(n, u)
      PROVE  UNCHANGED <<store, published>>
  BY <1>4 DEF AnswerConflict, AnswerCreated, ScorePulled
<1>5. ASSUME NEW n \in Node, NEW p \in Node, StartPeer(n, p)
      PROVE  UNCHANGED <<store, published>>
  BY <1>5 DEF StartPeer
<1>6. ASSUME NEW n \in Node,
             \/ DropHandler(n) \/ WakeUp(n) \/ EndRound(n) \/ ServeSync(n)
             \/ NextPage(n) \/ FinishPeer(n) \/ SyncError(n) \/ Crash(n)
      PROVE  UNCHANGED <<store, published>>
  BY <1>6 DEF DropHandler, WakeUp, EndRound, ServeSync, NextPage, FinishPeer, SyncError, Crash
<1> QED
  BY <1>1, <1>2, <1>3, <1>4, <1>5, <1>6, StepCases

\* put_unit reaches one store, and adds to it.
LEMMA PutUnitEffect ==
    ASSUME TypeOK, NEW n \in Node, NEW u \in Unit, PutUnit(n, u)
    PROVE  /\ store'[n] = store[n] \union {u}
           /\ ~HasId(store[n], u.id)
           /\ \A m \in Node : m # n => store'[m] = store[m]
<1>1. store \in [Node -> SUBSET Unit]
  BY DEF TypeOK
<1> QED
  BY <1>1 DEF PutUnit

\* No step takes a unit out of a store, or forgets that it was published.
LEMMA StoresGrow ==
    ASSUME TypeOK, [Next]_vars, NEW m \in Node
    PROVE  /\ store[m] \subseteq store'[m]
           /\ published[m] \subseteq published'[m]
<1>1. CASE UNCHANGED <<store, published>>
  BY <1>1
<1>2. ASSUME NEW n \in Node, NEW u \in Unit, PutUnit(n, u)
      PROVE  store[m] \subseteq store'[m]
  BY <1>2, PutUnitEffect
<1>3. ASSUME NEW n \in Node, NEW u \in Unit,
             published' = [published EXCEPT ![n] = @ \union {u}]
      PROVE  published[m] \subseteq published'[m]
  <2>1. published \in [Node -> SUBSET Unit]
    BY DEF TypeOK
  <2> QED
    BY <1>3, <2>1
<1> QED
  BY <1>1, <1>2, <1>3, StoreCases

\* An id still names one unit after a step.
LEMMA UniqueStep ==
    ASSUME TypeOK, OneUnitPerId, [Next]_vars
    PROVE  OneUnitPerId'
<1>1. CASE UNCHANGED <<store, published>>
  BY <1>1 DEF OneUnitPerId
<1>2. ASSUME NEW n \in Node, NEW u \in Unit, PutUnit(n, u)
      PROVE  OneUnitPerId'
  BY <1>2, PutUnitEffect DEF OneUnitPerId, HasId
<1> QED
  BY <1>1, <1>2, StoreCases

\* The actions that give a score, and those that tell a client "stored".
LEMMA CredibilityCases ==
    ASSUME TypeOK, PageInv, [Next]_vars
    PROVE  \/ UNCHANGED credibility
           \/ \E n \in Node, u \in Unit, source \in Node :
                 /\ SetCredibility(n, u, source)
                 /\ HandlerOwes(n, u) \/ TaskOwes(n, u)
<1>1. CASE UNCHANGED vars
  BY <1>1 DEF vars
<1>2. ASSUME NEW n \in Node, NEW u \in Unit, NEW caller, Submit(n, u, caller)
      PROVE  UNCHANGED credibility
  BY <1>2 DEF Submit
<1>3. ASSUME NEW n \in Node, NEW u \in Unit, AnswerCreated(n, u)
      PROVE  \/ UNCHANGED credibility
             \/ SetCredibility(n, u, n) /\ HandlerOwes(n, u)
  BY <1>3 DEF AnswerCreated, HandlerOwes
<1>4. ASSUME NEW n \in Node, NEW u \in Unit, ScorePulled(n, u)
      PROVE  \/ UNCHANGED credibility
             \/ peer[n] \in Node /\ SetCredibility(n, u, peer[n]) /\ TaskOwes(n, u)
  BY <1>4 DEF ScorePulled, TaskOwes, PageInv, PageInvAt, Visiting
<1>5. ASSUME NEW n \in Node, NEW u \in Unit, AnswerConflict(n, u) \/ StorePulled(n, u)
      PROVE  UNCHANGED credibility
  BY <1>5 DEF AnswerConflict, StorePulled
<1>6. ASSUME NEW n \in Node, NEW p \in Node, StartPeer(n, p)
      PROVE  UNCHANGED credibility
  BY <1>6 DEF StartPeer
<1>7. ASSUME NEW n \in Node,
             \/ DropHandler(n) \/ WakeUp(n) \/ EndRound(n) \/ ServeSync(n)
             \/ NextPage(n) \/ FinishPeer(n) \/ SyncError(n) \/ Crash(n)
      PROVE  UNCHANGED credibility
  BY <1>7 DEF DropHandler, WakeUp, EndRound, ServeSync, NextPage, FinishPeer, SyncError, Crash
<1> QED
  BY <1>1, <1>2, <1>3, <1>4, <1>5, <1>6, <1>7, StepCases

\* A score is given to one unit at one node.
LEMMA SetCredibilityEffect ==
    ASSUME TypeOK, NEW n \in Node, NEW u \in Unit, NEW source \in Node,
           SetCredibility(n, u, source),
           NEW m \in Node, NEW v \in Unit
    PROVE  credibility'[m][v] = IF m = n /\ v = u THEN source ELSE credibility[m][v]
<1>1. credibility \in [Node -> [Unit -> Node \union {Nobody}]]
  BY DEF TypeOK
<1> QED
  BY <1>1 DEF SetCredibility

\* Stores stay finite, and scores are given to stored units only.
LEMMA StoreInvStep ==
    ASSUME TypeOK, OneScorer, StoreInv, PageInv, [Next]_vars
    PROVE  StoreInv'
<1>1. ASSUME NEW m \in Node PROVE IsFiniteSet(store'[m])
  <2>1. IsFiniteSet(store[m])
    BY DEF StoreInv
  <2>2. store'[m] = store[m] \/ \E u \in Unit : store'[m] = store[m] \union {u}
    BY StoreCases, PutUnitEffect
  <2> QED
    BY <2>1, <2>2, FS_AddElement
<1>2. ASSUME NEW m \in Node, NEW v \in Unit, credibility'[m][v] # Nobody
      PROVE  v \in store'[m]
  <2>1. store[m] \subseteq store'[m]
    BY StoresGrow
  <2>2. CASE credibility'[m][v] = credibility[m][v]
    BY <1>2, <2>1, <2>2 DEF StoreInv
  <2>3. ASSUME NEW n \in Node, NEW u \in Unit, NEW source \in Node,
               SetCredibility(n, u, source), HandlerOwes(n, u) \/ TaskOwes(n, u)
        PROVE  v \in store'[m]
    <3>1. u \in store[n]
      BY <2>3 DEF OneScorer, OneScorerAt
    <3>2. CASE m = n /\ v = u
      BY <2>1, <3>1, <3>2
    <3>3. CASE ~(m = n /\ v = u)
      BY <2>2, <2>3, <3>3, SetCredibilityEffect
    <3> QED
      BY <3>2, <3>3
  <2> QED
    BY <2>2, <2>3, CredibilityCases
<1> QED
  BY <1>1, <1>2 DEF StoreInv

\* What is answered to a client is in the store.
LEMMA AnsweredStep ==
    ASSUME TypeOK, AnsweredIsHeld, OneScorer, [Next]_vars
    PROVE  AnsweredIsHeld'
<1>1. answered \in [Node -> SUBSET Unit]
  BY DEF TypeOK
<1>2. ASSUME NEW n \in Node, NEW u \in store[n],
             answered' = [answered EXCEPT ![n] = @ \union {u}]
      PROVE  AnsweredIsHeld'
  BY <1>1, <1>2, StoresGrow DEF AnsweredIsHeld
<1>3. ASSUME UNCHANGED answered PROVE AnsweredIsHeld'
  BY <1>3, StoresGrow DEF AnsweredIsHeld
<1>4. CASE UNCHANGED vars
  BY <1>3, <1>4 DEF vars
<1>5. ASSUME NEW n \in Node, NEW u \in Unit, NEW caller, Submit(n, u, caller)
      PROVE  AnsweredIsHeld'
  BY <1>3, <1>5 DEF Submit
<1>6. ASSUME NEW n \in Node, NEW u \in Unit, AnswerConflict(n, u)
      PROVE  AnsweredIsHeld'
  BY <1>2, <1>3, <1>6 DEF AnswerConflict
<1>7. ASSUME NEW n \in Node, NEW u \in Unit, AnswerCreated(n, u)
      PROVE  AnsweredIsHeld'
  <2>1. u \in store[n]
    BY <1>7 DEF AnswerCreated, HandlerOwes, OneScorer, OneScorerAt
  <2> QED
    BY <1>2, <1>7, <2>1 DEF AnswerCreated
<1>8. ASSUME NEW n \in Node, NEW u \in Unit, StorePulled(n, u) \/ ScorePulled(n, u)
      PROVE  AnsweredIsHeld'
  BY <1>3, <1>8 DEF StorePulled, ScorePulled
<1>9. ASSUME NEW n \in Node, NEW p \in Node, StartPeer(n, p)
      PROVE  AnsweredIsHeld'
  BY <1>3, <1>9 DEF StartPeer
<1>10. ASSUME NEW n \in Node,
              \/ DropHandler(n) \/ WakeUp(n) \/ EndRound(n) \/ ServeSync(n)
              \/ NextPage(n) \/ FinishPeer(n) \/ SyncError(n) \/ Crash(n)
       PROVE  AnsweredIsHeld'
  BY <1>3, <1>10 DEF DropHandler, WakeUp, EndRound, ServeSync, NextPage, FinishPeer, SyncError, Crash
<1> QED
  BY <1>4, <1>5, <1>6, <1>7, <1>8, <1>9, <1>10, StepCases
-----------------------------------------------------------------------------
(***************************************************************************)
(* What a step does to the visit a node is on.                             *)
(***************************************************************************)

\* The step leaves the federation task of m where it is.
SameVisit(m) ==
    /\ phase'[m] = phase[m]
    /\ peer'[m] = peer[m]
    /\ page'[m] = page[m]
    /\ next'[m] = next[m]
    /\ more'[m] = more[m]
    /\ stream'[m] = stream[m]
    /\ since'[m] = since[m]
    /\ cursor'[m] = cursor[m]

\* Only an action of m itself moves the federation task of m.
LEMMA VisitCases ==
    ASSUME TypeOK, [Next]_vars, NEW m \in Node
    PROVE  \/ SameVisit(m)
           \/ WakeUp(m)
           \/ \E p \in Node : StartPeer(m, p)
           \/ EndRound(m)
           \/ ServeSync(m)
           \/ \E u \in Unit : StorePulled(m, u) \/ ScorePulled(m, u)
           \/ NextPage(m)
           \/ FinishPeer(m)
           \/ SyncError(m)
           \/ Crash(m)
<1> USE DEF SameVisit
<1>0. /\ phase \in [Node -> Phase]
      /\ peer \in [Node -> Node \union {Nobody}]
      /\ page \in [Node -> SUBSET Unit]
      /\ next \in [Node -> Nat]
      /\ more \in [Node -> BOOLEAN]
      /\ stream \in [Node -> SUBSET Unit]
      /\ since \in [Node -> Nat]
      /\ cursor \in [Node -> [Node -> Nat]]
  BY DEF TypeOK
<1>1. CASE UNCHANGED vars
  BY <1>1 DEF vars
<1>2. ASSUME NEW n \in Node, NEW u \in Unit, NEW caller, Submit(n, u, caller)
      PROVE  SameVisit(m)
  BY <1>2 DEF Submit
<1>3. ASSUME NEW n \in Node, NEW u \in Unit, AnswerConflict(n, u) \/ AnswerCreated(n, u)
      PROVE  SameVisit(m)
  BY <1>3 DEF AnswerConflict, AnswerCreated
<1>4. ASSUME NEW n \in Node, DropHandler(n) PROVE SameVisit(m)
  BY <1>4 DEF DropHandler
<1>5. ASSUME NEW n \in Node, n # m, WakeUp(n) \/ EndRound(n) PROVE SameVisit(m)
  BY <1>0, <1>5 DEF WakeUp, EndRound
<1>6. ASSUME NEW n \in Node, n # m, NEW p \in Node, StartPeer(n, p) PROVE SameVisit(m)
  BY <1>0, <1>6 DEF StartPeer
<1>7. ASSUME NEW n \in Node, n # m, ServeSync(n) PROVE SameVisit(m)
  BY <1>0, <1>7 DEF ServeSync
<1>8. ASSUME NEW n \in Node, n # m, NEW u \in Unit, StorePulled(n, u) PROVE SameVisit(m)
  BY <1>0, <1>8 DEF StorePulled
<1>9. ASSUME NEW n \in Node, n # m, NEW u \in Unit, ScorePulled(n, u) PROVE SameVisit(m)
  BY <1>0, <1>9 DEF ScorePulled
<1>10. ASSUME NEW n \in Node, n # m, SetCursor(n) PROVE cursor'[m] = cursor[m]
  BY <1>0, <1>10 DEF SetCursor
<1>11. ASSUME NEW n \in Node, n # m, NextPage(n) PROVE SameVisit(m)
  BY <1>0, <1>10, <1>11 DEF NextPage
<1>12. ASSUME NEW n \in Node, n # m, FinishPeer(n) PROVE SameVisit(m)
  BY <1>0, <1>10, <1>12 DEF FinishPeer, LeaveVisit
<1>13. ASSUME NEW n \in Node, n # m, SyncError(n) PROVE SameVisit(m)
  BY <1>0, <1>13 DEF SyncError, LeaveVisit
<1>14. ASSUME NEW n \in Node, n # m, Crash(n) PROVE SameVisit(m)
  BY <1>0, <1>14 DEF Crash, LeaveVisit
<1> QED
  BY <1>1, <1>2, <1>3, <1>4, <1>5, <1>6, <1>7, <1>8, <1>9, <1>11, <1>12, <1>13, <1>14,
     StepCases

\* Serving a page: the page is what FirstPage takes of the peer's stream.
LEMMA ServeSyncEffect ==
    ASSUME TypeOK, NEW m \in Node, ServeSync(m)
    PROVE  /\ page'[m] = FirstPage(Stream(peer[m], cursor[m][peer[m]]))
           /\ IsLastId(page'[m], next'[m])
           /\ more'[m] = (page'[m] # Stream(peer[m], cursor[m][peer[m]]))
           /\ phase'[m] = "store"
           /\ UNCHANGED <<store, peer, cursor, stream, since>>
<1>1. /\ phase \in [Node -> Phase]
      /\ page \in [Node -> SUBSET Unit]
      /\ next \in [Node -> Nat]
      /\ more \in [Node -> BOOLEAN]
  BY DEF TypeOK
<1>2. UNCHANGED <<store, peer, cursor, stream, since>> /\ phase'[m] = "store"
  BY <1>1 DEF ServeSync
<1>3. page'[m] = FirstPage(Stream(peer[m], cursor[m][peer[m]]))
  BY <1>1 DEF ServeSync
<1>4. IsLastId(page'[m], next'[m])
  BY <1>1, <1>3 DEF ServeSync
<1>5. more'[m] = (page'[m] # Stream(peer[m], cursor[m][peer[m]]))
  BY <1>1, <1>3 DEF ServeSync
<1> QED
  BY <1>2, <1>3, <1>4, <1>5

\* A page and the place in it after one more of its units was dealt with.
LEMMA PulledEffect ==
    ASSUME TypeOK, NEW m \in Node, NEW u \in Unit, StorePulled(m, u) \/ ScorePulled(m, u)
    PROVE  /\ page'[m] = page[m] \/ page'[m] = page[m] \ {u}
           /\ Working(m) /\ Working(m)'
           /\ UNCHANGED <<peer, next, more, cursor, stream, since>>
<1>1. phase \in [Node -> Phase] /\ page \in [Node -> SUBSET Unit]
  BY DEF TypeOK
<1>2. UNCHANGED <<peer, next, more, cursor, stream, since>>
  BY DEF StorePulled, ScorePulled
<1>3. page'[m] = page[m] \/ page'[m] = page[m] \ {u}
  BY <1>1 DEF StorePulled, ScorePulled
<1>4. Working(m) /\ Working(m)'
  BY <1>1 DEF StorePulled, ScorePulled, Working
<1> QED
  BY <1>2, <1>3, <1>4

\* The end of a visit clears what belonged to it.
LEMMA LeaveVisitEffect ==
    ASSUME TypeOK, NEW m \in Node, LeaveVisit(m)
    PROVE  page'[m] = {} /\ next'[m] = 0 /\ stream'[m] = {}
<1>1. page \in [Node -> SUBSET Unit] /\ next \in [Node -> Nat] /\ stream \in [Node -> SUBSET Unit]
  BY DEF TypeOK
<1> QED
  BY <1>1 DEF LeaveVisit

\* Outside the visit: the actions that end one, or leave the task between two.
LEMMA OutsideEffect ==
    ASSUME TypeOK, PageInv, NEW m \in Node,
           \/ WakeUp(m) \/ EndRound(m) \/ FinishPeer(m) \/ SyncError(m) \/ Crash(m)
    PROVE  ~Visiting(m)' /\ ~Working(m)' /\ page'[m] = {}
<1>1. phase \in [Node -> Phase]
  BY DEF TypeOK
<1>2. ~Visiting(m)' /\ ~Working(m)'
  BY <1>1 DEF WakeUp, EndRound, FinishPeer, SyncError, Crash, Visiting, Working
<1>3. CASE WakeUp(m) \/ EndRound(m)
  <2>1. ~Working(m) /\ page' = page
    BY <1>3 DEF WakeUp, EndRound, Working
  <2> QED
    BY <1>2, <2>1 DEF PageInv, PageInvAt
<1>4. CASE FinishPeer(m) \/ SyncError(m) \/ Crash(m)
  BY <1>2, <1>4, LeaveVisitEffect DEF FinishPeer, SyncError, Crash
<1> QED
  BY <1>3, <1>4

\* Asking for the next page keeps the place, but for the cursor.
LEMMA NextPageEffect ==
    ASSUME TypeOK, PageInv, NEW m \in Node, NextPage(m)
    PROVE  /\ phase[m] = "store" /\ phase'[m] = "request"
           /\ page[m] = {} /\ page'[m] = {}
           /\ peer[m] \in Node
           /\ cursor'[m][peer[m]] = IF next[m] = 0 THEN cursor[m][peer[m]] ELSE next[m]
           /\ UNCHANGED <<store, peer, stream, since>>
<1>1. phase \in [Node -> Phase] /\ cursor \in [Node -> [Node -> Nat]]
  BY DEF TypeOK
<1>2. peer[m] \in Node
  BY DEF NextPage, PageInv, PageInvAt, Visiting
<1>3. cursor'[m][peer[m]] = IF next[m] = 0 THEN cursor[m][peer[m]] ELSE next[m]
  BY <1>1, <1>2 DEF NextPage, SetCursor
<1> QED
  BY <1>1, <1>2, <1>3 DEF NextPage

\* Starting a visit.
LEMMA StartPeerEffect ==
    ASSUME TypeOK, PageInv, NEW m \in Node, NEW p \in Node, StartPeer(m, p)
    PROVE  /\ phase'[m] = "request"
           /\ peer'[m] = p
           /\ page'[m] = {}
           /\ stream'[m] = Stream(p, 0)
           /\ since'[m] = cursor[m][p]
           /\ UNCHANGED <<store, cursor>>
<1>1. /\ phase \in [Node -> Phase]
      /\ peer \in [Node -> Node \union {Nobody}]
      /\ stream \in [Node -> SUBSET Unit]
      /\ since \in [Node -> Nat]
  BY DEF TypeOK
<1>2. page[m] = {} /\ page' = page
  BY DEF StartPeer, PageInv, PageInvAt, Working
<1> QED
  BY <1>1, <1>2 DEF StartPeer
-----------------------------------------------------------------------------
(***************************************************************************)
(* The parts of the invariant about visits.                                *)
(***************************************************************************)

\* The ids of units are positive integers.
LEMMA UnitIds == \A u \in Unit : u.id \in Nat /\ u.id > 0
  BY UnitAssumption DEF UnitRecord

\* The page a node works on is part of the peer's store and past the cursor.
LEMMA PageInvStep ==
    ASSUME TypeOK, PageInv, [Next]_vars, NEW m \in Node
    PROVE  PageInvAt(m)'
<1> USE DEF PageInvAt
<1>0. \A n \in Node : store[n] \subseteq store'[n]
  BY StoresGrow
<1>1. PageInvAt(m)
  BY DEF PageInv
<1>2. CASE SameVisit(m)
  BY <1>0, <1>1, <1>2 DEF SameVisit, Visiting, Working
<1>3. CASE WakeUp(m) \/ EndRound(m) \/ FinishPeer(m) \/ SyncError(m) \/ Crash(m)
  BY <1>3, OutsideEffect
<1>4. ASSUME NEW p \in Node, StartPeer(m, p) PROVE PageInvAt(m)'
  BY <1>4, StartPeerEffect DEF Visiting, Working
<1>5. CASE NextPage(m)
  BY <1>5, NextPageEffect DEF Visiting, Working
<1>6. ASSUME NEW u \in Unit, StorePulled(m, u) \/ ScorePulled(m, u) PROVE PageInvAt(m)'
  BY <1>0, <1>1, <1>6, PulledEffect DEF Visiting, Working
<1>7. CASE ServeSync(m)
  <2>1. peer[m] \in Node
    BY <1>1, <1>7 DEF ServeSync, Visiting
  <2>2. cursor[m][peer[m]] \in Nat /\ next'[m] \in Nat
    BY <2>1, TypeStep DEF TypeOK
  <2>3. page'[m] \subseteq Stream(peer[m], cursor[m][peer[m]])
    BY <1>7, ServeSyncEffect DEF FirstPage
  <2>4. next'[m] # 0 => cursor[m][peer[m]] < next'[m]
    BY <1>7, <2>3, ServeSyncEffect DEF IsLastId, Stream
  <2> QED
    BY <1>7, <2>1, <2>3, <2>4, ServeSyncEffect DEF Stream, Visiting, Working
<1> QED
  BY <1>2, <1>3, <1>4, <1>5, <1>6, <1>7, VisitCases

\* A non-public unit stays in the node it was submitted to: a page is cut from
\* a stream of public units, and only a page brings in foreign units.
LEMMA PrivateStep ==
    ASSUME TypeOK, PageInv, PrivateStaysHome, [Next]_vars
    PROVE  PrivateStaysHome'
<1>1. ASSUME NEW m \in Node, NEW v \in store'[m] PROVE IsPublic(v) \/ v \in published'[m]
  <2>1. published \in [Node -> SUBSET Unit]
    BY DEF TypeOK
  <2>2. CASE v \in store[m]
    BY <2>2, StoresGrow DEF PrivateStaysHome
  <2>3. ASSUME NEW n \in Node, NEW u \in Unit, PutUnit(n, u),
               published' = [published EXCEPT ![n] = @ \union {u}]
        PROVE  v \in store[m] \/ v \in published'[m]
    BY <2>1, <2>3, PutUnitEffect
  <2>4. ASSUME NEW n \in Node, NEW u \in Unit, PutUnit(n, u), IsHead(n, u)
        PROVE  v \in store[m] \/ IsPublic(v)
    BY <2>4, PutUnitEffect DEF IsHead, PrivateStaysHome
  <2> QED
    BY <2>2, <2>3, <2>4, StoreCases
<1>2. ASSUME NEW m \in Node, NEW v \in page'[m] PROVE IsPublic(v)
  <2>1. \A w \in page[m] : IsPublic(w)
    BY DEF PrivateStaysHome
  <2>2. CASE SameVisit(m)
    BY <1>2, <2>1, <2>2 DEF SameVisit
  <2>3. CASE WakeUp(m) \/ EndRound(m) \/ FinishPeer(m) \/ SyncError(m) \/ Crash(m)
    BY <1>2, <2>3, OutsideEffect
  <2>4. CASE NextPage(m) \/ \E p \in Node : StartPeer(m, p)
    BY <1>2, <2>4, NextPageEffect, StartPeerEffect
  <2>5. ASSUME NEW u \in Unit, StorePulled(m, u) \/ ScorePulled(m, u) PROVE IsPublic(v)
    BY <1>2, <2>1, <2>5, PulledEffect
  <2>6. CASE ServeSync(m)
    BY <1>2, <2>6, ServeSyncEffect DEF FirstPage, Stream
  <2> QED
    BY <2>2, <2>3, <2>4, <2>5, <2>6, VisitCases
<1> QED
  BY <1>1, <1>2 DEF PrivateStaysHome

\* A page takes the units of a stream from its beginning: with a unit it holds
\* every unit that comes before it.
LEMMA FirstPageClosed ==
    ASSUME NEW S \in SUBSET Unit, IsFiniteSet(S), NEW w \in FirstPage(S), NEW u \in S,
           u.id <= w.id
    PROVE  u \in FirstPage(S)
<1> DEFINE Before(x) == {v \in S : v.id < x.id}
<1>1. w \in S /\ Cardinality(Before(w)) < PageLimit
  BY DEF FirstPage
<1>2. Before(u) \subseteq Before(w)
  BY <1>1, UnitIds
<1>3. IsFiniteSet(Before(w)) /\ IsFiniteSet(Before(u))
  BY FS_Subset
<1>4. Cardinality(Before(u)) <= Cardinality(Before(w))
  BY <1>2, <1>3, FS_Subset
<1>5. Cardinality(Before(u)) \in Nat /\ Cardinality(Before(w)) \in Nat
  BY <1>3, FS_CardinalityType
<1>6. Cardinality(Before(u)) < PageLimit
  BY <1>1, <1>4, <1>5, ReplicationAssumption
<1> QED
  BY <1>6 DEF FirstPage

\* Serving a page leaves no gap: what the stream has past the cursor is in the
\* page or comes after it, and after it there is something only if `has_more'.
LEMMA ServedPageHasNoGap ==
    ASSUME TypeOK, StoreInv, NEW m \in Node, ServeSync(m), peer[m] \in Node,
           NEW u \in Stream(peer[m], cursor[m][peer[m]]), next'[m] \in Nat
    PROVE  /\ u.id <= next'[m] => u \in page'[m]
           /\ u.id <= next'[m] \/ more'[m]
<1> DEFINE S == Stream(peer[m], cursor[m][peer[m]])
<1>1. store[peer[m]] \in SUBSET Unit
  BY DEF TypeOK
<1>2. S \in SUBSET Unit
  BY <1>1 DEF Stream
<1>3. IsFiniteSet(S)
  <2>1. IsFiniteSet(store[peer[m]]) /\ S \subseteq store[peer[m]]
    BY DEF StoreInv, Stream
  <2> QED
    BY <2>1, FS_Subset
<1>4. page'[m] = FirstPage(S) /\ IsLastId(page'[m], next'[m]) /\ more'[m] = (page'[m] # S)
  BY ServeSyncEffect
<1>5. u \in S /\ u.id \in Nat /\ u.id > 0
  BY <1>2, UnitIds
<1>6. ASSUME u.id <= next'[m] PROVE u \in page'[m]
  <2>1. PICK w \in page'[m] : w.id = next'[m]
    BY <1>4, <1>5, <1>6 DEF IsLastId
  <2>2. w \in FirstPage(S) /\ u \in S /\ u.id <= w.id
    BY <1>4, <1>5, <1>6, <2>1
  <2> QED
    BY <1>2, <1>3, <1>4, <2>2, FirstPageClosed
<1>7. ASSUME ~more'[m] PROVE u.id <= next'[m]
  BY <1>4, <1>5, <1>7 DEF IsLastId
<1> QED
  BY <1>6, <1>7

\* What the peer's stream held when the visit began stays accounted for.
LEMMA VisitInvStep ==
    ASSUME TypeOK, StoreInv, PageInv, VisitInv, OneScorer, [Next]_vars, NEW m \in Node
    PROVE  VisitInvAt(m)'
<1>0. /\ \A n \in Node : store[n] \subseteq store'[n]
      /\ \A n \in Node, i \in Nat : HasId(store[n], i) => HasId(store'[n], i)
      /\ \A n \in Node : Stream(n, 0) \subseteq Stream(n, 0)'
  <2>1. \A n \in Node : store[n] \subseteq store'[n]
    BY StoresGrow
  <2> QED
    BY <2>1 DEF HasId, Stream
<1>1. VisitInvAt(m) /\ PageInvAt(m)
  BY DEF VisitInv, PageInv
<1>2. /\ stream[m] \in SUBSET Unit
      /\ \A u \in stream[m] : u.id \in Nat
      /\ \A p \in Node : cursor[m][p] \in Nat
      /\ next[m] \in Nat /\ since[m] \in Nat
  BY UnitIds DEF TypeOK
<1>3. CASE SameVisit(m)
  <2>1. CASE ~Visiting(m)
    BY <1>3, <2>1 DEF SameVisit, VisitInvAt, Visiting, Working
  <2>2. CASE Visiting(m)
    BY <1>0, <1>1, <1>2, <1>3, <2>2 DEF SameVisit, VisitInvAt, PageInvAt, Visiting, Working
  <2> QED
    BY <2>1, <2>2
<1>4. CASE WakeUp(m) \/ EndRound(m) \/ FinishPeer(m) \/ SyncError(m) \/ Crash(m)
  BY <1>4, OutsideEffect DEF VisitInvAt
<1>5. ASSUME NEW p \in Node, StartPeer(m, p) PROVE VisitInvAt(m)'
  <2>1. /\ phase'[m] = "request" /\ peer'[m] = p
        /\ stream'[m] = Stream(p, 0) /\ since'[m] = cursor[m][p]
        /\ UNCHANGED <<store, cursor>>
    BY <1>5, StartPeerEffect
  <2>2. Stream(p, 0)' = Stream(p, 0)
    BY <2>1 DEF Stream
  <2>3. \A u \in Stream(p, 0) : u.id \in Nat
    BY UnitIds DEF Stream, TypeOK
  <2> QED
    BY <1>2, <2>1, <2>2, <2>3 DEF VisitInvAt, Visiting, Working
<1>6. CASE NextPage(m)
  <2>1. /\ phase[m] = "store" /\ phase'[m] = "request"
        /\ page[m] = {} /\ peer[m] \in Node
        /\ cursor'[m][peer[m]] = IF next[m] = 0 THEN cursor[m][peer[m]] ELSE next[m]
        /\ UNCHANGED <<store, peer, stream, since>>
    BY <1>6, NextPageEffect
  <2>2. /\ stream[m] \subseteq Stream(peer[m], 0)
        /\ since[m] <= cursor[m][peer[m]]
        /\ next[m] # 0 => cursor[m][peer[m]] < next[m]
        /\ \A u \in stream[m] :
              since[m] < u.id /\ u.id <= cursor[m][peer[m]] => HasId(store[m], u.id)
        /\ \A u \in stream[m] :
              u.id > cursor[m][peer[m]] /\ u.id <= next[m] => HasId(store[m], u.id)
    BY <1>1, <2>1 DEF VisitInvAt, PageInvAt, Visiting, Working
  <2>3. since[m] <= cursor'[m][peer[m]]
    BY <1>2, <2>1, <2>2
  <2>4. \A u \in stream[m] :
           since[m] < u.id /\ u.id <= cursor'[m][peer[m]] => HasId(store[m], u.id)
    BY <1>2, <2>1, <2>2
  <2>5. stream'[m] \subseteq Stream(peer[m], 0)'
    BY <1>0, <2>1, <2>2
  <2> QED
    BY <2>1, <2>3, <2>4, <2>5 DEF VisitInvAt, Visiting, Working, HasId
<1>7. ASSUME NEW u \in Unit, StorePulled(m, u) \/ ScorePulled(m, u) PROVE VisitInvAt(m)'
  <2>1. /\ page'[m] = page[m] \/ page'[m] = page[m] \ {u}
        /\ Working(m) /\ Working(m)'
        /\ UNCHANGED <<peer, next, more, cursor, stream, since>>
    BY <1>7, PulledEffect
  <2>2. page'[m] = page[m] \/ HasId(store[m], u.id)
    <3>1. CASE StorePulled(m, u)
      <4>1. PutConflict(m, u) \/ page' = page
        BY <3>1 DEF StorePulled
      <4> QED
        BY <4>1 DEF PutConflict
    <3>2. CASE ScorePulled(m, u)
      <4>1. TaskOwes(m, u)
        BY <3>2 DEF ScorePulled, TaskOwes
      <4> QED
        BY <4>1 DEF OneScorer, OneScorerAt, HasId
    <3> QED
      BY <1>7, <3>1, <3>2
  <2>3. Visiting(m) /\ Visiting(m)' /\ peer[m] \in Node
    BY <1>1, <2>1 DEF Working, Visiting, PageInvAt
  <2>4. \A v \in stream[m] : u.id \in Nat /\ v.id \in Nat
    BY <1>2, UnitIds
  <2>5. stream'[m] \subseteq Stream(peer[m], 0)'
    BY <1>0, <1>1, <2>1, <2>3 DEF VisitInvAt
  <2>6. \A v \in stream[m] :
           v \in page[m] \/ HasId(store[m], v.id) => v \in page'[m] \/ HasId(store'[m], v.id)
    BY <1>0, <2>1, <2>2, <2>4
  <2>7. \A v \in stream[m] :
           since[m] < v.id /\ v.id <= cursor[m][peer[m]] => HasId(store'[m], v.id)
    BY <1>0, <1>1, <2>3, <2>4 DEF VisitInvAt
  <2>8. since[m] <= cursor[m][peer[m]]
    BY <1>1, <2>3 DEF VisitInvAt
  <2>9. \A v \in stream[m] : v.id > cursor[m][peer[m]] =>
           /\ v.id <= next[m] => v \in page'[m] \/ HasId(store'[m], v.id)
           /\ v.id <= next[m] \/ more[m]
    BY <1>1, <2>1, <2>6 DEF VisitInvAt
  <2> QED
    BY <2>1, <2>5, <2>7, <2>8, <2>9 DEF VisitInvAt
<1>8. CASE ServeSync(m)
  <2>1. Visiting(m) /\ peer[m] \in Node
    BY <1>1, <1>8 DEF ServeSync, Visiting, PageInvAt
  <2>2. /\ phase'[m] = "store"
        /\ UNCHANGED <<store, peer, cursor, stream, since>>
    BY <1>8, ServeSyncEffect
  <2>3. next'[m] \in Nat
    BY TypeStep DEF TypeOK
  <2>4. ASSUME NEW u \in stream[m], u.id > cursor[m][peer[m]]
        PROVE  u \in Stream(peer[m], cursor[m][peer[m]])
    BY <1>1, <2>1, <2>4 DEF VisitInvAt, Stream
  <2>5. \A u \in stream[m] : u.id > cursor[m][peer[m]] =>
           /\ u.id <= next'[m] => u \in page'[m] \/ HasId(store[m], u.id)
           /\ u.id <= next'[m] \/ more'[m]
    BY <1>8, <2>1, <2>3, <2>4, ServedPageHasNoGap
  <2>6. Stream(peer[m], 0)' = Stream(peer[m], 0)
    BY <2>2 DEF Stream
  <2> QED
    BY <1>1, <2>1, <2>2, <2>5, <2>6 DEF VisitInvAt, HasId
<1> QED
  BY <1>3, <1>4, <1>5, <1>6, <1>7, <1>8, VisitCases
-----------------------------------------------------------------------------
(***************************************************************************)
(* Who owes a score.                                                       *)
(***************************************************************************)

\* A handler comes to owe a score by storing the unit itself.
LEMMA HandlerOwesCases ==
    ASSUME TypeOK, [Next]_vars, NEW m \in Node, NEW v \in Unit, HandlerOwes(m, v)'
    PROVE  \/ HandlerOwes(m, v)
           \/ PutUnit(m, v) /\ UNCHANGED <<phase, page, credibility>>
<1> USE DEF HandlerOwes
<1>1. handlers \in [Node -> SUBSET Handler]
  BY DEF TypeOK
<1>2. CASE handlers' = handlers
  BY <1>2
<1>3. ASSUME NEW n \in Node, NEW h, handlers' = [handlers EXCEPT ![n] = @ \ {h}]
      PROVE  HandlerOwes(m, v)
  BY <1>1, <1>3
<1>4. CASE UNCHANGED vars
  BY <1>2, <1>4 DEF vars
<1>5. ASSUME NEW n \in Node, NEW u \in Unit, NEW caller, Submit(n, u, caller)
      PROVE  \/ HandlerOwes(m, v)
             \/ PutUnit(m, v) /\ UNCHANGED <<phase, page, credibility>>
  <2>1. UNCHANGED <<phase, page, credibility>>
    BY <1>5 DEF Submit
  <2>2. CASE PutUnit(n, u) /\ handlers' = [handlers EXCEPT ![n] = @ \union {[unit |-> u, at |-> "credit"]}]
    BY <1>1, <2>1, <2>2
  <2>3. CASE handlers' = [handlers EXCEPT ![n] = @ \union {[unit |-> u, at |-> "compare"]}]
    <3>1. [unit |-> u, at |-> "compare"] # [unit |-> v, at |-> "credit"]
      OBVIOUS
    <3> QED
      BY <1>1, <2>3, <3>1
  <2> QED
    BY <1>5, <2>2, <2>3 DEF Submit
<1>6. ASSUME NEW n \in Node, NEW u \in Unit, AnswerConflict(n, u) \/ AnswerCreated(n, u)
      PROVE  HandlerOwes(m, v)
  BY <1>3, <1>6 DEF AnswerConflict, AnswerCreated
<1>7. ASSUME NEW n \in Node, DropHandler(n) PROVE HandlerOwes(m, v)
  BY <1>3, <1>7 DEF DropHandler
<1>8. ASSUME NEW n \in Node, Crash(n) PROVE HandlerOwes(m, v)
  BY <1>1, <1>8 DEF Crash
<1>9. ASSUME NEW n \in Node, NEW u \in Unit, StorePulled(n, u) \/ ScorePulled(n, u)
      PROVE  handlers' = handlers
  BY <1>9 DEF StorePulled, ScorePulled
<1>10. ASSUME NEW n \in Node, NEW p \in Node, StartPeer(n, p) PROVE handlers' = handlers
  BY <1>10 DEF StartPeer
<1>11. ASSUME NEW n \in Node,
              \/ WakeUp(n) \/ EndRound(n) \/ ServeSync(n)
              \/ NextPage(n) \/ FinishPeer(n) \/ SyncError(n)
       PROVE  handlers' = handlers
  BY <1>11 DEF WakeUp, EndRound, ServeSync, NextPage, FinishPeer, SyncError
<1> QED
  BY <1>2, <1>4, <1>5, <1>6, <1>7, <1>8, <1>9, <1>10, <1>11, StepCases

\* So does the federation task.  Two units with one id cannot both head its
\* page, because the page is part of one store.
LEMMA TaskOwesCases ==
    ASSUME TypeOK, OneUnitPerId, PageInv, [Next]_vars, NEW m \in Node, NEW v \in Unit,
           TaskOwes(m, v)'
    PROVE  \/ TaskOwes(m, v)
           \/ PutUnit(m, v) /\ UNCHANGED <<handlers, credibility>>
<1> USE DEF TaskOwes, IsHead
<1>1. phase \in [Node -> Phase] /\ page \in [Node -> SUBSET Unit]
  BY DEF TypeOK
<1>2. CASE SameVisit(m)
  BY <1>2 DEF SameVisit
<1>3. CASE WakeUp(m) \/ EndRound(m) \/ FinishPeer(m) \/ SyncError(m) \/ Crash(m)
  BY <1>3, OutsideEffect DEF Working
<1>4. ASSUME NEW p \in Node, StartPeer(m, p) PROVE FALSE
  BY <1>4, StartPeerEffect
<1>5. CASE NextPage(m) \/ ServeSync(m)
  BY <1>5, NextPageEffect, ServeSyncEffect
<1>6. ASSUME NEW u \in Unit, ScorePulled(m, u) PROVE FALSE
  BY <1>1, <1>6 DEF ScorePulled
<1>7. ASSUME NEW u \in Unit, StorePulled(m, u)
      PROVE  PutUnit(m, v) /\ UNCHANGED <<handlers, credibility>>
  <2>1. PutUnit(m, u) /\ page' = page
    BY <1>1, <1>7 DEF StorePulled
  <2>2. u \in page[m] /\ v \in page[m] /\ u.id <= v.id /\ v.id <= u.id
    BY <1>7, <2>1 DEF StorePulled
  <2>3. u.id = v.id
    BY <2>2, UnitIds
  <2>4. peer[m] \in Node /\ u \in store[peer[m]] /\ v \in store[peer[m]]
    BY <1>7, <2>2 DEF StorePulled, PageInv, PageInvAt, Working, Visiting
  <2>5. u = v
    BY <2>3, <2>4 DEF OneUnitPerId
  <2> QED
    BY <1>7, <2>1, <2>5 DEF StorePulled
<1> QED
  BY <1>2, <1>3, <1>4, <1>5, <1>6, <1>7, VisitCases

\* Who has scored a unit owes nothing any more, and nobody else did.
LEMMA ScoringSettles ==
    ASSUME TypeOK, OneScorer, PageInv, [Next]_vars, NEW m \in Node, NEW v \in Unit,
           credibility'[m][v] # credibility[m][v]
    PROVE  ~HandlerOwes(m, v)' /\ ~TaskOwes(m, v)'
<1>1. /\ handlers \in [Node -> SUBSET Handler]
      /\ phase \in [Node -> Phase]
      /\ credibility \in [Node -> [Unit -> Node \union {Nobody}]]
  BY DEF TypeOK
<1>2. ASSUME NEW n \in Node, NEW u \in Unit, AnswerCreated(n, u)
      PROVE  ~HandlerOwes(m, v)' /\ ~TaskOwes(m, v)'
  <2>1. SetCredibility(n, u, n)
    BY <1>2 DEF AnswerCreated
  <2>2. m = n /\ v = u
    BY <2>1, SetCredibilityEffect
  <2>3. HandlerOwes(m, v) /\ ~TaskOwes(m, v)
    BY <1>2, <2>2 DEF AnswerCreated, HandlerOwes, OneScorer, OneScorerAt
  <2>4. ~TaskOwes(m, v)'
    BY <1>2, <2>3 DEF AnswerCreated, TaskOwes, IsHead
  <2>5. ~HandlerOwes(m, v)'
    BY <1>1, <1>2, <2>2 DEF AnswerCreated, HandlerOwes
  <2> QED
    BY <2>4, <2>5
<1>3. ASSUME NEW n \in Node, NEW u \in Unit, ScorePulled(n, u)
      PROVE  ~HandlerOwes(m, v)' /\ ~TaskOwes(m, v)'
  <2>1. peer[n] \in Node /\ SetCredibility(n, u, peer[n])
    BY <1>3 DEF ScorePulled, PageInv, PageInvAt, Visiting
  <2>2. m = n /\ v = u
    BY <2>1, SetCredibilityEffect
  <2>3. TaskOwes(m, v) /\ ~HandlerOwes(m, v)
    BY <1>3, <2>2 DEF ScorePulled, TaskOwes, OneScorer, OneScorerAt
  <2>4. ~HandlerOwes(m, v)'
    BY <1>3, <2>3 DEF ScorePulled, HandlerOwes
  <2>5. ~TaskOwes(m, v)'
    BY <1>1, <1>3, <2>2 DEF ScorePulled, TaskOwes
  <2> QED
    BY <2>4, <2>5
<1>4. ASSUME NEW n \in Node, NEW u \in Unit, AnswerConflict(n, u) \/ StorePulled(n, u)
      PROVE  FALSE
  BY <1>4 DEF AnswerConflict, StorePulled
<1>5. ASSUME NEW n \in Node, NEW u \in Unit, NEW caller, Submit(n, u, caller) PROVE FALSE
  BY <1>5 DEF Submit
<1>6. ASSUME NEW n \in Node, NEW p \in Node, StartPeer(n, p) PROVE FALSE
  BY <1>6 DEF StartPeer
<1>7. ASSUME NEW n \in Node,
             \/ DropHandler(n) \/ WakeUp(n) \/ EndRound(n) \/ ServeSync(n)
             \/ NextPage(n) \/ FinishPeer(n) \/ SyncError(n) \/ Crash(n)
      PROVE  FALSE
  BY <1>7 DEF DropHandler, WakeUp, EndRound, ServeSync, NextPage, FinishPeer, SyncError, Crash
<1>8. ~ UNCHANGED vars
  BY DEF vars
<1> QED
  BY <1>2, <1>3, <1>4, <1>5, <1>6, <1>7, <1>8, StepCases

\* One scorer per stored unit, after a step too.
LEMMA OneScorerStep ==
    ASSUME TypeOK, OneUnitPerId, OneScorer, StoreInv, PageInv, [Next]_vars
    PROVE  OneScorer'
<1> SUFFICES ASSUME NEW m \in Node, NEW v \in Unit,
                    HandlerOwes(m, v)' \/ TaskOwes(m, v)'
             PROVE  /\ ~(HandlerOwes(m, v)' /\ TaskOwes(m, v)')
                    /\ v \in store'[m] /\ credibility'[m][v] = Nobody
  BY DEF OneScorer, OneScorerAt
<1>1. store[m] \subseteq store'[m] /\ credibility'[m][v] = credibility[m][v]
  BY StoresGrow, ScoringSettles
<1>2. CASE PutUnit(m, v)
  <2>1. v \notin store[m] /\ v \in store'[m]
    BY <1>2, PutUnitEffect DEF HasId
  <2>2. ~HandlerOwes(m, v) /\ ~TaskOwes(m, v)
    BY <2>1 DEF OneScorer, OneScorerAt
  <2>3. credibility[m][v] = Nobody
    BY <2>1 DEF StoreInv
  <2>4. ASSUME HandlerOwes(m, v)', TaskOwes(m, v)' PROVE FALSE
    <3>1. UNCHANGED <<phase, page>>
      BY <2>2, <2>4, HandlerOwesCases
    <3>2. TaskOwes(m, v)
      BY <2>4, <3>1 DEF TaskOwes, IsHead
    <3> QED
      BY <2>2, <3>2
  <2> QED
    BY <1>1, <2>1, <2>3, <2>4
<1>3. CASE ~PutUnit(m, v)
  <2>1. /\ HandlerOwes(m, v)' => HandlerOwes(m, v)
        /\ TaskOwes(m, v)' => TaskOwes(m, v)
    BY <1>3, HandlerOwesCases, TaskOwesCases
  <2> QED
    BY <1>1, <2>1 DEF OneScorer, OneScorerAt
<1> QED
  BY <1>2, <1>3
-----------------------------------------------------------------------------
(***************************************************************************)
(* The theorems.                                                           *)
(***************************************************************************)

\* The invariant holds when all nodes are empty and idle.
LEMMA InvInit == Init => IInv
<1> SUFFICES ASSUME Init PROVE IInv
  OBVIOUS
<1>1. TypeOK
  BY TypeInit
<1>2. OneUnitPerId /\ AnsweredIsHeld /\ PrivateStaysHome
  BY DEF Init, OneUnitPerId, AnsweredIsHeld, PrivateStaysHome
<1>3. OneScorer
  BY DEF Init, OneScorer, OneScorerAt, HandlerOwes, TaskOwes
<1>4. StoreInv
  BY FS_EmptySet DEF Init, StoreInv
<1>5. PageInv /\ VisitInv
  BY DEF Init, PageInv, PageInvAt, VisitInv, VisitInvAt, Visiting, Working
<1> QED
  BY <1>1, <1>2, <1>3, <1>4, <1>5 DEF IInv

\* Every step preserves the invariant.
LEMMA InvStep == IInv /\ [Next]_vars => IInv'
<1> SUFFICES ASSUME IInv, [Next]_vars PROVE IInv'
  OBVIOUS
<1> USE DEF IInv
<1>1. TypeOK'
  BY TypeStep
<1>2. OneUnitPerId'
  BY UniqueStep
<1>3. AnsweredIsHeld'
  BY AnsweredStep
<1>4. PrivateStaysHome'
  BY PrivateStep
<1>5. OneScorer'
  BY OneScorerStep
<1>6. StoreInv'
  BY StoreInvStep
<1>7. PageInv'
  BY PageInvStep DEF PageInv
<1>8. VisitInv'
  BY VisitInvStep DEF VisitInv
<1> QED
  BY <1>1, <1>2, <1>3, <1>4, <1>5, <1>6, <1>7, <1>8

\* The inductive invariant holds in every reachable state of the federation,
\* whatever the nodes, peer lists, page size, crashes and failed calls.
THEOREM Invariance == Spec => []IInv
  BY InvInit, InvStep, PTL DEF Spec

\* Every variable of every node keeps its type.
THEOREM TypeCorrect == Spec => []TypeOK
<1>1. IInv => TypeOK
  BY DEF IInv
<1> QED
  BY <1>1, Invariance, PTL

\* put_unit on the client path and put_unit on the pull path never leave a
\* node with two units under one id, however they race.
THEOREM OneUnitPerIdHolds == Spec => []OneUnitPerId
<1>1. IInv => OneUnitPerId
  BY DEF IInv
<1> QED
  BY <1>1, Invariance, PTL

\* A unit a client was answered 201 or 200 for is in the node's store from
\* then on, with that content.
THEOREM AnsweredIsHeldHolds == Spec => []AnsweredIsHeld
<1>1. IInv => AnsweredIsHeld
  BY DEF IInv
<1> QED
  BY <1>1, Invariance, PTL

\* No chain of syncs carries a non-public unit to another node.
THEOREM PrivateStaysHomeHolds == Spec => []PrivateStaysHome
<1>1. IInv => PrivateStaysHome
  BY DEF IInv
<1> QED
  BY <1>1, Invariance, PTL

\* Of a handler and the federation task that both handle a unit, only the one
\* whose put_unit succeeded scores it.
THEOREM OneScorerHolds == Spec => []OneScorer
<1>1. IInv => OneScorer
  BY DEF IInv
<1> QED
  BY <1>1, Invariance, PTL

\* When sync_peer returns with success the node has every id past its cursor
\* that was in the peer's public stream when it was called.
THEOREM DrainedIsCompleteHolds == Spec => []DrainedIsComplete
<1>1. ASSUME IInv, NEW n \in Node, Drained(n), NEW u \in stream[n], u.id > since[n]
      PROVE  HasId(store[n], u.id)
  <2>1. /\ VisitInvAt(n) /\ PageInvAt(n)
        /\ Visiting(n) /\ Working(n)
        /\ page[n] = {} /\ ~more[n]
    BY <1>1 DEF IInv, VisitInv, PageInv, Drained, Visiting, Working
  <2>2. u.id \in Nat /\ since[n] \in Nat /\ cursor[n][peer[n]] \in Nat /\ next[n] \in Nat
    <3>1. TypeOK /\ u \in Unit
      BY <1>1 DEF IInv, TypeOK
    <3> QED
      BY <2>1, <3>1, UnitIds DEF TypeOK, PageInvAt
  <2>3. CASE u.id <= cursor[n][peer[n]]
    BY <1>1, <2>1, <2>2, <2>3 DEF VisitInvAt
  <2>4. CASE u.id > cursor[n][peer[n]]
    BY <1>1, <2>1, <2>4 DEF VisitInvAt
  <2> QED
    BY <2>2, <2>3, <2>4
<1>2. IInv => DrainedIsComplete
  BY <1>1 DEF DrainedIsComplete
<1> QED
  BY <1>2, Invariance, PTL

\* No later submission and no other peer overwrites the score of a unit.
THEOREM ScoreIsFinalHolds == Spec => ScoreIsFinal
<1>1. ASSUME IInv, [Next]_vars, NEW n \in Node, NEW u \in Unit, credibility[n][u] # Nobody
      PROVE  credibility'[n][u] = credibility[n][u]
  <2>1. ASSUME NEW m \in Node, NEW v \in Unit, NEW source \in Node,
               SetCredibility(m, v, source), HandlerOwes(m, v) \/ TaskOwes(m, v)
        PROVE  credibility'[n][u] = credibility[n][u]
    <3>1. credibility[m][v] = Nobody
      BY <1>1, <2>1 DEF IInv, OneScorer, OneScorerAt
    <3> QED
      BY <1>1, <2>1, <3>1, SetCredibilityEffect DEF IInv
  <2> QED
    BY <1>1, <2>1, CredibilityCases DEF IInv
<1>2. IInv /\ [Next]_vars =>
        [\A n \in Node, u \in Unit :
           credibility[n][u] # Nobody => credibility'[n][u] = credibility[n][u]]_vars
  BY <1>1
<1> QED
  BY <1>2, Invariance, PTL DEF Spec, ScoreIsFinal

\* The cursor a node keeps for a peer only moves forward.
THEOREM CursorNeverRetreatsHolds == Spec => CursorNeverRetreats
<1>1. ASSUME IInv, [Next]_vars, NEW n \in Node, NEW p \in Node
      PROVE  cursor[n][p] <= cursor'[n][p]
  <2>1. /\ cursor \in [Node -> [Node -> Nat]]
        /\ next \in [Node -> Nat]
        /\ PageInvAt(n)
    BY <1>1 DEF IInv, TypeOK, PageInv
  <2>2. CASE cursor'[n] = cursor[n]
    BY <2>1, <2>2
  <2>3. ASSUME SetCursor(n), Working(n) PROVE cursor[n][p] <= cursor'[n][p]
    <3>1. peer[n] \in Node /\ (next[n] # 0 => cursor[n][peer[n]] < next[n])
      BY <2>1, <2>3 DEF PageInvAt, Working, Visiting
    <3>2. cursor'[n][p] = IF p = peer[n] /\ next[n] # 0 THEN next[n] ELSE cursor[n][p]
      BY <2>1, <2>3 DEF SetCursor
    <3>3. cursor[n][p] \in Nat /\ next[n] \in Nat
      BY <2>1
    <3> QED
      BY <3>1, <3>2, <3>3
  <2>4. ASSUME NextPage(n) \/ FinishPeer(n) PROVE SetCursor(n) /\ Working(n)
    BY <2>4 DEF NextPage, FinishPeer, Drained, Working
  <2>5. ASSUME \/ WakeUp(n) \/ EndRound(n) \/ ServeSync(n) \/ SyncError(n) \/ Crash(n)
               \/ \E q \in Node : StartPeer(n, q)
               \/ \E u \in Unit : StorePulled(n, u) \/ ScorePulled(n, u)
        PROVE  cursor'[n] = cursor[n]
    BY <2>5 DEF WakeUp, EndRound, ServeSync, SyncError, Crash, StartPeer, StorePulled, ScorePulled
  <2> QED
    BY <1>1, <2>2, <2>3, <2>4, <2>5, VisitCases DEF IInv, SameVisit
<1>2. IInv /\ [Next]_vars => [\A n, p \in Node : cursor[n][p] <= cursor'[n][p]]_vars
  BY <1>1
<1> QED
  BY <1>2, Invariance, PTL DEF Spec, CursorNeverRetreats

\* The stores of the nodes implement the grow-only graph: a stored unit was
\* published there by a client or adopted from a node that held it in public.
THEOREM RefinesUnitGraph == Spec => ImplementsUnitGraph
<1>1. Init => Graph!GraphInit
  BY DEF Init, Graph!GraphInit
<1>2. ASSUME IInv, [Next]_vars PROVE [Graph!GraphNext]_(Graph!graphVars)
  <2> USE DEF Graph!graphVars, Graph!GraphNext
  <2>1. CASE UNCHANGED <<store, published>>
    BY <2>1
  <2>2. ASSUME NEW n \in Node, NEW u \in Unit, PutUnit(n, u),
               published' = [published EXCEPT ![n] = @ \union {u}]
        PROVE  Graph!GraphNext
    <3>1. Graph!Publish(n, u)
      BY <2>2 DEF PutUnit, Graph!Publish, HasId, Graph!HasId
    <3> QED
      BY <3>1
  <2>3. ASSUME NEW n \in Node, NEW u \in Unit, PutUnit(n, u),
               Working(n), IsHead(n, u), UNCHANGED published
        PROVE  Graph!GraphNext
    <3>1. peer[n] \in Node /\ u \in store[peer[n]]
      BY <1>2, <2>3 DEF IInv, PageInv, PageInvAt, IsHead, Working, Visiting
    <3>2. IsPublic(u)
      BY <1>2, <2>3 DEF IInv, PrivateStaysHome, IsHead
    <3>3. Graph!Adopt(n, peer[n], u)
      BY <2>3, <3>1, <3>2 DEF PutUnit, Graph!Adopt, HasId, Graph!HasId, IsPublic, Graph!IsPublic
    <3> QED
      BY <3>1, <3>3
  <2> QED
    BY <1>2, <2>1, <2>2, <2>3, StoreCases
<1>3. IInv /\ [Next]_vars => [Graph!GraphNext]_(Graph!graphVars)
  BY <1>2
<1> QED
  BY <1>1, <1>3, Invariance, PTL DEF Spec, ImplementsUnitGraph, Graph!GraphSpec
=============================================================================
