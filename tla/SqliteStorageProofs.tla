------------------------ MODULE SqliteStorageProofs -------------------------
(***************************************************************************)
(* Proofs about SqliteStorage, for any units, agents, nodes, filters and   *)
(* seeds and any number of calls and faults: that its tables stay sound,   *)
(* that it implements Storage, and that it reads as Storage reads.         *)
(***************************************************************************)
EXTENDS SqliteStorage, FiniteSetTheorems, TLAPS

\* A step is a stuttering step or one of the actions.
LEMMA StepCases ==
    ASSUME [Next]_vars
    PROVE  \/ UNCHANGED vars
           \/ \E u \in Unit : PutUnit(u)
           \/ \E u \in Unit, s \in Scores : SetUnitCredibility(u.id, s)
           \/ \E i : PutEdge(i)
           \/ \E d \in Author, p \in Newcomers : PutAgent(d, p)
           \/ \E d \in Author : DeleteAgent(d)
           \/ \E d \in Author : Increment(d)
           \/ \E d \in Author, r \in Scores : UpdateAgentReputation(d, r)
           \/ \E d \in Author, e \in Author : AddFollow(d, e)
           \/ \E d \in Author, e \in Author : RemoveFollow(d, e)
           \/ \E d \in Author, u \in Unit : DeliverToInbox(d, u)
           \/ DeleteInbox
           \/ Graduate
           \/ \E n \in Node, p \in Claims : AddPeer(n, p)
           \/ \E n \in Node : RemovePeer(n)
           \/ \E n \in Node, r \in Scores : UpdatePeerReputation(n, r)
           \/ \E n \in Node, u \in Unit : SetCursor(n, u.id)
           \/ Open
           \/ LoadIdentity
           \/ \E seed \in Seed : GenerateIdentity(seed)
           \/ UseGenerated
           \/ StatementFails
           \/ Crash
  BY DEF Next, UnitCall, AgentCall, PeerCall
-----------------------------------------------------------------------------
(***************************************************************************)
(* Statements.                                                             *)
(***************************************************************************)

\* A map of rows stays one when a row is written or deleted.
LEMMA UpsertType ==
    ASSUME NEW f, NEW K, NEW R, DOMAIN f \subseteq K, f \in [DOMAIN f -> R],
           NEW x \in K, NEW row \in R
    PROVE  /\ DOMAIN Upsert(f, x, row) = DOMAIN f \union {x}
           /\ DOMAIN Upsert(f, x, row) \subseteq K
           /\ Upsert(f, x, row) \in [DOMAIN Upsert(f, x, row) -> R]
  BY DEF Upsert

LEMMA DeleteType ==
    ASSUME NEW f, NEW K, NEW R, DOMAIN f \subseteq K, f \in [DOMAIN f -> R], NEW x
    PROVE  /\ DOMAIN Delete(f, x) \subseteq K \ {x}
           /\ Delete(f, x) \in [DOMAIN Delete(f, x) -> R]
  BY DEF Delete, Restrict

\* The reputation of a newcomer is one, and so is every score a caller sets.
LEMMA ReputationType == Neutral \in Reputation /\ Scores \subseteq Reputation
<1>1. Top \in Nat /\ Top \div 2 \in 0 .. Top
  BY SqliteStorageAssumption
<1> QED
  BY <1>1, SqliteStorageAssumption DEF Neutral, Reputation

LEMMA NewcomerType == Newcomers \subseteq AgentProfile
  BY ReputationType DEF Newcomers, AgentProfile

\* What UnitAssumption says of the units that the actions use.
LEMMA UnitFields ==
    ASSUME NEW u \in Unit
    PROVE  u.id \in Nat /\ u.author \in Author /\ u.body \in Body
  BY UnitAssumption DEF UnitRecord
-----------------------------------------------------------------------------
(***************************************************************************)
(* The inductive invariant.                                                *)
(***************************************************************************)
LEMMA TypeInit == Init => TypeOK
<1> SUFFICES ASSUME Init PROVE TypeOK
  OBVIOUS
<1>1. \A R : <<>> \in [DOMAIN <<>> -> R] /\ DOMAIN <<>> = {}
  OBVIOUS
<1>2. credibility \in [DOMAIN credibility -> Reputation] /\ DOMAIN credibility = {}
  BY <1>1 DEF Init
<1>3. agents \in [DOMAIN agents -> AgentProfile] /\ DOMAIN agents = {}
  BY <1>1 DEF Init
<1>4. peers \in [DOMAIN peers -> PeerInfo] /\ DOMAIN peers = {}
  BY <1>1 DEF Init
<1>5. cursors \in [DOMAIN cursors -> Nat] /\ DOMAIN cursors = {}
  BY <1>1 DEF Init
<1>6. config \in [DOMAIN config -> Seed] /\ DOMAIN config = {}
  BY <1>1 DEF Init
<1> QED
  BY <1>2, <1>3, <1>4, <1>5, <1>6 DEF Init, TypeOK, Closed

\* A call of one statement leaves nothing half-way and the identity alone.
LEMMA SingleKeeps ==
    ASSUME IdentityInv, call' = Free, UNCHANGED <<config, identity, published>>
    PROVE  CallInv' /\ IdentityInv'
  BY DEF CallInv, PutUnitHalf, DeleteAgentHalf, IncrementHalf, IdentityInv, Free, HasNodeConfig

LEMMA PutUnitKeeps ==
    ASSUME IInv, NEW u \in Unit, PutUnit(u)
    PROVE  IInv'
<1> USE DEF IInv, PutUnit, Lock, node, unitTables, agentTables, nodeTables
<1>1. CASE HasId(units, u.id) /\ Return("conflict") /\ UNCHANGED units
  <2>1. call' = Free /\ UNCHANGED <<config, identity, published>>
    BY <1>1 DEF Return
  <2>2. CallInv' /\ IdentityInv'
    BY <2>1, SingleKeeps
  <2>3. TypeOK'
    BY <1>1 DEF TypeOK, Return, Free
  <2> QED
    BY <2>2, <2>3
<1>2. CASE /\ ~HasId(units, u.id)
           /\ units' = units \union {u}
           /\ IF Edges(u) = {} THEN Return("ok")
              ELSE Goto([op |-> "put_unit", unit |-> u, left |-> u.body.references])
  <2>1. /\ units' \subseteq Unit /\ \A v, w \in units' : v.id = w.id => v = w
        /\ \A i \in DOMAIN credibility' : HasId(units', i)
        /\ edges' \subseteq UNION {Edges(v) : v \in units'}
    BY <1>2 DEF HasId, TypeOK
  <2>2. call' = Free \/ call' = [op |-> "put_unit", unit |-> u, left |-> u.body.references]
    BY <1>2 DEF Return, Goto
  <2>3. TypeOK'
    <3>1. call'.op \in Between \union {"none"}
      BY <2>2 DEF Free, Between
    <3>2. reply' \in {"ok", reply}
      BY <1>2 DEF Return, Goto
    <3>3. calls' \in Nat
      BY DEF TypeOK
    <3> QED
      BY <2>1, <3>1, <3>2, <3>3 DEF TypeOK
  <2>4. CallInv'
    BY <1>2, <2>2 DEF CallInv, PutUnitHalf, DeleteAgentHalf, IncrementHalf, Free
  <2>5. IdentityInv'
    BY <2>2 DEF IdentityInv, HasNodeConfig, Free
  <2> QED
    BY <2>3, <2>4, <2>5
<1> QED
  BY <1>1, <1>2

LEMMA PutEdgeKeeps ==
    ASSUME IInv, NEW i, PutEdge(i)
    PROVE  IInv'
<1> USE DEF IInv, PutEdge, node, agentTables, nodeTables
<1>1. /\ call.unit \in units /\ i \in call.unit.body.references
      /\ call.left \subseteq call.unit.body.references
      /\ call \in [op : {"put_unit"}, unit : units, left : SUBSET call.unit.body.references]
  BY DEF CallInv, PutUnitHalf
<1>2. edges' \subseteq UNION {Edges(u) : u \in units'}
  <2>1. <<call.unit.id, i>> \in Edges(call.unit)
    BY <1>1 DEF Edges
  <2> QED
    BY <1>1, <2>1 DEF TypeOK
<1>3. call' = Free \/ call' = [op |-> "put_unit", unit |-> call.unit, left |-> call.left \ {i}]
  BY <1>1 DEF Return, Goto
<1>4. TypeOK'
  BY <1>2, <1>3 DEF TypeOK, Return, Goto, Between, Free
<1>5. CallInv'
  BY <1>1, <1>3 DEF CallInv, PutUnitHalf, DeleteAgentHalf, IncrementHalf, Free
<1>6. IdentityInv'
  BY <1>3 DEF IdentityInv, HasNodeConfig, Free
<1> QED
  BY <1>4, <1>5, <1>6

\* The calls of one statement each write one table; the rest of IInv is as it was.
LEMMA SetUnitCredibilityKeeps ==
    ASSUME IInv, NEW i, NEW score \in Reputation, SetUnitCredibility(i, score)
    PROVE  IInv'
<1> USE DEF IInv, SetUnitCredibility, Single, Lock, Return, node, agentTables, nodeTables
<1>1. CallInv' /\ IdentityInv'
  BY SingleKeeps
<1>2. CASE HasId(units, i) /\ credibility' = Upsert(credibility, i, score)
  <2>1. /\ DOMAIN credibility' = DOMAIN credibility \union {i}
        /\ credibility' \in [DOMAIN credibility' -> Reputation]
    BY <1>2 DEF TypeOK, Upsert
  <2>2. TypeOK'
    BY <1>2, <2>1 DEF TypeOK, HasId, Free
  <2> QED
    BY <1>1, <2>2
<1>3. CASE UNCHANGED credibility
  BY <1>1, <1>3 DEF TypeOK, HasId, Free
<1> QED
  BY <1>2, <1>3

LEMMA PutAgentKeeps ==
    ASSUME IInv, NEW d \in Author, NEW p \in Newcomers, PutAgent(d, p)
    PROVE  IInv'
<1> USE DEF IInv, PutAgent, Single, Lock, Return, node, unitTables, nodeTables
<1>1. CallInv' /\ IdentityInv'
  BY SingleKeeps
<1>2. DOMAIN agents' \subseteq Author /\ agents' \in [DOMAIN agents' -> AgentProfile]
  BY UpsertType, NewcomerType DEF TypeOK
<1>3. TypeOK'
  BY <1>2 DEF TypeOK, Free
<1> QED
  BY <1>1, <1>3

LEMMA UpdateAgentReputationKeeps ==
    ASSUME IInv, NEW d \in Author, NEW r \in Scores, UpdateAgentReputation(d, r)
    PROVE  IInv'
<1> USE DEF IInv, UpdateAgentReputation, Single, Lock, Return, node, unitTables, nodeTables
<1>1. CallInv' /\ IdentityInv'
  BY SingleKeeps
<1>2. DOMAIN agents' \subseteq Author /\ agents' \in [DOMAIN agents' -> AgentProfile]
  BY ReputationType DEF TypeOK, AgentProfile
<1>3. TypeOK'
  BY <1>2 DEF TypeOK, Free
<1> QED
  BY <1>1, <1>3

LEMMA FollowKeeps ==
    ASSUME IInv, NEW d \in Author, NEW e \in Author, AddFollow(d, e) \/ RemoveFollow(d, e)
    PROVE  IInv'
<1> USE DEF IInv, AddFollow, RemoveFollow, Single, Lock, Return, node, unitTables, agentTables, nodeTables
<1>1. CallInv' /\ IdentityInv'
  BY SingleKeeps
<1>2. follows' \subseteq Author \X Author
  BY DEF TypeOK
<1>3. TypeOK'
  BY <1>2 DEF TypeOK, Free
<1> QED
  BY <1>1, <1>3

LEMMA DeliverToInboxKeeps ==
    ASSUME IInv, NEW d \in Author, NEW u \in Unit, DeliverToInbox(d, u)
    PROVE  IInv'
<1> USE DEF IInv, DeliverToInbox, Single, Lock, Return, node, unitTables, nodeTables
<1>1. CallInv' /\ IdentityInv'
  BY SingleKeeps
<1>2. rows' \subseteq [agent_did : Author, unit : Unit]
  BY DEF TypeOK
<1>3. TypeOK'
  BY <1>2 DEF TypeOK, Free
<1> QED
  BY <1>1, <1>3

LEMMA PeerTableKeeps ==
    ASSUME IInv, NEW n \in Node,
           \/ \E p \in Claims : AddPeer(n, p)
           \/ RemovePeer(n)
           \/ \E r \in Scores : UpdatePeerReputation(n, r)
    PROVE  IInv'
<1> USE DEF IInv, Single, Lock, Return, node, unitTables, agentTables
<1>1. /\ call' = Free /\ reply' \in {"ok", "not_found"} /\ calls' \in Nat
      /\ UNCHANGED <<unitTables, agentTables, follows, cursors, config, node, faults>>
  <2>1. calls \in Nat
    BY DEF TypeOK
  <2>2. ASSUME NEW p \in Claims, AddPeer(n, p)
        PROVE  /\ call' = Free /\ reply' = "ok" /\ calls' \in Nat
               /\ UNCHANGED <<unitTables, agentTables, follows, cursors, config, node, faults>>
    BY <2>1, <2>2 DEF AddPeer
  <2>3. ASSUME RemovePeer(n)
        PROVE  /\ call' = Free /\ reply' = "ok" /\ calls' \in Nat
               /\ UNCHANGED <<unitTables, agentTables, follows, cursors, config, node, faults>>
    BY <2>1, <2>3 DEF RemovePeer
  <2>4. ASSUME NEW r \in Scores, UpdatePeerReputation(n, r)
        PROVE  /\ call' = Free /\ reply' \in {"ok", "not_found"} /\ calls' \in Nat
               /\ UNCHANGED <<unitTables, agentTables, follows, cursors, config, node, faults>>
    BY <2>1, <2>4 DEF UpdatePeerReputation
  <2> QED
    BY <2>2, <2>3, <2>4
<1>2. CallInv' /\ IdentityInv'
  BY <1>1, SingleKeeps
<1>3. DOMAIN peers' \subseteq Node /\ peers' \in [DOMAIN peers' -> PeerInfo]
  <2>1. DOMAIN peers \subseteq Node /\ peers \in [DOMAIN peers -> PeerInfo]
    BY DEF TypeOK
  <2>2. ASSUME NEW p \in Claims, AddPeer(n, p), n \notin DOMAIN peers
        PROVE  DOMAIN peers' \subseteq Node /\ peers' \in [DOMAIN peers' -> PeerInfo]
    <3>1. [p EXCEPT !.reputation = Neutral] \in PeerInfo
      BY ReputationType DEF Claims, PeerInfo
    <3>2. peers' = Upsert(peers, n, [p EXCEPT !.reputation = Neutral])
      BY <2>2 DEF AddPeer
    <3> DEFINE row == [p EXCEPT !.reputation = Neutral]
    <3>3. row \in PeerInfo
      BY <3>1
    <3> HIDE DEF row
    <3>4. /\ DOMAIN Upsert(peers, n, row) \subseteq Node
          /\ Upsert(peers, n, row) \in [DOMAIN Upsert(peers, n, row) -> PeerInfo]
      BY <2>1, <3>3, UpsertType
    <3> QED
      BY <3>2, <3>4 DEF row
  <2>3. ASSUME NEW p \in Claims, AddPeer(n, p), n \in DOMAIN peers
        PROVE  DOMAIN peers' \subseteq Node /\ peers' \in [DOMAIN peers' -> PeerInfo]
    <3>1. peers' = [peers EXCEPT ![n].api_base = p.api_base]
      BY <2>3 DEF AddPeer
    <3>2. [peers[n] EXCEPT !.api_base = p.api_base] \in PeerInfo
      BY <2>1, <2>3 DEF Claims, PeerInfo
    <3> QED
      BY <2>1, <3>1, <3>2
  <2>4. ASSUME RemovePeer(n)
        PROVE  DOMAIN peers' \subseteq Node /\ peers' \in [DOMAIN peers' -> PeerInfo]
    BY <2>1, <2>4, DeleteType DEF RemovePeer
  <2>5. ASSUME NEW r \in Scores, UpdatePeerReputation(n, r)
        PROVE  DOMAIN peers' \subseteq Node /\ peers' \in [DOMAIN peers' -> PeerInfo]
    BY <2>1, <2>5, ReputationType DEF UpdatePeerReputation, PeerInfo
  <2> QED
    BY <2>2, <2>3, <2>4, <2>5
<1>4. TypeOK'
  BY <1>1, <1>3 DEF TypeOK, Free
<1> QED
  BY <1>2, <1>4

LEMMA SetCursorKeeps ==
    ASSUME IInv, NEW n \in Node, NEW u \in Unit, SetCursor(n, u.id)
    PROVE  IInv'
<1> USE DEF IInv, SetCursor, Single, Lock, Return, node, unitTables, agentTables
<1>1. CallInv' /\ IdentityInv'
  BY SingleKeeps
<1>2. DOMAIN cursors' \subseteq Node /\ cursors' \in [DOMAIN cursors' -> Nat]
  BY UnitFields DEF TypeOK, Upsert
<1>3. TypeOK'
  BY <1>2 DEF TypeOK, Free
<1> QED
  BY <1>1, <1>3

\* The calls of two statements.
LEMMA DeleteAgentKeeps ==
    ASSUME IInv, NEW d \in Author, DeleteAgent(d)
    PROVE  IInv'
<1> USE DEF IInv, DeleteAgent, Lock, Goto, node, unitTables, nodeTables
<1> DEFINE was == Restrict(agents, {d} \intersect DOMAIN agents)
<1>1. call' = [op |-> "delete_agent", did |-> d, was |-> was]
  OBVIOUS
<1>2. DOMAIN agents \subseteq Author /\ agents \in [DOMAIN agents -> AgentProfile]
  BY DEF TypeOK
<1>3. DOMAIN agents' \subseteq Author \ {d} /\ agents' \in [DOMAIN agents' -> AgentProfile]
  BY <1>2, DeleteType
<1>4. DOMAIN was \subseteq {d} /\ was \in [DOMAIN was -> AgentProfile]
  BY <1>2 DEF Restrict
<1>5. TypeOK'
  BY <1>1, <1>3 DEF TypeOK, Between
<1> HIDE DEF was
<1>6. CallInv'
  <2>1. /\ call'.op = "delete_agent" /\ call'.did = d /\ call'.was = was
        /\ d \in Author \ DOMAIN agents'
    BY <1>1, <1>3
  <2>2. DeleteAgentHalf'
    BY <1>4, <2>1 DEF DeleteAgentHalf
  <2> QED
    BY <2>1, <2>2 DEF CallInv, PutUnitHalf, IncrementHalf
<1>7. IdentityInv'
  BY <1>1 DEF IdentityInv, HasNodeConfig
<1> QED
  BY <1>5, <1>6, <1>7

LEMMA DeleteInboxKeeps ==
    ASSUME IInv, DeleteInbox
    PROVE  IInv'
<1> USE DEF IInv, DeleteInbox, Return, node, unitTables, nodeTables
<1>1. CallInv' /\ IdentityInv'
  BY SingleKeeps
<1>2. TypeOK'
  BY DEF TypeOK, Free
<1> QED
  BY <1>1, <1>2

LEMMA IncrementKeeps ==
    ASSUME IInv, NEW d \in Author, Increment(d)
    PROVE  IInv'
<1> USE DEF IInv, Increment, Lock, node, unitTables, nodeTables
<1>1. DOMAIN agents \subseteq Author /\ agents \in [DOMAIN agents -> AgentProfile]
  BY DEF TypeOK
<1>2. CASE d \notin DOMAIN agents /\ Return("false") /\ UNCHANGED agents
  <2>1. CallInv' /\ IdentityInv'
    BY <1>2, SingleKeeps DEF Return
  <2>2. TypeOK'
    BY <1>2 DEF TypeOK, Return, Free
  <2> QED
    BY <2>1, <2>2
<1>3. CASE /\ d \in DOMAIN agents
           /\ agents' = [agents EXCEPT ![d].contribution_count = @ + 1]
           /\ Goto([op |-> "increment", did |-> d, was |-> Restrict(agents, {d})])
  <2>1. call' = [op |-> "increment", did |-> d, was |-> Restrict(agents, {d})] /\ UNCHANGED reply
    BY <1>3 DEF Goto
  <2>2. DOMAIN agents' = DOMAIN agents /\ agents' \in [DOMAIN agents' -> AgentProfile]
    BY <1>1, <1>3 DEF AgentProfile
  <2>3. /\ Restrict(agents, {d}) \in [{d} -> AgentProfile]
        /\ agents'[d] = [Restrict(agents, {d})[d] EXCEPT !.contribution_count = @ + 1]
    BY <1>1, <1>3 DEF Restrict, AgentProfile
  <2>4. TypeOK'
    BY <1>1, <2>1, <2>2 DEF TypeOK, Between
  <2>5. CallInv'
    BY <1>3, <2>1, <2>2, <2>3 DEF CallInv, PutUnitHalf, DeleteAgentHalf, IncrementHalf
  <2>6. IdentityInv'
    BY <2>1 DEF IdentityInv, HasNodeConfig
  <2> QED
    BY <2>4, <2>5, <2>6
<1> QED
  BY <1>2, <1>3

LEMMA GraduateKeeps ==
    ASSUME IInv, Graduate
    PROVE  IInv'
<1> USE DEF IInv, Graduate, Return, node, unitTables, nodeTables
<1>1. CallInv' /\ IdentityInv'
  BY SingleKeeps
<1>2. DOMAIN agents' = DOMAIN agents /\ agents' \in [DOMAIN agents' -> AgentProfile]
  BY DEF TypeOK, AgentProfile
<1>3. TypeOK'
  BY <1>2 DEF TypeOK, Free
<1> QED
  BY <1>1, <1>3

\* Startup.
LEMMA RunKeeps ==
    ASSUME IInv, HasNodeConfig(SeedKey), Run(config[SeedKey])
    PROVE  IInv'
<1> USE DEF IInv, Run, tables, unitTables, agentTables, nodeTables, HasNodeConfig
<1>1. config[SeedKey] \in Seed /\ config[SeedKey]' = config[SeedKey]
  BY DEF TypeOK
<1>2. CallInv'
  BY DEF CallInv, PutUnitHalf, DeleteAgentHalf, IncrementHalf, Free
<1>3. IdentityInv'
  BY <1>1 DEF IdentityInv, Free
<1>4. TypeOK'
  BY <1>1 DEF TypeOK, Free
<1> QED
  BY <1>2, <1>3, <1>4

LEMMA StartKeeps ==
    ASSUME IInv, Open \/ LoadIdentity \/ UseGenerated
    PROVE  IInv'
<1>1. CASE Open
  <2>1. call' = Starting /\ UNCHANGED <<tables, node, reply, calls, faults>>
    BY <1>1 DEF Open, Goto
  <2>2. TypeOK'
    BY <2>1 DEF IInv, TypeOK, Starting, tables, node, unitTables, agentTables, nodeTables
  <2> QED
    BY <2>1, <2>2 DEF IInv, CallInv, PutUnitHalf, DeleteAgentHalf, IncrementHalf, IdentityInv,
                      HasNodeConfig, Starting, tables, node, nodeTables
<1>2. CASE LoadIdentity
  BY <1>2, RunKeeps DEF LoadIdentity
<1>3. CASE UseGenerated
  BY <1>3, RunKeeps DEF UseGenerated, IInv, IdentityInv
<1> QED
  BY <1>1, <1>2, <1>3

LEMMA GenerateIdentityKeeps ==
    ASSUME IInv, NEW seed \in Seed, GenerateIdentity(seed)
    PROVE  IInv'
<1> USE DEF IInv, GenerateIdentity, SetNodeConfig, HasNodeConfig, node, unitTables, agentTables
<1>1. /\ DOMAIN config' = {SeedKey} /\ config'[SeedKey] = seed
      /\ config' \in [DOMAIN config' -> Seed]
  BY DEF TypeOK, Upsert
<1>2. published = {} /\ identity = NoSeed
  BY DEF IdentityInv
<1>3. CallInv'
  BY DEF CallInv, PutUnitHalf, DeleteAgentHalf, IncrementHalf
<1>4. IdentityInv'
  BY <1>1, <1>2 DEF IdentityInv
<1>5. TypeOK'
  BY <1>1 DEF TypeOK
<1> QED
  BY <1>3, <1>4, <1>5

\* Failures.
LEMMA FailureKeeps ==
    ASSUME IInv, StatementFails \/ Crash
    PROVE  IInv'
<1> USE DEF IInv, StatementFails, Crash, Fault, Return, tables, node, unitTables, agentTables, nodeTables
<1>1. CallInv'
  BY DEF CallInv, PutUnitHalf, DeleteAgentHalf, IncrementHalf, Free, Closed
<1>2. IdentityInv'
  BY DEF IdentityInv, HasNodeConfig, Free, Closed
<1>3. TypeOK'
  BY DEF TypeOK, Free, Closed
<1> QED
  BY <1>1, <1>2, <1>3

LEMMA InvInit == Init => IInv
<1> SUFFICES ASSUME Init PROVE IInv
  OBVIOUS
<1>1. CallInv /\ IdentityInv
  BY DEF Init, CallInv, PutUnitHalf, DeleteAgentHalf, IncrementHalf, IdentityInv, Closed
<1> QED
  BY <1>1, TypeInit DEF IInv

LEMMA InvStep ==
    ASSUME IInv, [Next]_vars
    PROVE  IInv'
<1>1. CASE UNCHANGED vars
  BY <1>1 DEF IInv, TypeOK, CallInv, PutUnitHalf, DeleteAgentHalf, IncrementHalf, IdentityInv,
              HasNodeConfig, vars, tables, node, unitTables, agentTables, nodeTables
<1>2. ASSUME NEW u \in Unit, PutUnit(u) PROVE IInv'
  BY <1>2, PutUnitKeeps
<1>3. ASSUME NEW u \in Unit, NEW s \in Scores, SetUnitCredibility(u.id, s) PROVE IInv'
  BY <1>3, SetUnitCredibilityKeeps, ReputationType
<1>4. ASSUME NEW i, PutEdge(i) PROVE IInv'
  BY <1>4, PutEdgeKeeps
<1>5. ASSUME NEW d \in Author, NEW p \in Newcomers, PutAgent(d, p) PROVE IInv'
  BY <1>5, PutAgentKeeps
<1>6. ASSUME NEW d \in Author, DeleteAgent(d) PROVE IInv'
  BY <1>6, DeleteAgentKeeps
<1>7. ASSUME NEW d \in Author, Increment(d) PROVE IInv'
  BY <1>7, IncrementKeeps
<1>8. ASSUME NEW d \in Author, NEW r \in Scores, UpdateAgentReputation(d, r) PROVE IInv'
  BY <1>8, UpdateAgentReputationKeeps
<1>9. ASSUME NEW d \in Author, NEW e \in Author, AddFollow(d, e) \/ RemoveFollow(d, e) PROVE IInv'
  BY <1>9, FollowKeeps
<1>10. ASSUME NEW d \in Author, NEW u \in Unit, DeliverToInbox(d, u) PROVE IInv'
  BY <1>10, DeliverToInboxKeeps
<1>11. CASE DeleteInbox
  BY <1>11, DeleteInboxKeeps
<1>12. CASE Graduate
  BY <1>12, GraduateKeeps
<1>13. ASSUME NEW n \in Node, NEW p \in Claims, AddPeer(n, p) PROVE IInv'
  BY <1>13, PeerTableKeeps
<1>14. ASSUME NEW n \in Node, RemovePeer(n) PROVE IInv'
  BY <1>14, PeerTableKeeps
<1>15. ASSUME NEW n \in Node, NEW r \in Scores, UpdatePeerReputation(n, r) PROVE IInv'
  BY <1>15, PeerTableKeeps
<1>16. ASSUME NEW n \in Node, NEW u \in Unit, SetCursor(n, u.id) PROVE IInv'
  BY <1>16, SetCursorKeeps
<1>17. CASE Open \/ LoadIdentity \/ UseGenerated
  BY <1>17, StartKeeps
<1>18. ASSUME NEW seed \in Seed, GenerateIdentity(seed) PROVE IInv'
  BY <1>18, GenerateIdentityKeeps
<1>19. CASE StatementFails \/ Crash
  BY <1>19, FailureKeeps
<1> QED
  BY StepCases, <1>1, <1>2, <1>3, <1>4, <1>5, <1>6, <1>7, <1>8, <1>9, <1>10, <1>11, <1>12,
     <1>13, <1>14, <1>15, <1>16, <1>17, <1>18, <1>19

\* The inductive invariant of the backend: the tables, what the statements of the
\* call in progress have done so far, and the seed the node serves under.
THEOREM Invariance == Spec => []IInv
<1>1. Init => IInv
  BY InvInit
<1>2. IInv /\ [Next]_vars => IInv'
  BY InvStep
<1> QED
  BY <1>1, <1>2, PTL DEF Spec

\* The tables stay what the code that reads them takes them for (sqlite.rs): no two
\* units with one id, no score of a unit that is not stored, no indexed reference
\* that its unit does not make, reputations between 0 and 1.
THEOREM TypeCorrect == Spec => []TypeOK
<1>1. IInv => TypeOK
  BY DEF IInv
<1> QED
  BY <1>1, Invariance, PTL
-----------------------------------------------------------------------------
(***************************************************************************)
(* What the backend promises.                                              *)
(***************************************************************************)

\* The identity of the node (load_or_generate, main) is stable: after whatever
\* crashes and failed starts, it has served under one seed at most, and that seed
\* is the one in the table.
THEOREM IdentityIsStableHolds == Spec => []IdentityIsStable
<1>1. IInv => IdentityIsStable
  <2> SUFFICES ASSUME IInv PROVE IdentityIsStable
    OBVIOUS
  <2>1. published = {} \/ published = {config[SeedKey]}
    BY DEF IInv, IdentityInv
  <2>2. Cardinality(published) <= 1
    <3>1. Cardinality({}) = 0
      BY FS_EmptySet
    <3>2. Cardinality({config[SeedKey]}) = 1
      BY FS_Singleton
    <3> QED
      BY <2>1, <3>1, <3>2
  <2>3. identity # NoSeed => HasNodeConfig(SeedKey) /\ config[SeedKey] = identity
    BY DEF IInv, IdentityInv
  <2> QED
    BY <2>2, <2>3 DEF IdentityIsStable
<1> QED
  BY <1>1, Invariance, PTL

\* The pages of the backend are the contract's: it limits and cuts off alike.
LEMMA CardinalityAgrees == \A S : Cardinality(S) = Contract!Cardinality(S)
  BY Zenon DEF Cardinality, Contract!Cardinality

LEMMA PageIsTruncated ==
    ASSUME NEW S, NEW n
    PROVE  Page(Limit(S, n + 1), n) = Contract!Truncated(Contract!Take(S, n + 1), n)
<1>1. ASSUME NEW T, NEW k PROVE Limit(T, k) = Contract!Take(T, k)
  <2>1. \A u : Cardinality({v \in T : v.id < u.id}) = Contract!Cardinality({v \in T : v.id < u.id})
    BY CardinalityAgrees
  <2>2. \A u : u \in Limit(T, k) <=> u \in Contract!Take(T, k)
    BY <2>1, Zenon DEF Limit, Contract!Take
  <2> QED
    BY <2>2 DEF Limit, Contract!Take
<1> QED
  BY <1>1, CardinalityAgrees DEF Page, Contract!Truncated

LEMMA ListUnitsAgrees ==
    ASSUME call = Free, NEW f
    PROVE  ListUnits(f) = Contract!ListUnits(f)
<1>1. ShownUnits = units
  BY DEF ShownUnits, Free
<1>2. \A u : Where(u, f) <=> u.id > f.after /\ Contract!Matches(u, f)
  BY DEF Where, Contract!Matches
<1>3. {u \in units : Where(u, f)} = {u \in ShownUnits : u.id > f.after /\ Contract!Matches(u, f)}
  BY <1>1, <1>2
<1> QED
  BY <1>3, PageIsTruncated DEF ListUnits, Contract!ListUnits

\* A reference that is not lost is indexed, and the index names no unit by another's
\* id.
LEMMA ReferencingAgrees ==
    ASSUME TypeOK, call = Free, NEW i
    PROVE  GetReferencingUnits(i) = Contract!GetReferencingUnits(i)
<1>1. ShownUnits = units
  BY DEF ShownUnits, Free
<1>2. ASSUME NEW u \in units
      PROVE  <<u.id, i>> \in edges <=>
                 /\ i \in u.body.references
                 /\ <<u.id, i>> \notin ShownLost
  <2>1. ASSUME <<u.id, i>> \in edges PROVE i \in u.body.references
    <3>1. PICK v \in units : <<u.id, i>> \in Edges(v)
      BY <2>1 DEF TypeOK
    <3>2. u.id = v.id /\ i \in v.body.references
      BY <3>1 DEF Edges
    <3>3. u = v
      BY <3>2 DEF TypeOK
    <3> QED
      BY <3>2, <3>3
  <2>2. ASSUME i \in u.body.references PROVE <<u.id, i>> \in UNION {Edges(v) : v \in ShownUnits}
    BY <1>1, <2>2 DEF Edges
  <2> QED
    BY <2>1, <2>2 DEF ShownLost
<1> QED
  BY <1>1, <1>2 DEF GetReferencingUnits, Contract!GetReferencingUnits

LEMMA InboxAgrees ==
    ASSUME NEW d \in Author, NEW after, NEW limit
    PROVE  GetInbox(d, after, limit) = Contract!GetInbox(d, after, limit)
<1>1. {r.unit : r \in {q \in rows : q.agent_did = d /\ q.unit.id > after}}
          = {u \in ShownInbox[d] : u.id > after}
  BY DEF ShownInbox
<1> QED
  BY <1>1, PageIsTruncated DEF GetInbox, Contract!GetInbox

\* What a query returns while no call is half-way (list_units, get_referencing_units,
\* get_inbox in sqlite.rs) is what the memory backend returns: the WHERE clause that
\* sqlite.rs builds lets the same units through as the filter, the join with the
\* table of references finds what was indexed and no more, and the pages are cut
\* off alike.
THEOREM ReadsAgreeHolds == Spec => []ReadsAgree
<1>1. IInv => ReadsAgree
  BY ListUnitsAgrees, ReferencingAgrees, InboxAgrees DEF IInv, ReadsAgree
<1> QED
  BY <1>1, Invariance, PTL
-----------------------------------------------------------------------------
(***************************************************************************)
(* The backend implements Storage.                                         *)
(***************************************************************************)

\* The two modules say some things twice.
LEMMA SameVocabulary ==
    /\ Contract!Neutral = Neutral /\ Contract!Reputation = Reputation
    /\ Contract!Newcomers = Newcomers /\ Contract!PeerInfo = PeerInfo
    /\ \A S, i : Contract!HasId(S, i) <=> HasId(S, i)
    /\ \A u : Contract!Edges(u) = Edges(u)
    /\ \A f, x, row : Contract!Put(f, x, row) = Upsert(f, x, row)
    /\ \A f, x : Contract!Remove(f, x) = Delete(f, x)
<1>1. Contract!Neutral = Neutral /\ Contract!Reputation = Reputation
  BY DEF Contract!Neutral, Neutral, Contract!Reputation, Reputation
<1>2. Contract!Newcomers = Newcomers /\ Contract!PeerInfo = PeerInfo
  BY <1>1 DEF Contract!Newcomers, Newcomers, Contract!PeerInfo, PeerInfo
<1>3. \A S, i : Contract!HasId(S, i) <=> HasId(S, i)
  BY DEF Contract!HasId, HasId
<1>4. \A u : Contract!Edges(u) = Edges(u)
  BY DEF Contract!Edges, Edges
<1>5. \A f, x, row : Contract!Put(f, x, row) = Upsert(f, x, row)
  BY DEF Contract!Put, Upsert
<1>6. \A f, x : Contract!Remove(f, x) = Delete(f, x)
  BY DEF Contract!Remove, Contract!Restrict, Delete, Restrict
<1> QED
  BY <1>1, <1>2, <1>3, <1>4, <1>5, <1>6

\* While no call is half-way, the tables are what is shown.
LEMMA NothingHidden ==
    ASSUME call.op \notin Between
    PROVE  ShownUnits = units /\ ShownAgents = agents
  BY DEF ShownUnits, ShownAgents, Between

LEMMA NothingHiddenNext ==
    ASSUME call'.op \notin Between
    PROVE  ShownUnits' = units' /\ ShownAgents' = agents'
  BY DEF ShownUnits, ShownAgents, Between

\* A call of one statement shows what it writes.
LEMMA SingleShows ==
    ASSUME Single("ok") \/ Single("not_found")
    PROVE  /\ ShownUnits = units /\ ShownUnits' = units'
           /\ ShownAgents = agents /\ ShownAgents' = agents'
           /\ UNCHANGED <<units, edges>> => UNCHANGED ShownLost
           /\ UNCHANGED rows => UNCHANGED ShownInbox
<1>1. call = Free /\ call' = Free
  BY DEF Single, Lock, Return
<1>2. call.op \notin Between /\ call'.op \notin Between
  BY <1>1 DEF Free, Between
<1>3. /\ ShownUnits = units /\ ShownUnits' = units'
      /\ ShownAgents = agents /\ ShownAgents' = agents'
  BY <1>2, NothingHidden, NothingHiddenNext
<1> QED
  BY <1>3 DEF ShownLost, ShownInbox

LEMMA SetUnitCredibilityImplements ==
    ASSUME NEW u \in Unit, NEW s \in Scores, SetUnitCredibility(u.id, s)
    PROVE  Contract!Next
<1> USE DEF SetUnitCredibility, agentTables, nodeTables
<1>1. Single("ok") \/ Single("not_found")
  OBVIOUS
<1>2. Contract!SetUnitCredibility(u.id, s)
  BY <1>1, SingleShows, SameVocabulary
     DEF Single, Return, Contract!SetUnitCredibility, Contract!Return, Contract!agentVars,
         Contract!nodeVars
<1> QED
  BY <1>2, ReputationType, SameVocabulary DEF Contract!Next

LEMMA PutAgentImplements ==
    ASSUME NEW d \in Author, NEW p \in Newcomers, PutAgent(d, p)
    PROVE  Contract!Next
<1> USE DEF PutAgent, unitTables, nodeTables
<1>1. Contract!PutAgent(d, p)
  BY SingleShows, SameVocabulary
     DEF Single, Return, Contract!PutAgent, Contract!Return, Contract!unitVars, Contract!nodeVars
<1> QED
  BY <1>1, SameVocabulary DEF Contract!Next

LEMMA UpdateAgentReputationImplements ==
    ASSUME NEW d \in Author, NEW r \in Scores, UpdateAgentReputation(d, r)
    PROVE  Contract!Next
<1> USE DEF UpdateAgentReputation, unitTables, nodeTables
<1>1. Single("ok") \/ Single("not_found")
  OBVIOUS
<1>2. Contract!UpdateAgentReputation(d, r)
  BY <1>1, SingleShows
     DEF Single, Return, Contract!UpdateAgentReputation, Contract!Return, Contract!unitVars,
         Contract!nodeVars
<1> QED
  BY <1>2, ReputationType, SameVocabulary DEF Contract!Next

LEMMA FollowImplements ==
    ASSUME NEW d \in Author, NEW e \in Author, AddFollow(d, e) \/ RemoveFollow(d, e)
    PROVE  Contract!Next
<1> USE DEF AddFollow, RemoveFollow, unitTables, agentTables, nodeTables
<1>1. Contract!AddFollow(d, e) \/ Contract!RemoveFollow(d, e)
  BY SingleShows
     DEF Single, Return, Contract!AddFollow, Contract!RemoveFollow, Contract!Return,
         Contract!unitVars, Contract!agentVars, Contract!nodeVars
<1> QED
  BY <1>1 DEF Contract!Next

LEMMA DeliverToInboxImplements ==
    ASSUME NEW d \in Author, NEW u \in Unit, DeliverToInbox(d, u)
    PROVE  Contract!Next
<1> USE DEF DeliverToInbox, unitTables, nodeTables
<1>1. Contract!HasId(ShownInbox[d], u.id) <=> \E r \in rows : r.agent_did = d /\ r.unit.id = u.id
  BY DEF Contract!HasId, ShownInbox
<1>2. ShownInbox' = IF Contract!HasId(ShownInbox[d], u.id) THEN ShownInbox
                    ELSE [ShownInbox EXCEPT ![d] = @ \union {u}]
  <2>1. CASE Contract!HasId(ShownInbox[d], u.id)
    BY <1>1, <2>1 DEF ShownInbox
  <2>2. CASE ~Contract!HasId(ShownInbox[d], u.id)
    <3>1. rows' = rows \union {[agent_did |-> d, unit |-> u]}
      BY <1>1, <2>2
    <3>2. ASSUME NEW e \in Author
          PROVE  ShownInbox'[e] = [ShownInbox EXCEPT ![d] = @ \union {u}][e]
      <4>1. ASSUME NEW v
            PROVE  v \in ShownInbox'[e] <=> v \in ShownInbox[e] \/ (e = d /\ v = u)
        <5>1. v \in ShownInbox'[e] <=> \E r \in rows' : r.agent_did = e /\ r.unit = v
          BY DEF ShownInbox
        <5>2. v \in ShownInbox[e] <=> \E r \in rows : r.agent_did = e /\ r.unit = v
          BY DEF ShownInbox
        <5> DEFINE row == [agent_did |-> d, unit |-> u]
        <5>3. rows' = rows \union {row} /\ row.agent_did = d /\ row.unit = u
          BY <3>1
        <5> HIDE DEF DeliverToInbox, row
        <5> QED
          BY <5>1, <5>2, <5>3
      <4>2. e # d => ShownInbox'[e] = ShownInbox[e]
        BY <3>1 DEF ShownInbox
      <4>3. e = d => ShownInbox'[e] = ShownInbox[e] \union {u}
        BY <4>1, Zenon
      <4>4. e \in DOMAIN ShownInbox
        BY DEF ShownInbox
      <4> QED
        BY <4>2, <4>3, <4>4
    <3> QED
      BY <2>2, <3>2 DEF ShownInbox
  <2> QED
    BY <2>1, <2>2
<1>3. Contract!DeliverToInbox(d, u)
  BY <1>2, SingleShows
     DEF Single, Return, Contract!DeliverToInbox, Contract!Return, Contract!unitVars,
         Contract!nodeVars
<1> QED
  BY <1>3 DEF Contract!Next

LEMMA AddPeerImplements ==
    ASSUME NEW n \in Node, NEW p \in Claims, AddPeer(n, p)
    PROVE  Contract!Next
<1> USE DEF AddPeer, unitTables, agentTables
<1>1. Contract!AddPeer(n, p)
  BY SingleShows, SameVocabulary
     DEF Single, Return, Contract!AddPeer, Contract!Return, Contract!unitVars,
         Contract!agentVars
<1>2. p \in Contract!PeerInfo
  BY ReputationType, SameVocabulary DEF Claims, PeerInfo
<1> QED
  BY <1>1, <1>2 DEF Contract!Next

LEMMA PeerImplements ==
    ASSUME NEW n \in Node, RemovePeer(n) \/ \E r \in Scores : UpdatePeerReputation(n, r)
    PROVE  Contract!Next
<1> USE DEF unitTables, agentTables
<1>1. ASSUME RemovePeer(n) PROVE Contract!RemovePeer(n)
  BY <1>1, SingleShows, SameVocabulary
     DEF RemovePeer, Single, Return, Contract!RemovePeer, Contract!Return, Contract!unitVars,
         Contract!agentVars
<1>2. ASSUME NEW r \in Scores, UpdatePeerReputation(n, r)
      PROVE  Contract!UpdatePeerReputation(n, r)
  <2>1. Single("ok") \/ Single("not_found")
    BY <1>2 DEF UpdatePeerReputation
  <2> QED
    BY <1>2, <2>1, SingleShows
       DEF UpdatePeerReputation, Single, Return, Contract!UpdatePeerReputation, Contract!Return,
           Contract!unitVars, Contract!agentVars
<1> QED
  BY <1>1, <1>2, ReputationType, SameVocabulary DEF Contract!Next

LEMMA SetCursorImplements ==
    ASSUME NEW n \in Node, NEW u \in Unit, SetCursor(n, u.id)
    PROVE  Contract!Next
<1> USE DEF SetCursor, unitTables, agentTables
<1>1. Contract!SetCursor(n, u.id)
  BY SingleShows, SameVocabulary
     DEF Single, Return, Contract!SetCursor, Contract!Return, Contract!unitVars,
         Contract!agentVars
<1> QED
  BY <1>1 DEF Contract!Next

\* put_unit takes effect with its last statement.
LEMMA PutUnitImplements ==
    ASSUME IInv, NEW u \in Unit, PutUnit(u)
    PROVE  Contract!Next \/ UNCHANGED Contract!storageVars
<1> USE DEF PutUnit, Lock, node, agentTables, nodeTables
<1>1. ShownUnits = units /\ ShownAgents = agents
  BY NothingHidden DEF Free, Between
<1>2. CASE /\ HasId(units, u.id) \/ Edges(u) = {}
           /\ Return(IF HasId(units, u.id) THEN "conflict" ELSE "ok")
           /\ units' = IF HasId(units, u.id) THEN units ELSE units \union {u}
  <2>1. ShownUnits' = units' /\ ShownAgents' = agents'
    BY <1>2, NothingHiddenNext DEF Return, Free, Between
  <2>2. UNCHANGED ShownLost
    BY <1>1, <1>2, <2>1 DEF ShownLost
  <2>3. UNCHANGED ShownInbox
    BY DEF ShownInbox
  <2>4. Contract!PutUnit(u)
    BY <1>1, <1>2, <2>1, <2>2, <2>3, SameVocabulary
       DEF Return, Contract!PutUnit, Contract!Return, Contract!agentVars, Contract!nodeVars
  <2> QED
    BY <2>4 DEF Contract!Next
<1>3. CASE /\ ~HasId(units, u.id) /\ units' = units \union {u}
           /\ Goto([op |-> "put_unit", unit |-> u, left |-> u.body.references])
  <2>1. call' = [op |-> "put_unit", unit |-> u, left |-> u.body.references] /\ UNCHANGED reply
    BY <1>3 DEF Goto
  <2>2. ShownUnits' = units
    BY <1>3, <2>1 DEF ShownUnits, HasId
  <2>3. ShownAgents' = agents
    BY <2>1 DEF ShownAgents
  <2>4. UNCHANGED <<ShownLost, ShownInbox>>
    BY <1>1, <2>2 DEF ShownLost, ShownInbox
  <2> QED
    BY <1>1, <2>1, <2>2, <2>3, <2>4
       DEF Contract!storageVars, Contract!unitVars, Contract!agentVars, Contract!nodeVars
<1> QED
  BY <1>2, <1>3

\* A reference indexed for a unit that is not shown yet changes nothing of what is.
LEMMA HiddenEdges ==
    ASSUME IInv, call.op = "put_unit"
    PROVE  /\ call.unit \in Unit /\ ShownUnits = units \ {call.unit}
           /\ units = ShownUnits \union {call.unit} /\ ~HasId(ShownUnits, call.unit.id)
           /\ \A i : <<call.unit.id, i>> \notin UNION {Edges(v) : v \in ShownUnits}
<1>1. call.unit \in units /\ units \subseteq Unit
  BY DEF IInv, CallInv, PutUnitHalf, TypeOK
<1>2. ShownUnits = units \ {call.unit}
  BY DEF ShownUnits
<1>3. \A v \in ShownUnits : v.id # call.unit.id
  BY <1>1, <1>2 DEF IInv, TypeOK
<1> QED
  BY <1>1, <1>2, <1>3 DEF HasId, Edges

LEMMA PutEdgeImplements ==
    ASSUME IInv, NEW i, PutEdge(i)
    PROVE  Contract!Next \/ UNCHANGED Contract!storageVars
<1> USE DEF PutEdge, node, agentTables, nodeTables
<1>1. /\ call.unit \in Unit /\ ShownUnits = units \ {call.unit}
      /\ units = ShownUnits \union {call.unit} /\ ~HasId(ShownUnits, call.unit.id)
      /\ \A j : <<call.unit.id, j>> \notin UNION {Edges(v) : v \in ShownUnits}
  BY HiddenEdges
<1>2. /\ call \in [op : {"put_unit"}, unit : units, left : SUBSET call.unit.body.references]
      /\ \A j \in call.unit.body.references \ call.left : <<call.unit.id, j>> \in edges
  BY DEF IInv, CallInv, PutUnitHalf
<1>3. ShownAgents = agents
  BY <1>2 DEF ShownAgents
<1>4. UNCHANGED ShownInbox
  BY DEF ShownInbox
<1>5. CASE call.left = {i} /\ Return("ok")
  <2>1. ShownUnits' = units /\ ShownAgents' = agents
    BY <1>5, NothingHiddenNext DEF Return, Free, Between
  <2>2. Edges(call.unit) \subseteq edges'
    BY <1>2, <1>5 DEF Edges
  <2>3. UNCHANGED ShownLost
    BY <1>1, <2>1, <2>2 DEF ShownLost
  <2>4. Contract!PutUnit(call.unit)
    BY <1>1, <1>3, <1>4, <1>5, <2>1, <2>3, SameVocabulary
       DEF Return, Contract!PutUnit, Contract!Return, Contract!agentVars, Contract!nodeVars
  <2> QED
    BY <1>1, <2>4 DEF Contract!Next
<1>6. CASE Goto([call EXCEPT !.left = @ \ {i}])
  <2>1. call'.op = "put_unit" /\ call'.unit = call.unit /\ UNCHANGED reply
    BY <1>2, <1>6 DEF Goto
  <2>2. ShownUnits' = ShownUnits /\ ShownAgents' = agents
    BY <1>1, <2>1 DEF ShownUnits, ShownAgents
  <2>3. UNCHANGED ShownLost
    BY <1>1, <2>2 DEF ShownLost
  <2> QED
    BY <1>3, <1>4, <2>1, <2>2, <2>3
       DEF Contract!storageVars, Contract!unitVars, Contract!agentVars, Contract!nodeVars
<1> QED
  BY <1>5, <1>6

\* delete_agent takes effect with its last statement, too: until then, what is shown
\* has the profile that was deleted.
LEMMA DeleteAgentImplements ==
    ASSUME IInv, NEW d \in Author, DeleteAgent(d)
    PROVE  UNCHANGED Contract!storageVars
<1> USE DEF DeleteAgent, Lock, Goto, node, unitTables, nodeTables
<1>1. ShownUnits = units /\ ShownAgents = agents
  BY NothingHidden DEF Free, Between
<1>2. ShownUnits' = units
  BY DEF ShownUnits
<1>3. agents = [e \in DOMAIN agents |-> agents[e]]
  BY DEF IInv, TypeOK
<1>4. ShownAgents' = agents
  BY <1>3 DEF ShownAgents, Delete, Restrict
<1>5. UNCHANGED <<ShownLost, ShownInbox>>
  BY <1>1, <1>2 DEF ShownLost, ShownInbox
<1> QED
  BY <1>1, <1>2, <1>4, <1>5
     DEF Contract!storageVars, Contract!unitVars, Contract!agentVars, Contract!nodeVars

LEMMA DeletedAgent ==
    ASSUME IInv, call.op = "delete_agent"
    PROVE  call.did \in Author /\ ShownUnits = units /\ agents = Delete(ShownAgents, call.did)
<1>1. /\ call.did \in Author \ DOMAIN agents /\ DOMAIN call.was \subseteq {call.did}
      /\ agents = [e \in DOMAIN agents |-> agents[e]]
  BY DEF IInv, CallInv, DeleteAgentHalf, TypeOK
<1>2. DOMAIN ShownAgents = DOMAIN agents \union DOMAIN call.was
  BY DEF ShownAgents
<1>3. \A e \in DOMAIN agents : ShownAgents[e] = agents[e]
  BY <1>1 DEF ShownAgents
<1>4. agents = [e \in DOMAIN ShownAgents \ {call.did} |-> ShownAgents[e]]
  BY <1>1, <1>2, <1>3
<1> QED
  BY <1>1, <1>4 DEF ShownUnits, Delete, Restrict

LEMMA DeleteInboxImplements ==
    ASSUME IInv, DeleteInbox
    PROVE  Contract!Next
<1> USE DEF DeleteInbox, node, unitTables, nodeTables
<1>1. call.did \in Author /\ ShownUnits = units /\ agents = Delete(ShownAgents, call.did)
  BY DeletedAgent
<1>2. ShownUnits' = units /\ ShownAgents' = agents
  BY NothingHiddenNext DEF Return, Free, Between
<1>3. UNCHANGED ShownLost
  BY <1>1, <1>2 DEF ShownLost
<1>4. ShownInbox' = [ShownInbox EXCEPT ![call.did] = {}]
  <2>1. ASSUME NEW e \in Author
        PROVE  ShownInbox'[e] = IF e = call.did THEN {} ELSE ShownInbox[e]
    BY DEF ShownInbox
  <2> QED
    BY <2>1 DEF ShownInbox
<1>5. Contract!DeleteAgent(call.did)
  BY <1>1, <1>2, <1>3, <1>4, SameVocabulary
     DEF Return, Contract!DeleteAgent, Contract!Return, Contract!unitVars, Contract!nodeVars
<1> QED
  BY <1>1, <1>5 DEF Contract!Next

\* increment_agent_contribution counts in its first statement and shows it with its
\* last, with the promotion if there is one.
LEMMA IncrementImplements ==
    ASSUME IInv, NEW d \in Author, Increment(d)
    PROVE  Contract!Next \/ UNCHANGED Contract!storageVars
<1> USE DEF Increment, Lock, node, unitTables, nodeTables
<1>1. ShownUnits = units /\ ShownAgents = agents
  BY NothingHidden DEF Free, Between
<1>2. UNCHANGED ShownInbox
  BY DEF ShownInbox
<1>3. CASE d \notin DOMAIN agents /\ Return("false") /\ UNCHANGED agents
  <2>1. ShownUnits' = units /\ ShownAgents' = agents
    BY <1>3, NothingHiddenNext DEF Return, Free, Between
  <2>2. UNCHANGED ShownLost
    BY <1>1, <2>1 DEF ShownLost
  <2>3. Contract!IncrementAgentContribution(d)
    BY <1>1, <1>2, <1>3, <2>1, <2>2
       DEF Return, Contract!IncrementAgentContribution, Contract!Return, Contract!unitVars,
           Contract!nodeVars
  <2> QED
    BY <2>3 DEF Contract!Next
<1>4. CASE /\ d \in DOMAIN agents
           /\ agents' = [agents EXCEPT ![d].contribution_count = @ + 1]
           /\ Goto([op |-> "increment", did |-> d, was |-> Restrict(agents, {d})])
  <2>1. call' = [op |-> "increment", did |-> d, was |-> Restrict(agents, {d})] /\ UNCHANGED reply
    BY <1>4 DEF Goto
  <2>2. ShownUnits' = units
    BY <2>1 DEF ShownUnits
  <2>3. agents = [e \in DOMAIN agents |-> agents[e]]
    BY DEF IInv, TypeOK
  <2>4. ShownAgents' = agents
    BY <1>4, <2>1, <2>3 DEF ShownAgents, Restrict
  <2>5. UNCHANGED ShownLost
    BY <1>1, <2>2 DEF ShownLost
  <2> QED
    BY <1>1, <1>2, <2>1, <2>2, <2>4, <2>5
       DEF Contract!storageVars, Contract!unitVars, Contract!agentVars, Contract!nodeVars
<1> QED
  BY <1>3, <1>4

LEMMA CountedAgent ==
    ASSUME IInv, call.op = "increment"
    PROVE  /\ call.did \in Author /\ call.did \in DOMAIN ShownAgents /\ ShownUnits = units
           /\ agents[call.did] = Contract!Counted(ShownAgents[call.did])
           /\ agents = [ShownAgents EXCEPT ![call.did] = agents[call.did]]
           /\ agents[call.did] \in AgentProfile
<1>1. /\ call.did \in DOMAIN agents /\ call.was \in [{call.did} -> AgentProfile]
      /\ agents[call.did] = [call.was[call.did] EXCEPT !.contribution_count = @ + 1]
      /\ DOMAIN agents \subseteq Author /\ agents \in [DOMAIN agents -> AgentProfile]
  BY DEF IInv, CallInv, IncrementHalf, TypeOK
<1>2. ShownAgents = [e \in DOMAIN agents |-> IF e = call.did THEN call.was[e] ELSE agents[e]]
  BY <1>1 DEF ShownAgents
<1>3. agents = [ShownAgents EXCEPT ![call.did] = agents[call.did]]
  BY <1>1, <1>2
<1>4. agents[call.did] = Contract!Counted(ShownAgents[call.did])
  BY <1>1, <1>2 DEF Contract!Counted
<1> QED
  BY <1>1, <1>2, <1>3, <1>4 DEF ShownUnits

LEMMA GraduateImplements ==
    ASSUME IInv, Graduate
    PROVE  Contract!Next
<1> USE DEF Graduate, node, unitTables, nodeTables
<1> DEFINE d == call.did
           p == agents[d]
<1>1. /\ d \in Author /\ d \in DOMAIN ShownAgents /\ ShownUnits = units
      /\ p = Contract!Counted(ShownAgents[d])
      /\ agents = [ShownAgents EXCEPT ![d] = p] /\ p \in AgentProfile
  BY CountedAgent
<1>2. ShownUnits' = units /\ ShownAgents' = agents'
  BY NothingHiddenNext DEF Return, Free, Between
<1>3. UNCHANGED ShownLost
  BY <1>1, <1>2 DEF ShownLost
<1>4. UNCHANGED ShownInbox
  BY DEF ShownInbox
<1>5. CASE /\ p.status = "probationary" /\ p.contribution_count >= Threshold
           /\ agents' = [agents EXCEPT ![d].status = "full"] /\ Return("true")
  <2>1. agents' = [ShownAgents EXCEPT ![d] = [p EXCEPT !.status = "full"]]
    BY <1>1, <1>5
  <2>2. Contract!Graduates(p)
    BY <1>5 DEF Contract!Graduates
  <2>3. Contract!IncrementAgentContribution(d)
    BY <1>1, <1>2, <1>3, <1>4, <1>5, <2>1, <2>2
       DEF Return, Contract!IncrementAgentContribution, Contract!Return, Contract!unitVars,
           Contract!nodeVars
  <2> QED
    BY <1>1, <2>3 DEF Contract!Next
<1>6. CASE /\ p.status = "full" \/ p.contribution_count < Threshold
           /\ Return("false") /\ UNCHANGED agents
  <2>1. ~Contract!Graduates(p)
    BY <1>1, <1>6, SqliteStorageAssumption DEF Contract!Graduates, AgentProfile
  <2>2. Contract!IncrementAgentContribution(d)
    BY <1>1, <1>2, <1>3, <1>4, <1>6, <2>1
       DEF Return, Contract!IncrementAgentContribution, Contract!Return, Contract!unitVars,
           Contract!nodeVars
  <2> QED
    BY <1>1, <2>2 DEF Contract!Next
<1> QED
  BY <1>5, <1>6

\* A call that ends early shows what it wrote, which is what Storage allows a call
\* that fails to leave behind.
LEMMA FailureImplements ==
    ASSUME IInv, StatementFails \/ Crash
    PROVE  Contract!Next
<1>1. /\ UNCHANGED tables /\ reply' \in {"internal", "none"}
      /\ call'.op \notin Between
  BY DEF StatementFails, Crash, Return, Free, Closed, Between
<1>2. Contract!Failed
  BY <1>1 DEF Contract!Failed, Contract!Return
<1>3. ShownUnits' = units /\ ShownAgents' = agents /\ UNCHANGED <<unitTables, agentTables, follows, nodeTables>>
  BY <1>1, NothingHiddenNext DEF tables, unitTables, agentTables
<1> USE DEF unitTables, agentTables, nodeTables
<1>4. UNCHANGED ShownInbox
  BY <1>3 DEF ShownInbox
<1>5. CASE call.op \notin Between
  <2>1. ShownUnits = units /\ ShownAgents = agents
    BY <1>5, NothingHidden
  <2>2. Contract!FailWithoutTrace
    BY <1>2, <1>3, <1>4, <2>1
       DEF Contract!FailWithoutTrace, Contract!unitVars, Contract!agentVars, Contract!nodeVars,
           ShownLost
  <2> QED
    BY <2>2 DEF Contract!Next
<1>6. CASE call.op = "put_unit"
  <2> DEFINE u == call.unit
             E == Edges(u) \ edges
  <2>1. u \in Unit /\ units = ShownUnits \union {u} /\ ~HasId(ShownUnits, u.id)
    BY <1>6, HiddenEdges
  <2>2. ShownAgents = agents
    BY <1>6 DEF ShownAgents
  <2>3. ShownLost' = ShownLost \union E
    BY <1>3, <2>1 DEF ShownLost
  <2>4. E \in SUBSET Contract!Edges(u)
    BY SameVocabulary
  <2>5. Contract!FailPutUnit(u, E)
    BY <1>2, <1>3, <1>4, <2>1, <2>2, <2>3, <2>4, SameVocabulary
       DEF Contract!FailPutUnit, Contract!agentVars, Contract!nodeVars
  <2> QED
    BY <2>1, <2>4, <2>5 DEF Contract!Next
<1>7. CASE call.op = "delete_agent"
  <2>1. call.did \in Author /\ ShownUnits = units /\ agents = Delete(ShownAgents, call.did)
    BY <1>7, DeletedAgent
  <2>2. Contract!FailDeleteAgent(call.did)
    BY <1>2, <1>3, <1>4, <2>1, SameVocabulary
       DEF Contract!FailDeleteAgent, Contract!unitVars, Contract!nodeVars, ShownLost
  <2> QED
    BY <2>1, <2>2 DEF Contract!Next
<1>8. CASE call.op = "increment"
  <2>1. /\ call.did \in Author /\ call.did \in DOMAIN ShownAgents /\ ShownUnits = units
        /\ agents = [ShownAgents EXCEPT ![call.did] = Contract!Counted(ShownAgents[call.did])]
    BY <1>8, CountedAgent
  <2>2. Contract!FailIncrement(call.did)
    BY <1>2, <1>3, <1>4, <2>1
       DEF Contract!FailIncrement, Contract!unitVars, Contract!nodeVars, ShownLost
  <2> QED
    BY <2>1, <2>2 DEF Contract!Next
<1> QED
  BY <1>5, <1>6, <1>7, <1>8 DEF Between

\* Startup shows nothing but the seed it saves.
LEMMA StartShows ==
    ASSUME Open \/ LoadIdentity \/ UseGenerated \/ \E seed \in Seed : GenerateIdentity(seed)
    PROVE  /\ ShownUnits = units /\ ShownAgents = agents
           /\ UNCHANGED <<ShownUnits, ShownAgents, ShownLost, ShownInbox, credibility, follows,
                          peers, cursors>>
<1>1. call.op \notin Between /\ call'.op \notin Between
  BY DEF Open, LoadIdentity, UseGenerated, GenerateIdentity, Run, Goto, Closed, Starting, Free,
         Between
<1>2. UNCHANGED <<units, credibility, edges, agents, rows, follows, peers, cursors>>
  BY DEF Open, LoadIdentity, UseGenerated, GenerateIdentity, Run, tables, unitTables,
         agentTables, nodeTables
<1>3. /\ ShownUnits = units /\ ShownUnits' = units'
      /\ ShownAgents = agents /\ ShownAgents' = agents'
  BY <1>1, NothingHidden, NothingHiddenNext
<1> QED
  BY <1>2, <1>3 DEF ShownLost, ShownInbox

LEMMA StartImplements ==
    ASSUME Open \/ LoadIdentity \/ UseGenerated
    PROVE  UNCHANGED Contract!storageVars
<1>1. UNCHANGED <<config, reply>>
  BY DEF Open, LoadIdentity, UseGenerated, Run, Goto, tables, nodeTables
<1> QED
  BY <1>1, StartShows
     DEF Contract!storageVars, Contract!unitVars, Contract!agentVars, Contract!nodeVars

LEMMA GenerateIdentityImplements ==
    ASSUME NEW seed \in Seed, GenerateIdentity(seed)
    PROVE  Contract!Next
<1>1. Contract!SetNodeConfig(SeedKey, seed)
  BY StartShows, SameVocabulary
     DEF GenerateIdentity, SetNodeConfig, Contract!SetNodeConfig, Contract!Return,
         Contract!unitVars, Contract!agentVars
<1> QED
  BY <1>1 DEF Contract!Next

LEMMA StutterImplements ==
    ASSUME UNCHANGED vars
    PROVE  UNCHANGED Contract!storageVars
<1>1. UNCHANGED <<units, credibility, edges, agents, rows, follows, peers, cursors, config, call, reply>>
  BY DEF vars, tables, unitTables, agentTables, nodeTables
<1>2. UNCHANGED <<ShownUnits, ShownAgents, ShownInbox>>
  BY <1>1 DEF ShownUnits, ShownAgents, ShownInbox
<1> QED
  BY <1>1, <1>2 DEF ShownLost, Contract!storageVars, Contract!unitVars, Contract!agentVars,
                    Contract!nodeVars

LEMMA InitImplements == Init => Contract!Init
<1> SUFFICES ASSUME Init PROVE Contract!Init
  OBVIOUS
<1>1. ShownUnits = {} /\ ShownAgents = <<>>
  BY NothingHidden DEF Init, Closed, Between
<1>2. ShownInbox = [d \in Author |-> {}]
  BY DEF Init, ShownInbox
<1>3. ShownLost = {}
  BY <1>1 DEF ShownLost
<1> QED
  BY <1>1, <1>2, <1>3 DEF Init, Contract!Init

LEMMA StepImplements ==
    ASSUME IInv, [Next]_vars
    PROVE  [Contract!Next]_(Contract!storageVars)
<1> DEFINE Goal == Contract!Next \/ UNCHANGED Contract!storageVars
<1>1. CASE UNCHANGED vars
  BY <1>1, StutterImplements
<1>2. ASSUME NEW u \in Unit, PutUnit(u) PROVE Goal
  BY <1>2, PutUnitImplements
<1>3. ASSUME NEW u \in Unit, NEW s \in Scores, SetUnitCredibility(u.id, s) PROVE Goal
  BY <1>3, SetUnitCredibilityImplements
<1>4. ASSUME NEW i, PutEdge(i) PROVE Goal
  BY <1>4, PutEdgeImplements
<1>5. ASSUME NEW d \in Author, NEW p \in Newcomers, PutAgent(d, p) PROVE Goal
  BY <1>5, PutAgentImplements
<1>6. ASSUME NEW d \in Author, DeleteAgent(d) PROVE Goal
  BY <1>6, DeleteAgentImplements
<1>7. ASSUME NEW d \in Author, Increment(d) PROVE Goal
  BY <1>7, IncrementImplements
<1>8. ASSUME NEW d \in Author, NEW r \in Scores, UpdateAgentReputation(d, r) PROVE Goal
  BY <1>8, UpdateAgentReputationImplements
<1>9. ASSUME NEW d \in Author, NEW e \in Author, AddFollow(d, e) \/ RemoveFollow(d, e) PROVE Goal
  BY <1>9, FollowImplements
<1>10. ASSUME NEW d \in Author, NEW u \in Unit, DeliverToInbox(d, u) PROVE Goal
  BY <1>10, DeliverToInboxImplements
<1>11. CASE DeleteInbox
  BY <1>11, DeleteInboxImplements
<1>12. CASE Graduate
  BY <1>12, GraduateImplements
<1>13. ASSUME NEW n \in Node, NEW p \in Claims, AddPeer(n, p) PROVE Goal
  BY <1>13, AddPeerImplements
<1>14. ASSUME NEW n \in Node, RemovePeer(n) PROVE Goal
  BY <1>14, PeerImplements
<1>15. ASSUME NEW n \in Node, NEW r \in Scores, UpdatePeerReputation(n, r) PROVE Goal
  BY <1>15, PeerImplements
<1>16. ASSUME NEW n \in Node, NEW u \in Unit, SetCursor(n, u.id) PROVE Goal
  BY <1>16, SetCursorImplements
<1>17. CASE Open \/ LoadIdentity \/ UseGenerated
  BY <1>17, StartImplements
<1>18. ASSUME NEW seed \in Seed, GenerateIdentity(seed) PROVE Goal
  BY <1>18, GenerateIdentityImplements
<1>19. CASE StatementFails \/ Crash
  BY <1>19, FailureImplements
<1> HIDE DEF Goal
<1>20. UNCHANGED vars => Goal
  BY <1>1 DEF Goal
<1>21. Open \/ LoadIdentity \/ UseGenerated \/ DeleteInbox \/ Graduate \/ StatementFails \/ Crash => Goal
  BY <1>11, <1>12, <1>17, <1>19 DEF Goal
<1>22. Goal
  BY StepCases, <1>2, <1>3, <1>4, <1>5, <1>6, <1>7, <1>8, <1>9, <1>10, <1>13, <1>14, <1>15,
     <1>16, <1>18, <1>20, <1>21
<1> QED
  BY <1>22 DEF Goal

\* The SQLite backend does what the trait Storage promises (storage/mod.rs): although
\* a call is several statements, each committed by itself, and a statement may fail
\* and the process die between any two, whoever gets the mutex next sees every call
\* done at once or not at all, or one of the three halves that Storage allows a failed
\* call to leave behind.
THEOREM RefinesStorage == Spec => ImplementsStorage
<1>1. Init => Contract!Init
  BY InitImplements
<1>2. IInv /\ [Next]_vars => [Contract!Next]_(Contract!storageVars)
  BY StepImplements
<1> QED
  BY <1>1, <1>2, Invariance, PTL DEF Spec, ImplementsStorage, Contract!Spec
=============================================================================
