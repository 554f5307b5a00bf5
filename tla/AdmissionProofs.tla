-------------------------- MODULE AdmissionProofs --------------------------
(***************************************************************************)
(* Proofs about Admission, for any agents, threshold, gate and number of   *)
(* requests and faults, and for both backends.                             *)
(***************************************************************************)
EXTENDS Admission, FiniteSetTheorems, TLAPS

\* Full members are remembered as such.
MembersKnown == \A a \in Registered : profile[a].status = "full" => a \in members

\* What every storage call preserves.
TableInv ==
    /\ Registered \subseteq Agent
    /\ \A a \in Registered : profile[a] \in AgentProfile
    /\ cut \subseteq Agent /\ members \subseteq Agent
    /\ MembersKnown
    /\ ProbationEnds

\* What every step of a handler preserves.
HandlersInv ==
    /\ handler \in [Handler -> HandlerState]
    /\ SponsorsWereMembers

\* The inductive invariant.
IInv == TableInv /\ HandlersInv /\ faults \in Nat

\* A profile that need not be excused from probation.
Served(p) ==
    p.status = "probationary" => p.contribution_count < Threshold \/ p.contribution_count = 0
-----------------------------------------------------------------------------
LEMMA NeutralType == Neutral \in Reputation /\ Top \in Nat \ {0}
<1>1. Top \in Nat \ {0} /\ Top % 2 = 0
  BY AdmissionAssumption
<1>2. Top \div 2 \in 0 .. Top
  BY <1>1, SMT
<1> QED
  BY <1>1, <1>2 DEF Neutral, Reputation

\* The weighted mean of two reputations is one: a sum of at most Top * Top divided by Top.
LEMMA WeightedType ==
    ASSUME NEW current \in Reputation, NEW proposed \in Reputation, NEW weight \in Reputation
    PROVE  Weighted(Top, current, proposed, weight) \in Reputation
<1>1. Top \in Nat \ {0}
  BY NeutralType
<1> DEFINE x == current * (Top - weight)
           y == proposed * weight
<1>2. x \in Nat /\ x <= Top * (Top - weight)
  BY <1>1, SMT DEF Reputation
<1>3. y \in Nat /\ y <= Top * weight
  BY <1>1, SMT DEF Reputation
<1>4. Top * (Top - weight) + Top * weight = Top * Top /\ Top * Top \in Nat
      /\ Top * (Top - weight) \in Nat /\ Top * weight \in Nat
  BY <1>1, SMT DEF Reputation
<1> HIDE DEF x, y
<1>5. x + y \in Nat /\ x + y <= Top * Top
  BY <1>2, <1>3, <1>4
<1> DEFINE n == x + y
           q == n \div Top
<1>6. n \in Nat /\ n <= Top * Top
  BY <1>5
<1> HIDE DEF n
<1>7. q \in Int /\ n = (Top * q) + (n % Top) /\ n % Top \in 0 .. Top - 1
  BY <1>1, <1>6, SMT
<1> HIDE DEF q
<1>8. q >= 0
  <2>1. SUFFICES ASSUME q <= -1 PROVE FALSE
    BY <1>7
  <2>2. Top * q <= -Top
    BY <1>1, <1>7, <2>1, SMT
  <2> QED
    BY <1>1, <1>6, <1>7, <2>2
<1>9. q <= Top
  <2>1. SUFFICES ASSUME Top + 1 <= q PROVE FALSE
    BY <1>1, <1>7
  <2>2. Top * Top + Top <= Top * q
    BY <1>1, <1>7, <2>1, SMT
  <2> QED
    BY <1>1, <1>4, <1>6, <1>7, <2>2
<1> QED
  BY <1>1, <1>7, <1>8, <1>9 DEF Weighted, Reputation, q, n, x, y

LEMMA NewcomerType ==
    ASSUME NEW s \in Status
    PROVE  Newcomer(s) \in AgentProfile /\ Served(Newcomer(s))
  BY NeutralType DEF Newcomer, AgentProfile, Served

\* The storage calls keep the table in order.
LEMMA PutKeeps ==
    ASSUME TableInv, NEW a \in Agent, NEW p \in AgentProfile, Served(p), PutAgent(a, p)
    PROVE  TableInv' /\ members \subseteq members'
<1> USE DEF TableInv, PutAgent, Registered
<1>1. DOMAIN profile' = DOMAIN profile \union {a}
  OBVIOUS
<1>2. \A b \in DOMAIN profile' : profile'[b] = IF b = a THEN p ELSE profile[b]
  OBVIOUS
<1>3. cut' = cut \ {a} /\ members \subseteq members' /\ members' \subseteq Agent
  OBVIOUS
<1>4. p.status = "full" => a \in members'
  OBVIOUS
<1>5. MembersKnown'
  BY <1>1, <1>2, <1>3, <1>4 DEF MembersKnown
<1>6. ProbationEnds'
  <2> SUFFICES ASSUME NEW b \in DOMAIN profile',
                      profile'[b].status = "probationary",
                      profile'[b].contribution_count >= Threshold,
                      profile'[b].contribution_count > 0
               PROVE  b \in cut'
    BY DEF ProbationEnds
  <2>1. CASE b = a
    BY <1>2, <2>1, AdmissionAssumption DEF Served, AgentProfile
  <2>2. CASE b # a
    BY <1>1, <1>2, <1>3, <2>2 DEF ProbationEnds
  <2> QED
    BY <2>1, <2>2
<1>7. \A b \in DOMAIN profile' : profile'[b] \in AgentProfile
  BY <1>1, <1>2
<1> QED
  BY <1>1, <1>3, <1>5, <1>6, <1>7

LEMMA RemoveKeeps ==
    ASSUME TableInv, NEW a \in Agent, RemoveAgent(a)
    PROVE  TableInv' /\ members \subseteq members'
<1> USE DEF TableInv, RemoveAgent, Registered, Restrict
<1>1. DOMAIN profile' = DOMAIN profile \ {a}
  OBVIOUS
<1>2. \A b \in DOMAIN profile' : profile'[b] = profile[b]
  OBVIOUS
<1>3. cut' = cut \ {a} /\ members' = members
  OBVIOUS
<1> QED
  BY <1>1, <1>2, <1>3 DEF MembersKnown, ProbationEnds

\* What counting a contribution makes of a profile.
LEMMA CountedType ==
    ASSUME NEW p \in AgentProfile
    PROVE  /\ Counted(p) \in AgentProfile
           /\ Counted(p).status = p.status
           /\ Counted(p).contribution_count = p.contribution_count + 1
  BY DEF AgentProfile, Counted

LEMMA ContributedType ==
    ASSUME NEW p \in AgentProfile
    PROVE  /\ Contributed(p) \in AgentProfile /\ Served(Contributed(p))
           /\ Contributed(p).contribution_count = p.contribution_count + 1
           /\ \/ Contributed(p).status = p.status
              \/ /\ Contributed(p).status = "full"
                 /\ Contributed(p).contribution_count >= Threshold
<1> DEFINE c == Counted(p)
<1>1. c \in AgentProfile /\ c.status = p.status /\ c.contribution_count = p.contribution_count + 1
  BY CountedType
<1> HIDE DEF c
<1>2. c.contribution_count \in Nat /\ Threshold \in Nat
  BY <1>1, AdmissionAssumption DEF AgentProfile
<1>3. CASE Graduates(c)
  <2>1. Contributed(p) = [c EXCEPT !.status = "full"]
    BY <1>3 DEF Contributed, c
  <2>2. /\ Contributed(p) \in AgentProfile /\ Contributed(p).status = "full"
        /\ Contributed(p).contribution_count = c.contribution_count
    BY <1>1, <2>1 DEF AgentProfile, Status
  <2> QED
    BY <1>1, <1>3, <2>2 DEF Graduates, Served
<1>4. CASE ~Graduates(c)
  <2>1. Contributed(p) = c
    BY <1>4 DEF Contributed, c
  <2> QED
    BY <1>1, <1>2, <1>4, <2>1 DEF Graduates, Served
<1> QED
  BY <1>3, <1>4

LEMMA IncrementKeeps ==
    ASSUME TableInv, NEW a \in Agent, Increment(a)
    PROVE  TableInv' /\ members \subseteq members'
<1>1. CASE a \in Registered
  <2>1. profile[a] \in AgentProfile
    BY <1>1 DEF TableInv
  <2>2. Contributed(profile[a]) \in AgentProfile /\ Served(Contributed(profile[a]))
    BY <2>1, ContributedType
  <2>3. PutAgent(a, Contributed(profile[a]))
    BY <1>1 DEF Increment
  <2> QED
    BY <2>2, <2>3, PutKeeps
<1>2. CASE a \notin Registered
  BY <1>2 DEF Increment, TableInv, MembersKnown, ProbationEnds, Registered
<1> QED
  BY <1>1, <1>2

LEMMA IncrementCutKeeps ==
    ASSUME TableInv, NEW a \in Agent, IncrementCut(a)
    PROVE  TableInv' /\ members \subseteq members'
<1> USE DEF TableInv, IncrementCut, Registered
<1>1. DOMAIN profile' = DOMAIN profile
  OBVIOUS
<1>2. \A b \in DOMAIN profile : b # a => profile'[b] = profile[b]
  OBVIOUS
<1>3. profile[a] \in AgentProfile
  OBVIOUS
<1>4. profile'[a] \in AgentProfile /\ profile'[a].status = profile[a].status
  BY <1>3, CountedType
<1>5. cut' = cut \union {a} /\ members' = members
  OBVIOUS
<1>6. MembersKnown'
  BY <1>1, <1>2, <1>4, <1>5 DEF MembersKnown
<1>7. ProbationEnds'
  BY <1>1, <1>2, <1>5 DEF ProbationEnds
<1> QED
  BY <1>1, <1>2, <1>4, <1>5, <1>6, <1>7

LEMMA UpdateReputationKeeps ==
    ASSUME TableInv, NEW a \in Agent, NEW r \in Reputation,
           UpdateReputation(a, r), UNCHANGED <<cut, members>>
    PROVE  TableInv' /\ members \subseteq members'
<1> USE DEF TableInv, UpdateReputation, Registered
<1>1. DOMAIN profile' = DOMAIN profile
  OBVIOUS
<1>2. ASSUME NEW b \in DOMAIN profile
      PROVE  /\ profile'[b] \in AgentProfile
             /\ profile'[b].status = profile[b].status
             /\ profile'[b].contribution_count = profile[b].contribution_count
  <2>1. profile[b] \in AgentProfile
    OBVIOUS
  <2>2. profile'[b] = IF b = a THEN [profile[b] EXCEPT !.reputation = r] ELSE profile[b]
    OBVIOUS
  <2> QED
    BY <2>1, <2>2 DEF AgentProfile
<1> QED
  BY <1>1, <1>2 DEF MembersKnown, ProbationEnds
-----------------------------------------------------------------------------
\* A step of one handler.
LEMMA BecomesKeeps ==
    ASSUME HandlersInv, NEW h \in Handler, NEW s \in HandlerState, Becomes(h, s),
           members \subseteq members',
           s.at = "put" => s.vouched \in members \union {NoOne}
    PROVE  HandlersInv'
<1> USE DEF HandlersInv, Becomes
<1>1. handler' \in [Handler -> HandlerState]
  OBVIOUS
<1>2. \A k \in Handler : handler'[k] = IF k = h THEN s ELSE handler[k]
  OBVIOUS
<1>3. SponsorsWereMembers'
  BY <1>2 DEF SponsorsWereMembers
<1> QED
  BY <1>1, <1>3

\* A handler that is neither idle nor about to store an application.
LEMMA BecomesOther ==
    ASSUME HandlersInv, NEW h \in Handler, NEW s \in HandlerState, Becomes(h, s),
           members \subseteq members', s.at # "put"
    PROVE  HandlersInv'
  BY BecomesKeeps

LEMMA ReadsKeep ==
    ASSUME TableInv, Reads
    PROVE  TableInv' /\ members \subseteq members'
  BY DEF TableInv, Reads, MembersKnown, ProbationEnds, Registered

LEMMA IdleState == Idle \in HandlerState /\ Idle.at # "put"
  BY DEF Idle, HandlerState
-----------------------------------------------------------------------------
LEMMA InitIInv == Init => IInv
<1> SUFFICES ASSUME Init PROVE IInv
  OBVIOUS
<1>1. profile \in [Founders -> {Newcomer(s) : s \in Status}]
  BY DEF Init
<1>2. DOMAIN profile = Founders /\ Founders \subseteq Agent
  BY <1>1, AdmissionAssumption
<1>3. \A a \in Founders : profile[a] \in AgentProfile /\ Served(profile[a])
  BY <1>1, NewcomerType
<1>4. TableInv
  <2>1. cut = {} /\ members = {a \in Founders : IsFull(a)}
    BY DEF Init
  <2>2. MembersKnown
    BY <1>2, <2>1 DEF MembersKnown, IsFull, Registered
  <2>3. ProbationEnds
    BY <1>2, <1>3, AdmissionAssumption DEF ProbationEnds, Served, AgentProfile, Registered
  <2> QED
    BY <1>2, <1>3, <2>1, <2>2, <2>3 DEF TableInv, Registered
<1>5. HandlersInv
  BY IdleState DEF HandlersInv, Init, SponsorsWereMembers
<1> QED
  BY <1>4, <1>5 DEF IInv, Init

\* A step is a stuttering step or one of the actions.
LEMMA StepCases ==
    ASSUME [Next]_vars
    PROVE  \/ UNCHANGED vars
           \/ \E h \in Handler, a \in Agent : RegisterAuth(h, a)
           \/ \E h \in Handler, a \in Agent, s \in Agent \union {NoOne} : ApplyAuth(h, a, s)
           \/ \E h \in Handler, a \in Agent : DeleteFind(h, a)
           \/ \E h \in Handler, a \in Agent : FollowFind(h, a)
           \/ \E h \in Handler, a \in Agent, t \in Agent, r \in Proposed : VoteCaller(h, a, t, r)
           \/ \E h \in Handler : Register(h)
           \/ \E h \in Handler : ApplyFind(h)
           \/ \E h \in Handler : ApplySponsor(h)
           \/ \E h \in Handler : ApplyPut(h)
           \/ \E h \in Handler : DeleteAgent(h)
           \/ \E h \in Handler : Contribute(h)
           \/ \E h \in Handler : VoteGate(h)
           \/ \E h \in Handler : VoteTarget(h)
           \/ \E h \in Handler : VoteWrite(h)
           \/ \E h \in Handler : GiveUp(h)
           \/ Crash
  BY DEF Next

\* The locals of a handler, by where it is.
LEMMA Locals ==
    ASSUME HandlersInv, NEW h \in Handler
    PROVE  LET m == handler[h] IN
           /\ m.at = "apply" => m.who \in Agent /\ m.sponsor \in Agent \union {NoOne}
           /\ m.at = "sponsor" => m.who \in Agent /\ m.sponsor \in Agent
           /\ m.at \in {"register", "put", "delete", "contribute"} => m.who \in Agent
           /\ m.at \in {"gate", "target"} =>
                m.target \in Agent /\ m.weight \in Reputation /\ m.proposed \in Proposed
           /\ m.at = "write" => m.target \in Agent /\ m.new \in Reputation
<1>1. handler[h] \in HandlerState
  BY DEF HandlersInv
<1> QED
  BY <1>1 DEF HandlerState, Idle

\* A step that only reads, of a handler that is not about to store an application.
LEMMA FindKeeps ==
    ASSUME IInv, NEW h \in Handler, NEW s \in HandlerState, s.at # "put", Becomes(h, s), Reads
    PROVE  IInv'
<1>1. TableInv' /\ members \subseteq members'
  BY ReadsKeep DEF IInv
<1>2. HandlersInv'
  BY <1>1, BecomesOther DEF IInv
<1> QED
  BY <1>1, <1>2 DEF IInv, Reads

\* The first step of a request.
LEMMA AuthenticateKeeps ==
    ASSUME IInv, NEW h \in Handler, NEW a \in Agent, NEW s \in HandlerState, s.at # "put",
           Authenticate(h, a, s)
    PROVE  IInv'
  BY FindKeeps DEF Authenticate

LEMMA ApplyFindKeeps ==
    ASSUME IInv, NEW h \in Handler, ApplyFind(h)
    PROVE  IInv'
<1> DEFINE m == handler[h]
           p == [at |-> "put", who |-> m.who, vouched |-> NoOne]
           s == [m EXCEPT !.at = "sponsor"]
<1>1. m.at = "apply" /\ Reads
  BY DEF ApplyFind
<1>2. m.who \in Agent /\ m \in [at : {"apply"}, who : Agent, sponsor : Agent \union {NoOne}]
  <2>1. m \in HandlerState
    BY DEF IInv, HandlersInv
  <2> HIDE DEF m
  <2> QED
    BY <1>1, <2>1 DEF HandlerState, Idle
<1>3. CASE Becomes(h, Idle)
  BY <1>1, <1>3, IdleState, FindKeeps
<1>4. CASE Becomes(h, p)
  <2>1. p \in HandlerState /\ p.vouched = NoOne
    BY <1>2 DEF HandlerState
  <2> HIDE DEF p
  <2>2. TableInv' /\ members \subseteq members'
    BY <1>1, ReadsKeep DEF IInv
  <2>3. HandlersInv'
    BY <1>4, <2>1, <2>2, BecomesKeeps DEF IInv
  <2> QED
    BY <1>1, <2>2, <2>3 DEF IInv, Reads
<1>5. CASE m.sponsor # NoOne /\ Becomes(h, s)
  <2>1. s \in HandlerState /\ s.at # "put"
    <3> HIDE DEF m
    <3> QED
      BY <1>2, <1>5 DEF HandlerState
  <2> HIDE DEF s
  <2> QED
    BY <1>1, <1>5, <2>1, FindKeeps
<1> QED
  BY <1>3, <1>4, <1>5 DEF ApplyFind

LEMMA ApplySponsorKeeps ==
    ASSUME IInv, NEW h \in Handler, ApplySponsor(h)
    PROVE  IInv'
<1> DEFINE m == handler[h]
           v == IF IsFull(m.sponsor) THEN m.sponsor ELSE NoOne
           s == [at |-> "put", who |-> m.who, vouched |-> v]
<1>1. m.at = "sponsor" /\ Becomes(h, s) /\ Reads
  BY DEF ApplySponsor
<1>2. m.who \in Agent /\ m.sponsor \in Agent
  BY <1>1, Locals DEF IInv
<1>3. v \in members \union {NoOne} /\ v \in Agent \union {NoOne}
  BY <1>2 DEF IInv, TableInv, MembersKnown, IsFull
<1> HIDE DEF m, v
<1>4. s \in HandlerState /\ s.vouched = v
  BY <1>2, <1>3 DEF HandlerState
<1> HIDE DEF s
<1>5. TableInv' /\ members \subseteq members'
  BY <1>1, ReadsKeep DEF IInv
<1>6. HandlersInv'
  BY <1>1, <1>3, <1>4, <1>5, BecomesKeeps DEF IInv
<1> QED
  BY <1>1, <1>5, <1>6 DEF IInv, Reads

\* A step that ends a handler.
LEMMA EndKeeps ==
    ASSUME IInv, NEW h \in Handler, Becomes(h, Idle),
           TableInv' /\ members \subseteq members', faults' \in Nat
    PROVE  IInv'
<1>1. HandlersInv'
  BY IdleState, BecomesOther DEF IInv
<1> QED
  BY <1>1 DEF IInv

LEMMA FaultType == ASSUME faults \in Nat, Fault \/ UNCHANGED faults PROVE faults' \in Nat
  BY DEF Fault

LEMMA ContributeKeeps ==
    ASSUME IInv, NEW h \in Handler, Contribute(h)
    PROVE  IInv'
<1>1. handler[h].who \in Agent
  BY Locals DEF IInv, Contribute
<1>2. TableInv' /\ members \subseteq members'
  BY <1>1, IncrementKeeps, IncrementCutKeeps DEF IInv, Contribute
<1>3. faults' \in Nat
  BY FaultType DEF IInv, Contribute
<1> QED
  BY <1>2, <1>3, EndKeeps DEF Contribute

LEMMA VoteTargetKeeps ==
    ASSUME IInv, NEW h \in Handler, VoteTarget(h)
    PROVE  IInv'
<1> DEFINE m == handler[h]
<1>1. m.at = "target" /\ Reads
  BY DEF VoteTarget
<1>2. m.target \in Agent /\ m.weight \in Reputation /\ m.proposed \in Reputation
  BY <1>1, Locals, AdmissionAssumption DEF IInv
<1>3. CASE m.target \in Registered
  <2> DEFINE old == profile[m.target].reputation
             new == NewReputation(old, m)
  <2>1. old \in Reputation
    BY <1>3 DEF IInv, TableInv, AgentProfile
  <2>2. new \in Reputation
    <3>1. new = Weighted(Top, old, m.proposed, m.weight)
      BY DEF NewReputation
    <3> HIDE DEF old, new, m
    <3> QED
      BY <1>2, <2>1, <3>1, WeightedType
  <2>3. Becomes(h, [at |-> "write", target |-> m.target, new |-> new])
    BY <1>3 DEF VoteTarget
  <2> HIDE DEF new, m
  <2>4. [at |-> "write", target |-> m.target, new |-> new] \in HandlerState
    BY <1>2, <2>2 DEF HandlerState
  <2> QED
    BY <1>1, <2>3, <2>4, FindKeeps
<1>4. CASE m.target \notin Registered
  <2>1. Becomes(h, Idle)
    BY <1>4 DEF VoteTarget
  <2> QED
    BY <1>1, <2>1, IdleState, FindKeeps
<1> QED
  BY <1>3, <1>4

LEMMA VoteGateKeeps ==
    ASSUME IInv, NEW h \in Handler, VoteGate(h)
    PROVE  IInv'
<1> DEFINE m == handler[h]
           s == [m EXCEPT !.at = "target"]
<1>1. m.at = "gate" /\ Reads /\ (Becomes(h, s) \/ Becomes(h, Idle))
  BY DEF VoteGate
<1>2. m \in HandlerState
  BY DEF IInv, HandlersInv
<1>3. m \in [at : {"gate", "target"}, target : Agent, weight : Reputation, proposed : Proposed]
  <2> HIDE DEF m
  <2> QED BY <1>1, <1>2 DEF HandlerState, Idle
<1>4. s \in HandlerState /\ s.at # "put"
  <2> HIDE DEF m
  <2> QED BY <1>3 DEF HandlerState
<1> HIDE DEF s
<1> QED
  BY <1>1, <1>4, IdleState, FindKeeps

LEMMA RegisterKeeps ==
    ASSUME IInv, NEW h \in Handler, Register(h)
    PROVE  IInv'
<1>1. handler[h].who \in Agent
  BY Locals DEF IInv, Register
<1>2. TableInv' /\ members \subseteq members'
  BY <1>1, NewcomerType, PutKeeps DEF IInv, Status, Register
<1> QED
  BY <1>2, EndKeeps DEF Register, IInv

LEMMA ApplyPutKeeps ==
    ASSUME IInv, NEW h \in Handler, ApplyPut(h)
    PROVE  IInv'
<1>1. handler[h].who \in Agent
  BY Locals DEF IInv, ApplyPut
<1>2. TableInv' /\ members \subseteq members'
  BY <1>1, NewcomerType, PutKeeps DEF IInv, Status, ApplyPut
<1> QED
  BY <1>2, EndKeeps DEF ApplyPut, IInv

LEMMA DeleteAgentKeeps ==
    ASSUME IInv, NEW h \in Handler, DeleteAgent(h)
    PROVE  IInv'
<1>1. handler[h].who \in Agent
  BY Locals DEF IInv, DeleteAgent
<1>2. TableInv' /\ members \subseteq members'
  BY <1>1, RemoveKeeps DEF IInv, DeleteAgent
<1> QED
  BY <1>2, EndKeeps DEF DeleteAgent, IInv

LEMMA VoteWriteKeeps ==
    ASSUME IInv, NEW h \in Handler, VoteWrite(h)
    PROVE  IInv'
<1>1. handler[h].target \in Agent /\ handler[h].new \in Reputation
  BY Locals DEF IInv, VoteWrite
<1>2. TableInv' /\ members \subseteq members'
  BY <1>1, UpdateReputationKeeps DEF IInv, VoteWrite
<1> QED
  BY <1>2, EndKeeps DEF VoteWrite, IInv

LEMMA GiveUpKeeps ==
    ASSUME IInv, NEW h \in Handler, GiveUp(h)
    PROVE  IInv'
<1>1. TableInv' /\ members \subseteq members'
  BY DEF GiveUp, IInv, TableInv, MembersKnown, ProbationEnds, Registered
<1> QED
  BY <1>1, FaultType, EndKeeps DEF GiveUp, IInv

LEMMA CrashKeeps == ASSUME IInv, Crash PROVE IInv'
<1>1. TableInv' /\ members' = members
  <2>1. CASE profile' = profile
    BY <2>1 DEF Crash, IInv, TableInv, MembersKnown, ProbationEnds, Registered
  <2>2. CASE profile' = <<>>
    <3>1. DOMAIN profile' = {}
      BY <2>2
    <3> QED
      BY <3>1 DEF Crash, IInv, TableInv, MembersKnown, ProbationEnds, Registered
  <2> QED
    BY <2>1, <2>2 DEF Crash
<1>2. HandlersInv'
  BY <1>1, IdleState DEF Crash, HandlersInv, SponsorsWereMembers
<1> QED
  BY <1>1, <1>2, FaultType DEF Crash, IInv

LEMMA StepIInv == IInv /\ [Next]_vars => IInv'
<1> SUFFICES ASSUME IInv, [Next]_vars PROVE IInv'
  OBVIOUS
<1>1. CASE UNCHANGED vars
  BY <1>1 DEF vars, IInv, TableInv, HandlersInv, MembersKnown, ProbationEnds,
              SponsorsWereMembers, Registered
<1>2. ASSUME NEW h \in Handler, NEW a \in Agent, RegisterAuth(h, a) PROVE IInv'
  <2>1. [at |-> "register", who |-> a] \in HandlerState
    BY DEF HandlerState
  <2> QED
    BY <1>2, <2>1, AuthenticateKeeps DEF RegisterAuth
<1>3. ASSUME NEW h \in Handler, NEW a \in Agent, NEW s \in Agent \union {NoOne}, ApplyAuth(h, a, s)
      PROVE  IInv'
  <2>1. [at |-> "apply", who |-> a, sponsor |-> s] \in HandlerState
    BY DEF HandlerState
  <2> QED
    BY <1>3, <2>1, AuthenticateKeeps DEF ApplyAuth
<1>4. ASSUME NEW h \in Handler, NEW a \in Agent, DeleteFind(h, a) PROVE IInv'
  <2>1. [at |-> "delete", who |-> a] \in HandlerState
    BY DEF HandlerState
  <2> QED
    BY <1>4, <2>1, AuthenticateKeeps DEF DeleteFind
<1>5. ASSUME NEW h \in Handler, NEW a \in Agent, FollowFind(h, a) PROVE IInv'
  <2>1. [at |-> "contribute", who |-> a] \in HandlerState
    BY DEF HandlerState
  <2> QED
    BY <1>5, <2>1, AuthenticateKeeps DEF FollowFind
<1>6. ASSUME NEW h \in Handler, NEW a \in Agent, NEW t \in Agent, NEW r \in Proposed,
             VoteCaller(h, a, t, r)
      PROVE  IInv'
  <2> DEFINE s == [at |-> "gate", target |-> t, proposed |-> r, weight |-> profile[a].reputation]
  <2>1. profile[a].reputation \in Reputation
    BY <1>6 DEF VoteCaller, Authenticate, IInv, TableInv, AgentProfile
  <2>2. s \in HandlerState /\ s.at # "put"
    BY <2>1 DEF HandlerState
  <2>3. Authenticate(h, a, s)
    BY <1>6 DEF VoteCaller
  <2> HIDE DEF s
  <2> QED
    BY <2>2, <2>3, AuthenticateKeeps
<1>7. ASSUME NEW h \in Handler, ApplySponsor(h) PROVE IInv'
  BY <1>7, ApplySponsorKeeps
<1>8. ASSUME NEW h \in Handler, ApplyPut(h) PROVE IInv'
  BY <1>8, ApplyPutKeeps
<1>9. ASSUME NEW h \in Handler, DeleteAgent(h) PROVE IInv'
  BY <1>9, DeleteAgentKeeps
<1>10. ASSUME NEW h \in Handler, Contribute(h) PROVE IInv'
  BY <1>10, ContributeKeeps
<1>11. ASSUME NEW h \in Handler, VoteGate(h) PROVE IInv'
  BY <1>11, VoteGateKeeps
<1>12. ASSUME NEW h \in Handler, VoteTarget(h) PROVE IInv'
  BY <1>12, VoteTargetKeeps
<1>13. ASSUME NEW h \in Handler, VoteWrite(h) PROVE IInv'
  BY <1>13, VoteWriteKeeps
<1>14. ASSUME NEW h \in Handler, GiveUp(h) PROVE IInv'
  BY <1>14, GiveUpKeeps
<1>15. CASE Crash
  BY <1>15, CrashKeeps
<1>16. ASSUME NEW h \in Handler, Register(h) PROVE IInv'
  BY <1>16, RegisterKeeps
<1>17. ASSUME NEW h \in Handler, ApplyFind(h) PROVE IInv'
  BY <1>17, ApplyFindKeeps
<1> QED
  BY StepCases, <1>1, <1>2, <1>3, <1>4, <1>5, <1>6, <1>7, <1>8, <1>9, <1>10, <1>11, <1>12,
     <1>13, <1>14, <1>15, <1>16, <1>17
-----------------------------------------------------------------------------
(***************************************************************************)
(* The theorems.                                                           *)
(***************************************************************************)

\* IInv is an invariant: what table and handlers say agrees in every state.
THEOREM Invariance == Spec => []IInv
  BY InitIInv, StepIInv, PTL DEF Spec

\* Every reachable state has the types declared: reputations stay between 0 and
\* 1, whatever votes overlap.
THEOREM TypeCorrect == Spec => []TypeOK
<1>1. IInv => TypeOK
  BY DEF IInv, TableInv, HandlersInv, TypeOK
<1> QED
  BY <1>1, Invariance, PTL

\* Nobody is kept on probation past the threshold but by a storage failure.
THEOREM ProbationEndsHolds == Spec => []ProbationEnds
<1>1. IInv => ProbationEnds
  BY DEF IInv, TableInv
<1> QED
  BY <1>1, Invariance, PTL

\* A sponsor reported as valid has been a full member.
THEOREM SponsorsWereMembersHolds == Spec => []SponsorsWereMembers
<1>1. IInv => SponsorsWereMembers
  BY DEF IInv, HandlersInv
<1> QED
  BY <1>1, Invariance, PTL

\* What a step may do to the table.
Effect ==
    \/ profile' = profile
    \/ profile' = <<>>
    \/ \E a \in Agent, s \in Status : PutAgent(a, Newcomer(s))
    \/ \E a \in Agent : RemoveAgent(a) \/ Increment(a) \/ IncrementCut(a)
    \/ \E a \in Agent, r \in Reputation : UpdateReputation(a, r)

LEMMA Effects ==
    ASSUME IInv, [Next]_vars
    PROVE  Effect
<1>1. ASSUME NEW h \in Handler, Register(h) PROVE Effect
  BY <1>1, Locals DEF Effect, Register, IInv, Status
<1>2. ASSUME NEW h \in Handler, ApplyPut(h) PROVE Effect
  BY <1>2, Locals DEF Effect, ApplyPut, IInv, Status
<1>3. ASSUME NEW h \in Handler, DeleteAgent(h) PROVE Effect
  BY <1>3, Locals DEF Effect, DeleteAgent, IInv
<1>4. ASSUME NEW h \in Handler, Contribute(h) PROVE Effect
  BY <1>4, Locals DEF Effect, Contribute, IInv
<1>5. ASSUME NEW h \in Handler, VoteWrite(h) PROVE Effect
  BY <1>5, Locals DEF Effect, VoteWrite, IInv
<1>6. CASE Crash
  BY <1>6 DEF Effect, Crash
<1>7. CASE UNCHANGED vars
  BY <1>7 DEF Effect, vars
<1>8. ASSUME NEW h \in Handler, GiveUp(h) PROVE Effect
  BY <1>8 DEF Effect, GiveUp
<1>9. ASSUME NEW h \in Handler, NEW a \in Agent, NEW s \in Agent \union {NoOne}, ApplyAuth(h, a, s)
      PROVE  Effect
  BY <1>9 DEF Effect, ApplyAuth, Authenticate, Reads
<1>10. ASSUME NEW h \in Handler, NEW a \in Agent, DeleteFind(h, a) PROVE Effect
  BY <1>10 DEF Effect, DeleteFind, Authenticate, Reads
<1>11. ASSUME NEW h \in Handler, NEW a \in Agent, FollowFind(h, a) PROVE Effect
  BY <1>11 DEF Effect, FollowFind, Authenticate, Reads
<1>12. ASSUME NEW h \in Handler, NEW a \in Agent, NEW t \in Agent, NEW r \in Proposed,
              VoteCaller(h, a, t, r)
       PROVE  Effect
  BY <1>12 DEF Effect, VoteCaller, Authenticate, Reads
<1>13. ASSUME NEW h \in Handler, ApplySponsor(h) PROVE Effect
  BY <1>13 DEF Effect, ApplySponsor, Reads
<1>14. ASSUME NEW h \in Handler, VoteGate(h) PROVE Effect
  BY <1>14 DEF Effect, VoteGate, Reads
<1>15. ASSUME NEW h \in Handler, VoteTarget(h) PROVE Effect
  BY <1>15 DEF Effect, VoteTarget, Reads
<1>16. ASSUME NEW h \in Handler, NEW a \in Agent, RegisterAuth(h, a) PROVE Effect
  BY <1>16 DEF Effect, RegisterAuth, Authenticate, Reads
<1>17. ASSUME NEW h \in Handler, ApplyFind(h) PROVE Effect
  BY <1>17 DEF Effect, ApplyFind, Reads
<1> QED
  BY StepCases, <1>1, <1>2, <1>3, <1>4, <1>5, <1>6, <1>7, <1>8, <1>9, <1>10, <1>11, <1>12,
     <1>13, <1>14, <1>15, <1>16, <1>17

\* Who was not registered comes in as a newcomer: nothing that was under way
\* when an agent left brings it back.
THEOREM ReturnsAreFreshHolds == Spec => ReturnsAreFresh
<1> DEFINE Fresh == \A a \in DOMAIN profile' \ Registered :
                       profile'[a] \in {Newcomer(s) : s \in Status}
<1>1. ASSUME IInv, [Next]_vars PROVE Fresh
  <2>1. CASE profile' = profile
    BY <2>1 DEF Registered
  <2>2. CASE profile' = <<>>
    BY <2>2
  <2>3. ASSUME NEW a \in Agent, NEW s \in Status, PutAgent(a, Newcomer(s)) PROVE Fresh
    BY <2>3 DEF PutAgent, Registered
  <2>4. ASSUME NEW a \in Agent, RemoveAgent(a) PROVE Fresh
    BY <2>4 DEF RemoveAgent, Restrict, Registered
  <2>5. ASSUME NEW a \in Agent, Increment(a) PROVE Fresh
    BY <2>5 DEF Increment, PutAgent, Registered
  <2>6. ASSUME NEW a \in Agent, IncrementCut(a) PROVE Fresh
    BY <2>6 DEF IncrementCut, Registered
  <2>7. ASSUME NEW a \in Agent, NEW r \in Reputation, UpdateReputation(a, r) PROVE Fresh
    BY <2>7 DEF UpdateReputation, Registered
  <2> HIDE DEF Fresh
  <2> QED
    BY <1>1, Effects, <2>1, <2>2, <2>3, <2>4, <2>5, <2>6, <2>7 DEF Effect
<1>2. IInv /\ [Next]_vars => [Fresh]_vars
  BY <1>1
<1> QED
  BY <1>2, Invariance, PTL DEF Spec, ReturnsAreFresh

\* Who stays registered keeps its standing, whatever overlaps.
THEOREM StandingIsKeptHolds == Spec => StandingIsKept
<1> DEFINE Kept(a) ==
      \/ profile'[a] \in {Newcomer(s) : s \in Status}
      \/ /\ profile'[a].contribution_count >= profile[a].contribution_count
         /\ \/ profile'[a].status = profile[a].status
            \/ profile'[a].status = "full" /\ profile'[a].contribution_count >= Threshold
<1>1. ASSUME IInv, [Next]_vars, NEW a \in Registered \intersect DOMAIN profile' PROVE Kept(a)
  <2>1. profile[a] \in AgentProfile /\ a \in DOMAIN profile
    BY <1>1 DEF IInv, TableInv, Registered
  <2>2. CASE profile'[a] = profile[a]
    BY <2>1, <2>2 DEF AgentProfile
  <2>3. CASE profile' = <<>>
    BY <1>1, <2>3
  <2>4. ASSUME NEW b \in Agent, NEW s \in Status, PutAgent(b, Newcomer(s)) PROVE Kept(a)
    <3>1. profile'[a] = Newcomer(s) \/ profile'[a] = profile[a]
      BY <2>1, <2>4 DEF PutAgent, Registered
    <3> QED
      BY <2>2, <3>1
  <2>5. ASSUME NEW b \in Agent, RemoveAgent(b) PROVE Kept(a)
    <3>1. profile'[a] = profile[a]
      BY <1>1, <2>1, <2>5 DEF RemoveAgent, Restrict, Registered
    <3> QED
      BY <2>2, <3>1
  <2>6. ASSUME NEW b \in Agent, Increment(b) PROVE Kept(a)
    <3>1. profile'[a] = Contributed(profile[a]) \/ profile'[a] = profile[a]
      BY <2>1, <2>6 DEF Increment, PutAgent, Registered
    <3>2. CASE profile'[a] = Contributed(profile[a])
      BY <2>1, <3>2, ContributedType DEF AgentProfile
    <3> QED
      BY <2>2, <3>1, <3>2
  <2>7. ASSUME NEW b \in Agent, IncrementCut(b) PROVE Kept(a)
    <3>1. profile'[a] = Counted(profile[a]) \/ profile'[a] = profile[a]
      BY <2>1, <2>7 DEF IncrementCut, Registered
    <3>2. CASE profile'[a] = Counted(profile[a])
      BY <2>1, <3>2, CountedType DEF AgentProfile
    <3> QED
      BY <2>2, <3>1, <3>2
  <2>8. ASSUME NEW b \in Agent, NEW r \in Reputation, UpdateReputation(b, r) PROVE Kept(a)
    <3>1. profile'[a] = [profile[a] EXCEPT !.reputation = r] \/ profile'[a] = profile[a]
      BY <2>1, <2>8 DEF UpdateReputation, Registered
    <3>2. CASE profile'[a] = [profile[a] EXCEPT !.reputation = r]
      BY <2>1, <3>2 DEF AgentProfile
    <3> QED
      BY <2>2, <3>1, <3>2
  <2> HIDE DEF Kept
  <2> QED
    BY <1>1, Effects, <2>2, <2>3, <2>4, <2>5, <2>6, <2>7, <2>8 DEF Effect
<1>2. IInv /\ [Next]_vars => [\A a \in Registered \intersect DOMAIN profile' : Kept(a)]_vars
  <2> HIDE DEF Kept
  <2> QED BY <1>1
<1> QED
  BY <1>2, Invariance, PTL DEF Spec, StandingIsKept
=============================================================================
