----------------------------- MODULE Admission -----------------------------
(***************************************************************************)
(* The members of one node: how agents are admitted, graduate from         *)
(* probation, are voted on and leave.  FanOut has the same agents as       *)
(* recipients of units; here it is their standing that counts.             *)
(*                                                                         *)
(* An action is what happens between two await points of a handler.  A     *)
(* handler that does not get past a check answers an error and changes     *)
(* nothing; only the requests that get past the first are modelled.        *)
(*                                                                         *)
(* Every request here is signed, and is let in only while the table has    *)
(* its sender and the sender's public key (RequireAuth).  So nobody is     *)
(* admitted who was never in the table: the first agents are the           *)
(* operator's entries, and the handlers renew a membership, or race with   *)
(* its end.  Profiles without a public key are left out.                   *)
(***************************************************************************)
EXTENDS Integers, FiniteSets, Functions, Voting

CONSTANTS Agent,
          Founders,   \* the agents the operator put into the table
          Handler,    \* bound: requests in flight
          Proposed,   \* bound: the reputations voters propose
          Threshold,  \* SWEFT_PROBATION_THRESHOLD
          Top,        \* reputation 1.0
          Sigma,      \* SWEFT_REPUTATION_VOTE_SIGMA_FACTOR (1 by default)
          Persistent, \* the SQLite backend; otherwise the memory backend
          MaxCount,   \* bound: contributions per membership
          MaxFaults,  \* bound: failing storage calls, dropped handlers, crashes
          NoOne       \* no sponsor

Neutral == Top \div 2
Reputation == 0 .. Top

ASSUME AdmissionAssumption ==
    /\ Top \in Nat \ {0} /\ Top % 2 = 0
    /\ Proposed \subseteq Reputation
    /\ Threshold \in Nat /\ Sigma \in Nat
    /\ MaxCount \in Nat /\ MaxFaults \in Nat
    /\ Persistent \in BOOLEAN
    /\ Founders \subseteq Agent /\ NoOne \notin Agent

VARIABLES
    profile,  \* the table of agents
    handler,  \* the requests in flight
    \* History, for the properties only.
    cut,      \* agents whose last contribution failed half-way
    members,  \* agents that have been full members
    faults    \* faults so far

vars == <<profile, handler, cut, members, faults>>

Status == {"full", "probationary"}
AgentProfile == [status : Status, contribution_count : Nat, reputation : Reputation]

Registered == DOMAIN profile
IsFull(a) == a \in Registered /\ profile[a].status = "full"
Newcomer(s) == [status |-> s, contribution_count |-> 0, reputation |-> Neutral]

Idle == [at |-> "idle"]
HandlerState ==
    {Idle}
    \union [at : {"register"}, who : Agent]
    \union [at : {"apply"}, who : Agent, sponsor : Agent \union {NoOne}]
    \union [at : {"sponsor"}, who : Agent, sponsor : Agent]
    \union [at : {"put"}, who : Agent, vouched : Agent \union {NoOne}]
    \union [at : {"delete", "contribute"}, who : Agent]
    \union [at : {"gate", "target"}, target : Agent, weight : Reputation, proposed : Proposed]
    \union [at : {"write"}, target : Agent, new : Reputation]

TypeOK ==
    /\ Registered \subseteq Agent
    /\ \A a \in Registered : profile[a] \in AgentProfile
    /\ handler \in [Handler -> HandlerState]
    /\ cut \subseteq Agent /\ members \subseteq Agent
    /\ faults \in Nat

Init ==
    /\ profile \in [Founders -> {Newcomer(s) : s \in Status}]
    /\ handler = [h \in Handler |-> Idle]
    /\ cut = {} /\ members = {a \in Founders : IsFull(a)} /\ faults = 0
-----------------------------------------------------------------------------
(***************************************************************************)
(* The storage calls.                                                      *)
(***************************************************************************)

\* put_agent: insert or overwrite.
PutAgent(a, p) ==
    /\ profile' = [b \in Registered \union {a} |-> IF b = a THEN p ELSE profile[b]]
    /\ cut' = cut \ {a}
    /\ members' = IF p.status = "full" THEN members \union {a} ELSE members

RemoveAgent(a) ==
    /\ profile' = Restrict(profile, Registered \ {a})
    /\ cut' = cut \ {a}
    /\ UNCHANGED members

\* Faulty variant: the agent graduates with the contribution after the threshold.
GraduatesLate(p) == p.status = "probationary" /\ p.contribution_count > Threshold

\* p is the profile with the contribution counted.
Graduates(p) == p.status = "probationary" /\ p.contribution_count >= Threshold

Counted(p) == [p EXCEPT !.contribution_count = @ + 1]

Contributed(p) ==
    IF Graduates(Counted(p)) THEN [Counted(p) EXCEPT !.status = "full"] ELSE Counted(p)

\* increment_agent_contribution: nothing when the agent is not registered.
Increment(a) ==
    IF a \in Registered
    THEN PutAgent(a, Contributed(profile[a]))
    ELSE UNCHANGED <<profile, cut, members>>

\* SQLite counts and graduates in two statements, each committed on its own: the
\* second is not reached.
IncrementCut(a) ==
    /\ Persistent /\ a \in Registered
    /\ profile' = [profile EXCEPT ![a] = Counted(@)]
    /\ cut' = cut \union {a}
    /\ UNCHANGED members

\* Faulty variant: the row is replaced, and the other columns take their defaults.
UpdateReputationReplacing(a, r) ==
    profile' = [b \in Registered |->
                  IF b = a THEN [Newcomer("full") EXCEPT !.reputation = r] ELSE profile[b]]

\* Faulty variant: an agent that is not registered is entered.
UpdateReputationOrInsert(a, r) ==
    profile' = [b \in Registered \union {a} |->
                  IF b # a THEN profile[b]
                  ELSE IF a \in Registered THEN [profile[a] EXCEPT !.reputation = r]
                  ELSE [Newcomer("full") EXCEPT !.reputation = r]]

\* update_agent_reputation: nothing (NotFound) when the agent is not registered.
UpdateReputation(a, r) ==
    profile' = [b \in Registered |->
                  IF b = a THEN [profile[b] EXCEPT !.reputation = r] ELSE profile[b]]

\* One more fault, while the budget lasts.
Fault == faults < MaxFaults /\ faults' = faults + 1

\* The handler goes on to s.
Becomes(h, s) == handler' = [handler EXCEPT ![h] = s]

\* A call that only reads.
Reads == UNCHANGED <<profile, cut, members, faults>>
-----------------------------------------------------------------------------
(***************************************************************************)
(* Admission and leaving.                                                  *)
(***************************************************************************)

\* RequireAuth: the signature is checked with the key the table has.
Authenticate(h, a, s) ==
    /\ handler[h] = Idle
    /\ a \in Registered
    /\ Becomes(h, s)
    /\ Reads

\* POST /v1/agents/{did}: whatever is registered by now is overwritten.
RegisterAuth(h, a) == Authenticate(h, a, [at |-> "register", who |-> a])

Register(h) ==
    /\ handler[h].at = "register"
    /\ PutAgent(handler[h].who, Newcomer("full"))
    /\ Becomes(h, Idle)
    /\ UNCHANGED faults

\* POST /v1/agents/{did}/apply.
ApplyAuth(h, a, sponsor) ==
    Authenticate(h, a, [at |-> "apply", who |-> a, sponsor |-> sponsor])

\* 409 if the applicant is registered: it must have left since it was let in.
ApplyFind(h) ==
    LET m == handler[h] IN
    /\ m.at = "apply"
    /\ Becomes(h, IF m.who \in Registered THEN Idle
                  ELSE IF m.sponsor = NoOne
                  THEN [at |-> "put", who |-> m.who, vouched |-> NoOne]
                  ELSE [m EXCEPT !.at = "sponsor"])
    /\ Reads

\* Faulty variant: every registered agent may vouch.
ApplySponsorAny(h) ==
    LET m == handler[h] IN
    /\ m.at = "sponsor"
    /\ Becomes(h, [at |-> "put", who |-> m.who,
                   vouched |-> IF m.sponsor \in Registered THEN m.sponsor ELSE NoOne])
    /\ Reads

\* Only a full member's word counts, and only in the operator's notification.
ApplySponsor(h) ==
    LET m == handler[h] IN
    /\ m.at = "sponsor"
    /\ Becomes(h, [at |-> "put", who |-> m.who,
                   vouched |-> IF IsFull(m.sponsor) THEN m.sponsor ELSE NoOne])
    /\ Reads

\* Whatever is registered by now is overwritten. The notification is sent by a
\* task nobody waits for.
ApplyPut(h) ==
    /\ handler[h].at = "put"
    /\ PutAgent(handler[h].who, Newcomer("probationary"))
    /\ Becomes(h, Idle)
    /\ UNCHANGED faults

\* DELETE /v1/agents/{did}: found, then deleted. Who is found here may have been
\* let in at the same moment: the two lookups are one step.
DeleteFind(h, a) == Authenticate(h, a, [at |-> "delete", who |-> a])

DeleteAgent(h) ==
    /\ handler[h].at = "delete"
    /\ RemoveAgent(handler[h].who)
    /\ Becomes(h, Idle)
    /\ UNCHANGED faults
-----------------------------------------------------------------------------
(***************************************************************************)
(* Contributions.                                                          *)
(***************************************************************************)

\* POST /v1/agents/{did}/following: the agent is registered, and the follow,
\* which FanOut has, is added. MaxCount is a bound.
FollowFind(h, a) ==
    /\ Authenticate(h, a, [at |-> "contribute", who |-> a])
    /\ profile[a].contribution_count < MaxCount

\* The follow is a contribution, also a follow that was there already.
Contribute(h) ==
    /\ handler[h].at = "contribute"
    /\ Becomes(h, Idle)
    /\ \/ Increment(handler[h].who) /\ UNCHANGED faults
       \/ IncrementCut(handler[h].who) /\ Fault
-----------------------------------------------------------------------------
(***************************************************************************)
(* Votes: PATCH /v1/agents/{did}/reputation.                               *)
(***************************************************************************)

\* The caller is registered, and votes on somebody else.
VoteCaller(h, caller, target, r) ==
    /\ caller # target
    /\ Authenticate(h, caller, [at |-> "gate", target |-> target, proposed |-> r,
                                weight |-> profile[caller].reputation])

MayVote(r) == AtThreshold([a \in Registered |-> profile[a].reputation], Sigma, r)

\* agent_reputation_stats: the caller as found before against the table now.
VoteGate(h) ==
    /\ handler[h].at = "gate"
    /\ Becomes(h, IF MayVote(handler[h].weight) THEN [handler[h] EXCEPT !.at = "target"] ELSE Idle)
    /\ Reads

\* Faulty variant: the weights do not add up to one.
NewReputationHeavy(current, m) == current + (m.proposed * m.weight) \div Top

NewReputation(current, m) == Weighted(Top, current, m.proposed, m.weight)

\* get_agent of the target: 404 if it is not registered.
VoteTarget(h) ==
    LET m == handler[h] IN
    /\ m.at = "target"
    /\ Becomes(h, IF m.target \in Registered
                  THEN [at |-> "write", target |-> m.target,
                        new |-> NewReputation(profile[m.target].reputation, m)]
                  ELSE Idle)
    /\ Reads

\* The profile is read once more for the answer.
VoteWrite(h) ==
    /\ handler[h].at = "write"
    /\ UpdateReputation(handler[h].target, handler[h].new)
    /\ Becomes(h, Idle)
    /\ UNCHANGED <<cut, members, faults>>
-----------------------------------------------------------------------------
\* A storage call fails, or the client goes away and the handler is dropped.
GiveUp(h) ==
    /\ handler[h] # Idle
    /\ Fault
    /\ Becomes(h, Idle)
    /\ UNCHANGED <<profile, cut, members>>

\* The process stops and starts again. The memory backend forgets the agents.
Crash ==
    /\ Fault
    /\ handler' = [h \in Handler |-> Idle]
    /\ profile' = IF Persistent THEN profile ELSE <<>>
    /\ UNCHANGED <<cut, members>>

Next ==
    \/ \E h \in Handler, a \in Agent :
          \/ RegisterAuth(h, a)
          \/ \E s \in Agent \union {NoOne} : ApplyAuth(h, a, s)
          \/ DeleteFind(h, a)
          \/ FollowFind(h, a)
          \/ \E t \in Agent, r \in Proposed : VoteCaller(h, a, t, r)
    \/ \E h \in Handler :
          \/ Register(h)
          \/ ApplyFind(h) \/ ApplySponsor(h) \/ ApplyPut(h)
          \/ DeleteAgent(h)
          \/ Contribute(h)
          \/ VoteGate(h) \/ VoteTarget(h) \/ VoteWrite(h)
          \/ GiveUp(h)
    \/ Crash

Spec == Init /\ [][Next]_vars
-----------------------------------------------------------------------------
(***************************************************************************)
(* Properties.                                                             *)
(***************************************************************************)

\* Nobody is kept on probation: an agent whose contributions have reached the
\* threshold is a full member, unless the storage failed between counting its
\* last contribution and graduating it, and then the next one graduates it.
ProbationEnds ==
    \A a \in Registered :
        LET p == profile[a] IN
        p.status = "probationary" /\ p.contribution_count >= Threshold /\ p.contribution_count > 0
            => a \in cut

\* Who stays registered keeps its standing, whatever votes, contributions and
\* failures overlap: contributions are not lost and membership is not taken or
\* given, except by starting anew with a registration or an application.
StandingIsKept ==
    [][\A a \in Registered \intersect DOMAIN profile' :
         \/ profile'[a] \in {Newcomer(s) : s \in Status}
         \/ /\ profile'[a].contribution_count >= profile[a].contribution_count
            /\ \/ profile'[a].status = profile[a].status
               \/ profile'[a].status = "full" /\ profile'[a].contribution_count >= Threshold]_vars

\* Who was not registered comes in as a newcomer: a vote or a contribution that
\* was under way when the agent left does not bring it back.
ReturnsAreFresh ==
    [][\A a \in DOMAIN profile' \ Registered : profile'[a] \in {Newcomer(s) : s \in Status}]_vars

\* The operator is told of a valid sponsor only when that agent has been a full
\* member; agents on probation "cannot sponsor" (ADR-0013).
SponsorsWereMembers ==
    \A h \in Handler : handler[h].at = "put" => handler[h].vouched \in members \union {NoOne}
=============================================================================
