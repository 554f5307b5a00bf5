------------------------------ MODULE Storage -------------------------------
(***************************************************************************)
(* What the trait Storage promises to the handlers: every call is one      *)
(* step, as in the memory backend, whose calls each run under one lock.    *)
(* Where a backend runs several statements for a call, the call may fail   *)
(* half-way, and the promise says what it may leave behind.  Module        *)
(* SqliteStorage is shown to implement this specification.                 *)
(*                                                                         *)
(* The body of a unit has its type, its creation time and the ids it       *)
(* references.                                                             *)
(***************************************************************************)
EXTENDS Units, FiniteSets, Functions

CONSTANTS UnitType,
          Base,       \* api_base URLs
          Key, Value, \* of the node configuration
          Top,        \* reputation 1.0
          Threshold,  \* contributions at which probation ends
          Nobody      \* no DID

Neutral == Top \div 2
Reputation == 0 .. Top
AgentProfile == [status : {"full", "probationary"}, contribution_count : Nat, reputation : Reputation]

\* What register and apply store; they never store anything else.
Newcomers == [status : {"full", "probationary"}, contribution_count : {0}, reputation : {Neutral}]

PeerInfo == [api_base : Base, reputation : Reputation]

VARIABLES
    units,        \* the stored units
    credibility,  \* their scores; a unit without one is not in its domain
    agents,       \* the profiles, by DID
    inbox,        \* inbox[d]: the units in the inbox of d
    follows,      \* set of <<follower, followee>>
    peers,        \* the known peers, by node id
    cursors,      \* the sync cursors, by peer
    config,       \* the node configuration, by key
    lost,         \* references of stored units that nobody will find
    reply         \* what the last call returned

unitVars  == <<units, credibility, lost>>
agentVars == <<agents, inbox>>
nodeVars  == <<peers, cursors, config>>
storageVars == <<unitVars, agentVars, follows, nodeVars, reply>>

Init ==
    /\ units = {} /\ credibility = <<>> /\ lost = {}
    /\ agents = <<>> /\ inbox = [d \in Author |-> {}]
    /\ follows = {}
    /\ peers = <<>> /\ cursors = <<>> /\ config = <<>>
    /\ reply = "none"
-----------------------------------------------------------------------------
\* insert of a map: f with v at x.
Put(f, x, v) == [y \in DOMAIN f \union {x} |-> IF y = x THEN v ELSE f[y]]
Remove(f, x) == Restrict(f, DOMAIN f \ {x})

Return(r) == reply' = r

\* The references of u, as pairs of ids.
Edges(u) == {<<u.id, i>> : i \in u.body.references}
-----------------------------------------------------------------------------
(***************************************************************************)
(* Calls that write.                                                       *)
(***************************************************************************)
PutUnit(u) ==
    /\ \/ HasId(units, u.id) /\ Return("conflict") /\ UNCHANGED units
       \/ ~HasId(units, u.id) /\ Return("ok") /\ units' = units \union {u}
    /\ UNCHANGED <<credibility, lost, agentVars, follows, nodeVars>>

SetUnitCredibility(i, score) ==
    /\ \/ HasId(units, i) /\ Return("ok") /\ credibility' = Put(credibility, i, score)
       \/ ~HasId(units, i) /\ Return("not_found") /\ UNCHANGED credibility
    /\ UNCHANGED <<units, lost, agentVars, follows, nodeVars>>

PutAgent(d, p) ==
    /\ agents' = Put(agents, d, p)
    /\ Return("ok")
    /\ UNCHANGED <<unitVars, inbox, follows, nodeVars>>

\* The profile and the inbox go together; follows stay.
DeleteAgent(d) ==
    /\ agents' = Remove(agents, d)
    /\ inbox' = [inbox EXCEPT ![d] = {}]
    /\ Return("ok")
    /\ UNCHANGED <<unitVars, follows, nodeVars>>

Counted(p) == [p EXCEPT !.contribution_count = @ + 1]
Graduates(p) == p.status = "probationary" /\ p.contribution_count >= Threshold

IncrementAgentContribution(d) ==
    /\ \/ d \notin DOMAIN agents /\ Return("false") /\ UNCHANGED agents
       \/ /\ d \in DOMAIN agents
          /\ LET p == Counted(agents[d]) IN
             \/ /\ Graduates(p) /\ Return("true")
                /\ agents' = [agents EXCEPT ![d] = [p EXCEPT !.status = "full"]]
             \/ ~Graduates(p) /\ Return("false") /\ agents' = [agents EXCEPT ![d] = p]
    /\ UNCHANGED <<unitVars, inbox, follows, nodeVars>>

UpdateAgentReputation(d, r) ==
    /\ \/ d \notin DOMAIN agents /\ Return("not_found") /\ UNCHANGED agents
       \/ /\ d \in DOMAIN agents /\ Return("ok")
          /\ agents' = [agents EXCEPT ![d].reputation = r]
    /\ UNCHANGED <<unitVars, inbox, follows, nodeVars>>

AddFollow(d, e) ==
    /\ follows' = follows \union {<<d, e>>}
    /\ Return("ok")
    /\ UNCHANGED <<unitVars, agentVars, nodeVars>>

RemoveFollow(d, e) ==
    /\ follows' = follows \ {<<d, e>>}
    /\ Return("ok")
    /\ UNCHANGED <<unitVars, agentVars, nodeVars>>

\* A known peer keeps its reputation.  The backends differ in what a newcomer
\* gets: what it claims in memory, the neutral reputation in SQLite.
AddPeer(n, p) ==
    /\ \/ n \in DOMAIN peers /\ peers' = [peers EXCEPT ![n].api_base = p.api_base]
       \/ /\ n \notin DOMAIN peers
          /\ \E r \in {p.reputation, Neutral} : peers' = Put(peers, n, [p EXCEPT !.reputation = r])
    /\ Return("ok")
    /\ UNCHANGED <<unitVars, agentVars, follows, cursors, config>>

RemovePeer(n) ==
    /\ peers' = Remove(peers, n)
    /\ Return("ok")
    /\ UNCHANGED <<unitVars, agentVars, follows, cursors, config>>

UpdatePeerReputation(n, r) ==
    /\ \/ n \notin DOMAIN peers /\ Return("not_found") /\ UNCHANGED peers
       \/ n \in DOMAIN peers /\ Return("ok") /\ peers' = [peers EXCEPT ![n].reputation = r]
    /\ UNCHANGED <<unitVars, agentVars, follows, cursors, config>>

SetNodeConfig(k, v) ==
    /\ config' = Put(config, k, v)
    /\ Return("ok")
    /\ UNCHANGED <<unitVars, agentVars, follows, peers, cursors>>

SetCursor(n, i) ==
    /\ cursors' = Put(cursors, n, i)
    /\ Return("ok")
    /\ UNCHANGED <<unitVars, agentVars, follows, peers, config>>

\* The first unit with an id stays.
DeliverToInbox(d, u) ==
    /\ inbox' = IF HasId(inbox[d], u.id) THEN inbox ELSE [inbox EXCEPT ![d] = @ \union {u}]
    /\ Return("ok")
    /\ UNCHANGED <<unitVars, agents, follows, nodeVars>>
-----------------------------------------------------------------------------
(***************************************************************************)
(* Calls that fail, with an internal error or with the process.            *)
(***************************************************************************)
Failed == Return("internal") \/ Return("none")

FailWithoutTrace ==
    /\ Failed
    /\ UNCHANGED <<unitVars, agentVars, follows, nodeVars>>

\* The unit is stored and some of its references are not indexed.  put_unit will
\* answer Conflict from now on, so that they are lost for good.
FailPutUnit(u, E) ==
    /\ ~HasId(units, u.id) /\ E \subseteq Edges(u)
    /\ units' = units \union {u}
    /\ lost' = lost \union E
    /\ Failed
    /\ UNCHANGED <<credibility, agentVars, follows, nodeVars>>

\* The profile is gone, the inbox is still there.
FailDeleteAgent(d) ==
    /\ agents' = Remove(agents, d)
    /\ Failed
    /\ UNCHANGED <<unitVars, inbox, follows, nodeVars>>

\* The contribution counts, and the agent has not graduated by it.
FailIncrement(d) ==
    /\ d \in DOMAIN agents
    /\ agents' = [agents EXCEPT ![d] = Counted(@)]
    /\ Failed
    /\ UNCHANGED <<unitVars, inbox, follows, nodeVars>>
-----------------------------------------------------------------------------
Next ==
    \/ \E u \in Unit : PutUnit(u) \/ (\E E \in SUBSET Edges(u) : FailPutUnit(u, E))
    \/ \E u \in Unit, s \in Reputation : SetUnitCredibility(u.id, s)
    \/ \E d \in Author :
          \/ \E p \in Newcomers : PutAgent(d, p)
          \/ DeleteAgent(d) \/ FailDeleteAgent(d)
          \/ IncrementAgentContribution(d) \/ FailIncrement(d)
          \/ \E r \in Reputation : UpdateAgentReputation(d, r)
          \/ \E e \in Author : AddFollow(d, e) \/ RemoveFollow(d, e)
          \/ \E u \in Unit : DeliverToInbox(d, u)
    \/ \E n \in Node :
          \/ \E p \in PeerInfo : AddPeer(n, p)
          \/ RemovePeer(n)
          \/ \E r \in Reputation : UpdatePeerReputation(n, r)
          \/ \E u \in Unit : SetCursor(n, u.id)
    \/ \E k \in Key, v \in Value : SetNodeConfig(k, v)
    \/ FailWithoutTrace

Spec == Init /\ [][Next]_storageVars
-----------------------------------------------------------------------------
(***************************************************************************)
(* Calls that read.                                                        *)
(***************************************************************************)

\* What the handlers ask list_units for: 0, Nobody or {} for what is absent.
UnitFilter == [unit_types : SUBSET UnitType, author : Author \union {Nobody}, since : Nat,
               after : Nat, limit : Nat \ {0}, visibilities : SUBSET Visibility,
               network_for_authors : SUBSET Author]

Matches(u, f) ==
    /\ f.unit_types # {} => u.body.type \in f.unit_types
    /\ f.author # Nobody => u.author = f.author
    /\ u.body.created >= f.since
    /\ f.visibilities # {} =>
          /\ u.visibility \in f.visibilities
          /\ u.visibility = "network" /\ f.network_for_authors # {} =>
                u.author \in f.network_for_authors

\* The first n units of S, in the order of their ids.
Take(S, n) == {u \in S : Cardinality({v \in S : v.id < u.id}) < n}

\* One more than the limit is taken, to see whether there are more.
Truncated(S, limit) == [items |-> Take(S, limit), has_more |-> Cardinality(S) > limit]

ListUnits(f) ==
    Truncated(Take({u \in units : u.id > f.after /\ Matches(u, f)}, f.limit + 1), f.limit)

GetReferencingUnits(i) ==
    {u \in units : i \in u.body.references /\ <<u.id, i>> \notin lost}

GetInbox(d, after, limit) ==
    Truncated(Take({u \in inbox[d] : u.id > after}, limit + 1), limit)
=============================================================================
