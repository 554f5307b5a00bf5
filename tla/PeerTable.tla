----------------------------- MODULE PeerTable -----------------------------
(***************************************************************************)
(* The peer table of one node and the three kinds of tasks that change it, *)
(* each of which reads the table in one storage call and writes it in a    *)
(* later one: PATCH /v1/peers/{node_id} (a weighted vote), the check that  *)
(* follows POST /v1/peers (a nudge), and the discovery sweep at startup    *)
(* (eviction and addition).                                                *)
(*                                                                         *)
(* A reputation in [0.0, 1.0] is a number of Top-ths, rounded down.  An    *)
(* action is what happens between two await points.                        *)
(***************************************************************************)
EXTENDS Integers, FiniteSets, Functions, FiniteSetsExt, Voting

CONSTANTS Peer,      \* the other nodes
          Announcer, \* bound: the peers that POST themselves
          Vote,      \* bound: PATCH requests in flight
          Check,     \* bound: verifications in flight
          Proposed,  \* bound: the reputations voters propose
          Claimed,   \* bound: the reputations found in other nodes' lists
          MaxPeers,  \* SWEFT_MAX_PEERS
          Top,       \* reputation 1.0
          Gain,      \* 0.02, for a verified peer
          Penalty,   \* 0.30, for a mismatch
          Sigma,     \* SWEFT_REPUTATION_VOTE_SIGMA_FACTOR (1 by default)
          KeepsClaim,\* a new peer keeps the reputation claimed (memory backend)
          MaxEntered,\* bound: the peers that POSTs enter
          MaxFaults  \* bound: failing storage calls and crashes

Neutral == Top \div 2
Reputation == 0 .. Top

ASSUME PeerTableAssumption ==
    /\ Top \in Nat \ {0} /\ Top % 2 = 0
    /\ Announcer \subseteq Peer
    /\ Proposed \subseteq Reputation /\ Claimed \subseteq Reputation
    /\ Gain \in Nat /\ Penalty \in Nat /\ Sigma \in Nat
    /\ MaxPeers \in Nat /\ MaxEntered \in Nat /\ MaxFaults \in Nat
    /\ KeepsClaim \in BOOLEAN

VARIABLES
    score,     \* the table: the reputation of each known peer
    vote,      \* the PATCH handlers
    check,     \* the verifications
    discovery, \* the sweep
    \* History, for the properties only.
    entered,   \* how often a POST entered a peer that was not known
    faults     \* faults so far

vars == <<score, vote, check, discovery, entered, faults>>

Known == DOMAIN score
Idle  == [at |-> "idle"]

\* What a PATCH handler, a verification and the sweep remember between two calls.
VoteTask ==
    {Idle}
    \union [at : {"listed"}, target : Peer, weight : Reputation, old : Reputation, proposed : Proposed]
    \union [at : {"write"}, target : Peer, new : Reputation]
CheckTask ==
    {Idle}
    \union [at : {"verify"}, peer : Peer]
    \union [at : {"write"}, peer : Peer, delta : {Gain, -Penalty}, new : Reputation]
Sweep ==
    {Idle}
    \union [at : {"list"}, peer : Peer, claim : Claimed]
    \union [at : {"remove"}, peer : Peer, claim : Claimed, worst : Peer]
    \union [at : {"add"}, peer : Peer, claim : Claimed]

TypeOK ==
    /\ Known \subseteq Peer
    /\ score \in [Known -> Reputation]
    /\ vote \in [Vote -> VoteTask]
    /\ check \in [Check -> CheckTask]
    /\ discovery \in Sweep
    /\ entered \in Nat
    /\ faults \in Nat

Init ==
    /\ score = <<>>
    /\ vote = [v \in Vote |-> Idle]
    /\ check = [c \in Check |-> Idle]
    /\ discovery = Idle
    /\ entered = 0 /\ faults = 0
-----------------------------------------------------------------------------
(***************************************************************************)
(* The storage calls.                                                      *)
(***************************************************************************)

\* Faulty variant: the entry is replaced.
AddPeerReplacing(p, claim) ==
    score' = [q \in Known \union {p} |-> IF q = p THEN Neutral ELSE score[q]]

\* add_peer: a known peer keeps its reputation.
AddPeer(p, claim) ==
    score' = [q \in Known \union {p} |->
                IF q \in Known THEN score[q] ELSE IF KeepsClaim THEN claim ELSE Neutral]

RemovePeer(p) == score' = Restrict(score, Known \ {p})

\* update_peer_reputation: nothing (NotFound) when the peer is not known.
UpdateReputation(p, r) ==
    score' = [q \in Known |-> IF q = p THEN r ELSE score[q]]

\* One more fault, while the budget lasts.
Fault == faults < MaxFaults /\ faults' = faults + 1
-----------------------------------------------------------------------------
(***************************************************************************)
(* Votes.                                                                  *)
(***************************************************************************)

\* Faulty variant: the threshold lies above the mean.
MayVoteStrictly(r) ==
    LET n == Cardinality(Known)
        sum == MapThenSumSet(LAMBDA p : score[p], Known)
    IN r * n > sum

MayVote(r) == AtThreshold(score, Sigma, r)

\* The request of a known caller about a known target: list_peers. (Others are
\* answered 403 or 404 and write nothing.)
VoteList(v, caller, target, r) ==
    /\ vote[v] = Idle
    /\ {caller, target} \subseteq Known
    /\ vote' = [vote EXCEPT ![v] = [at |-> "listed", target |-> target, proposed |-> r,
                                    weight |-> score[caller], old |-> score[target]]]
    /\ UNCHANGED <<score, check, discovery, entered, faults>>

\* peer_reputation_stats: the caller as listed against the table as it is now.
VoteStats(v) ==
    LET m == vote[v] IN
    /\ m.at = "listed"
    /\ \/ /\ MayVote(m.weight)
          /\ vote' = [vote EXCEPT ![v] =
                [at |-> "write", target |-> m.target,
                 new |-> Weighted(Top, m.old, m.proposed, m.weight)]]
          /\ UNCHANGED faults
       \/ ~MayVote(m.weight) /\ vote' = [vote EXCEPT ![v] = Idle] /\ UNCHANGED faults
       \/ Fault /\ vote' = [vote EXCEPT ![v] = Idle]
    /\ UNCHANGED <<score, check, discovery, entered>>

VoteWrite(v) ==
    /\ vote[v].at = "write"
    /\ vote' = [vote EXCEPT ![v] = Idle]
    /\ \/ UpdateReputation(vote[v].target, vote[v].new) /\ UNCHANGED faults
       \/ Fault /\ UNCHANGED score
    /\ UNCHANGED <<check, discovery, entered>>
-----------------------------------------------------------------------------
(***************************************************************************)
(* Announcements and the nudges that follow them.                          *)
(***************************************************************************)

\* POST /v1/peers: enter the peer, then verify it in the background. The cap is
\* not looked at.
Announce(c, p, claim) ==
    /\ p \in Announcer /\ check[c] = Idle
    /\ AddPeer(p, claim)
    /\ \/ p \in Known /\ UNCHANGED entered
       \/ p \notin Known /\ entered < MaxEntered /\ entered' = entered + 1
    /\ check' = [check EXCEPT ![c] = [at |-> "verify", peer |-> p]]
    /\ UNCHANGED <<vote, discovery, faults>>

\* Faulty variant: the sum is not clamped.
NudgedUnclamped(r, delta) == r + delta

\* clamp(r + delta, 0.0, 1.0)
Nudged(r, delta) == Max({0, Min({Top, r + delta})})

\* The discovery document was fetched, and confirms the id or not; then
\* list_peers: 0.5 stands for a peer that is no longer there.
NudgeRead(c, delta) ==
    LET p == check[c].peer
        old == IF p \in Known THEN score[p] ELSE Neutral
    IN
    /\ check[c].at = "verify"
    /\ check' = [check EXCEPT ![c] = [at |-> "write", peer |-> p, delta |-> delta,
                                      new |-> Nudged(old, delta)]]
    /\ UNCHANGED <<score, vote, discovery, entered, faults>>

\* The peer is unreachable or answers with an error status, or list_peers fails:
\* nothing is written.
NudgeNothing(c) ==
    /\ check[c].at = "verify"
    /\ check' = [check EXCEPT ![c] = Idle]
    /\ UNCHANGED <<score, vote, discovery, entered, faults>>

NudgeWrite(c) ==
    /\ check[c].at = "write"
    /\ check' = [check EXCEPT ![c] = Idle]
    /\ \/ UpdateReputation(check[c].peer, check[c].new) /\ UNCHANGED faults
       \/ Fault /\ UNCHANGED score
    /\ UNCHANGED <<vote, discovery, entered>>
-----------------------------------------------------------------------------
(***************************************************************************)
(* Discovery: one candidate at a time.                                     *)
(***************************************************************************)

\* An entry of another node's list that passed verify_peer, or could not be
\* reached.
Candidate(p, claim) ==
    /\ discovery = Idle
    /\ discovery' = [at |-> "list", peer |-> p, claim |-> claim]
    /\ UNCHANGED <<score, vote, check, entered, faults>>

\* The lowest reputation; among equals the table's order decides, any here.
Worst == {p \in Known : \A q \in Known : score[p] <= score[q]}

\* list_peers, where an error reads as an empty table (unwrap_or_default): with
\* room the candidate is added; else it must claim more than the worst peer has.
DiscoveryList ==
    LET d == discovery
        Add == discovery' = [at |-> "add", peer |-> d.peer, claim |-> d.claim]
        NoRoom == Cardinality(Known) >= MaxPeers
    IN
    /\ d.at = "list"
    /\ \/ ~NoRoom /\ Add /\ UNCHANGED faults
       \/ Known = {} /\ Add /\ UNCHANGED faults
       \/ /\ NoRoom
          /\ \E w \in Worst :
                discovery' = IF d.claim > score[w]
                             THEN [at |-> "remove", peer |-> d.peer, claim |-> d.claim, worst |-> w]
                             ELSE Idle
          /\ UNCHANGED faults
       \/ Fault /\ Add
    /\ UNCHANGED <<score, vote, check, entered>>

\* Faulty variant: the peer chosen for eviction stays.
DiscoveryRemoveNone ==
    /\ discovery.at = "remove"
    /\ discovery' = [at |-> "add", peer |-> discovery.peer, claim |-> discovery.claim]
    /\ UNCHANGED <<score, vote, check, entered, faults>>

\* remove_peer; an error gives the candidate up.
DiscoveryRemove ==
    /\ discovery.at = "remove"
    /\ \/ /\ RemovePeer(discovery.worst)
          /\ discovery' = [at |-> "add", peer |-> discovery.peer, claim |-> discovery.claim]
          /\ UNCHANGED faults
       \/ Fault /\ discovery' = Idle /\ UNCHANGED score
    /\ UNCHANGED <<vote, check, entered>>

DiscoveryAdd ==
    /\ discovery.at = "add"
    /\ discovery' = Idle
    /\ \/ AddPeer(discovery.peer, discovery.claim) /\ UNCHANGED faults
       \/ Fault /\ UNCHANGED score
    /\ UNCHANGED <<vote, check, entered>>
-----------------------------------------------------------------------------
\* The process stops and starts again: requests and tasks are gone, the sweep
\* begins anew. The memory backend forgets the table.
Crash ==
    /\ Fault
    /\ score' = IF KeepsClaim THEN <<>> ELSE score
    /\ vote' = [v \in Vote |-> Idle]
    /\ check' = [c \in Check |-> Idle]
    /\ discovery' = Idle
    /\ UNCHANGED entered

Next ==
    \/ \E v \in Vote, caller, target \in Peer, r \in Proposed : VoteList(v, caller, target, r)
    \/ \E v \in Vote : VoteStats(v) \/ VoteWrite(v)
    \/ \E c \in Check, p \in Peer, claim \in Claimed : Announce(c, p, claim)
    \/ \E c \in Check, delta \in {Gain, -Penalty} : NudgeRead(c, delta)
    \/ \E c \in Check : NudgeNothing(c) \/ NudgeWrite(c)
    \/ \E p \in Peer, claim \in Claimed : Candidate(p, claim)
    \/ DiscoveryList
    \/ DiscoveryRemove
    \/ DiscoveryAdd
    \/ Crash

Spec == Init /\ [][Next]_vars
-----------------------------------------------------------------------------
(***************************************************************************)
(* Properties.                                                             *)
(***************************************************************************)

\* The gate shuts nobody's table: whatever votes, nudges and evictions have
\* made of the reputations, some known peer may vote; and in a table where all
\* have the same reputation, everyone may.
SomeoneMayVote ==
    /\ Known # {} => \E p \in Known : MayVote(score[p])
    /\ (\A p, q \in Known : score[p] = score[q]) => \A p \in Known : MayVote(score[p])

Room == (IF MaxPeers = 0 THEN 1 ELSE MaxPeers) + entered + faults

\* Discovery fills the table to the cap (with a cap of 0, to one peer) and no
\* further: beyond it there is one peer for each time a POST entered one, and one
\* for each fault, for a failing list_peers lets a candidate in, however POSTs
\* fall between the sweep's own calls.  A peer that is evicted may enter again.
CapHolds ==
    Cardinality(Known) <= Room

\* The reputation of a peer that stays changes only by a vote or a nudge for
\* that peer which was about to be written: not by the peer's announcing itself
\* again, and not by being discovered again.
ReputationIsEarned ==
    [][\A p \in Known \intersect DOMAIN score' :
         score'[p] # score[p] =>
            \/ \E v \in Vote : vote[v].at = "write" /\ vote[v].target = p /\ vote'[v] = Idle
            \/ \E c \in Check : check[c].at = "write" /\ check[c].peer = p /\ check'[c] = Idle]_vars

\* handlers/peers.rs, verify_peer_reachability: the delta "is applied to the
\* peer's current reputation [...], preserving any community-voted value rather
\* than overwriting it".
NudgeKeepsVotes ==
    [][\A c \in Check :
         NudgeWrite(c) /\ check[c].peer \in Known /\ faults' = faults =>
            score'[check[c].peer] = Nudged(score[check[c].peer], check[c].delta)]_vars
-----------------------------------------------------------------------------
(***************************************************************************)
(* The inductive invariant of the proofs.                                  *)
(***************************************************************************)

\* There is room for the candidate that is about to be added, and the peer that is
\* to make room for it is still there.
SweepInv ==
    /\ discovery.at = "add" => Cardinality(Known \union {discovery.peer}) <= Room
    /\ discovery.at = "remove" => discovery.worst \in Known

IInv == TypeOK /\ IsFiniteSet(Known) /\ CapHolds /\ SweepInv
=============================================================================
