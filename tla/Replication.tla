---------------------------- MODULE Replication -----------------------------
(***************************************************************************)
(* Replication of the public unit stream between nodes: the unit store of  *)
(* every node, the handlers of POST /v1/units that write it, GET /v1/sync  *)
(* that serves it page by page, and the background task of every node that *)
(* pulls those pages from its peers and keeps one cursor per peer.         *)
(*                                                                         *)
(* An action is what happens between two await points.  The store of a     *)
(* node survives a crash (the SQLite backend); its handlers and its        *)
(* pulling task do not.                                                    *)
(***************************************************************************)
EXTENDS Units, FiniteSets

CONSTANTS Peers,         \* Peers[n]: the nodes in n's peer list
          Offered,       \* bound: Offered[n], the units clients submit to n
          PageLimit,     \* units in a page of GET /v1/sync (500 in the code)
          MaxHandlers,   \* bound: POST handlers in flight at one node
          MaxFaults,     \* bound: crashes, dropped handlers and failed calls
          Nobody         \* no node, no DID

ASSUME ReplicationAssumption ==
    /\ Peers \in [Node -> SUBSET Node]
    /\ Offered \in [Node -> SUBSET Unit]
    /\ PageLimit \in Nat \ {0}
    /\ MaxHandlers \in Nat
    /\ MaxFaults \in Nat
    /\ Nobody \notin Node

VARIABLES
    \* The storage of each node.
    store,       \* store[n]: the units node n holds
    credibility, \* credibility[n][u]: whose reputation the score of u at n was
                 \*   computed from: n itself, or the peer that served u
    cursor,      \* cursor[n][p]: last id n pulled from p, 0 before the first
    \* The POST /v1/units handlers in flight at each node.
    handlers,    \* handlers[n]: set of [unit, at]
    \* The federation task of each node, and its visit to one peer.
    phase,       \* where the task of n is
    todo,        \* peers still to be visited in this round
    peer,        \* the peer being visited
    page,        \* units of the received page not yet dealt with
    next,        \* `cursor' field of the received page, 0 when absent
    more,        \* its `has_more' field
    \* History, for the properties only.
    stream,      \* public units of the visited peer when the visit started
    since,       \* n's cursor for it at that moment
    published,   \* published[n]: units a client submitted to n with success
    answered,    \* answered[n]: units n answered 201 or 200 for
    faults       \* faults so far

storeVars   == <<store, credibility, published>>
visitVars   == <<peer, page, next, more, stream, since>>
vars == <<storeVars, cursor, handlers, phase, todo, visitVars, answered, faults>>

Handler == [unit : Unit, at : {"compare", "credit"}]
Phase   == {"asleep", "select", "request", "store", "credit"}

TypeOK ==
    /\ store \in [Node -> SUBSET Unit]
    /\ credibility \in [Node -> [Unit -> Node \union {Nobody}]]
    /\ cursor \in [Node -> [Node -> Nat]]
    /\ handlers \in [Node -> SUBSET Handler]
    /\ phase \in [Node -> Phase]
    /\ todo \in [Node -> SUBSET Node]
    /\ peer \in [Node -> Node \union {Nobody}]
    /\ page \in [Node -> SUBSET Unit]
    /\ next \in [Node -> Nat]
    /\ more \in [Node -> BOOLEAN]
    /\ published \in [Node -> SUBSET Unit]
    /\ answered \in [Node -> SUBSET Unit]
    /\ stream \in [Node -> SUBSET Unit]
    /\ since \in [Node -> Nat]
    /\ faults \in Nat

Init ==
    /\ store = [n \in Node |-> {}]
    /\ credibility = [n \in Node |-> [u \in Unit |-> Nobody]]
    /\ cursor = [n \in Node |-> [p \in Node |-> 0]]
    /\ handlers = [n \in Node |-> {}]
    /\ phase = [n \in Node |-> "asleep"]
    /\ todo = [n \in Node |-> {}]
    /\ peer = [n \in Node |-> Nobody]
    /\ page = [n \in Node |-> {}]
    /\ next = [n \in Node |-> 0]
    /\ more = [n \in Node |-> FALSE]
    /\ published = [n \in Node |-> {}]
    /\ answered = [n \in Node |-> {}]
    /\ stream = [n \in Node |-> {}]
    /\ since = [n \in Node |-> 0]
    /\ faults = 0
-----------------------------------------------------------------------------
(***************************************************************************)
(* Storage.                                                                *)
(***************************************************************************)

\* Faulty variant of put_unit: what has the id is replaced.
PutUnitReplacing(n, u) ==
    store' = [store EXCEPT ![n] = {v \in @ : v.id # u.id} \union {u}]

\* put_unit succeeds: no unit with this id was there.
PutUnit(n, u) ==
    /\ ~HasId(store[n], u.id)
    /\ store' = [store EXCEPT ![n] = @ \union {u}]

\* put_unit returns Conflict: the id is taken, the store keeps what it has.
PutConflict(n, u) ==
    /\ HasId(store[n], u.id)
    /\ UNCHANGED store

SetCredibility(n, u, source) ==
    credibility' = [credibility EXCEPT ![n][u] = source]

\* Faulty variant: the visibility filter is forgotten.
StreamOfAll(n, after) == {u \in store[n] : u.id > after}

\* list_units for the sync endpoint: the public units after the cursor, the
\* first PageLimit of them, in the order of their ids.
Stream(n, after) == {u \in store[n] : IsPublic(u) /\ u.id > after}

FirstPage(S) == {u \in S : Cardinality({v \in S : v.id < u.id}) < PageLimit}

\* i is the id of the last unit of the page S, 0 when S is empty.
IsLastId(S, i) ==
    \/ S = {} /\ i = 0
    \/ \E u \in S : u.id = i /\ \A v \in S : v.id <= i

\* One more fault, while the budget lasts.
Fault == faults < MaxFaults /\ faults' = faults + 1
-----------------------------------------------------------------------------
(***************************************************************************)
(* POST /v1/units at node n.                                               *)
(***************************************************************************)

\* Anyone may submit a public unit, only its author any other.
MaySubmit(u, caller) == IsPublic(u) \/ caller = u.author

\* Up to and including put_unit.  caller is the authenticated DID or Nobody.
Submit(n, u, caller) ==
    /\ u \in Offered[n] /\ Cardinality(handlers[n]) < MaxHandlers
    /\ MaySubmit(u, caller)
    /\ \/ /\ PutUnit(n, u)
          /\ published' = [published EXCEPT ![n] = @ \union {u}]
          /\ handlers' = [handlers EXCEPT ![n] = @ \union {[unit |-> u, at |-> "credit"]}]
       \/ /\ PutConflict(n, u)
          /\ handlers' = [handlers EXCEPT ![n] = @ \union {[unit |-> u, at |-> "compare"]}]
          /\ UNCHANGED published
    /\ UNCHANGED <<credibility, cursor, phase, todo, visitVars, answered, faults>>

\* Faulty variant: every resubmission of a known id is answered 200.
AnswerConflictBlindly(n, u) ==
    LET h == [unit |-> u, at |-> "compare"] IN
    /\ h \in handlers[n]
    /\ handlers' = [handlers EXCEPT ![n] = @ \ {h}]
    /\ answered' = [answered EXCEPT ![n] = @ \union {u}]
    /\ UNCHANGED <<storeVars, cursor, phase, todo, visitVars, faults>>

\* The id was taken: 200 when the stored unit is the submitted one, else 409.
AnswerConflict(n, u) ==
    LET h == [unit |-> u, at |-> "compare"] IN
    /\ h \in handlers[n]
    /\ handlers' = [handlers EXCEPT ![n] = @ \ {h}]
    /\ answered' = IF u \in store[n]
                   THEN [answered EXCEPT ![n] = @ \union {u}]
                   ELSE answered
    /\ UNCHANGED <<storeVars, cursor, phase, todo, visitVars, faults>>

\* The unit is new: its score is the author's reputation here.  A failing
\* storage call loses the score and nothing else; then 201.
AnswerCreated(n, u) ==
    LET h == [unit |-> u, at |-> "credit"] IN
    /\ h \in handlers[n]
    /\ handlers' = [handlers EXCEPT ![n] = @ \ {h}]
    /\ answered' = [answered EXCEPT ![n] = @ \union {u}]
    /\ \/ SetCredibility(n, u, n) /\ UNCHANGED faults
       \/ Fault /\ UNCHANGED credibility
    /\ UNCHANGED <<store, published, cursor, phase, todo, visitVars>>

\* The client goes away before the answer and the server drops the handler; or
\* a storage call fails and the answer is 500.
DropHandler(n) ==
    /\ \E h \in handlers[n] : handlers' = [handlers EXCEPT ![n] = @ \ {h}]
    /\ Fault
    /\ UNCHANGED <<storeVars, cursor, phase, todo, visitVars, answered>>
-----------------------------------------------------------------------------
(***************************************************************************)
(* The federation task of node n.                                          *)
(***************************************************************************)

\* sync_peer is running; it has a page in hand.
Visiting(n) == phase[n] \in {"request", "store", "credit"}
Working(n)  == phase[n] \in {"store", "credit"}

\* `run': the interval is over, list the peers.
WakeUp(n) ==
    /\ phase[n] = "asleep"
    /\ phase' = [phase EXCEPT ![n] = "select"]
    /\ todo' = [todo EXCEPT ![n] = Peers[n]]
    /\ UNCHANGED <<storeVars, cursor, handlers, visitVars, answered, faults>>

\* `run' calls sync_peer for the next peer of the round.
StartPeer(n, p) ==
    /\ phase[n] = "select"
    /\ p \in todo[n]
    /\ phase' = [phase EXCEPT ![n] = "request"]
    /\ todo' = [todo EXCEPT ![n] = @ \ {p}]
    /\ peer' = [peer EXCEPT ![n] = p]
    /\ stream' = [stream EXCEPT ![n] = Stream(p, 0)]
    /\ since' = [since EXCEPT ![n] = cursor[n][p]]
    /\ UNCHANGED <<storeVars, cursor, handlers, page, next, more, answered, faults>>

\* `run' has visited every peer and sleeps.
EndRound(n) ==
    /\ phase[n] = "select"
    /\ todo[n] = {}
    /\ phase' = [phase EXCEPT ![n] = "asleep"]
    /\ UNCHANGED <<storeVars, cursor, handlers, todo, visitVars, answered, faults>>

\* Faulty variant: has_more is computed after the page was truncated.
ServeSyncTruncated(n) ==
    LET served == FirstPage(Stream(peer[n], cursor[n][peer[n]])) IN
    /\ phase[n] = "request"
    /\ phase' = [phase EXCEPT ![n] = "store"]
    /\ page' = [page EXCEPT ![n] = served]
    /\ \E i \in {0} \union {u.id : u \in served} :
          IsLastId(served, i) /\ next' = [next EXCEPT ![n] = i]
    /\ more' = [more EXCEPT ![n] = Cardinality(served) > PageLimit]
    /\ UNCHANGED <<storeVars, cursor, handlers, todo, peer, stream, since, answered, faults>>

\* The peer serves GET /v1/sync?after=<cursor>: the page is what the peer
\* holds now, and is only processed by later steps of n.
ServeSync(n) ==
    LET available == Stream(peer[n], cursor[n][peer[n]])
        served    == FirstPage(available)
    IN
    /\ phase[n] = "request"
    /\ phase' = [phase EXCEPT ![n] = "store"]
    /\ page' = [page EXCEPT ![n] = served]
    /\ \E i \in {0} \union {u.id : u \in served} :
          IsLastId(served, i) /\ next' = [next EXCEPT ![n] = i]
    /\ more' = [more EXCEPT ![n] = served # available]
    /\ UNCHANGED <<storeVars, cursor, handlers, todo, peer, stream, since, answered, faults>>

\* The units of the page are handled in the order of their ids.
IsHead(n, u) == u \in page[n] /\ \A v \in page[n] : u.id <= v.id

\* Faulty variant: a unit that was there already counts as new.
StorePulledAlwaysNew(n, u) ==
    /\ phase[n] = "store"
    /\ IsHead(n, u)
    /\ PutUnit(n, u) \/ PutConflict(n, u)
    /\ phase' = [phase EXCEPT ![n] = "credit"]
    /\ UNCHANGED <<credibility, published, cursor, handlers, todo, visitVars, answered, faults>>

\* put_unit of the next unit of the page.  A taken id is passed over,
\* whatever the stored unit is.
StorePulled(n, u) ==
    /\ phase[n] = "store"
    /\ IsHead(n, u)
    /\ \/ /\ PutUnit(n, u)
          /\ phase' = [phase EXCEPT ![n] = "credit"]
          /\ UNCHANGED page
       \/ /\ PutConflict(n, u)
          /\ page' = [page EXCEPT ![n] = @ \ {u}]
          /\ UNCHANGED phase
    /\ UNCHANGED <<credibility, published, cursor, handlers, todo, peer, next, more,
                   stream, since, answered, faults>>

\* The unit was new: score it by the peer and the author's reputation there.
\* A failing storage call loses the score and nothing else.
ScorePulled(n, u) ==
    /\ phase[n] = "credit"
    /\ IsHead(n, u)
    /\ \/ SetCredibility(n, u, peer[n]) /\ UNCHANGED faults
       \/ Fault /\ UNCHANGED credibility
    /\ phase' = [phase EXCEPT ![n] = "store"]
    /\ page' = [page EXCEPT ![n] = @ \ {u}]
    /\ UNCHANGED <<store, published, cursor, handlers, todo, peer, next, more,
                   stream, since, answered>>

\* The locals of sync_peer go out of scope.
LeaveVisit(n) ==
    /\ peer' = [peer EXCEPT ![n] = Nobody]
    /\ page' = [page EXCEPT ![n] = {}]
    /\ next' = [next EXCEPT ![n] = 0]
    /\ more' = [more EXCEPT ![n] = FALSE]
    /\ stream' = [stream EXCEPT ![n] = {}]
    /\ since' = [since EXCEPT ![n] = 0]

\* Faulty variants of set_cursor: an empty page erases the cursor, and the cursor
\* is never written.
SetCursorOrNone(n) ==
    cursor' = [cursor EXCEPT ![n][peer[n]] = IF next[n] = 0 THEN Nobody ELSE next[n]]

SetCursorNever(n) == n \in Node /\ UNCHANGED cursor

\* set_cursor, when the response had a cursor.
SetCursor(n) ==
    cursor' = IF next[n] = 0 THEN cursor
              ELSE [cursor EXCEPT ![n][peer[n]] = next[n]]

\* The page is finished and the peer has more: sync_peer asks for the rest.
NextPage(n) ==
    /\ phase[n] = "store"
    /\ page[n] = {}
    /\ more[n]
    /\ SetCursor(n)
    /\ phase' = [phase EXCEPT ![n] = "request"]
    /\ UNCHANGED <<storeVars, handlers, todo, visitVars, answered, faults>>

\* The page is finished and was the last: sync_peer returns with success.
Drained(n) == phase[n] = "store" /\ page[n] = {} /\ ~more[n]

FinishPeer(n) ==
    /\ Drained(n)
    /\ SetCursor(n)
    /\ phase' = [phase EXCEPT ![n] = "select"]
    /\ LeaveVisit(n)
    /\ UNCHANGED <<storeVars, handlers, todo, answered, faults>>

\* Faulty variant: the cursor moves although the page was not finished.
SyncErrorAdvancing(n) ==
    /\ Visiting(n)
    /\ Fault
    /\ SetCursor(n)
    /\ phase' = [phase EXCEPT ![n] = "select"]
    /\ LeaveVisit(n)
    /\ UNCHANGED <<storeVars, handlers, todo, answered>>

\* An error ends the visit and leaves the cursor: the request or its response
\* is lost or bad, or a storage call other than set_unit_credibility fails.
\* put_unit may have stored the unit before it fails (SQLite, in the insert
\* into unit_references): the unit then gets no score.
SyncError(n) ==
    /\ Visiting(n)
    /\ Fault
    /\ phase' = [phase EXCEPT ![n] = "select"]
    /\ LeaveVisit(n)
    /\ UNCHANGED <<storeVars, cursor, handlers, todo, answered>>

\* The process of n dies and is started again on the same database.
Crash(n) ==
    /\ Fault
    /\ handlers' = [handlers EXCEPT ![n] = {}]
    /\ phase' = [phase EXCEPT ![n] = "asleep"]
    /\ todo' = [todo EXCEPT ![n] = {}]
    /\ LeaveVisit(n)
    /\ UNCHANGED <<storeVars, cursor, answered>>
-----------------------------------------------------------------------------
\* A POST handler goes on.
HandlerStep(n) == \E u \in Unit : AnswerConflict(n, u) \/ AnswerCreated(n, u)

\* The federation task goes on.
TaskStep(n) ==
    \/ WakeUp(n)
    \/ \E p \in Node : StartPeer(n, p)
    \/ EndRound(n)
    \/ ServeSync(n)
    \/ \E u \in Unit : StorePulled(n, u) \/ ScorePulled(n, u)
    \/ NextPage(n)
    \/ FinishPeer(n)

Next ==
    \E n \in Node :
        \/ \E u \in Unit, caller \in Author \union {Nobody} : Submit(n, u, caller)
        \/ HandlerStep(n)
        \/ DropHandler(n)
        \/ TaskStep(n)
        \/ SyncError(n)
        \/ Crash(n)

\* Handlers and the federation task are runtime tasks that keep being polled,
\* every HTTP call of the task has a timeout, and the loop never returns.
Fairness == \A n \in Node : WF_vars(TaskStep(n)) /\ WF_vars(HandlerStep(n))

Spec == Init /\ [][Next]_vars

FairSpec == Spec /\ Fairness
-----------------------------------------------------------------------------
(***************************************************************************)
(* Properties.                                                             *)
(***************************************************************************)

\* However client posts and pulled pages race for an id, a node ends up with
\* one unit under it (put_unit's Conflict on both paths).
OneUnitPerId ==
    \A n \in Node : \A u, v \in store[n] : u.id = v.id => u = v

\* A unit a client was told is stored (201, or 200 on resubmission) is held
\* by that node with exactly that content, through conflicts and crashes.
AnsweredIsHeld == \A n \in Node : answered[n] \subseteq store[n]

\* A non-public unit never leaves the node its author submitted it to by way
\* of the sync stream, nor waits in a page another node is working on.
PrivateStaysHome ==
    \A n \in Node :
        /\ \A u \in store[n] : IsPublic(u) \/ u \in published[n]
        /\ \A u \in page[n] : IsPublic(u)

\* When sync_peer is about to return with success, the node holds every id of
\* the peer's public stream, as of the time of the call, past its cursor.
DrainedIsComplete ==
    \A n \in Node : Drained(n) =>
        \A u \in stream[n] : u.id > since[n] => HasId(store[n], u.id)

\* The handler, or the federation task, has stored u at n and owes it a score.
HandlerOwes(n, u) == [unit |-> u, at |-> "credit"] \in handlers[n]
TaskOwes(n, u)    == phase[n] = "credit" /\ IsHead(n, u)

\* Of all the handlers and the pulling task that race to store a unit, only
\* one goes on to score it, and nobody owes a score to a unit that has one.
OneScorerAt(n) ==
    \A u \in Unit :
        /\ ~(HandlerOwes(n, u) /\ TaskOwes(n, u))
        /\ HandlerOwes(n, u) \/ TaskOwes(n, u) =>
              u \in store[n] /\ credibility[n][u] = Nobody

OneScorer == \A n \in Node : OneScorerAt(n)

\* The score a unit was given when it was stored is never overwritten by a
\* later submission or by another peer that also serves the unit.
ScoreIsFinal ==
    [][\A n \in Node, u \in Unit :
          credibility[n][u] # Nobody => credibility'[n][u] = credibility[n][u]]_vars

\* The cursor for a peer never moves back, over pages, errors and restarts.
CursorNeverRetreats ==
    [][\A n, p \in Node : cursor[n][p] <= cursor'[n][p]]_vars

\* The nodes implement the grow-only graph of module UnitGraph.
Graph == INSTANCE UnitGraph WITH held <- store

ImplementsUnitGraph == Graph!GraphSpec

\* u is in the public stream of p, past the cursor n keeps for it, and the page n
\* may have in hand either carries it or ends before it.
Ahead(n, p, u) ==
    /\ u \in Stream(p, cursor[n][p])
    /\ peer[n] = p /\ phase[n] \in {"store", "credit"} => u \in page[n] \/ u.id > next[n]

\* Such a unit reaches n: no error, restart or concurrent submission makes
\* the puller step over it for good.
AheadIsPulled ==
    \A n \in Node : \A p \in Peers[n], u \in Unit :
        Ahead(n, p, u) ~> HasId(store[n], u.id)

\* A round of `run' always comes to an end: sync_peer cannot loop on a page.
RoundsEnd == \A n \in Node : phase[n] # "asleep" ~> phase[n] = "asleep"

\* federation.rs, sync_peer: "brings the local store fully up to date with the
\* peer's public unit stream as of the time of the call".
UpToDateAfterSync ==
    \A n \in Node : Drained(n) => \A u \in stream[n] : HasId(store[n], u.id)
-----------------------------------------------------------------------------
(***************************************************************************)
(* The inductive invariant behind the safety properties.                   *)
(***************************************************************************)

\* A store is finite, and what has a score is stored.
StoreInv ==
    \A n \in Node :
        /\ IsFiniteSet(store[n])
        /\ \A u \in Unit : credibility[n][u] # Nobody => u \in store[n]

\* A page is part of what the visited peer holds, lies past the cursor, and is
\* empty outside a visit.
PageInvAt(n) ==
    /\ Visiting(n) => peer[n] \in Node
    /\ ~Working(n) => page[n] = {}
    /\ Working(n) =>
          /\ page[n] \subseteq store[peer[n]]
          /\ next[n] # 0 => cursor[n][peer[n]] < next[n]

PageInv == \A n \in Node : PageInvAt(n)

\* What the peer's stream held when the visit began is accounted for: up to the
\* cursor it is stored, from there to the end of the page it is stored or in
\* hand, and after the last page there is nothing more.
VisitInvAt(n) ==
    /\ Visiting(n) =>
          /\ stream[n] \subseteq Stream(peer[n], 0)
          /\ since[n] <= cursor[n][peer[n]]
          /\ \A u \in stream[n] :
                since[n] < u.id /\ u.id <= cursor[n][peer[n]] => HasId(store[n], u.id)
    /\ Working(n) =>
          \A u \in stream[n] : u.id > cursor[n][peer[n]] =>
              /\ u.id <= next[n] => u \in page[n] \/ HasId(store[n], u.id)
              /\ u.id <= next[n] \/ more[n]

VisitInv == \A n \in Node : VisitInvAt(n)

IInv ==
    /\ TypeOK
    /\ OneUnitPerId
    /\ AnsweredIsHeld
    /\ PrivateStaysHome
    /\ OneScorer
    /\ StoreInv
    /\ PageInv
    /\ VisitInv
=============================================================================
