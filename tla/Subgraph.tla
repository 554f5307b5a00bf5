------------------------------ MODULE Subgraph ------------------------------
(***************************************************************************)
(* GET /v1/units/{id}/subgraph at one node: the handler loads the units    *)
(* around a root from storage, hop by hop and one storage call at a time,  *)
(* while clients go on submitting units; then core's Graph::subgraph picks *)
(* the answer out of what was loaded.                                      *)
(*                                                                         *)
(* The body of a unit is the set of ids it references: of stored units, of *)
(* units not stored, or of the unit itself.                                *)
(***************************************************************************)
EXTENDS Units, FiniteSets

CONSTANTS Submitted,   \* bound: the units submitted here
          MaxDepth,    \* depth of the request (10 by default, at most 50)
          MaxFaults    \* bound: failing storage calls

ASSUME SubgraphAssumption ==
    /\ Body \subseteq SUBSET (Nat \ {0})
    /\ Submitted \subseteq Unit
    /\ MaxDepth \in Nat
    /\ MaxFaults \in Nat

VARIABLES
    store,     \* the units the node holds
    \* The locals of the handler.
    pc,        \* where the handler is
    root,      \* the id asked for, 0 before the request
    depth,     \* hops made
    frontier,  \* ids whose edges are to be followed in this hop
    ahead,     \* ids found in this hop (next_frontier)
    current,   \* the id whose edges are being followed, 0 when none
    refs,      \* ids current references that are still to be looked at
    graph,     \* the units loaded
    answer,    \* the units of the response
    \* History, for the properties only.
    start,     \* what the node held when the request arrived
    faults     \* faults so far

searchVars == <<depth, frontier, ahead, current, refs, graph>>
vars == <<store, pc, root, searchVars, answer, start, faults>>

Id == {u.id : u \in Unit}

TypeOK ==
    /\ store \subseteq Unit
    /\ pc \in {"none", "root", "search", "references", "referencing", "done", "failed"}
    /\ root \in Id \union {0}
    /\ depth \in 0 .. MaxDepth
    /\ frontier \subseteq Id /\ ahead \subseteq Id
    /\ current \in Id \union {0}
    /\ refs \subseteq UNION Body
    /\ graph \subseteq Unit /\ answer \subseteq graph
    /\ start \subseteq Unit
    /\ faults \in Nat

Init ==
    /\ store = {} /\ pc = "none" /\ root = 0
    /\ depth = 0 /\ frontier = {} /\ ahead = {} /\ current = 0 /\ refs = {}
    /\ graph = {} /\ answer = {} /\ start = {} /\ faults = 0
-----------------------------------------------------------------------------
(***************************************************************************)
(* The traversals of core's Graph, over a set G of units.                  *)
(***************************************************************************)

\* u references v.
References(u, v) == v.id \in u.body

\* The edges between the units of G, followed along the references and against.
Outgoing(G) == {e \in G \X G : References(e[1], e[2])}
Incoming(G) == {e \in G \X G : References(e[2], e[1])}

\* One edge of E further than S.
Neighbours(E, S) == {e[2] : e \in {d \in E : d[1] \in S}}

\* What lies at most k edges from S, S included, as a breadth-first search goes.
Hops(E, S, k) ==
    LET hops[n \in 0 .. k] == IF n = 0 THEN S
                              ELSE hops[n - 1] \union Neighbours(E, hops[n - 1])
    IN hops[k]

\* The units of G at most k edges from the unit with id i, along references
\* (ancestors) and against them (descendants), that unit included.
WithId(G, i) == {u \in G : u.id = i}
Up(G, i, k) == Hops(Outgoing(G), WithId(G, i), k)
Down(G, i, k) == Hops(Incoming(G), WithId(G, i), k)

\* A path without repetition is shorter than the number of units.
LongestPath(G) == Cardinality(G)

\* Faulty variant: every unit that was loaded.
LoadedOf(G, i) == IF HasId(G, i) THEN G ELSE {}

\* Graph::subgraph: all ancestors, all descendants and the unit itself.
SubgraphOf(G, i) == Up(G, i, LongestPath(G)) \union Down(G, i, LongestPath(G))
-----------------------------------------------------------------------------
\* One more fault, while the budget lasts.
Fault == faults < MaxFaults /\ faults' = faults + 1

\* Another handler, or the federation task, stores a unit.
Submit(u) ==
    /\ u \in Submitted /\ ~HasId(store, u.id)
    /\ store' = store \union {u}
    /\ UNCHANGED <<pc, root, searchVars, answer, start, faults>>

\* The request arrives.
Request(i) ==
    /\ pc = "none"
    /\ pc' = "root" /\ root' = i /\ start' = store
    /\ UNCHANGED <<store, searchVars, answer, faults>>

\* get_unit for the root: 404 unless it is there and public.
LoadRoot ==
    /\ pc = "root"
    /\ \/ \E u \in store :
             /\ u.id = root /\ IsPublic(u)
             /\ pc' = "search" /\ graph' = {u} /\ frontier' = {root}
             /\ UNCHANGED faults
       \/ /\ \A u \in store : u.id = root => ~IsPublic(u)
          /\ pc' = "failed" /\ UNCHANGED <<graph, frontier, faults>>
       \/ Fault /\ pc' = "failed" /\ UNCHANGED <<graph, frontier>>
    /\ UNCHANGED <<store, root, depth, ahead, current, refs, answer, start>>

\* The next id of the frontier: the references of its unit, as loaded.
Expand(i) ==
    /\ pc = "search" /\ depth < MaxDepth
    /\ i \in frontier
    /\ frontier' = frontier \ {i}
    /\ current' = i
    /\ refs' = UNION {u.body : u \in {v \in graph : v.id = i}}
    /\ pc' = "references"
    /\ UNCHANGED <<store, root, depth, ahead, graph, answer, start, faults>>

\* Faulty variant: an id that is not found is followed nevertheless.
LoadReferencedBlindly(i) ==
    /\ pc = "references" /\ i \in refs
    /\ refs' = refs \ {i}
    /\ graph' = graph \union {u \in store : u.id = i /\ ~HasId(graph, i)}
    /\ ahead' = ahead \union {i}
    /\ UNCHANGED <<store, pc, root, depth, frontier, current, answer, start, faults>>

\* A reference of the current unit: skipped when it is loaded; else get_unit,
\* where a unit that is not there and an error are passed over alike.
LoadReferenced(i) ==
    /\ pc = "references" /\ i \in refs
    /\ refs' = refs \ {i}
    /\ \/ \E u \in store :
             /\ u.id = i /\ ~HasId(graph, i)
             /\ graph' = graph \union {u} /\ ahead' = ahead \union {i}
             /\ UNCHANGED faults
       \/ /\ HasId(graph, i) \/ ~HasId(store, i)
          /\ UNCHANGED <<graph, ahead, faults>>
       \/ ~HasId(graph, i) /\ Fault /\ UNCHANGED <<graph, ahead>>
    /\ UNCHANGED <<store, pc, root, depth, frontier, current, answer, start>>

ReferencesDone ==
    /\ pc = "references" /\ refs = {}
    /\ pc' = "referencing"
    /\ UNCHANGED <<store, root, searchVars, answer, start, faults>>

\* Faulty variant: what references the unit is loaded, and not followed.
LoadReferencingDry ==
    /\ pc = "referencing"
    /\ graph' = graph \union {u \in store : current \in u.body /\ ~HasId(graph, u.id)}
    /\ pc' = "search" /\ current' = 0
    /\ UNCHANGED <<store, root, depth, frontier, ahead, refs, answer, start, faults>>

\* get_referencing_units for the current unit; an error ends the request.
LoadReferencing ==
    LET found == {u \in store : current \in u.body /\ ~HasId(graph, u.id)} IN
    /\ pc = "referencing"
    /\ \/ /\ graph' = graph \union found
          /\ ahead' = ahead \union {u.id : u \in found}
          /\ pc' = "search" /\ current' = 0 /\ UNCHANGED faults
       \/ Fault /\ pc' = "failed" /\ UNCHANGED <<graph, ahead, current>>
    /\ UNCHANGED <<store, root, depth, frontier, refs, answer, start>>

\* The frontier is exhausted: the hop is over. After the last one Expand is no
\* longer possible, and Respond is.
EndHop ==
    /\ pc = "search"
    /\ frontier = {} /\ ahead # {}
    /\ depth' = depth + 1
    /\ frontier' = ahead /\ ahead' = {}
    /\ UNCHANGED <<store, pc, root, current, refs, graph, answer, start, faults>>

\* Nothing was found in the last hop, or it was the last allowed: answer 200.
Respond ==
    /\ pc = "search"
    /\ depth = MaxDepth \/ (frontier = {} /\ ahead = {})
    /\ pc' = "done"
    /\ answer' = SubgraphOf(graph, root)
    /\ UNCHANGED <<store, root, searchVars, start, faults>>

HandlerStep ==
    \/ LoadRoot
    \/ \E i \in frontier : Expand(i)
    \/ \E i \in refs : LoadReferenced(i)
    \/ ReferencesDone
    \/ LoadReferencing
    \/ EndHop
    \/ Respond

Next ==
    \/ \E u \in Unit : Submit(u)
    \/ \E i \in Id : Request(i)
    \/ HandlerStep

Spec == Init /\ [][Next]_vars
-----------------------------------------------------------------------------
(***************************************************************************)
(* Properties.                                                             *)
(***************************************************************************)

\* Without a failing call the answer has every unit that was within MaxDepth
\* hops of the root in either direction when the request arrived, however many
\* units arrive while the handler searches.
AnswerIsComplete ==
    pc = "done" /\ faults = 0 =>
        Up(start, root, MaxDepth) \union Down(start, root, MaxDepth) \subseteq answer

\* The answer has the root, and can be walked: from the root, along references
\* or against them and without leaving the answer, one comes to all of it. A
\* sibling loaded on the way (what another unit referencing the same one is) is
\* not in it.
AnswerIsConnected ==
    pc = "done" =>
        /\ HasId(answer, root)
        /\ answer = Up(answer, root, LongestPath(answer)) \union Down(answer, root, LongestPath(answer))

\* handlers/units.rs, subgraph: "Unreachable or non-public units are silently
\* omitted".
AnswerIsPublic == \A u \in answer : IsPublic(u)
-----------------------------------------------------------------------------
(***************************************************************************)
(* The inductive invariant of the proofs.                                  *)
(***************************************************************************)

\* What was loaded was read from the store, which grows and has one unit per id.
StoreInv ==
    /\ IsFiniteSet(store) /\ start \subseteq store /\ graph \subseteq store
    /\ \A u, v \in store : u.id = v.id => u = v

Searching == pc \in {"search", "references", "referencing"}

PlaceInv ==
    /\ pc \in {"none", "root"} =>
          depth = 0 /\ frontier = {} /\ ahead = {} /\ current = 0 /\ graph = {} /\ answer = {}
    /\ pc = "search" => current = 0
    /\ Searching \/ pc = "done" => HasId(graph, root)
    /\ \A i \in frontier \union ahead : HasId(graph, i)
    /\ pc \in {"references", "referencing"} => HasId(graph, current)
    /\ pc \in {"references", "referencing"} \/ ahead # {} => depth < MaxDepth

\* What the request owes for u, which was loaded: its neighbours of old.
AllReferenced(u) == \A v \in start : References(u, v) => v \in graph
AllReferencing(u) == \A v \in start : References(v, u) => v \in graph

\* A breadth-first search: all within `depth' hops of old is loaded and not for
\* the next hop; whoever was followed has all its neighbours loaded, and whoever
\* is being followed those that the handler is through with.
SearchInv ==
    Searching /\ faults = 0 =>
        /\ Up(start, root, depth) \union Down(start, root, depth) \subseteq {u \in graph : u.id \notin ahead}
        /\ \A u \in graph :
              u.id \notin frontier \union ahead \union {current} => AllReferenced(u) /\ AllReferencing(u)
        /\ \A u \in WithId(graph, current) :
              /\ pc = "references" => \A v \in start : References(u, v) => v \in graph \/ v.id \in refs
              /\ pc = "referencing" => AllReferenced(u)

IInv == TypeOK /\ StoreInv /\ PlaceInv /\ SearchInv /\ AnswerIsComplete /\ AnswerIsConnected
=============================================================================
