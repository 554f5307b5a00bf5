------------------------------ MODULE UnitGraph ------------------------------
(***************************************************************************)
(* What federation promises about the graph of Semantic Units, with no     *)
(* cursor, page or handler: every node holds a set of units that only      *)
(* grows and in which an id names one unit for ever; a unit enters a node  *)
(* either because a client published it there, or because the node adopted *)
(* a public unit that some node already held.  Module Replication is shown *)
(* to implement this specification.                                        *)
(***************************************************************************)
EXTENDS Units

VARIABLES held,       \* held[n]: the units node n holds
          published   \* published[n]: those of them a client submitted to n

graphVars == <<held, published>>

GraphInit ==
    /\ held = [n \in Node |-> {}]
    /\ published = [n \in Node |-> {}]

Publish(n, u) ==
    /\ ~HasId(held[n], u.id)
    /\ held' = [held EXCEPT ![n] = @ \union {u}]
    /\ published' = [published EXCEPT ![n] = @ \union {u}]

Adopt(n, m, u) ==
    /\ u \in held[m]
    /\ IsPublic(u)
    /\ ~HasId(held[n], u.id)
    /\ held' = [held EXCEPT ![n] = @ \union {u}]
    /\ UNCHANGED published

GraphNext ==
    \E n \in Node, u \in Unit :
        \/ Publish(n, u)
        \/ \E m \in Node : Adopt(n, m, u)

GraphSpec == GraphInit /\ [][GraphNext]_graphVars
=============================================================================
