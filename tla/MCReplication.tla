--------------------------- MODULE MCReplication ----------------------------
(***************************************************************************)
(* Small instances of Replication.                                         *)
(***************************************************************************)
EXTENDS Replication, TLC

CONSTANTS a, b,     \* nodes
          alice     \* an author

Public(i, what) == [id |-> i, author |-> alice, visibility |-> "public", body |-> what]
Network(i)      == [id |-> i, author |-> alice, visibility |-> "network", body |-> 0]

\* A public stream of two ids, the second also used for a unit that only the
\* followers of its author may see.
MCUnit == {Public(1, 0), Public(2, 0), Network(2)}

\* Two ids in the public stream.
TwoUnits == {Public(i, 0) : i \in 1..2}

\* b pulls from a.
Pair == [n \in Node |-> IF n = b THEN {a} ELSE {}]

\* Clients submit anything anywhere, or to b only what has the first id.
Everywhere == [n \in Node |-> Unit]
Overlap    == [n \in Node |-> IF n = a THEN Unit ELSE {u \in Unit : u.id = 1}]
=============================================================================
