----------------------------- MODULE MCSubgraph -----------------------------
(***************************************************************************)
(* Small instances of Subgraph.                                            *)
(***************************************************************************)
EXTENDS Subgraph, TLC

CONSTANT alice   \* an author

\* Every choice of references among three ids, and a reference to a unit no
\* node has.
Links == SUBSET (1 .. 3) \union {{1, 4}}

UnitWith(i, v, links) == [id |-> i, author |-> alice, visibility |-> v, body |-> links]

\* Three ids with any references, all public; only the first may reference
\* itself, only the last the unit that is missing.
PublicUnits ==
    {u \in {UnitWith(i, "public", l) : i \in 1 .. 3, l \in Links} :
        (u.id \in u.body => u.id = 1) /\ (4 \in u.body => u.id = 3)}

\* A public unit, and a network unit that references it.
MixedUnits == {UnitWith(1, "public", {}), UnitWith(2, "network", {1})}
=============================================================================
