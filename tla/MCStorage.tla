----------------------------- MODULE MCStorage ------------------------------
(***************************************************************************)
(* A small instance of SqliteStorage.                                      *)
(***************************************************************************)
EXTENDS SqliteStorage, TLC

CONSTANTS alice, bob, \* agents
          peer,       \* another node
          s1, s2      \* seeds

U(i, who, vis, type, created, refs) ==
    [id |-> i, author |-> who, visibility |-> vis,
     body |-> [type |-> type, created |-> created, references |-> refs]]

\* Three ids: a public unit that references an id nobody has, a network unit that
\* references two units, a limited one; and other content for the first id.
MCUnit == {U(1, alice, "public", "inference", 2, {3}),
           U(1, bob, "network", "assertion", 1, {}),
           U(2, bob, "network", "inference", 1, {1, 3}),
           U(4, alice, "limited", "assertion", 3, {})}

MCBody == {u.body : u \in MCUnit}

\* What build_filter and the handlers make of queries: by anyone, by a follower
\* of one author, by the sync stream, and with all filters off.
MCFilters ==
    [unit_types : {{}, {"inference"}}, author : {Nobody, alice}, since : {0, 2},
     after : {0}, limit : {1},
     visibilities : {{"public"}, {"public", "network"}}, network_for_authors : {{alice}}]
    \union
    [unit_types : {{}}, author : {Nobody}, since : {0}, after : {0, 1}, limit : {1, 2},
     visibilities : {{}, {"public"}, {"public", "network"}}, network_for_authors : {{}, {alice}}]

\* Seeds are drawn at random, and nothing else is known of them.
Seeds == Permutations({s1, s2})
=============================================================================
