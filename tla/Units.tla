-------------------------------- MODULE Units --------------------------------
(***************************************************************************)
(* The vocabulary of Semantic Units that the other modules share.  A unit  *)
(* keeps the fields the properties tell apart: everything else in it is    *)
(* its body.                                                               *)
(***************************************************************************)
EXTENDS Integers

CONSTANTS Node,     \* the nodes of the federation
          Author,   \* the DIDs of the agents, who author units and receive them
          Body,     \* the rest of a unit's content, compared for equality only
          Unit      \* the valid units clients may submit

Visibility == {"public", "network", "limited"}

\* An id is a UUIDv7, of which only the order matters: a positive integer.
UnitRecord == [id : Nat \ {0}, author : Author, visibility : Visibility, body : Body]

ASSUME UnitAssumption == Unit \subseteq UnitRecord

\* Does the set S of units already use the id i?
HasId(S, i) == \E u \in S : u.id = i

IsPublic(u) == u.visibility = "public"
=============================================================================
