------------------------------ MODULE MCFanOut ------------------------------
(***************************************************************************)
(* A small instance of FanOut.                                               *)
(***************************************************************************)
EXTENDS FanOut, TLC

CONSTANTS a, b,                      \* nodes
          c,                         \* a host whose api_base is no URL
          alice, bob, carol,         \* agents
          atA, toBob, web, garbage   \* what they register as inbox_url

NetworkUnit == [id |-> 1, author |-> alice, visibility |-> "network", body |-> 0]
LimitedUnit == [id |-> 2, author |-> alice, visibility |-> "limited", body |-> 0]

BothUnits == {NetworkUnit, LimitedUnit}

\* Alice submits to a.
AtA == [u \in Unit |-> a]

\* The audience of a limited unit: all others at a and, by address, bob at b and
\* carol at c.
ToOthers == [u \in Unit |-> IF u.visibility = "limited" THEN Author \ {alice} ELSE {}]
ByAddress == [u \in Unit |-> IF u.visibility = "limited"
                             THEN {<<bob, b>>, <<carol, c>>} ELSE {}]

\* Carol's inbox at a, below the api_base of a, bob's at b, a web site, and no URL.
Web == [x \in Url |-> CASE x = atA     -> <<carol, a>>
                       [] x = toBob   -> <<bob, b>>
                       [] x = web     -> Elsewhere
                       [] x = garbage -> BadUrl]
BelowA == [n \in Node |-> IF n = a THEN {atA} ELSE {}]
Published == [r \in Author \X Host |->
                IF r[2] = c THEN garbage ELSE IF r = <<bob, b>> THEN toBob ELSE web]

\* All are registered at a, bob also at b.  Carol gave the URL of bob's inbox there as
\* hers, just as he does, and alice that of a web site.
Homes == [n \in Node |-> [d \in Author |->
            IF n = a THEN (IF d = alice THEN web ELSE toBob)
            ELSE IF n = b /\ d = bob THEN toBob ELSE Unregistered]]

\* At a, all others follow alice, and she carol.
Fans == [n \in Node |-> IF n = a THEN {<<bob, alice>>, <<carol, alice>>, <<alice, carol>>} ELSE {}]

\* At a, followers of alice give another inbox_url, follow and unfollow her; all leave.
AskA(did, what, arg) == [node |-> a, did |-> did, what |-> what, arg |-> arg]
Changes ==
    {AskA(d, "register", url) : d \in {bob, carol}, url \in Url}
    \union {AskA(d, what, alice) : d \in {bob, carol}, what \in {"follow", "unfollow"}}
    \union {AskA(d, "delete", Nobody) : d \in Author}
    \union {[node |-> b, did |-> bob, what |-> "delete", arg |-> Nobody]}
=============================================================================
