----------------------------- MODULE MCReading ------------------------------
(***************************************************************************)
(* A small instance of Reading.                                            *)
(***************************************************************************)
EXTENDS Reading, TLC

CONSTANTS alice, bob, \* agents
          r1, r2      \* readers

\* Bob reads, and somebody without a name behind the same address, each
\* by a proxy of its own kind.
Readers == (r1 :> bob) @@ (r2 :> Nobody)
MCForwarded == [r \in Reader |-> IF r = r1 THEN "ip" ELSE ""]
MCRealIp == [r \in Reader |-> "ip"]

\* Alice's units: one for everybody, one for her followers, one for bob.
MCUnit == {[id |-> 1, author |-> alice, visibility |-> "network", body |-> {}],
           [id |-> 2, author |-> alice, visibility |-> "public", body |-> {}],
           [id |-> 3, author |-> alice, visibility |-> "limited", body |-> {bob}]}
MCStored == {u \in MCUnit : ~IsPublic(u)}
MCArriving == {u \in MCUnit : u.visibility # "network"}

\* What is for bob alone comes into his inbox, in the store or not.
MCDeliveries == {bob} \X {u \in MCArriving : bob \in u.body}

MCQuestions == [r \in Reader |->
    IF r = r2 THEN {[kind |-> "unit", id |-> 2]}
    ELSE {[kind |-> "list"], [kind |-> "inbox", did |-> bob], [kind |-> "inbox", did |-> alice],
          [kind |-> "unit", id |-> 1], [kind |-> "unit", id |-> 3]}]

BobFollowsAlice == {<<bob, alice>>}
=============================================================================
