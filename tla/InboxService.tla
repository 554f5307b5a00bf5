---------------------------- MODULE InboxService -----------------------------
(***************************************************************************)
(* What the inboxes of the federation promise about non-public units, with *)
(* no task, list, push or retry: a unit enters the inboxes of its readers  *)
(* only, and those they gave as theirs, and leaves one only with its       *)
(* agent; an inbox the sender was told has the unit has it; nobody is both *)
(* confirmed and reported as failed, and only the author hears of          *)
(* failures; the sending of a limited unit does not end before each remote *)
(* member with an address is one or the other.  Module FanOut is shown to  *)
(* implement this specification.                                           *)
(***************************************************************************)
EXTENDS Units

CONSTANTS Host,         \* host names in addresses; a node stands for its own
          Origin,       \* Origin[u]: the node u is submitted to
          Audience,     \* Audience[u]: DIDs without a host in u's audience
          Remote,       \* Remote[u]: the <<DID, host>> in it
          MemberInbox,  \* MemberInbox[u]: the inboxes their addresses lead to
          NoAddress,    \* NoAddress[u]: those of them that have no address
          Nobody        \* no DID: <<Nobody, h>> stands for the host h

VARIABLES
    mail,       \* mail[n][d]: units and notices in the inbox of d at n
    phase,      \* phase[u]: "new", "open" (being sent) or "over"
    given,      \* given[n][d]: the inbox elsewhere, if any, that d gave n as his
    followers,  \* followers[u]: who followed the author while u could be had
    addresses,  \* addresses[u]: the inboxes they gave as theirs
    confirmed,  \* confirmed[u]: the remote ones for whom delivery was confirmed
    reached,    \* reached[u]: the inboxes that confirmed it
    reported,   \* reported[u]: the remote ones, and hosts, given up
    left        \* <<agent, node>> that were deregistered

serviceVars == <<mail, phase, given, followers, addresses, confirmed, reached, reported, left>>

\* The inbox an address leads to, if it leads to one.
OneOrNone == {{}} \union {{i} : i \in Author \X Node}

Put(n, d, item) == mail' = [mail EXCEPT ![n][d] = @ \union {item}]

\* The inboxes u may get to: at its own node those of the followers, and those they gave,
\* or for a limited unit those of its audience.
Readers(u) ==
    IF u.visibility = "network" THEN followers[u] \X {Origin[u]} \union addresses[u]
    ELSE Audience[u] \X {Origin[u]} \union MemberInbox[u]

\* Whom it is sent to beyond its own node.
Targets(u) == IF u.visibility = "network" THEN followers[u] \X {Origin[u]} ELSE Remote[u]

\* Nobody has anything yet, and agents gave whatever inboxes they gave.
ServiceInit ==
    /\ mail = [n \in Node |-> [d \in Author |-> {}]]
    /\ phase = [u \in Unit |-> "new"]
    /\ given \in [Node -> [Author -> OneOrNone]]
    /\ followers = [u \in Unit |-> {}]
    /\ addresses = [u \in Unit |-> {}]
    /\ confirmed = [u \in Unit |-> {}]
    /\ reached = [u \in Unit |-> {}]
    /\ reported = [u \in Unit |-> {}]
    /\ left = {}

\* u is submitted, while these are the followers of its author.
Open(u, fs) ==
    /\ phase[u] = "new" /\ phase' = [phase EXCEPT ![u] = "open"]
    /\ followers' = [followers EXCEPT ![u] = fs]
    /\ addresses' = [addresses EXCEPT ![u] = UNION {given[Origin[u]][d] : d \in fs}]
    /\ UNCHANGED <<mail, given, confirmed, reached, reported, left>>

\* d follows the author at n: it may have what he submits, or submitted, there.
Admit(n, d, author) ==
    LET gains == {u \in Unit : phase[u] # "new" /\ Origin[u] = n /\ u.author = author} IN
    /\ followers' = [u \in Unit |-> IF u \in gains THEN followers[u] \union {d} ELSE followers[u]]
    /\ addresses' = [u \in Unit |-> IF u \in gains THEN addresses[u] \union given[n][d]
                                    ELSE addresses[u]]
    /\ UNCHANGED <<mail, phase, given, confirmed, reached, reported, left>>

\* d gives n another inbox as his.
Give(n, d) ==
    /\ given'[n][d] \in OneOrNone \ {given[n][d]}
    /\ given' = [given EXCEPT ![n][d] = given'[n][d]]
    /\ addresses' = [u \in Unit |-> IF Origin[u] = n /\ d \in followers[u]
                                    THEN addresses[u] \union given'[n][d] ELSE addresses[u]]
    /\ UNCHANGED <<mail, phase, followers, confirmed, reached, reported, left>>

\* u gets to an inbox it may get to: once more after it was there, or after the sending
\* is over, for all that this promises.
Deliver(u, n, d) ==
    /\ phase[u] # "new" /\ <<d, n>> \in Readers(u)
    /\ Put(n, d, u)
    /\ UNCHANGED <<phase, given, followers, addresses, confirmed, reached, reported, left>>

\* The sender learns that u was taken for r.  If an inbox said so, it has u, or had it
\* before its agent left.
Confirm(u, r, inboxes) ==
    /\ phase[u] = "open" /\ r \in Targets(u) \ reported[u]
    /\ confirmed' = [confirmed EXCEPT ![u] = @ \union {r}]
    /\ reached' = [reached EXCEPT ![u] = @ \union inboxes]
    /\ \A i \in inboxes : i \in Readers(u) /\ (u \in mail[i[2]][i[1]] \/ i \in left)
    /\ UNCHANGED <<mail, phase, given, followers, addresses, reported, left>>

\* The sender gives up on a follower or member, or on the host of a member.
Report(u, r) ==
    /\ phase[u] = "open"
    /\ \/ r \in Targets(u)
       \/ u.visibility = "limited" /\ r \in {<<Nobody, m[2]>> : m \in Remote[u]}
    /\ r \notin confirmed[u]
    /\ reported' = [reported EXCEPT ![u] = @ \union {r}]
    /\ UNCHANGED <<mail, phase, given, followers, addresses, confirmed, reached, left>>

\* The author of u is told about it, at the node he submitted u to.
Tell(u, r) ==
    /\ r \in reported[u]
    /\ Put(Origin[u], u.author, [about |-> u, missing |-> r])
    /\ UNCHANGED <<phase, given, followers, addresses, confirmed, reached, reported, left>>

\* The sending of u is over.
End(u) ==
    /\ phase[u] = "open" /\ phase' = [phase EXCEPT ![u] = "over"]
    /\ u.visibility = "limited" =>
          \A r \in Remote[u] \ NoAddress[u] :
              r \in confirmed[u] \union reported[u] \/ <<Nobody, r[2]>> \in reported[u]
    /\ UNCHANGED <<mail, given, followers, addresses, confirmed, reached, reported, left>>

\* d leaves n, and its inbox is emptied unless that fails.
Leave(n, d) ==
    /\ left' = left \union {<<d, n>>}
    /\ mail' = [mail EXCEPT ![n][d] = {}] \/ UNCHANGED mail
    /\ given' = [given EXCEPT ![n][d] = {}]
    /\ UNCHANGED <<phase, followers, addresses, confirmed, reached, reported>>

ServiceNext ==
    \/ \E u \in Unit, fs \in SUBSET Author : Open(u, fs)
    \/ \E n \in Node, d \in Author, author \in Author : Admit(n, d, author)
    \/ \E u \in Unit, n \in Node, d \in Author : Deliver(u, n, d)
    \/ \E u \in Unit, r \in Author \X Host, inboxes \in OneOrNone : Confirm(u, r, inboxes)
    \/ \E u \in Unit, r \in (Author \union {Nobody}) \X Host : Report(u, r) \/ Tell(u, r)
    \/ \E u \in Unit : End(u)
    \/ \E n \in Node, d \in Author : Give(n, d) \/ Leave(n, d)

ServiceSpec == ServiceInit /\ [][ServiceNext]_serviceVars
=============================================================================
