------------------------------ MODULE Reading -------------------------------
(***************************************************************************)
(* Readers of one node: GET /v1/units and GET /v1/agents/{did}/inbox page  *)
(* by page, GET /v1/units/{id}; from the rate limiter through the check of *)
(* the HTTP signature to the answer, while units arrive and agents follow, *)
(* unfollow, register again and leave.                                     *)
(*                                                                         *)
(* An action is what happens between two await points.  Readers are honest *)
(* and sign with the key the node has of them, but a request may be long   *)
(* on its way, and a storage call may fail.  The clock counts in ticks,    *)
(* and only ages are kept, up to where they stop to matter.                *)
(*                                                                         *)
(* The body of a unit is its audience.                                     *)
(***************************************************************************)
EXTENDS Units, FiniteSets, FiniteSetsExt

CONSTANTS Reader,      \* who reads
          Did,         \* Did[r]: the agent r reads as, or Nobody
          Forwarded,   \* Forwarded[r]: first address in X-Forwarded-For of r, "" for none
          RealIp,      \* RealIp[r]: X-Real-IP of r, "" for none
          Questions,   \* bound: Questions[r], what r may set out to read
          Stored0,     \* the units there to start with
          Follows0,    \* and the follows
          Arriving,    \* bound: the units that arrive later
          PageLimit,   \* units in a page
          Limit,       \* requests per window and address
          Window,      \* ticks in a window (a minute)
          Second,      \* ticks in a second
          Skew,        \* ticks a request stays valid after its Date (5 minutes)
          Deliveries,  \* bound: which units come into whose inbox
          MaxChanges,  \* bound: follows, unfollows, registrations, departures
          MaxFaults,   \* bound: failing storage calls
          Nobody,      \* no DID
          NoKey        \* not registered; not signed

Key == {1, 2}
Question ==
    [kind : {"list"}]
    \union [kind : {"unit"}, id : {u.id : u \in Unit}]
    \union [kind : {"inbox"}, did : Author]
NoQuestion == [kind |-> "none"]

ASSUME ReadingAssumption ==
    /\ Body \subseteq SUBSET Author
    /\ Did \in [Reader -> Author \union {Nobody}]
    /\ \A r \in Reader : Questions[r] \subseteq Question
    /\ Stored0 \union Arriving \subseteq Unit /\ Follows0 \subseteq Author \X Author
    /\ Deliveries \subseteq Author \X Unit
    /\ IsFiniteSet(Stored0) /\ \A u, v \in Stored0 : u.id = v.id => u = v
    /\ PageLimit \in Nat \ {0} /\ Limit \in Nat \ {0}
    /\ Second \in Nat \ {0} /\ Window \in Nat /\ Window >= Second
    /\ Skew \in Nat /\ MaxChanges \in Nat /\ MaxFaults \in Nat
    /\ Nobody \notin Author /\ NoKey \notin Key

\* extract_ip: the client as a proxy names it; all others share one address.
Address(r) ==
    CASE Forwarded[r] # "" -> Forwarded[r]
      [] Forwarded[r] = "" /\ RealIp[r] # "" -> RealIp[r]
      [] OTHER -> "unknown"
Addresses == {Address(r) : r \in Reader}

VARIABLES
    \* The storage of the node.
    store,    \* the units it holds
    follows,  \* set of <<follower, followee>>
    key,      \* key[d]: the public key in the profile of d, or NoKey
    inbox,    \* inbox[d]: the units in the inbox of d
    \* The rate limiter.
    bucket,   \* bucket[a]: the count of the window of a, and its age up to Window
    \* The readers, and what the node knows while it answers them.
    reader,   \* reader[r]: a Reading
    \* History, for the properties only.
    passed,   \* passed[a][k]: requests from a let through in the last k ticks
    past,     \* past[r]: what r could rightly see, see Past
    changes,  \* changes so far
    faults    \* faults so far

dbVars == <<store, follows, key, inbox>>
vars == <<dbVars, bucket, reader, passed, past, changes, faults>>

Place == {"idle", "ready", "sent", "verify", "follows", "page", "agent", "inbox", "load",
          "network", "refused", "done", "failed"}

Reading ==
    [at : Place,                        \* where r or its request is
     question : Question \union {NoQuestion}, \* what r reads
     after : Nat,                       \* its cursor, 0 before the first page
     signed : Key \union {NoKey},       \* the key the request is signed with
     age : 0 .. Skew + 1,               \* ticks since its Date
     wait : 0 .. Window + Second,       \* ticks until r tries again
     caller : Author \union {Nobody},   \* whom the node takes r for
     filter : SUBSET Author,            \* whom the caller follows
     unit : SUBSET Unit,                \* the unit found
     page : SUBSET Unit,                \* the last answer
     got : SUBSET Unit]                 \* all answers

Past ==
    [seen : SUBSET Unit,     \* r had the right to see it at some time while its request was under way
     genuine : BOOLEAN,      \* it was signed with the registered key at such a time
     steady : SUBSET Unit,   \* there and allowed to r all the time since it set out
     anonymous : BOOLEAN]    \* some page was served to r as to anybody

TypeOK ==
    /\ store \subseteq Unit /\ follows \subseteq Author \X Author
    /\ key \in [Author -> Key \union {NoKey}]
    /\ inbox \in [Author -> SUBSET Unit]
    /\ bucket \in [Addresses -> [count : 0 .. Limit, age : 0 .. Window]]
    /\ passed \in [Addresses -> [0 .. Window -> Nat]]
    /\ reader \in [Reader -> Reading] /\ past \in [Reader -> Past]
    /\ \A r \in Reader : IsFiniteSet(reader[r].page) /\ Cardinality(reader[r].page) <= PageLimit
    /\ changes \in Nat /\ faults \in Nat

Init ==
    /\ store = Stored0
    /\ follows = Follows0
    /\ key = [d \in Author |-> 1]
    /\ inbox = [d \in Author |-> {u \in Stored0 \ Arriving : <<d, u.author>> \in Follows0 /\ ~IsPublic(u)}]
    /\ bucket = [a \in Addresses |-> [count |-> 0, age |-> Window]]
    /\ passed = [a \in Addresses |-> [k \in 0 .. Window |-> 0]]
    /\ reader = [r \in Reader |->
          [at |-> "idle", question |-> NoQuestion, after |-> 0, signed |-> NoKey,
           age |-> 0, wait |-> 0, caller |-> Nobody, filter |-> {}, unit |-> {},
           page |-> {}, got |-> {}]]
    /\ past = [r \in Reader |->
          [seen |-> {}, genuine |-> FALSE, steady |-> {}, anonymous |-> FALSE]]
    /\ changes = 0 /\ faults = 0
-----------------------------------------------------------------------------
(***************************************************************************)
(* What a reader may see.                                                  *)
(***************************************************************************)

\* What the agent d may see, now or once it is there, by the rules of the module
\* comment of units.rs and of the inbox.
Rights(d, q) ==
    CASE q.kind = "inbox" -> IF q.did = d THEN inbox[d] ELSE {}
      [] OTHER -> {u \in Unit : \/ IsPublic(u)
                                \/ u.visibility = "network" /\ <<d, u.author>> \in follows
                                \/ u.visibility = "limited" /\ d \in u.body /\ q.kind = "unit"}

Allowed(d, q) == IF q.kind = "inbox" THEN Rights(d, q) ELSE Rights(d, q) \intersect store

RightsOf(r)  == Rights(Did[r], reader[r].question)
AllowedTo(r) == Allowed(Did[r], reader[r].question)
IsGenuine(r) == reader[r].signed # NoKey /\ key[Did[r]] = reader[r].signed

UnderWay(r) == reader[r].at \notin {"idle", "ready", "refused", "done", "failed"}
Walking(r)  == reader[r].at \notin {"idle", "done", "failed"}

\* The history after a step that changes what readers may see, and no reader.
Watched ==
    past' = [r \in Reader |->
        [past[r] EXCEPT
            !.seen = IF UnderWay(r) THEN @ \union RightsOf(r)' ELSE @,
            !.genuine = @ \/ (UnderWay(r) /\ IsGenuine(r)'),
            !.steady = IF Walking(r) THEN @ \intersect AllowedTo(r)' ELSE @]]
-----------------------------------------------------------------------------
(***************************************************************************)
(* What goes on meanwhile.                                                 *)
(***************************************************************************)

\* No reader is served by these.
Meanwhile == UNCHANGED <<bucket, reader, passed, faults>> /\ Watched

Arrive(u) ==
    /\ u \in Arriving /\ ~HasId(store, u.id)
    /\ store' = store \union {u}
    /\ UNCHANGED <<follows, key, inbox, changes>>
    /\ Meanwhile

\* deliver_to_inbox, for fan-out or for a push: it does not ask whom u is for, nor
\* who is registered, nor whether the store has u. INSERT OR IGNORE.
Deliver(d, u) ==
    /\ <<d, u>> \in Deliveries /\ ~HasId(inbox[d], u.id)
    /\ inbox' = [inbox EXCEPT ![d] = @ \union {u}]
    /\ UNCHANGED <<store, follows, key, changes>>
    /\ Meanwhile

\* A request of a reader's agent d that changes who is who and who follows whom.
Change(d) ==
    /\ changes < MaxChanges /\ changes' = changes + 1
    /\ \/ /\ key[d] # NoKey
          /\ \E f \in {d} \X (Author \ {d}) :
                follows' = IF f \in follows THEN follows \ {f} ELSE follows \union {f}
          /\ UNCHANGED <<key, inbox>>
       \/ /\ \E k \in Key \ {key[d]} : key' = [key EXCEPT ![d] = k]
          /\ UNCHANGED <<follows, inbox>>
       \/ /\ key[d] # NoKey
          /\ key' = [key EXCEPT ![d] = NoKey]
          /\ inbox' = [inbox EXCEPT ![d] = {}]
          /\ UNCHANGED follows
    /\ UNCHANGED store
    /\ Meanwhile

Older(n, max) == IF n < max THEN n + 1 ELSE max

Tick ==
    /\ bucket' = [a \in DOMAIN bucket |-> [bucket[a] EXCEPT !.age = Older(@, Window)]]
    /\ passed' = [a \in DOMAIN passed |->
                     [k \in 0 .. Window |-> IF k = 0 THEN 0 ELSE passed[a][k - 1]]]
    /\ reader' = [r \in Reader |->
          [reader[r] EXCEPT
              !.age = IF reader[r].at = "sent" THEN Older(@, Skew + 1) ELSE @,
              !.wait = IF @ = 0 THEN 0 ELSE @ - 1]]
    /\ UNCHANGED <<dbVars, past, changes, faults>>
-----------------------------------------------------------------------------
(***************************************************************************)
(* The reader.                                                             *)
(***************************************************************************)

\* r goes from place p to the record q, and nothing else changes.
Step(r, p, q) ==
    /\ reader[r].at = p
    /\ reader' = [reader EXCEPT ![r] = q]
    /\ UNCHANGED <<dbVars, passed, changes>>

\* What was known of a request is gone when it is answered.
Forget(q) == [q EXCEPT !.age = 0, !.signed = NoKey, !.caller = Nobody, !.filter = {}, !.unit = {}]

Start(r, question) ==
    /\ Step(r, "idle", [reader[r] EXCEPT !.at = "ready", !.question = question])
    /\ past' = [past EXCEPT ![r].steady = Allowed(Did[r], question)]
    /\ UNCHANGED <<bucket, faults>>

\* A request for the next page, dated now, and signed with the key of the agent or
\* with the one it had in the beginning.  After a refusal it waits as long as
\* Retry-After says.
Send(r) ==
    /\ reader[r].wait = 0
    /\ \E p \in {"ready", "refused"},
          k \in IF Did[r] = Nobody THEN {NoKey} ELSE {1, key[Did[r]]} :
          Step(r, p, [reader[r] EXCEPT !.at = "sent", !.signed = k, !.page = {}])
    /\ past' = [past EXCEPT ![r].seen = RightsOf(r), ![r].genuine = IsGenuine(r)']
    /\ UNCHANGED <<bucket, faults>>
-----------------------------------------------------------------------------
(***************************************************************************)
(* The rate limiter.                                                       *)
(***************************************************************************)

\* A fixed window per address; a new address is like one whose window is over.
WindowOver(b) == b.age >= Window

\* Retry-After: whole seconds, at least one.
RetryAfter(b) == Second * (IF Window - b.age < Second THEN 1 ELSE (Window - b.age) \div Second)

\* The next thing is a look at the Date; all that matters is whether it is too old.
LetThrough(r, b) ==
    /\ bucket' = [bucket EXCEPT ![Address(r)] = b]
    /\ passed' = [passed EXCEPT ![Address(r)] = [k \in DOMAIN @ |-> IF k = 0 THEN 0 ELSE @[k] + 1]]
    /\ reader' = [reader EXCEPT ![r].at = "verify", ![r].age = IF @ > Skew THEN @ ELSE 0]

\* Faulty variant: a window that is over counts anew but does not start anew.
CheckNoRestart(r) ==
    LET b == bucket[Address(r)] IN
    /\ reader[r].at = "sent"
    /\ \/ WindowOver(b) /\ LetThrough(r, [b EXCEPT !.count = 1])
       \/ ~WindowOver(b) /\ b.count < Limit /\ LetThrough(r, [b EXCEPT !.count = @ + 1])
       \/ /\ ~WindowOver(b) /\ b.count >= Limit
          /\ reader' = [reader EXCEPT ![r] = [Forget(@) EXCEPT !.at = "refused", !.wait = RetryAfter(b)]]
          /\ UNCHANGED <<bucket, passed>>
    /\ UNCHANGED <<dbVars, past, changes, faults>>

\* Faulty variant: a window that is full is never over.
CheckNeverOver(r) ==
    LET b == bucket[Address(r)] IN
    /\ reader[r].at = "sent"
    /\ \/ b.count < Limit /\ LetThrough(r, [b EXCEPT !.count = @ + 1])
       \/ /\ b.count >= Limit
          /\ reader' = [reader EXCEPT ![r] = [Forget(@) EXCEPT !.at = "refused", !.wait = RetryAfter(b)]]
          /\ UNCHANGED <<bucket, passed>>
    /\ UNCHANGED <<dbVars, past, changes, faults>>

\* RateLimiter::check, under its lock.
Check(r) ==
    LET b == bucket[Address(r)] IN
    /\ reader[r].at = "sent"
    /\ \/ WindowOver(b) /\ LetThrough(r, [count |-> 1, age |-> 0])
       \/ ~WindowOver(b) /\ b.count < Limit /\ LetThrough(r, [b EXCEPT !.count = @ + 1])
       \/ /\ ~WindowOver(b) /\ b.count >= Limit
          /\ reader' = [reader EXCEPT ![r] = [Forget(@) EXCEPT !.at = "refused", !.wait = RetryAfter(b)]]
          /\ UNCHANGED <<bucket, passed>>
    /\ UNCHANGED <<dbVars, past, changes, faults>>
-----------------------------------------------------------------------------
(***************************************************************************)
(* The handlers.                                                           *)
(***************************************************************************)

\* One more fault, while the budget lasts.
Fault == faults < MaxFaults /\ faults' = faults + 1

\* A 401, 404 or 500: the reader gives up.
Fail(r, p) ==
    /\ Step(r, p, [Forget(reader[r]) EXCEPT !.at = "failed"])
    /\ UNCHANGED <<bucket, past>>

\* A storage call that fails is answered 500.
Error(r) ==
    /\ \E p \in {"follows", "page", "agent", "inbox", "load", "network"} : Fail(r, p)
    /\ Fault

\* The request goes on.
Goto(r, p, q) == Step(r, p, q) /\ UNCHANGED <<bucket, past, faults>>

\* The Date was not too old on arrival.
IsDateValid(r) == reader[r].age <= Skew

\* The agent is registered, with the key the request is signed with.
Verifies(r) == IsDateValid(r) /\ IsGenuine(r)

\* verify_http_signature: OptionalAuth takes everybody it does not know for
\* anonymous, after a failing storage call too; RequireAuth answers 401.
Verify(r) ==
    LET kind == reader[r].question.kind
        first == CASE kind = "inbox" -> "agent" [] kind = "unit" -> "load" [] OTHER -> "page"
    IN
    \/ /\ Verifies(r)
       /\ Goto(r, "verify", [reader[r] EXCEPT !.at = IF kind = "list" THEN "follows" ELSE first,
                                              !.age = 0, !.caller = Did[r]])
    \/ /\ (~Verifies(r) /\ UNCHANGED faults) \/ Fault
       /\ IF kind = "inbox" THEN Fail(r, "verify")
          ELSE /\ Step(r, "verify", [reader[r] EXCEPT !.at = first, !.age = 0])
               /\ past' = [past EXCEPT ![r].anonymous = TRUE]
               /\ UNCHANGED bucket

\* list_following of the caller.
ListFollowing(r) ==
    Goto(r, "follows", [reader[r] EXCEPT !.at = "page",
        !.filter = {e \in Author : <<reader[r].caller, e>> \in follows}])

\* Faulty variant: network units are asked for although nobody is followed.
VisibilitiesAlways(r) == {"public", "network"}

\* The visibilities a list asks for: without anybody followed only public units.
Visibilities(r) == IF reader[r].filter = {} THEN {"public"} ELSE {"public", "network"}

\* list_units: no authors to restrict network units to means no restriction.
Matches(u, r) ==
    /\ u.id > reader[r].after
    /\ u.visibility \in Visibilities(r)
    /\ u.visibility = "network" /\ reader[r].filter # {} => u.author \in reader[r].filter

\* Faulty variant: one unit too many.
FirstPageAndOne(S) == {u \in S : Cardinality({v \in S : v.id < u.id}) <= PageLimit}

FirstPage(S) == {u \in S : Cardinality({v \in S : v.id < u.id}) < PageLimit}

\* Faulty variant: whether there is more is looked at after the page was cut.
AnswerTruncated(r, p, available) ==
    LET items == FirstPage(available)
        last  == Max({u.id : u \in items} \union {reader[r].after})
    IN
    Goto(r, p, [Forget(reader[r]) EXCEPT
        !.at = IF Cardinality(items) > PageLimit THEN "ready" ELSE "done",
        !.page = items, !.got = @ \union items, !.after = last])

\* A page of what is available; r asks on, from its last id, while there is more.
Answer(r, p, available) ==
    LET items == FirstPage(available)
        last  == Max({u.id : u \in items} \union {reader[r].after})
    IN
    Goto(r, p, [Forget(reader[r]) EXCEPT !.at = IF items # available THEN "ready" ELSE "done",
                                         !.page = items, !.got = @ \union items, !.after = last])

\* `list'.
ListUnits(r) == Answer(r, "page", {u \in store : Matches(u, r)})

\* `inbox': the agent must be registered, and the caller be that agent.
FindAgent(r) ==
    LET d == reader[r].question.did IN
    IF key[d] # NoKey /\ reader[r].caller = d
    THEN Goto(r, "agent", [reader[r] EXCEPT !.at = "inbox"])
    ELSE Fail(r, "agent") /\ UNCHANGED faults

GetInbox(r) ==
    Answer(r, "inbox", {u \in inbox[reader[r].question.did] : u.id > reader[r].after})

\* The unit is what r gets.
AnswerUnit(r, p, u) ==
    Goto(r, p, [Forget(reader[r]) EXCEPT !.at = "done", !.page = {u}, !.got = {u}])

\* `get_by_id': by the unit's visibility and the caller.
GetUnit(r) ==
    LET q == reader[r]
        found == {u \in store : u.id = q.question.id}
    IN
    \/ \E u \in found :
          \/ /\ IsPublic(u) \/ (u.visibility = "limited" /\ q.caller \in u.body)
             /\ AnswerUnit(r, "load", u)
          \/ /\ u.visibility = "network" /\ q.caller # Nobody
             /\ Goto(r, "load", [q EXCEPT !.at = "network", !.unit = {u}])
    \/ /\ \A u \in found : \/ u.visibility = "network" /\ q.caller = Nobody
                           \/ u.visibility = "limited" /\ q.caller \notin u.body
       /\ Fail(r, "load") /\ UNCHANGED faults

\* ... and is_following for a network unit, read after the unit.
IsFollowing(r) ==
    \E u \in reader[r].unit :
        IF <<reader[r].caller, u.author>> \in follows
        THEN AnswerUnit(r, "network", u)
        ELSE Fail(r, "network") /\ UNCHANGED faults
-----------------------------------------------------------------------------
Serve(r) ==
    \/ Check(r) \/ Verify(r)
    \/ ListFollowing(r) \/ (reader[r].at = "page" /\ ListUnits(r))
    \/ (reader[r].at = "agent" /\ FindAgent(r)) \/ (reader[r].at = "inbox" /\ GetInbox(r))
    \/ (reader[r].at = "load" /\ GetUnit(r)) \/ IsFollowing(r)
    \/ Error(r)

Next ==
    \/ \E u \in Unit : Arrive(u) \/ (\E d \in Author : Deliver(d, u))
    \/ \E d \in {Did[r] : r \in Reader} \ {Nobody} : Change(d)
    \/ \E r \in Reader :
          (\E q \in Questions[r] : Start(r, q)) \/ Send(r) \/ Serve(r)
    \/ Tick

Spec == Init /\ [][Next]_vars

\* The node goes on with what reached it, a reader with its walk, and time goes on.
Fairness == WF_vars(Tick) /\ \A r \in Reader : WF_vars(Send(r) \/ Serve(r))

FairSpec == Spec /\ Fairness
-----------------------------------------------------------------------------
(***************************************************************************)
(* Properties.                                                             *)
(***************************************************************************)

\* Nobody gets a unit that was not his to see: it is public, or while the request
\* was under way there was a time when the agent had the right to see it, and one
\* when the key the request was signed with was the agent's.  The profile, the
\* follow list and the units are read one call after the other, so that these may
\* be different times, and the unit may be younger than the unfollow.
OnlyEntitled ==
    \A r \in Reader : \A u \in reader[r].page :
        \/ IsPublic(u) /\ reader[r].question.kind # "inbox"
        \/ past[r].genuine /\ u \in past[r].seen

\* Who reads to the end gets everything that was there and his to see all the
\* time, whatever arrived, left or was refused meanwhile; of a list some page of
\* which was served as to anybody, what everybody may see.
WalkIsComplete ==
    \A r \in Reader :
        reader[r].at = "done" /\ reader[r].question.kind # "unit" =>
            \A u \in past[r].steady : IsPublic(u) \/ ~past[r].anonymous => u \in reader[r].got

\* In no window's time are more than two windows' requests let through.
BurstIsBounded ==
    \A a \in DOMAIN passed : passed[a][Window] <= 2 * Limit

\* Who keeps asking comes to an end: a refused reader is not refused for ever, and
\* every page takes a walk further.
WalkEnds == \A r \in Reader : Walking(r) ~> ~Walking(r)
-----------------------------------------------------------------------------
(***************************************************************************)
(* The inductive invariant of the proofs.                                  *)
(***************************************************************************)

\* An id names one unit, in the store and in each inbox.
OneUnitPerId(S) == IsFiniteSet(S) /\ \A u, v \in S : u.id = v.id => u = v
StoreInv == OneUnitPerId(store) /\ \A d \in Author : OneUnitPerId(inbox[d])

\* Of a window and what was let through: all since the window began is counted in it,
\* and what is remembered from before was let through in the window before; when it
\* is over nothing was let through in this tick, which would have begun a new one.
Counted(b, last) ==
    /\ last[0] = 0 /\ \A k \in 1 .. Window : last[k - 1] <= last[k]
    /\ WindowOver(b) => last[1] = 0
    /\ last[IF WindowOver(b) THEN Window ELSE b.age + 1] <= b.count
    /\ last[Window] <= b.count + Limit

BurstInv == \A a \in Addresses : Counted(bucket[a], passed[a])

\* Each place is one on the way of one kind of question.
PlaceInv(r) ==
    LET q == reader[r] IN
    /\ q.at = "idle" <=> q.question = NoQuestion
    /\ q.at = "idle" => q.after = 0 /\ q.page = {}
    /\ q.at \in {"follows", "page"} => q.question.kind = "list"
    /\ q.at \in {"agent", "inbox"} => q.question.kind = "inbox"
    /\ q.at \in {"load", "network"} => q.question.kind = "unit"
    /\ q.at = "follows" => q.caller # Nobody
    /\ q.at = "inbox" => q.caller = q.question.did
    /\ \A u \in q.unit : u.visibility = "network"
    /\ q.at \in {"idle", "ready", "sent", "verify", "refused", "done", "failed"} => q.caller = Nobody
    /\ q.at # "page" => q.filter = {}

\* Whom the node takes r for r is, and what it knows of him was so at some time.
CallerInv(r) ==
    LET q == reader[r] IN
    /\ q.caller \in {Nobody, Did[r]}
    /\ Did[r] = Nobody => q.signed = NoKey
    /\ q.filter # {} => q.caller # Nobody
    /\ UnderWay(r) =>
          /\ RightsOf(r) \subseteq past[r].seen
          /\ IsGenuine(r) \/ q.caller # Nobody => past[r].genuine
          /\ \A u \in Unit : u.visibility = "network" /\ u.author \in q.filter => u \in past[r].seen

\* What r could see all the time it has, or it is still ahead of its cursor and the
\* node knows that r may see it.
WalkInv(r) ==
    LET q == reader[r]
        Owed == {u \in past[r].steady : IsPublic(u) \/ ~past[r].anonymous} IN
    /\ Walking(r) => past[r].steady \subseteq AllowedTo(r)
    /\ Walking(r) /\ q.question.kind # "unit" => \A u \in Owed : u \in q.got \/ u.id > q.after
    /\ q.at = "page" => \A u \in Owed : u.visibility = "network" => u.author \in q.filter

IInv ==
    /\ TypeOK /\ StoreInv /\ BurstInv
    /\ \A r \in Reader : PlaceInv(r) /\ CallerInv(r) /\ WalkInv(r)
    /\ OnlyEntitled /\ WalkIsComplete
=============================================================================
