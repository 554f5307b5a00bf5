---------------------------- MODULE FanOutProofs -----------------------------
(***************************************************************************)
(* Proofs about FanOut, for any set of nodes, agents and non-public units, *)
(* any audiences, any registrations and follows to start with, and any     *)
(* number of attempts, requests and faults.                                *)
(***************************************************************************)
EXTENDS FanOut, TLAPS

USE DEF agentVars, historyVars

\* A step is a stuttering step or one of the actions.
LEMMA StepCases ==
    ASSUME [Next]_vars
    PROVE  \/ UNCHANGED vars
           \/ \E u \in Unit : Submit(u)
           \/ \E u \in Unit : ListLocal(u)
           \/ \E u \in Unit : \E r \in task[u].todo : CheckLocal(u, r)
           \/ \E u \in Unit : DeliverLocal(u)
           \/ \E u \in Unit : EndLocal(u)
           \/ \E u \in Unit : ListRemote(u)
           \/ \E u \in Unit : \E r \in task[u].todo : FindInbox(u, r)
           \/ \E u \in Unit : \E r \in task[u].todo : Discover(u, r)
           \/ \E u \in Unit : EndDiscovery(u)
           \/ \E u \in Unit : \E r \in task[u].todo : PickMember(u, r)
           \/ \E u \in Unit : Finish(u)
           \/ \E u \in Unit : Push(u)
           \/ \E u \in Unit : AnswerElsewhere(u)
           \/ \E u \in Unit : Timeout(u)
           \/ \E u \in Unit : Delivered(u)
           \/ \E u \in Unit : Retry(u)
           \/ \E u \in Unit : GiveUp(u)
           \/ \E u \in Unit : CheckAuthor(u)
           \/ \E u \in Unit : ReportFailure(u)
           \/ \E c \in calls : Unauthorized(c)
           \/ \E c \in calls : Arrive(c)
           \/ \E c \in calls : Accept(c)
           \/ \E c \in calls : Lose(c)
           \/ \E q \in Asked : Ask(q)
           \/ \E q \in requests : Register(q)
           \/ \E q \in requests : DeleteAgent(q)
           \/ \E q \in requests : Follow(q)
           \/ \E q \in requests : Unfollow(q)
           \/ \E n \in Node : Crash(n)
  BY DEF Next, TaskStep, CallStep, AgentStep

\* Units are not notices, and every unit is for the followers of its author or for
\* an audience.
LEMMA UnitFacts ==
    ASSUME NEW u \in Unit
    PROVE  /\ u.author \in Author /\ u.visibility \in {"network", "limited"}
           /\ Origin[u] \in Node /\ Origin[u] \in Host /\ Audience[u] \subseteq Author
           /\ Remote[u] \subseteq Author \X Host
           /\ \A v, r : u # Notice(v, r)
<1>1. u \in UnitRecord /\ ~IsPublic(u)
  BY UnitAssumption, FanOutAssumption
<1>2. u.author \in Author /\ u.visibility \in {"network", "limited"}
  BY <1>1 DEF UnitRecord, Visibility, IsPublic
<1>3. /\ Origin[u] \in Node /\ Origin[u] \in Host /\ Audience[u] \subseteq Author
      /\ Remote[u] \subseteq Author \X Host
  BY FanOutAssumption
<1>4. \A v, r : u # Notice(v, r)
  <2>1. "id" \in DOMAIN u
    BY <1>1 DEF UnitRecord
  <2>2. \A v, r : "id" \notin DOMAIN Notice(v, r)
    BY DEF Notice
  <2> QED
    BY <2>1, <2>2
<1> QED
  BY <1>2, <1>3, <1>4

\* What a node pushes to is an inbox, and what leads to none is no URL.
LEMMA PushedToInbox ==
    ASSUME NEW n, NEW url
    PROVE  PushedTo(n, url) \in SUBSET Inbox
  BY DEF PushedTo

LEMMA AddressFacts ==
    ASSUME NEW u \in Unit, NEW r \in Remote[u]
    PROVE  /\ Address[r] \in Url /\ Leads[Address[r]] \in Inbox \union {Elsewhere, BadUrl}
           /\ Leads[Address[r]] \in Inbox => Leads[Address[r]] \in MemberInboxes(u)
           /\ r \in Unaddressed(u) <=> Leads[Address[r]] = BadUrl
<1>1. r \in Author \X Host
  BY UnitFacts
<1>2. Address[r] \in Url
  BY <1>1, FanOutAssumption
<1>3. Leads[Address[r]] \in Inbox \union {Elsewhere, BadUrl}
  BY <1>2, FanOutAssumption
<1> QED
  BY <1>2, <1>3 DEF MemberInboxes, Unaddressed
-----------------------------------------------------------------------------
(***************************************************************************)
(* What the actions do to the tasks.                                       *)
(***************************************************************************)

\* The task of u becomes this, the others stay what they are.
Becomes(u, pc, todo, current, to, attempt, bases, reply) ==
    /\ task' \in [Unit -> Task]
    /\ \A v \in Unit : v # u => task'[v] = task[v]
    /\ task'[u].pc = pc /\ task'[u].todo = todo /\ task'[u].current = current
    /\ task'[u].to = to /\ task'[u].attempt = attempt
    /\ task'[u].bases = bases /\ task'[u].reply = reply

\* It goes on at pc with this list.
Moves(u, pc, todo) ==
    Becomes(u, pc, todo, task[u].current, task[u].to, task[u].attempt, task[u].bases,
            task[u].reply)

LEMMA TaskFields ==
    ASSUME TypeOK, NEW u \in Unit
    PROVE  /\ task \in [Unit -> Task] /\ task[u] \in Task
           /\ task[u].pc \in Pc /\ task[u].todo \subseteq Recipient
           /\ task[u].current \in Recipient \union {Nobody}
           /\ task[u].to \in Inbox \union {Elsewhere}
           /\ task[u].attempt \in 0 .. MaxAttempts /\ task[u].bases \subseteq Host
           /\ task[u].reply \in {"none", "stored", "refused", "failed"}
  BY DEF TypeOK, Task

\* Any change of a task is one by a record of its type.
LEMMA SetTask ==
    ASSUME TypeOK, NEW u \in Unit, NEW t \in Task, task' = [task EXCEPT ![u] = t]
    PROVE  Becomes(u, t.pc, t.todo, t.current, t.to, t.attempt, t.bases, t.reply)
  BY TaskFields DEF Becomes

LEMMA GotoMoves ==
    ASSUME TypeOK, NEW u \in Unit, NEW pc \in Pc, Goto(u, pc)
    PROVE  Moves(u, pc, task[u].todo)
<1> DEFINE t == [task[u] EXCEPT !.pc = pc]
<1>1. task' = [task EXCEPT ![u] = t]
  BY TaskFields DEF Goto
<1>2. /\ t \in Task /\ t.pc = pc /\ t.todo = task[u].todo /\ t.current = task[u].current
      /\ t.to = task[u].to /\ t.attempt = task[u].attempt /\ t.bases = task[u].bases /\ t.reply = task[u].reply
  BY TaskFields DEF Task
<1> QED
  BY <1>1, <1>2, SetTask DEF Moves

LEMMA TodoMoves ==
    ASSUME TypeOK, NEW u \in Unit, NEW pc \in Pc, NEW todo \in SUBSET Recipient,
           task' = [task EXCEPT ![u].pc = pc, ![u].todo = todo]
    PROVE  Moves(u, pc, todo)
<1> DEFINE t == [task[u] EXCEPT !.pc = pc, !.todo = todo]
<1>1. task' = [task EXCEPT ![u] = t]
  BY TaskFields
<1>2. /\ t \in Task /\ t.pc = pc /\ t.todo = todo /\ t.current = task[u].current
      /\ t.to = task[u].to /\ t.attempt = task[u].attempt /\ t.bases = task[u].bases /\ t.reply = task[u].reply
  BY TaskFields DEF Task
<1> QED
  BY <1>1, <1>2, SetTask DEF Moves
-----------------------------------------------------------------------------
(***************************************************************************)
(* The invariant, unit by unit.                                            *)
(***************************************************************************)
OnlyRecipientsOf(u) ==
    /\ \A n \in Node, d \in Author : u \in inbox[n][d] => MayReceive(u, d, n)
    /\ \A c \in calls : c.unit = u => MayReceive(u, c.to[1], c.to[2])

NobodyForgottenBy(u) ==
    PastLocal(u) => \A d \in steady[u] \ missed[u] : u \in inbox[Origin[u]][d]

AckedIsDeliveredOf(u) == \A r \in reached[u] \ purged : u \in inbox[r[2]][r[1]]

RemoteIsSettledOf(u) ==
    task[u].pc = "done" /\ u.visibility = "limited" =>
        \A r \in Remote[u] \ Unaddressed(u) : Settled(u, r)

NoticeIsTrueOf(u) ==
    \A n \in Node, d \in Author, r \in Recipient : Notice(u, r) \in inbox[n][d] =>
        n = Origin[u] /\ d = u.author /\ r \in told[u]

UnitInv(u) ==
    /\ TaskInv(u)
    /\ OnlyRecipientsOf(u) /\ NobodyForgottenBy(u) /\ AckedIsDeliveredOf(u)
    /\ RemoteIsSettledOf(u) /\ NoticeIsTrueOf(u)

LEMMA NoticeFields ==
    ASSUME NEW u, NEW r
    PROVE  Notice(u, r).about = u /\ Notice(u, r).missing = r
  BY DEF Notice

EveryUnitInv == TypeOK /\ \A u \in Unit : UnitInv(u)

LEMMA UnitByUnit == IInv <=> EveryUnitInv
<1> USE DEF EveryUnitInv
<1>1. ASSUME IInv, NEW u \in Unit PROVE UnitInv(u)
  <2>1. NoticeIsTrueOf(u)
    <3>1. ASSUME NEW n \in Node, NEW d \in Author, NEW r \in Recipient, Notice(u, r) \in inbox[n][d]
          PROVE  n = Origin[u] /\ d = u.author /\ r \in told[u]
      <4>1. Notice(u, r) \in inbox[n][d] \ Unit
        BY <3>1, UnitFacts
      <4> QED
        BY <1>1, <4>1, NoticeFields DEF IInv, NoticeIsTrue
    <3> QED
      BY <3>1 DEF NoticeIsTrueOf
  <2>2. OnlyRecipientsOf(u)
    BY <1>1 DEF IInv, OnlyRecipients, OnlyRecipientsOf
  <2>3. NobodyForgottenBy(u) /\ AckedIsDeliveredOf(u) /\ RemoteIsSettledOf(u)
    BY <1>1 DEF IInv, NobodyForgotten, NobodyForgottenBy, AckedIsDelivered, AckedIsDeliveredOf,
                RemoteIsSettled, RemoteIsSettledOf, Settled
  <2> QED
    BY <1>1, <2>1, <2>2, <2>3 DEF IInv, UnitInv
<1>2. ASSUME TypeOK, \A u \in Unit : UnitInv(u) PROVE IInv
  <2>1. NoticeIsTrue
    <3>1. ASSUME NEW n \in Node, NEW d \in Author, NEW x \in inbox[n][d] \ Unit
          PROVE  /\ n = Origin[x.about] /\ d = x.about.author
                 /\ x.missing \in told[x.about] \ acked[x.about]
      <4>1. x \in Notices
        BY <1>2, <3>1 DEF TypeOK
      <4>2. PICK u \in Unit, r \in Recipient : x = Notice(u, r)
        BY <4>1 DEF Notices
      <4>3. NoticeIsTrueOf(u) /\ acked[u] \intersect told[u] = {}
        BY <1>2 DEF UnitInv, TaskInv, OnceInv
      <4> QED
        BY <3>1, <4>2, <4>3, NoticeFields DEF NoticeIsTrueOf
    <3> QED
      BY <3>1 DEF NoticeIsTrue
  <2>2. OnlyRecipients
    <3>1. \A c \in calls : c.unit \in Unit
      BY <1>2 DEF TypeOK, Call
    <3> QED
      BY <1>2, <3>1 DEF UnitInv, OnlyRecipients, OnlyRecipientsOf
  <2>3. NobodyForgotten /\ AckedIsDelivered /\ RemoteIsSettled
    BY <1>2 DEF UnitInv, NobodyForgotten, NobodyForgottenBy, AckedIsDelivered, AckedIsDeliveredOf,
                RemoteIsSettled, RemoteIsSettledOf, Settled
  <2> QED
    BY <1>2, <2>1, <2>2, <2>3 DEF IInv, UnitInv
<1>3. IInv => TypeOK
  BY DEF IInv
<1> QED
  BY <1>1, <1>2, <1>3

\* A step that leaves alone what concerns v keeps the invariant of v.
Untouched(v) ==
    /\ task'[v] = task[v] /\ steady'[v] = steady[v] /\ missed'[v] = missed[v]
    /\ acked'[v] = acked[v] /\ reached'[v] = reached[v] /\ told'[v] = told[v]
    /\ eligible'[v] = eligible[v] /\ addressed'[v] = addressed[v]
    /\ \A n \in Node, d \in Author :
          /\ v \in inbox'[n][d] <=> v \in inbox[n][d]
          /\ \A r \in Recipient : Notice(v, r) \in inbox'[n][d] => Notice(v, r) \in inbox[n][d]
    /\ \A c \in calls' : c.unit = v => \E b \in calls : b.unit = v /\ b.to = c.to

LEMMA UntouchedKeeps ==
    ASSUME TypeOK, NEW v \in Unit, UnitInv(v), Untouched(v), UNCHANGED <<profile, follows, purged>>
    PROVE  UnitInv(v)'
<1> USE DEF Untouched, UnitInv, TaskInv, MayReceive, AtFollowers, AtHosts, AtMembers
<1>1. StartInv(v)'
  BY DEF StartInv, LocalRecipients, Followers
<1>2. TargetInv(v)'
  BY DEF TargetInv
<1>3. SteadyInv(v)'
  <2>1. steady[v] \subseteq Author /\ Origin[v] \in Node
    BY UnitFacts DEF TypeOK
  <2> QED
    BY <2>1 DEF SteadyInv, LocalRecipients, Followers, Registered
<1>4. ReplyInv(v)'
  BY TaskFields DEF ReplyInv, Inbox
<1>5. SettleInv(v)'
  BY DEF SettleInv, Settled
<1>6. OnceInv(v)'
  BY DEF OnceInv
<1>7. OnlyRecipientsOf(v)'
  BY DEF OnlyRecipientsOf
<1>8. NobodyForgottenBy(v)'
  <2>1. steady[v] \subseteq Author /\ Origin[v] \in Node
    BY UnitFacts DEF TypeOK
  <2> QED
    BY <2>1 DEF NobodyForgottenBy, PastLocal
<1>9. AckedIsDeliveredOf(v)'
  <2>1. reached[v] \subseteq Inbox
    BY DEF TypeOK
  <2> QED
    BY <2>1 DEF AckedIsDeliveredOf, Inbox
<1>10. RemoteIsSettledOf(v)'
  BY DEF RemoteIsSettledOf, Settled
<1>11. NoticeIsTrueOf(v)'
  BY DEF NoticeIsTrueOf
<1> QED
  BY <1>1, <1>2, <1>3, <1>4, <1>5, <1>6, <1>7, <1>8, <1>9, <1>10, <1>11
-----------------------------------------------------------------------------
(***************************************************************************)
(* The steps of a task.                                                    *)
(***************************************************************************)

\* What the steps of the task of u leave alone.
TaskFrame(u) ==
    /\ UNCHANGED <<profile, follows, requests, eligible, addressed, steady, purged, changes>>
    /\ \A v \in Unit : v # u =>
          /\ task'[v] = task[v] /\ missed'[v] = missed[v]
          /\ acked'[v] = acked[v] /\ reached'[v] = reached[v] /\ told'[v] = told[v]

\* A step that only moves the task of u.
LEMMA MoveFrame ==
    ASSUME TypeOK, NEW u \in Unit, task' \in [Unit -> Task],
           \A v \in Unit : v # u => task'[v] = task[v],
           UNCHANGED <<agentVars, inbox, requests, calls, historyVars, changes>>, faults' \in Nat
    PROVE  TypeOK' /\ TaskFrame(u)
<1>1. TypeOK'
  BY DEF TypeOK
<1> QED
  BY <1>1 DEF TaskFrame

\* The other units are not concerned.
LEMMA OthersKeep ==
    ASSUME TypeOK, NEW u \in Unit, \A v \in Unit : UnitInv(v), TaskFrame(u),
           \A v \in Unit : v # u =>
              /\ \A n \in Node, d \in Author :
                    /\ v \in inbox'[n][d] <=> v \in inbox[n][d]
                    /\ \A r \in Recipient : Notice(v, r) \in inbox'[n][d] => Notice(v, r) \in inbox[n][d]
              /\ \A c \in calls' : c.unit = v => \E b \in calls : b.unit = v /\ b.to = c.to,
           UnitInv(u)'
    PROVE  \A v \in Unit : UnitInv(v)'
<1>1. ASSUME NEW v \in Unit, v # u PROVE Untouched(v)
  BY <1>1 DEF TaskFrame, Untouched
<1> QED
  BY <1>1, UntouchedKeeps DEF TaskFrame

\* Nor is u itself, where the step leaves storage and calls alone: what was promised
\* of them before is promised still.
LEMMA PromisesKept ==
    ASSUME TypeOK, NEW u \in Unit, UnitInv(u), TaskFrame(u), UNCHANGED <<inbox, calls>>,
           task[u].pc # "none", task'[u].pc # "none",
           told[u] \subseteq told'[u], missed[u] \subseteq missed'[u]
    PROVE  /\ StartInv(u)' /\ OnlyRecipientsOf(u)' /\ NoticeIsTrueOf(u)'
           /\ (reached'[u] = reached[u] => AckedIsDeliveredOf(u)')
           /\ (PastLocal(u) => NobodyForgottenBy(u)')
           /\ (task'[u].pc \notin {"check", "deliver"} => SteadyInv(u)')
<1> USE DEF TaskFrame, UnitInv, TaskInv, MayReceive
<1>1. StartInv(u)'
  BY DEF StartInv, LocalRecipients, Followers
<1>2. OnlyRecipientsOf(u)'
  BY DEF OnlyRecipientsOf
<1>3. NoticeIsTrueOf(u)'
  BY DEF NoticeIsTrueOf
<1>4. reached'[u] = reached[u] => AckedIsDeliveredOf(u)'
  BY DEF AckedIsDeliveredOf
<1>5. PastLocal(u) => NobodyForgottenBy(u)'
  BY DEF NobodyForgottenBy
<1>6. task'[u].pc \notin {"check", "deliver"} => SteadyInv(u)'
  BY DEF SteadyInv, LocalRecipients, Followers, Registered
<1> QED
  BY <1>1, <1>2, <1>3, <1>4, <1>5, <1>6

LEMMA FaultType == ASSUME TypeOK, Fault \/ UNCHANGED faults PROVE faults' \in Nat
  BY DEF TypeOK, Fault

LEMMA EndLocalKeeps ==
    ASSUME TypeOK, \A v \in Unit : UnitInv(v), NEW u \in Unit, EndLocal(u)
    PROVE  TypeOK' /\ \A v \in Unit : UnitInv(v)'
<1>1. Moves(u, "remote", task[u].todo)
  BY GotoMoves DEF EndLocal, Pc
<1>2. TypeOK' /\ TaskFrame(u)
  BY <1>1, MoveFrame, FaultType DEF Moves, Becomes, EndLocal
<1>3. UnitInv(u)'
  <2> USE <1>1 DEF Moves, Becomes, EndLocal, UnitInv, TaskInv, AtFollowers, AtHosts, AtMembers, Pushing
  <2>1. /\ StartInv(u)' /\ SteadyInv(u)' /\ OnlyRecipientsOf(u)' /\ NoticeIsTrueOf(u)'
        /\ AckedIsDeliveredOf(u)'
    BY <1>2, PromisesKept DEF OnceInv
  <2>2. TargetInv(u)' /\ ReplyInv(u)' /\ SettleInv(u)' /\ RemoteIsSettledOf(u)'
    BY DEF TargetInv, ReplyInv, SettleInv, RemoteIsSettledOf
  <2>3. OnceInv(u)'
    BY DEF OnceInv
  <2>4. NobodyForgottenBy(u)'
    BY DEF SteadyInv, NobodyForgottenBy
  <2> QED
    BY <2>1, <2>2, <2>3, <2>4
<1> QED
  BY <1>2, <1>3, OthersKeep DEF EndLocal

LEMMA SubmitKeeps ==
    ASSUME TypeOK, \A v \in Unit : UnitInv(v), NEW u \in Unit, Submit(u)
    PROVE  TypeOK' /\ \A v \in Unit : UnitInv(v)'
<1> USE DEF Submit
<1>1. Moves(u, "list", task[u].todo)
  BY GotoMoves DEF Pc
<1>2. LocalRecipients(u) \subseteq Author
  BY UnitFacts DEF LocalRecipients, Followers
<1>3. TypeOK'
  <2>1. UNION {PushedTo(Origin[u], profile[Origin[u]][d]) : d \in Followers(Origin[u], u.author)}
           \subseteq Inbox
    BY PushedToInbox
  <2>2. addressed' \in [Unit -> SUBSET Inbox]
    BY <2>1 DEF TypeOK
  <2> QED
    BY <1>1, <1>2, <2>2, UnitFacts DEF TypeOK, Moves, Becomes, Followers
<1>4. /\ eligible'[u] = Followers(Origin[u], u.author)
      /\ addressed'[u] = UNION {PushedTo(Origin[u], profile[Origin[u]][d]) : d \in eligible'[u]}
      /\ steady'[u] = {d \in LocalRecipients(u) : Registered(Origin[u], d)}
  BY DEF TypeOK
<1>5. UnitInv(u)'
  <2> USE <1>1 DEF Moves, Becomes, UnitInv, TaskInv, AtFollowers, AtHosts, AtMembers, Pushing
  <2>1. StartInv(u)'
    BY <1>4 DEF StartInv, LocalRecipients, Followers
  <2>2. OnlyRecipientsOf(u)'
    BY DEF StartInv, OnlyRecipientsOf
  <2>3. SteadyInv(u)'
    BY <1>4 DEF SteadyInv, LocalRecipients, Followers, Registered
  <2>4. /\ TargetInv(u)' /\ ReplyInv(u)' /\ SettleInv(u)' /\ RemoteIsSettledOf(u)'
        /\ NobodyForgottenBy(u)'
    BY DEF TargetInv, ReplyInv, SettleInv, RemoteIsSettledOf, NobodyForgottenBy, PastLocal
  <2>5. OnceInv(u)' /\ AckedIsDeliveredOf(u)'
    BY DEF OnceInv, AckedIsDeliveredOf
  <2>6. NoticeIsTrueOf(u)'
    BY DEF NoticeIsTrueOf
  <2> QED
    BY <2>1, <2>2, <2>3, <2>4, <2>5, <2>6
<1>6. ASSUME NEW v \in Unit, v # u PROVE UnitInv(v)'
  <2>1. Untouched(v)
    BY <1>1, <1>6 DEF Untouched, Moves, Becomes
  <2> QED
    BY <2>1, UntouchedKeeps
<1> QED
  BY <1>3, <1>5, <1>6

LEMMA ListLocalKeeps ==
    ASSUME TypeOK, \A v \in Unit : UnitInv(v), NEW u \in Unit, ListLocal(u)
    PROVE  TypeOK' /\ \A v \in Unit : UnitInv(v)'
<1> DEFINE todo == {<<d, Origin[u]>> : d \in LocalRecipients(u)}
<1>1. LocalRecipients(u) \subseteq Author /\ todo \subseteq Author \X {Origin[u]}
  <2>1. LocalRecipients(u) \subseteq Author
    BY UnitFacts DEF LocalRecipients, Followers
  <2> QED
    BY <2>1
<1>2. \/ Moves(u, "check", todo) /\ UNCHANGED <<missed, faults>>
      \/ /\ Moves(u, "remote", task[u].todo) /\ Fault
         /\ missed' = [missed EXCEPT ![u] = LocalRecipients(u)]
  <2>1. todo \in SUBSET Recipient
    BY <1>1, UnitFacts DEF Recipient
  <2> HIDE DEF todo
  <2>2. task' = [task EXCEPT ![u].pc = "check", ![u].todo = todo] => Moves(u, "check", todo)
    BY <2>1, TodoMoves DEF Pc
  <2>3. Goto(u, "remote") => Moves(u, "remote", task[u].todo)
    BY GotoMoves DEF Pc
  <2> QED
    BY <2>2, <2>3 DEF ListLocal, todo
<1> HIDE DEF todo
<1>3. /\ task' \in [Unit -> Task] /\ \A v \in Unit : v # u => task'[v] = task[v]
      /\ task[u].pc = "list" /\ task'[u].pc \in {"check", "remote"}
      /\ UNCHANGED <<agentVars, inbox, requests, calls, eligible, addressed, steady, acked, reached, told,
                     purged, changes>>
  BY <1>2 DEF ListLocal, Moves, Becomes
<1>4. /\ missed' \in [Unit -> SUBSET Author] /\ \A v \in Unit : v # u => missed'[v] = missed[v]
      /\ missed[u] \subseteq missed'[u] \/ missed'[u] = LocalRecipients(u)
  BY <1>1, <1>2 DEF TypeOK
<1>5. TypeOK' /\ TaskFrame(u)
  BY <1>2, <1>3, <1>4 DEF TypeOK, TaskFrame, Fault
<1>6. UnitInv(u)'
  <2> USE <1>3 DEF UnitInv, TaskInv, AtFollowers, AtHosts, AtMembers, Pushing
  <2>1. StartInv(u)' /\ OnlyRecipientsOf(u)' /\ NoticeIsTrueOf(u)' /\ AckedIsDeliveredOf(u)'
    BY DEF StartInv, LocalRecipients, Followers, OnlyRecipientsOf, MayReceive, NoticeIsTrueOf,
           AckedIsDeliveredOf
  <2>2. ReplyInv(u)' /\ SettleInv(u)' /\ RemoteIsSettledOf(u)' /\ OnceInv(u)'
    BY DEF ReplyInv, SettleInv, RemoteIsSettledOf, OnceInv
  <2>3. \A d \in LocalRecipients(u) : MayReceive(u, d, Origin[u])
    BY DEF StartInv, LocalRecipients, MayReceive
  <2>4. TargetInv(u)'
    <3>1. \A r \in todo : MayReceive(u, r[1], r[2])
      BY <2>3 DEF todo
    <3> QED
      BY <1>1, <1>2, <3>1 DEF TargetInv, Moves, Becomes, MayReceive
  <2>5. SteadyInv(u)'
    BY <1>2 DEF SteadyInv, LocalRecipients, Followers, Registered, Moves, Becomes, todo
  <2>6. NobodyForgottenBy(u)'
    <3>1. task'[u].pc = "remote" => missed'[u] = LocalRecipients(u)
      BY <1>2 DEF Moves, Becomes, TypeOK
    <3> QED
      BY <3>1 DEF SteadyInv, NobodyForgottenBy, PastLocal
  <2> QED
    BY <2>1, <2>2, <2>4, <2>5, <2>6
<1> QED
  BY <1>3, <1>5, <1>6, OthersKeep

LEMMA CheckLocalKeeps ==
    ASSUME TypeOK, \A v \in Unit : UnitInv(v), NEW u \in Unit, NEW r, CheckLocal(u, r)
    PROVE  TypeOK' /\ \A v \in Unit : UnitInv(v)'
<1>1. /\ task[u].pc = "check" /\ r \in task[u].todo /\ task[u].todo \subseteq Recipient
      /\ task[u].todo \subseteq Author \X {Origin[u]}
      /\ r = <<r[1], Origin[u]>> /\ r[1] \in Author /\ r[2] = Origin[u] /\ Origin[u] \in Node
      /\ \A s \in task[u].todo : MayReceive(u, s[1], s[2])
  <2>1. /\ task[u].pc = "check" /\ r \in task[u].todo
        /\ task[u].todo \subseteq Author \X {Origin[u]}
        /\ \A s \in task[u].todo : MayReceive(u, s[1], s[2])
    BY DEF CheckLocal, UnitInv, TaskInv, TargetInv
  <2>2. r = <<r[1], Origin[u]>> /\ r[1] \in Author /\ r[2] = Origin[u]
    BY <2>1
  <2> QED
    BY <2>1, <2>2, UnitFacts, TaskFields
<1>2. \/ /\ Becomes(u, "deliver", task[u].todo \ {r}, r, task[u].to, task[u].attempt,
                    task[u].bases, task[u].reply)
         /\ UNCHANGED <<missed, faults>>
      \/ Moves(u, "check", task[u].todo \ {r}) /\ ~Registered(r[2], r[1]) /\ UNCHANGED <<missed, faults>>
      \/ /\ Moves(u, "remote", {}) /\ Fault
         /\ missed' = [missed EXCEPT ![u] = @ \union {s[1] : s \in task[u].todo}]
  <2>1. ASSUME task' = [task EXCEPT ![u].pc = "deliver", ![u].todo = @ \ {r}, ![u].current = r]
        PROVE  Becomes(u, "deliver", task[u].todo \ {r}, r, task[u].to, task[u].attempt,
                       task[u].bases, task[u].reply)
    <3> DEFINE t == [task[u] EXCEPT !.pc = "deliver", !.todo = @ \ {r}, !.current = r]
    <3>1. task' = [task EXCEPT ![u] = t]
      BY <2>1, TaskFields
    <3>2. /\ t \in Task /\ t.pc = "deliver" /\ t.todo = task[u].todo \ {r} /\ t.current = r
          /\ t.to = task[u].to /\ t.attempt = task[u].attempt /\ t.bases = task[u].bases /\ t.reply = task[u].reply
      BY <1>1, TaskFields DEF Task, Pc
    <3> QED
      BY <3>1, <3>2, SetTask
  <2>2. ASSUME task' = [task EXCEPT ![u].todo = @ \ {r}]
        PROVE  Moves(u, "check", task[u].todo \ {r})
    <3> DEFINE t == [task[u] EXCEPT !.todo = @ \ {r}]
    <3>1. task' = [task EXCEPT ![u] = t]
      BY <2>2, TaskFields
    <3>2. /\ t \in Task /\ t.pc = "check" /\ t.todo = task[u].todo \ {r} /\ t.current = task[u].current
          /\ t.to = task[u].to /\ t.attempt = task[u].attempt /\ t.bases = task[u].bases /\ t.reply = task[u].reply
      BY <1>1, TaskFields DEF Task
    <3> QED
      BY <3>1, <3>2, SetTask DEF Moves
  <2>3. ASSUME task' = [task EXCEPT ![u].pc = "remote", ![u].todo = {}] PROVE Moves(u, "remote", {})
    BY <2>3, TodoMoves DEF Pc
  <2> QED
    BY <2>1, <2>2, <2>3 DEF CheckLocal
<1>3. /\ task' \in [Unit -> Task] /\ \A v \in Unit : v # u => task'[v] = task[v]
      /\ task'[u].pc \in {"check", "deliver", "remote"}
      /\ UNCHANGED <<agentVars, inbox, requests, calls, eligible, addressed, steady, acked, reached, told,
                     purged, changes>>
  BY <1>2 DEF CheckLocal, Moves, Becomes
<1>4. /\ missed' \in [Unit -> SUBSET Author] /\ \A v \in Unit : v # u => missed'[v] = missed[v]
      /\ missed[u] \subseteq missed'[u]
  <2>1. {s[1] : s \in task[u].todo} \subseteq Author
    BY <1>1
  <2> QED
    BY <1>2, <2>1 DEF TypeOK
<1>5. TypeOK' /\ TaskFrame(u)
  BY <1>2, <1>3, <1>4 DEF TypeOK, TaskFrame, Fault
<1>6. UnitInv(u)'
  <2> USE <1>1, <1>3 DEF UnitInv, TaskInv, AtFollowers, AtHosts, AtMembers, Pushing
  <2>1. StartInv(u)' /\ OnlyRecipientsOf(u)' /\ NoticeIsTrueOf(u)' /\ AckedIsDeliveredOf(u)'
    BY <1>4, <1>5, PromisesKept DEF OnceInv
  <2>2. ReplyInv(u)' /\ SettleInv(u)' /\ RemoteIsSettledOf(u)' /\ OnceInv(u)'
    BY DEF ReplyInv, SettleInv, RemoteIsSettledOf, OnceInv
  <2>3. TargetInv(u)'
    BY <1>2 DEF TargetInv, Moves, Becomes, MayReceive
  <2>4. \A d \in steady[u] \ missed[u] : u \in inbox[Origin[u]][d] \/ <<d, Origin[u]>> \in task[u].todo
    BY DEF SteadyInv
  <2>5. SteadyInv(u)'
    <3>1. \A d \in steady[u] : Registered(Origin[u], d)
      BY DEF SteadyInv
    <3>2. task'[u].pc \in {"check", "deliver"} => missed' = missed
      BY <1>2 DEF Moves, Becomes
    <3>3. \A s \in task[u].todo :
             \/ s \in task'[u].todo
             \/ task'[u].pc = "remote"
             \/ s = r /\ task'[u].pc = "deliver" /\ task'[u].current = r
             \/ s = r /\ ~Registered(r[2], r[1])
      BY <1>2 DEF Moves, Becomes
    <3> QED
      BY <2>4, <3>1, <3>2, <3>3 DEF SteadyInv, LocalRecipients, Followers, Registered
  <2>6. NobodyForgottenBy(u)'
    <3>1. task'[u].pc = "remote" => missed'[u] = missed[u] \union {s[1] : s \in task[u].todo}
      BY <1>2 DEF Moves, Becomes, TypeOK
    <3>2. \A d : <<d, Origin[u]>> \in task[u].todo => d \in {s[1] : s \in task[u].todo}
      OBVIOUS
    <3> QED
      BY <2>4, <3>1, <3>2 DEF NobodyForgottenBy, PastLocal
  <2> QED
    BY <2>1, <2>2, <2>3, <2>5, <2>6
<1> QED
  BY <1>3, <1>5, <1>6, OthersKeep

\* An inbox gets one item more.
LEMMA InboxGrows ==
    ASSUME TypeOK, NEW n \in Node, NEW d \in Author, NEW x \in Unit \union Notices,
           inbox' = [inbox EXCEPT ![n][d] = @ \union {x}]
    PROVE  /\ inbox' \in [Node -> [Author -> SUBSET (Unit \union Notices)]]
           /\ \A m \in Node, e \in Author : \A y :
                 y \in inbox'[m][e] <=> y \in inbox[m][e] \/ (y = x /\ m = n /\ e = d)
<1>1. inbox \in [Node -> [Author -> SUBSET (Unit \union Notices)]]
  BY DEF TypeOK
<1>2. ASSUME NEW m \in Node, NEW e \in Author
      PROVE  inbox'[m][e] = IF m = n /\ e = d THEN inbox[n][d] \union {x} ELSE inbox[m][e]
  BY <1>1
<1>3. inbox' \in [Node -> [Author -> SUBSET (Unit \union Notices)]]
  <2>1. inbox[n][d] \union {x} \in SUBSET (Unit \union Notices)
    BY <1>1
  <2> QED
    BY <1>1, <2>1
<1> QED
  BY <1>2, <1>3

LEMMA DeliverLocalKeeps ==
    ASSUME TypeOK, \A v \in Unit : UnitInv(v), NEW u \in Unit, DeliverLocal(u)
    PROVE  TypeOK' /\ \A v \in Unit : UnitInv(v)'
<1> DEFINE d == task[u].current[1]
           n == Origin[u]
<1>1. /\ task[u].pc = "deliver" /\ task[u].current = <<d, n>> /\ d \in Author /\ n \in Node
      /\ MayReceive(u, d, n)
  <2>1. task[u].current \in Author \X {n} /\ MayReceive(u, d, task[u].current[2])
    BY DEF DeliverLocal, UnitInv, TaskInv, TargetInv
  <2> QED
    BY <2>1, UnitFacts DEF DeliverLocal
<1> HIDE DEF d, n
<1>2. Moves(u, "check", task[u].todo)
  BY GotoMoves DEF DeliverLocal, Pc
<1>3. \/ inbox' = [inbox EXCEPT ![n][d] = @ \union {u}] /\ UNCHANGED <<missed, faults>>
      \/ Fault /\ missed' = [missed EXCEPT ![u] = @ \union {d}] /\ UNCHANGED inbox
  BY DEF DeliverLocal, DeliverToInbox, d, n
<1>4. /\ task' \in [Unit -> Task] /\ \A v \in Unit : v # u => task'[v] = task[v]
      /\ task'[u].pc = "check" /\ task'[u].todo = task[u].todo
      /\ UNCHANGED <<agentVars, requests, calls, eligible, addressed, steady, acked, reached, told,
                     purged, changes>>
  BY <1>2 DEF DeliverLocal, Moves, Becomes
<1>5. /\ missed' \in [Unit -> SUBSET Author] /\ \A v \in Unit : v # u => missed'[v] = missed[v]
      /\ missed[u] \subseteq missed'[u]
  <2>1. missed \in [Unit -> SUBSET Author]
    BY DEF TypeOK
  <2>2. CASE UNCHANGED missed
    BY <2>1, <2>2
  <2>3. CASE missed' = [missed EXCEPT ![u] = @ \union {d}]
    BY <1>1, <2>1, <2>3
  <2> QED
    BY <1>3, <2>2, <2>3
<1>6. /\ inbox' \in [Node -> [Author -> SUBSET (Unit \union Notices)]]
      /\ \A m \in Node, e \in Author : \A x :
            /\ x \in inbox'[m][e] => x \in inbox[m][e] \/ (x = u /\ m = n /\ e = d)
            /\ x \in inbox[m][e] => x \in inbox'[m][e]
  <2>1. CASE UNCHANGED inbox
    BY <2>1 DEF TypeOK
  <2>2. CASE inbox' = [inbox EXCEPT ![n][d] = @ \union {u}]
    BY <1>1, <2>2, InboxGrows
  <2> QED
    BY <1>3, <2>1, <2>2
<1>7. TypeOK' /\ TaskFrame(u)
  BY <1>3, <1>4, <1>5, <1>6 DEF TypeOK, TaskFrame, Fault
<1>8. UnitInv(u)'
  <2> USE <1>1, <1>4 DEF UnitInv, TaskInv, AtFollowers, AtHosts, AtMembers, Pushing
  <2>1. StartInv(u)'
    BY DEF StartInv, LocalRecipients, Followers
  <2>2. OnlyRecipientsOf(u)'
    BY <1>6 DEF OnlyRecipientsOf, MayReceive
  <2>3. NoticeIsTrueOf(u)'
    BY <1>6, UnitFacts DEF NoticeIsTrueOf
  <2>4. AckedIsDeliveredOf(u)' /\ OnceInv(u)'
    <3>1. reached[u] \subseteq Inbox
      BY DEF TypeOK
    <3> QED
      BY <1>6, <3>1 DEF AckedIsDeliveredOf, OnceInv, Inbox
  <2>5. ReplyInv(u)' /\ SettleInv(u)' /\ RemoteIsSettledOf(u)' /\ NobodyForgottenBy(u)'
    BY DEF ReplyInv, SettleInv, RemoteIsSettledOf, NobodyForgottenBy, PastLocal
  <2>6. TargetInv(u)'
    BY DEF TargetInv, MayReceive
  <2>7. SteadyInv(u)'
    <3>1. \A e \in steady[u] \ missed[u] : u \in inbox[n][e] \/ <<e, n>> \in task[u].todo \/ e = d
      BY DEF SteadyInv, n
    <3>2. d \in missed'[u] \/ u \in inbox'[n][d]
      BY <1>3 DEF TypeOK
    <3>3. steady[u] \subseteq Author
      BY DEF TypeOK
    <3>4. \A e \in steady'[u] \ missed'[u] : u \in inbox'[n][e] \/ <<e, n>> \in task'[u].todo
      BY <1>5, <1>6, <3>1, <3>2, <3>3
    <3> QED
      BY <3>4 DEF SteadyInv, LocalRecipients, Followers, Registered, n
  <2> QED
    BY <2>1, <2>2, <2>3, <2>4, <2>5, <2>6, <2>7
<1>9. \A v \in Unit, m \in Node, e \in Author : v # u =>
         /\ v \in inbox'[m][e] <=> v \in inbox[m][e]
         /\ \A r \in Recipient : Notice(v, r) \in inbox'[m][e] => Notice(v, r) \in inbox[m][e]
  BY <1>6, UnitFacts
<1> QED
  BY <1>4, <1>7, <1>8, <1>9, OthersKeep

\* remote_fanout, while it leaves inboxes and calls alone.
LEMMA RemoteStep ==
    ASSUME TypeOK, \A v \in Unit : UnitInv(v), NEW u \in Unit, TaskFrame(u),
           PastLocal(u), task'[u].pc \notin {"none", "list", "check", "deliver"},
           UNCHANGED <<inbox, calls, missed, acked, reached>>, told[u] \subseteq told'[u],
           TargetInv(u)', ReplyInv(u)', SettleInv(u)', OnceInv(u)', RemoteIsSettledOf(u)'
    PROVE  \A v \in Unit : UnitInv(v)'
<1>1. task[u].pc # "none"
  BY DEF PastLocal
<1>2. UnitInv(u)'
  BY <1>1, PromisesKept DEF UnitInv, TaskInv
<1> QED
  BY <1>2, OthersKeep

LEMMA ListRemoteKeeps ==
    ASSUME TypeOK, \A v \in Unit : UnitInv(v), NEW u \in Unit, ListRemote(u)
    PROVE  TypeOK' /\ \A v \in Unit : UnitInv(v)'
<1> DEFINE followers == {<<d, Origin[u]>> : d \in Followers(Origin[u], u.author)}
           hosts == {<<Nobody, r[2]>> : r \in Remote[u]}
<1>1. followers \in SUBSET Recipient /\ hosts \in SUBSET Recipient
  <2>1. \A r \in Remote[u] : r[2] \in Host
    BY UnitFacts
  <2>2. hosts \in SUBSET Recipient
    BY <2>1 DEF Recipient
  <2>3. Followers(Origin[u], u.author) \subseteq Author /\ Origin[u] \in Host
    BY UnitFacts DEF Followers
  <2>4. followers \in SUBSET Recipient
    BY <2>3 DEF Recipient
  <2> QED
    BY <2>2, <2>4
<1>2. u.visibility = "network" => followers \subseteq eligible[u] \X {Origin[u]}
  BY DEF ListRemote, UnitInv, TaskInv, StartInv, LocalRecipients
<1> HIDE DEF followers, hosts
<1>3. \/ Moves(u, "profile", followers) /\ u.visibility = "network"
      \/ Moves(u, "done", task[u].todo) /\ u.visibility = "network"
      \/ Moves(u, "discover", hosts) /\ u.visibility = "limited"
  <2>1. task' = [task EXCEPT ![u].pc = "profile", ![u].todo = followers] => Moves(u, "profile", followers)
    BY <1>1, TodoMoves DEF Pc
  <2>2. task' = [task EXCEPT ![u].pc = "discover", ![u].todo = hosts] => Moves(u, "discover", hosts)
    BY <1>1, TodoMoves DEF Pc
  <2>3. Goto(u, "done") => Moves(u, "done", task[u].todo)
    BY GotoMoves DEF Pc
  <2> QED
    BY <2>1, <2>2, <2>3 DEF ListRemote, followers, hosts
<1>4. TypeOK' /\ TaskFrame(u)
  BY <1>3, MoveFrame, FaultType DEF ListRemote, Moves, Becomes
<1>5. acked[u] = {} /\ told[u] = {} /\ task[u].pc = "remote"
  BY DEF ListRemote, UnitInv, TaskInv, OnceInv
<1> USE <1>3, <1>5 DEF Moves, Becomes, AtFollowers, AtHosts, AtMembers, Pushing
<1>6. TargetInv(u)' /\ ReplyInv(u)' /\ RemoteIsSettledOf(u)'
  BY <1>2, <1>4 DEF TargetInv, ReplyInv, RemoteIsSettledOf, MayReceive, TaskFrame, hosts
<1>7. SettleInv(u)'
  BY DEF SettleInv, hosts
<1>8. acked'[u] = {} /\ told'[u] = {}
  BY DEF ListRemote
<1>9. OnceInv(u)'
  BY <1>8 DEF OnceInv
<1> QED
  BY <1>4, <1>6, <1>7, <1>8, <1>9, RemoteStep DEF ListRemote, PastLocal

\* The task takes r off its list.
LEMMA TakeOff ==
    ASSUME TypeOK, NEW u \in Unit, NEW r, task' = [task EXCEPT ![u].todo = @ \ {r}]
    PROVE  Moves(u, task[u].pc, task[u].todo \ {r})
<1> DEFINE t == [task[u] EXCEPT !.todo = @ \ {r}]
<1>1. task' = [task EXCEPT ![u] = t]
  BY TaskFields
<1>2. /\ t \in Task /\ t.pc = task[u].pc /\ t.todo = task[u].todo \ {r}
      /\ t.current = task[u].current /\ t.to = task[u].to /\ t.attempt = task[u].attempt /\ t.bases = task[u].bases
      /\ t.reply = task[u].reply
  BY TaskFields DEF Task
<1> QED
  BY <1>1, <1>2, SetTask DEF Moves

\* ... and starts to push to the URL it has for r, one that can be parsed.
LEMMA StartPushBecomes ==
    ASSUME TypeOK, NEW u \in Unit, NEW r \in Recipient, NEW url \in Url, Leads[url] # BadUrl,
           StartPush(u, r, url)
    PROVE  /\ Leads[url] \in Inbox \union {Elsewhere}
           /\ Becomes(u, "push", task[u].todo \ {r}, r, Leads[url], 1, task[u].bases, task[u].reply)
<1> DEFINE to == Leads[url]
           t == [task[u] EXCEPT !.pc = "push", !.todo = @ \ {r}, !.current = r, !.to = to,
                                !.attempt = 1]
<1>1. to \in Inbox \union {Elsewhere}
  BY FanOutAssumption
<1> HIDE DEF to
<1>2. task' = [task EXCEPT ![u] = t]
  BY TaskFields DEF StartPush, to
<1>3. 1 \in 0 .. MaxAttempts
  BY FanOutAssumption
<1>4. /\ t.pc = "push" /\ t.todo = task[u].todo \ {r} /\ t.current = r /\ t.to = to
      /\ t.attempt = 1 /\ t.bases = task[u].bases /\ t.reply = task[u].reply
  BY TaskFields DEF Task
<1>5. t \in Task
  BY <1>1, <1>3, TaskFields DEF Task, Pc
<1> HIDE DEF t
<1>6. Becomes(u, "push", task[u].todo \ {r}, r, to, 1, task[u].bases, task[u].reply)
  BY <1>2, <1>4, <1>5, SetTask
<1> QED
  BY <1>1, <1>6 DEF to

LEMMA FindInboxKeeps ==
    ASSUME TypeOK, \A v \in Unit : UnitInv(v), NEW u \in Unit, NEW r, FindInbox(u, r)
    PROVE  TypeOK' /\ \A v \in Unit : UnitInv(v)'
<1> DEFINE url == profile[r[2]][r[1]]
           to == Leads[url]
<1>1. /\ task[u].pc = "profile" /\ u.visibility = "network" /\ r \in task[u].todo
      /\ task[u].todo \subseteq eligible[u] \X {Origin[u]}
  BY DEF FindInbox, UnitInv, TaskInv, TargetInv, AtFollowers
<1>2. /\ r[1] \in eligible[u] /\ r[1] \in Author /\ r = <<r[1], Origin[u]>> /\ r[2] = Origin[u]
      /\ r \in Recipient /\ r[1] # Nobody
  BY <1>1, UnitFacts, FanOutAssumption DEF TypeOK, Recipient
<1> HIDE DEF url
<1>3. \/ /\ to \in Inbox \union {Elsewhere}
         /\ to # Elsewhere => to \in addressed[u]
         /\ Becomes(u, "push", task[u].todo \ {r}, r, to, 1, task[u].bases, task[u].reply)
      \/ Moves(u, "profile", task[u].todo \ {r})
  <2>1. CASE url \in Pushable(Origin[u]) /\ StartPush(u, r, url)
    <3>1. /\ to \in Inbox \union {Elsewhere}
          /\ Becomes(u, "push", task[u].todo \ {r}, r, to, 1, task[u].bases, task[u].reply)
      BY <1>2, <2>1, StartPushBecomes DEF Pushable
    <3>2. to # Elsewhere => PushedTo(Origin[u], url) = {to}
      BY <2>1, <3>1 DEF Pushable, PushedTo
    <3>3. PushedTo(Origin[u], url) \subseteq addressed[u]
      BY <1>2 DEF UnitInv, TaskInv, StartInv, url
    <3> QED
      BY <3>1, <3>2, <3>3
  <2>2. CASE task' = [task EXCEPT ![u].todo = @ \ {r}]
    BY <1>1, <2>2, TakeOff
  <2> QED
    BY <2>1, <2>2 DEF FindInbox, url
<1> HIDE DEF to
<1>4. TypeOK' /\ TaskFrame(u)
  BY <1>3, MoveFrame, FaultType DEF FindInbox, Moves, Becomes
<1>5. TargetInv(u)'
  <2>1. UNCHANGED <<eligible, addressed>>
    BY <1>4 DEF TaskFrame
  <2>2. CASE /\ to \in Inbox \union {Elsewhere}
             /\ to # Elsewhere => to \in addressed[u]
             /\ Becomes(u, "push", task[u].todo \ {r}, r, to, 1, task[u].bases, task[u].reply)
    <3>1. to # Elsewhere => <<to[1], to[2]>> \in addressed'[u]
      BY <2>1, <2>2 DEF Inbox
    <3>2. /\ task'[u].pc = "push" /\ task'[u].todo = task[u].todo \ {r} /\ task'[u].current = r
          /\ task'[u].to = to /\ task'[u].attempt = 1
      BY <2>2 DEF Becomes
    <3>3. 1 \in 1 .. MaxAttempts /\ r \in eligible'[u] \X {Origin[u]}
      BY <1>1, <2>1, FanOutAssumption
    <3>4. task'[u].to # Elsewhere => MayReceive(u, task[u].to[1], task[u].to[2])'
      BY <1>1, <3>1, <3>2 DEF MayReceive
    <3> QED
      BY <1>1, <1>2, <2>1, <3>2, <3>3, <3>4 DEF TargetInv, AtFollowers, AtHosts, AtMembers, Pushing
  <2>3. CASE Moves(u, "profile", task[u].todo \ {r})
    BY <1>1, <2>1, <2>3 DEF TargetInv, Moves, Becomes, AtFollowers, AtHosts, AtMembers, Pushing
  <2> QED
    BY <1>3, <2>2, <2>3
<1> USE <1>1, <1>2, <1>3 DEF Moves, Becomes, AtFollowers, AtHosts, AtMembers, Pushing
<1>6. ReplyInv(u)' /\ RemoteIsSettledOf(u)' /\ SettleInv(u)'
  BY DEF ReplyInv, RemoteIsSettledOf, SettleInv
<1>7. OnceInv(u)'
  <2>1. acked'[u] = acked[u] /\ told'[u] = told[u]
    BY DEF FindInbox
  <2>2. OnceInv(u)
    BY DEF UnitInv, TaskInv
  <2> QED
    BY <2>1, <2>2 DEF OnceInv
<1> QED
  BY <1>4, <1>5, <1>6, <1>7, RemoteStep DEF FindInbox, PastLocal

LEMMA DiscoverKeeps ==
    ASSUME TypeOK, \A v \in Unit : UnitInv(v), NEW u \in Unit, NEW r, Discover(u, r)
    PROVE  TypeOK' /\ \A v \in Unit : UnitInv(v)'
<1>1. /\ task[u].pc = "discover" /\ u.visibility = "limited" /\ r \in task[u].todo
      /\ task[u].todo \subseteq {<<Nobody, s[2]>> : s \in Remote[u]}
  BY DEF Discover, UnitInv, TaskInv, TargetInv, AtHosts
<1>2. r = <<Nobody, r[2]>> /\ r[1] = Nobody /\ r[2] \in Host /\ r \in Recipient
  BY <1>1, UnitFacts DEF Recipient
<1>3. \/ Becomes(u, "discover", task[u].todo \ {r}, task[u].current, task[u].to, task[u].attempt,
                 task[u].bases \union {r[2]}, task[u].reply)
      \/ Becomes(u, "notify", task[u].todo \ {r}, r, task[u].to, task[u].attempt, task[u].bases,
                 task[u].reply)
  <2>1. ASSUME task' = [task EXCEPT ![u].todo = @ \ {r}, ![u].bases = @ \union {r[2]}]
        PROVE  Becomes(u, "discover", task[u].todo \ {r}, task[u].current, task[u].to, task[u].attempt,
                       task[u].bases \union {r[2]}, task[u].reply)
    <3> DEFINE t == [task[u] EXCEPT !.todo = @ \ {r}, !.bases = @ \union {r[2]}]
    <3>1. task' = [task EXCEPT ![u] = t]
      BY <2>1, TaskFields
    <3>2. /\ t \in Task /\ t.pc = "discover" /\ t.todo = task[u].todo \ {r}
          /\ t.current = task[u].current /\ t.to = task[u].to /\ t.attempt = task[u].attempt
          /\ t.bases = task[u].bases \union {r[2]} /\ t.reply = task[u].reply
      BY <1>1, <1>2, TaskFields DEF Task
    <3> QED
      BY <3>1, <3>2, SetTask
  <2>2. ASSUME task' = [task EXCEPT ![u].todo = @ \ {r}, ![u].current = r, ![u].pc = "notify"]
        PROVE  Becomes(u, "notify", task[u].todo \ {r}, r, task[u].to, task[u].attempt, task[u].bases,
                       task[u].reply)
    <3> DEFINE t == [task[u] EXCEPT !.todo = @ \ {r}, !.current = r, !.pc = "notify"]
    <3>1. task' = [task EXCEPT ![u] = t]
      BY <2>2, TaskFields
    <3>2. /\ t \in Task /\ t.pc = "notify" /\ t.todo = task[u].todo \ {r} /\ t.current = r
          /\ t.to = task[u].to /\ t.attempt = task[u].attempt /\ t.bases = task[u].bases /\ t.reply = task[u].reply
      BY <1>1, <1>2, TaskFields DEF Task, Pc
    <3> QED
      BY <3>1, <3>2, SetTask
  <2> QED
    BY <2>1, <2>2 DEF Discover
<1>4. TypeOK' /\ TaskFrame(u)
  BY <1>3, MoveFrame, FaultType DEF Discover, Becomes
<1> USE <1>1, <1>2, <1>3 DEF Becomes, AtFollowers, AtHosts, AtMembers, Pushing
<1>5. ReplyInv(u)' /\ RemoteIsSettledOf(u)' /\ TargetInv(u)'
  BY DEF ReplyInv, RemoteIsSettledOf, TargetInv
<1>6. acked'[u] = acked[u] /\ told'[u] = told[u]
  BY DEF Discover
<1>7. SettleInv(u)'
  <2>1. \A s \in Remote[u] : s[2] \in task[u].bases \/ <<Nobody, s[2]>> \in task[u].todo \union told[u]
    BY DEF UnitInv, TaskInv, SettleInv
  <2>2. \A s \in Remote[u] : <<Nobody, s[2]>> = r => s[2] = r[2]
    OBVIOUS
  <2> QED
    BY <1>6, <2>1, <2>2 DEF SettleInv
<1>8. OnceInv(u)'
  BY <1>6 DEF OnceInv, UnitInv, TaskInv
<1> QED
  BY <1>4, <1>5, <1>7, <1>8, RemoteStep DEF Discover, PastLocal

LEMMA EndDiscoveryKeeps ==
    ASSUME TypeOK, \A v \in Unit : UnitInv(v), NEW u \in Unit, EndDiscovery(u)
    PROVE  TypeOK' /\ \A v \in Unit : UnitInv(v)'
<1> DEFINE members == {r \in Remote[u] : r[2] \in task[u].bases}
<1>1. task[u].pc = "discover" /\ u.visibility = "limited" /\ task[u].todo = {}
  BY DEF EndDiscovery, UnitInv, TaskInv, TargetInv
<1>2. Moves(u, "members", members)
  <2>1. members \in SUBSET Recipient
    BY UnitFacts DEF Recipient
  <2> HIDE DEF members
  <2>2. task' = [task EXCEPT ![u].pc = "members", ![u].todo = members]
    BY DEF EndDiscovery, members
  <2> QED
    BY <2>1, <2>2, TodoMoves DEF Pc
<1>3. TypeOK' /\ TaskFrame(u)
  BY <1>2, MoveFrame, FaultType DEF EndDiscovery, Moves, Becomes
<1> USE <1>1, <1>2 DEF Moves, Becomes, AtFollowers, AtHosts, AtMembers, Pushing
<1>4. ReplyInv(u)' /\ RemoteIsSettledOf(u)' /\ TargetInv(u)'
  BY DEF ReplyInv, RemoteIsSettledOf, TargetInv
<1>5. acked'[u] = acked[u] /\ told'[u] = told[u]
  BY DEF EndDiscovery
<1>6. SettleInv(u)'
  BY <1>5 DEF UnitInv, TaskInv, SettleInv, Settled
<1>7. OnceInv(u)'
  <2>1. acked[u] = {} /\ told[u] \subseteq {Nobody} \X Host
    BY DEF UnitInv, TaskInv, OnceInv
  <2>2. told[u] \intersect members = {}
    BY <2>1, UnitFacts, FanOutAssumption
  <2> QED
    BY <1>5, <2>1, <2>2 DEF OnceInv
<1> QED
  BY <1>3, <1>4, <1>6, <1>7, RemoteStep DEF EndDiscovery, PastLocal

LEMMA PickMemberKeeps ==
    ASSUME TypeOK, \A v \in Unit : UnitInv(v), NEW u \in Unit, NEW r, PickMember(u, r)
    PROVE  TypeOK' /\ \A v \in Unit : UnitInv(v)'
<1> DEFINE to == Leads[Address[r]]
<1>1. /\ task[u].pc = "members" /\ u.visibility = "limited" /\ r \in task[u].todo
      /\ task[u].todo \subseteq Remote[u]
  BY DEF PickMember, UnitInv, TaskInv, TargetInv, AtMembers
<1>2. /\ r \in Author \X Host /\ r \in Recipient /\ r[1] # Nobody /\ r \in Remote[u]
      /\ Address[r] \in Url
  BY <1>1, UnitFacts, AddressFacts, FanOutAssumption DEF Recipient
<1>3. \/ /\ to \in Inbox \union {Elsewhere}
         /\ to # Elsewhere => to \in MemberInboxes(u)
         /\ Becomes(u, "push", task[u].todo \ {r}, r, to, 1, task[u].bases, task[u].reply)
      \/ /\ r \in Unaddressed(u)
         /\ Moves(u, "members", task[u].todo \ {r})
  <2>1. CASE to # BadUrl /\ StartPush(u, r, Address[r])
    BY <1>2, <2>1, StartPushBecomes, AddressFacts
  <2>2. CASE to = BadUrl /\ task' = [task EXCEPT ![u].todo = @ \ {r}]
    BY <1>1, <1>2, <2>2, TakeOff, AddressFacts
  <2> QED
    BY <2>1, <2>2 DEF PickMember
<1> HIDE DEF to
<1>4. TypeOK' /\ TaskFrame(u)
  BY <1>3, MoveFrame, FaultType DEF PickMember, Moves, Becomes
<1> USE <1>1, <1>2, <1>3 DEF Moves, Becomes, AtFollowers, AtHosts, AtMembers, Pushing
<1>5. ReplyInv(u)' /\ RemoteIsSettledOf(u)'
  BY DEF ReplyInv, RemoteIsSettledOf
<1>6. TargetInv(u)'
  <2>1. 1 \in 1 .. MaxAttempts
    BY FanOutAssumption
  <2>2. task'[u].pc = "push" /\ to # Elsewhere => to = <<to[1], to[2]>>
    BY DEF Inbox
  <2>3. task'[u].pc = "push" /\ to # Elsewhere => MayReceive(u, to[1], to[2])'
    BY <2>2 DEF MayReceive
  <2> QED
    BY <2>1, <2>3 DEF TargetInv
<1>7. acked'[u] = acked[u] /\ told'[u] = told[u]
  BY DEF PickMember
<1>8. SettleInv(u)'
  <2>1. \A s \in Remote[u] \ Unaddressed(u) : Settled(u, s) \/ s \in task[u].todo
    BY DEF UnitInv, TaskInv, SettleInv
  <2> QED
    BY <1>7, <2>1 DEF SettleInv, Settled
<1>9. OnceInv(u)'
  BY <1>7 DEF UnitInv, TaskInv, OnceInv
<1> QED
  BY <1>4, <1>5, <1>6, <1>8, <1>9, RemoteStep DEF PickMember, PastLocal

LEMMA FinishKeeps ==
    ASSUME TypeOK, \A v \in Unit : UnitInv(v), NEW u \in Unit, Finish(u)
    PROVE  TypeOK' /\ \A v \in Unit : UnitInv(v)'
<1>1. Moves(u, "done", task[u].todo)
  BY GotoMoves DEF Finish, Pc
<1>2. TypeOK' /\ TaskFrame(u)
  BY <1>1, MoveFrame, FaultType DEF Finish, Moves, Becomes
<1> USE <1>1 DEF Moves, Becomes, Finish, UnitInv, TaskInv, AtFollowers, AtHosts, AtMembers, Pushing
<1>3. ReplyInv(u)' /\ TargetInv(u)' /\ SettleInv(u)'
  BY DEF ReplyInv, TargetInv, SettleInv
<1>4. OnceInv(u)'
  BY DEF OnceInv
<1>5. RemoteIsSettledOf(u)'
  BY DEF RemoteIsSettledOf, TargetInv, SettleInv, Settled
<1> QED
  BY <1>2, <1>3, <1>4, <1>5, RemoteStep DEF PastLocal

LEMMA PushKeeps ==
    ASSUME TypeOK, \A v \in Unit : UnitInv(v), NEW u \in Unit, Push(u)
    PROVE  TypeOK' /\ \A v \in Unit : UnitInv(v)'
<1>1. /\ task[u].pc = "push" /\ task[u].attempt \in 1 .. MaxAttempts
      /\ task[u].current \in Recipient /\ task[u].current[1] # Nobody
      /\ task[u].to \in Inbox \union {Elsewhere}
      /\ task[u].to # Elsewhere => MayReceive(u, task[u].to[1], task[u].to[2])
  <2>1. task[u].pc = "push" /\ TargetInv(u)
    BY DEF Push, UnitInv, TaskInv
  <2>2. task[u].current \in Recipient
    BY <2>1, UnitFacts DEF TargetInv, Pushing, Recipient, TypeOK
  <2> QED
    BY <2>1, <2>2, TaskFields DEF TargetInv
<1>2. Becomes(u, "await", task[u].todo, task[u].current, task[u].to, task[u].attempt,
              task[u].bases, "none")
  <2> DEFINE t == [task[u] EXCEPT !.pc = "await", !.reply = "none"]
  <2>1. task' = [task EXCEPT ![u] = t]
    BY TaskFields DEF Push
  <2>2. /\ t \in Task /\ t.pc = "await" /\ t.todo = task[u].todo /\ t.current = task[u].current
        /\ t.to = task[u].to /\ t.attempt = task[u].attempt /\ t.bases = task[u].bases
        /\ t.reply = "none"
    BY TaskFields DEF Task, Pc
  <2> QED
    BY <2>1, <2>2, SetTask
<1>3. /\ calls' \subseteq Call
      /\ \A c \in calls' : c \in calls \/ (c.unit = u /\ c.to = task[u].to /\ c.to # Elsewhere)
  <2>1. CASE task[u].to = Elsewhere
    BY <2>1 DEF Push, TypeOK
  <2>2. CASE task[u].to # Elsewhere
    <3>1. CallOf(u) \in Call /\ CallOf(u).unit = u /\ CallOf(u).to = task[u].to
      BY <1>1, <2>2 DEF CallOf, Call
    <3> QED
      BY <2>2, <3>1 DEF Push, TypeOK
  <2> QED
    BY <2>1, <2>2
<1>4. TypeOK' /\ TaskFrame(u)
  BY <1>2, <1>3 DEF Push, Becomes, TypeOK, TaskFrame
<1>5. UnitInv(u)'
  <2> USE <1>1, <1>2 DEF Becomes, UnitInv, TaskInv, AtFollowers, AtHosts, AtMembers, Pushing, TaskFrame
  <2>1. UNCHANGED <<acked, reached, told, missed, inbox>>
    BY DEF Push
  <2>2. TargetInv(u)'
    BY <1>4 DEF TargetInv, MayReceive
  <2>3. StartInv(u)' /\ SteadyInv(u)'
    BY <1>4, <2>1 DEF StartInv, LocalRecipients, Followers, SteadyInv, Registered
  <2>4. ReplyInv(u)' /\ RemoteIsSettledOf(u)' /\ SettleInv(u)'
    BY <2>1 DEF ReplyInv, RemoteIsSettledOf, SettleInv, Settled
  <2>5. OnceInv(u)'
    BY <2>1 DEF OnceInv
  <2>6. OnlyRecipientsOf(u)'
    BY <1>3, <1>4, <2>1 DEF OnlyRecipientsOf, MayReceive
  <2>7. NobodyForgottenBy(u)' /\ AckedIsDeliveredOf(u)' /\ NoticeIsTrueOf(u)'
    BY <1>4, <2>1 DEF NobodyForgottenBy, PastLocal, AckedIsDeliveredOf, NoticeIsTrueOf
  <2> QED
    BY <2>2, <2>3, <2>4, <2>5, <2>6, <2>7
<1> QED
  BY <1>3, <1>4, <1>5, OthersKeep DEF Push

\* A reply that is read, or made up for one, and is no word of an inbox.
LEMMA NoWordKeeps ==
    ASSUME TypeOK, \A v \in Unit : UnitInv(v), NEW u \in Unit,
           NEW reply \in {"stored", "refused", "failed"},
           task[u].pc = "await", task' = [task EXCEPT ![u].reply = reply],
           reply = "stored" => task[u].to = Elsewhere,
           UNCHANGED <<agentVars, inbox, requests, calls, historyVars, changes>>, faults' \in Nat
    PROVE  TypeOK' /\ \A v \in Unit : UnitInv(v)'
<1>1. Becomes(u, "await", task[u].todo, task[u].current, task[u].to, task[u].attempt,
              task[u].bases, reply)
  <2> DEFINE t == [task[u] EXCEPT !.reply = reply]
  <2>1. task' = [task EXCEPT ![u] = t]
    BY TaskFields
  <2>2. /\ t \in Task /\ t.pc = "await" /\ t.todo = task[u].todo /\ t.current = task[u].current
        /\ t.to = task[u].to /\ t.attempt = task[u].attempt /\ t.bases = task[u].bases
        /\ t.reply = reply
    BY TaskFields DEF Task
  <2> QED
    BY <2>1, <2>2, SetTask
<1>2. TypeOK' /\ TaskFrame(u)
  BY <1>1, MoveFrame DEF Becomes
<1> USE <1>1 DEF Becomes, UnitInv, TaskInv, AtFollowers, AtHosts, AtMembers, Pushing
<1>3. ReplyInv(u)' /\ RemoteIsSettledOf(u)'
  BY DEF ReplyInv, RemoteIsSettledOf
<1>4. TargetInv(u)'
  BY DEF TargetInv, MayReceive
<1>5. SettleInv(u)'
  BY DEF SettleInv, Settled
<1>6. OnceInv(u)'
  BY DEF OnceInv
<1> QED
  BY <1>2, <1>3, <1>4, <1>5, <1>6, RemoteStep DEF PastLocal

LEMMA AnswerElsewhereKeeps ==
    ASSUME TypeOK, \A v \in Unit : UnitInv(v), NEW u \in Unit, AnswerElsewhere(u)
    PROVE  TypeOK' /\ \A v \in Unit : UnitInv(v)'
<1>1. PICK reply \in {"stored", "refused", "failed"} : task' = [task EXCEPT ![u].reply = reply]
  BY DEF AnswerElsewhere
<1> QED
  BY <1>1, NoWordKeeps, FaultType DEF AnswerElsewhere

LEMMA TimeoutKeeps ==
    ASSUME TypeOK, \A v \in Unit : UnitInv(v), NEW u \in Unit, Timeout(u)
    PROVE  TypeOK' /\ \A v \in Unit : UnitInv(v)'
  BY NoWordKeeps, FaultType DEF Timeout

LEMMA RetryKeeps ==
    ASSUME TypeOK, \A v \in Unit : UnitInv(v), NEW u \in Unit, Retry(u)
    PROVE  TypeOK' /\ \A v \in Unit : UnitInv(v)'
<1>1. /\ task[u].pc = "await"
      /\ task[u].attempt + 1 \in 1 .. MaxAttempts /\ task[u].attempt + 1 \in 0 .. MaxAttempts
  BY TaskFields, FanOutAssumption DEF Retry
<1>2. Becomes(u, "push", task[u].todo, task[u].current, task[u].to, task[u].attempt + 1,
              task[u].bases, task[u].reply)
  <2> DEFINE t == [task[u] EXCEPT !.pc = "push", !.attempt = @ + 1]
  <2>1. task' = [task EXCEPT ![u] = t]
    BY TaskFields DEF Retry
  <2>2. t \in Task
    BY <1>1, TaskFields DEF Task, Pc
  <2>3. /\ t.pc = "push" /\ t.todo = task[u].todo /\ t.current = task[u].current
        /\ t.to = task[u].to /\ t.attempt = task[u].attempt + 1 /\ t.bases = task[u].bases /\ t.reply = task[u].reply
    BY TaskFields DEF Task
  <2> HIDE DEF t
  <2> QED
    BY <2>1, <2>2, <2>3, SetTask
<1>3. TypeOK' /\ TaskFrame(u)
  BY <1>2, MoveFrame, FaultType DEF Retry, Becomes
<1> USE <1>1, <1>2 DEF Becomes, Retry, UnitInv, TaskInv, AtFollowers, AtHosts, AtMembers, Pushing
<1>4. ReplyInv(u)' /\ RemoteIsSettledOf(u)'
  BY DEF ReplyInv, RemoteIsSettledOf
<1>5. TargetInv(u)'
  <2>1. \A e, m : MayReceive(u, e, m)' <=> MayReceive(u, e, m)
    BY <1>3 DEF MayReceive, TaskFrame
  <2>2. TargetInv(u) /\ UNCHANGED eligible
    OBVIOUS
  <2> QED
    BY <2>1, <2>2 DEF TargetInv
<1>6. SettleInv(u)'
  BY DEF SettleInv, Settled
<1>7. OnceInv(u)'
  BY DEF OnceInv
<1> QED
  BY <1>3, <1>4, <1>5, <1>6, <1>7, RemoteStep DEF PastLocal

LEMMA GiveUpKeeps ==
    ASSUME TypeOK, \A v \in Unit : UnitInv(v), NEW u \in Unit, GiveUp(u)
    PROVE  TypeOK' /\ \A v \in Unit : UnitInv(v)'
<1>1. Moves(u, "notify", task[u].todo)
  BY GotoMoves DEF GiveUp, Pc
<1>2. TypeOK' /\ TaskFrame(u)
  BY <1>1, MoveFrame, FaultType DEF GiveUp, Moves, Becomes
<1>3. task[u].pc = "await" /\ task[u].current[1] # Nobody
  BY FanOutAssumption DEF GiveUp, UnitInv, TaskInv, TargetInv
<1> USE <1>1, <1>3 DEF Moves, Becomes, GiveUp, UnitInv, TaskInv, AtFollowers, AtHosts, AtMembers, Pushing
<1>4. ReplyInv(u)' /\ RemoteIsSettledOf(u)'
  BY DEF ReplyInv, RemoteIsSettledOf
<1>5. TargetInv(u)'
  BY DEF TargetInv, MayReceive
<1>6. SettleInv(u)'
  BY DEF SettleInv, Settled
<1>7. OnceInv(u)'
  BY DEF OnceInv
<1> QED
  BY <1>2, <1>4, <1>5, <1>6, <1>7, RemoteStep DEF PastLocal

\* Where the task goes on, and with what in its hands.
LEMMA FollowingFacts ==
    ASSUME TypeOK, NEW u \in Unit, UnitInv(u), task[u].pc \in Pushing
    PROVE  /\ Following(u) \in {"discover", "profile", "members"}
           /\ task[u].current \in Recipient
           /\ AtFollowers(u) => Following(u) = "profile" /\ task[u].current[1] # Nobody
           /\ AtHosts(u) => Following(u) = "discover" /\ task[u].current[1] = Nobody
           /\ AtMembers(u) => Following(u) = "members" /\ task[u].current[1] # Nobody
           /\ \/ AtFollowers(u) /\ u.visibility = "network"
              \/ AtHosts(u) /\ u.visibility = "limited"
              \/ AtMembers(u) /\ u.visibility = "limited"
<1>1. TargetInv(u) /\ eligible[u] \subseteq Author
  BY DEF UnitInv, TaskInv, TypeOK
<1>2. task[u].current \in Recipient /\ (u.visibility = "network" => task[u].current[1] # Nobody)
  <2>1. CASE task[u].current[1] = Nobody
    BY <1>1, <2>1, UnitFacts DEF TargetInv, Recipient
  <2>2. CASE task[u].current[1] # Nobody
    BY <1>1, <2>2, UnitFacts DEF TargetInv, Recipient
  <2> QED
    BY <2>1, <2>2
<1>3. task[u].pc \in {"push", "await"} => task[u].current[1] # Nobody
  BY <1>1 DEF TargetInv
<1> QED
  BY <1>2, <1>3, UnitFacts DEF Following, AtFollowers, AtHosts, AtMembers, Pushing

LEMMA DeliveredKeeps ==
    ASSUME TypeOK, \A v \in Unit : UnitInv(v), NEW u \in Unit, Delivered(u)
    PROVE  TypeOK' /\ \A v \in Unit : UnitInv(v)'
<1> DEFINE r == task[u].current
           to == task[u].to
<1>1. /\ task[u].pc = "await" /\ task[u].reply = "stored" /\ r[1] # Nobody /\ r \in Author \X Host
      /\ to \in Inbox \union {Elsewhere}
  <2>1. task[u].pc = "await" /\ task[u].reply = "stored" /\ TargetInv(u)
    BY DEF Delivered, UnitInv, TaskInv
  <2>2. r \in Author \X Host
    BY <2>1, UnitFacts DEF TargetInv, Pushing, TypeOK
  <2> QED
    BY <2>1, <2>2, TaskFields DEF TargetInv
<1>2. /\ Following(u) = IF u.visibility = "network" THEN "profile" ELSE "members"
      /\ AtFollowers(u) \/ (AtMembers(u) /\ u.visibility = "limited")
  BY <1>1, UnitFacts DEF Following, AtFollowers, AtMembers, Pushing
<1>3. Moves(u, Following(u), task[u].todo)
  BY <1>2, GotoMoves DEF Delivered, Pc
<1>4. /\ acked' = [acked EXCEPT ![u] = @ \union {r}]
      /\ reached' = [reached EXCEPT ![u] = @ \union ({to} \ {Elsewhere})]
  BY DEF Delivered
<1>5. ReplyInv(u)
  BY DEF UnitInv, TaskInv
<1>6. to # Elsewhere => to \in purged \/ u \in inbox[to[2]][to[1]]
  BY <1>1, <1>5 DEF ReplyInv
<1> HIDE DEF r, to
<1>7. /\ acked' \in [Unit -> SUBSET (Author \X Host)] /\ acked'[u] = acked[u] \union {r}
      /\ reached' \in [Unit -> SUBSET Inbox] /\ reached'[u] = reached[u] \union ({to} \ {Elsewhere})
      /\ \A v \in Unit : v # u => acked'[v] = acked[v] /\ reached'[v] = reached[v]
  BY <1>1, <1>4 DEF TypeOK
<1>8. TypeOK' /\ TaskFrame(u)
  BY <1>3, <1>7 DEF Delivered, Moves, Becomes, TypeOK, TaskFrame
<1>9. UnitInv(u)'
  <2> USE <1>1, <1>2, <1>3
      DEF Moves, Becomes, UnitInv, TaskInv, AtFollowers, AtHosts, AtMembers, Pushing
  <2>1. UNCHANGED <<inbox, calls, told, missed, purged>>
    BY DEF Delivered
  <2>2. StartInv(u)' /\ OnlyRecipientsOf(u)' /\ NoticeIsTrueOf(u)' /\ SteadyInv(u)' /\ NobodyForgottenBy(u)'
    BY <1>8, <2>1, PromisesKept DEF PastLocal
  <2>3. TargetInv(u)'
    BY <1>8 DEF TargetInv, MayReceive, TaskFrame
  <2>4. ReplyInv(u)' /\ RemoteIsSettledOf(u)'
    BY DEF ReplyInv, RemoteIsSettledOf
  <2>5. AckedIsDeliveredOf(u)'
    BY <1>6, <1>7, <2>1 DEF AckedIsDeliveredOf
  <2>6. SettleInv(u)'
    BY <1>7, <2>1 DEF SettleInv, Settled, r
  <2>7. OnceInv(u)'
    <3>1. /\ OnceInv(u) /\ told'[u] = told[u] /\ r \notin told[u] /\ r \notin task[u].todo
      BY <2>1 DEF OnceInv, r
    <3> QED
      BY <1>7, <3>1 DEF OnceInv
  <2> QED
    BY <2>2, <2>3, <2>4, <2>5, <2>6, <2>7
<1> QED
  BY <1>8, <1>9, OthersKeep DEF Delivered

LEMMA CheckAuthorKeeps ==
    ASSUME TypeOK, \A v \in Unit : UnitInv(v), NEW u \in Unit, CheckAuthor(u)
    PROVE  TypeOK' /\ \A v \in Unit : UnitInv(v)'
<1>1. task[u].pc = "notify" /\ task[u].current \in Recipient
  BY FollowingFacts DEF CheckAuthor, Pushing
<1>2. PICK pc \in {"report", Following(u)} : Goto(u, pc)
  BY DEF CheckAuthor
<1>3. pc \in {"report", "discover", "profile", "members"}
  BY <1>1, <1>2, FollowingFacts DEF Pushing
<1>4. Moves(u, pc, task[u].todo)
  BY <1>2, <1>3, GotoMoves DEF Pc
<1>5. /\ told' \in [Unit -> SUBSET Recipient] /\ told'[u] = told[u] \union {task[u].current}
      /\ \A v \in Unit : v # u => told'[v] = told[v]
  BY <1>1 DEF TypeOK, CheckAuthor
<1>6. faults' \in Nat
  BY FaultType DEF CheckAuthor
<1>7. TypeOK' /\ TaskFrame(u)
  BY <1>3, <1>4, <1>5, <1>6 DEF CheckAuthor, Moves, Becomes, TypeOK, TaskFrame
<1> USE <1>1, <1>3, <1>4 DEF Moves, Becomes, CheckAuthor, UnitInv, TaskInv
<1>8. /\ AtFollowers(u)' <=> AtFollowers(u)
      /\ AtHosts(u)' <=> AtHosts(u)
      /\ AtMembers(u)' <=> AtMembers(u)
  BY <1>2, FollowingFacts DEF AtFollowers, AtHosts, AtMembers, Pushing
<1>9. TargetInv(u)'
  <2>1. TargetInv(u) /\ MayReceive(u, task[u].current[1], task[u].current[2])' =
                           MayReceive(u, task[u].current[1], task[u].current[2])
    BY <1>7 DEF MayReceive, TaskFrame
  <2>2. CASE pc = "report"
    BY <1>2, <1>8, <2>1, <2>2, <1>7 DEF TargetInv, TaskFrame, Pushing
  <2>3. CASE pc = Following(u)
    BY <1>2, <1>8, <2>1, <2>3, <1>7, FollowingFacts DEF TargetInv, TaskFrame, Pushing
  <2> QED
    BY <1>2, <2>2, <2>3
<1>10. ReplyInv(u)' /\ RemoteIsSettledOf(u)'
  BY DEF ReplyInv, RemoteIsSettledOf
<1>11. SettleInv(u)'
  BY <1>5, <1>8 DEF SettleInv, Settled
<1>12. OnceInv(u)'
  <2>1. task[u].current \notin acked[u]
    BY FollowingFacts DEF OnceInv, Pushing
  <2>2. AtHosts(u) => task[u].current \in {Nobody} \X Host
    BY FollowingFacts DEF Recipient, Pushing
  <2>3. OnceInv(u)
    OBVIOUS
  <2>4. CASE AtHosts(u)
    <3>1. ~AtFollowers(u) /\ ~AtMembers(u)
      BY <2>4 DEF AtHosts, AtFollowers, AtMembers, Pushing
    <3> QED
      BY <1>5, <1>8, <2>2, <2>3, <2>4, <3>1 DEF OnceInv
  <2>5. CASE AtFollowers(u)
    <3>1. ~AtHosts(u) /\ ~AtMembers(u)
      BY <2>5 DEF AtHosts, AtFollowers, AtMembers, Pushing
    <3> QED
      BY <1>5, <1>8, <2>1, <2>3, <2>5, <3>1 DEF OnceInv, Pushing
  <2>6. CASE AtMembers(u)
    <3>1. ~AtHosts(u) /\ ~AtFollowers(u)
      BY <2>6 DEF AtHosts, AtFollowers, AtMembers, Pushing
    <3> QED
      BY <1>5, <1>8, <2>1, <2>3, <2>6, <3>1 DEF OnceInv, Pushing
  <2> QED
    BY <2>4, <2>5, <2>6, FollowingFacts DEF Pushing
<1> QED
  BY <1>5, <1>7, <1>9, <1>10, <1>11, <1>12, RemoteStep DEF PastLocal

LEMMA ReportFailureKeeps ==
    ASSUME TypeOK, \A v \in Unit : UnitInv(v), NEW u \in Unit, ReportFailure(u)
    PROVE  TypeOK' /\ \A v \in Unit : UnitInv(v)'
<1> DEFINE r == task[u].current
           x == Notice(u, r)
<1>1. task[u].pc = "report" /\ r \in Recipient /\ r \in told[u]
  BY FollowingFacts DEF ReportFailure, Pushing, UnitInv, TaskInv, OnceInv
<1>2. Moves(u, Following(u), task[u].todo)
  BY <1>1, GotoMoves, FollowingFacts DEF ReportFailure, Pushing, Pc
<1>3. x \in Notices
  BY <1>1 DEF Notices
<1> HIDE DEF x
<1>4. /\ inbox' \in [Node -> [Author -> SUBSET (Unit \union Notices)]]
      /\ \A m \in Node, e \in Author : \A y :
            /\ y \in inbox'[m][e] => y \in inbox[m][e] \/ (y = x /\ m = Origin[u] /\ e = u.author)
            /\ y \in inbox[m][e] => y \in inbox'[m][e]
  <2>1. CASE UNCHANGED inbox
    BY <2>1 DEF TypeOK
  <2>2. CASE inbox' = [inbox EXCEPT ![Origin[u]][u.author] = @ \union {x}]
    <3>1. Origin[u] \in Node /\ u.author \in Author
      BY UnitFacts
    <3> QED
      BY <1>3, <2>2, <3>1, InboxGrows
  <2> QED
    BY <2>1, <2>2 DEF ReportFailure, DeliverToInbox, x
<1>5. faults' \in Nat
  BY FaultType DEF ReportFailure
<1>6. TypeOK' /\ TaskFrame(u)
  BY <1>2, <1>4, <1>5 DEF ReportFailure, Moves, Becomes, TypeOK, TaskFrame
<1>7. UNCHANGED <<calls, acked, reached, told, missed, purged, follows, profile, eligible, addressed,
                  steady>>
  BY DEF ReportFailure
<1>8. \A v \in Unit, m \in Node, e \in Author :
         /\ v \in inbox'[m][e] <=> v \in inbox[m][e]
         /\ v # u => \A s \in Recipient : Notice(v, s) \in inbox'[m][e] => Notice(v, s) \in inbox[m][e]
  <2>1. ASSUME NEW v \in Unit PROVE v # x /\ (v # u => \A s : Notice(v, s) # x)
    BY UnitFacts, NoticeFields DEF x
  <2> QED
    BY <1>4, <2>1
<1>9. UnitInv(u)'
  <2> USE <1>1, <1>2, <1>7 DEF Moves, Becomes, UnitInv, TaskInv
  <2>1. /\ AtFollowers(u)' <=> AtFollowers(u)
        /\ AtHosts(u)' <=> AtHosts(u)
        /\ AtMembers(u)' <=> AtMembers(u)
        /\ task'[u].pc \in {"discover", "profile", "members"}
    BY FollowingFacts DEF AtFollowers, AtHosts, AtMembers, Pushing
  <2>2. TargetInv(u)'
    BY <2>1, FollowingFacts DEF TargetInv, MayReceive, Pushing
  <2>3. ReplyInv(u)' /\ RemoteIsSettledOf(u)'
    BY <2>1 DEF ReplyInv, RemoteIsSettledOf
  <2>4. SettleInv(u)'
    BY <2>1 DEF SettleInv, Settled
  <2>5. OnceInv(u)'
    BY <2>1 DEF OnceInv, Pushing
  <2>6. StartInv(u)' /\ SteadyInv(u)'
    BY <2>1 DEF StartInv, LocalRecipients, Followers, SteadyInv, Registered
  <2>7. OnlyRecipientsOf(u)'
    BY <1>8 DEF OnlyRecipientsOf, MayReceive
  <2>8. NobodyForgottenBy(u)' /\ AckedIsDeliveredOf(u)'
    <3>1. steady[u] \subseteq Author /\ Origin[u] \in Node /\ reached[u] \subseteq Inbox
      BY UnitFacts DEF TypeOK
    <3> QED
      BY <1>8, <3>1 DEF NobodyForgottenBy, PastLocal, AckedIsDeliveredOf, Inbox
  <2>9. NoticeIsTrueOf(u)'
    <3>1. \A s : Notice(u, s) = x => s = r
      BY NoticeFields DEF x
    <3> QED
      BY <1>4, <3>1 DEF NoticeIsTrueOf
  <2> QED
    BY <2>2, <2>3, <2>4, <2>5, <2>6, <2>7, <2>8, <2>9
<1> QED
  BY <1>6, <1>7, <1>8, <1>9, OthersKeep
-----------------------------------------------------------------------------
(***************************************************************************)
(* The steps of a call.                                                    *)
(***************************************************************************)

\* A reply changes no more than the reply the sender of c waits for.
Answers(c, reply) ==
    /\ task' \in [Unit -> Task]
    /\ \A v \in Unit :
          /\ task'[v].pc = task[v].pc /\ task'[v].todo = task[v].todo
          /\ task'[v].current = task[v].current /\ task'[v].to = task[v].to
          /\ task'[v].attempt = task[v].attempt /\ task'[v].bases = task[v].bases
          /\ \/ task'[v] = task[v]
             \/ v = c.unit /\ task'[v].reply = reply /\ task[v].to = c.to

LEMMA ReplyAnswers ==
    ASSUME TypeOK, NEW c \in calls, NEW reply \in {"stored", "refused", "failed"}, Reply(c, reply)
    PROVE  Answers(c, reply)
<1>1. c.unit \in Unit
  BY DEF TypeOK, Call
<1>2. CASE UNCHANGED task
  BY <1>2 DEF TypeOK, Answers
<1>3. CASE task[c.unit].to = c.to /\ task' = [task EXCEPT ![c.unit].reply = reply]
  <2> DEFINE u == c.unit
             t == [task[u] EXCEPT !.reply = reply]
  <2>1. task' = [task EXCEPT ![u] = t]
    BY <1>1, <1>3, TaskFields
  <2>2. /\ t \in Task /\ t.pc = task[u].pc /\ t.todo = task[u].todo /\ t.current = task[u].current
        /\ t.to = task[u].to /\ t.attempt = task[u].attempt /\ t.bases = task[u].bases /\ t.reply = reply
    BY <1>1, TaskFields DEF Task
  <2>3. Becomes(u, t.pc, t.todo, t.current, t.to, t.attempt, t.bases, t.reply)
    BY <1>1, <2>1, <2>2, SetTask
  <2> HIDE DEF t
  <2>4. task' \in [Unit -> Task]
    BY <2>3 DEF Becomes
  <2>5. ASSUME NEW v \in Unit, v # u PROVE task'[v] = task[v]
    BY <2>3, <2>5 DEF Becomes
  <2>6. /\ task'[u].pc = task[u].pc /\ task'[u].todo = task[u].todo
        /\ task'[u].current = task[u].current /\ task'[u].to = task[u].to
        /\ task'[u].attempt = task[u].attempt /\ task'[u].bases = task[u].bases
        /\ task'[u].reply = reply /\ task[u].to = c.to
    BY <1>3, <2>2, <2>3 DEF Becomes
  <2> HIDE DEF u
  <2>7. u = c.unit
    BY DEF u
  <2>8. ASSUME NEW v \in Unit
        PROVE  /\ task'[v].pc = task[v].pc /\ task'[v].todo = task[v].todo
               /\ task'[v].current = task[v].current /\ task'[v].to = task[v].to
               /\ task'[v].attempt = task[v].attempt /\ task'[v].bases = task[v].bases
               /\ \/ task'[v] = task[v]
                  \/ v = c.unit /\ task'[v].reply = reply /\ task[v].to = c.to
    <3>1. CASE v = u
      BY <2>6, <2>7, <3>1
    <3>2. CASE v # u
      BY <2>5, <3>2
    <3> QED
      BY <3>1, <3>2
  <2> QED
    BY <2>4, <2>8 DEF Answers
<1> QED
  BY <1>2, <1>3 DEF Reply

LEMMA NoReplyAnswers ==
    ASSUME TypeOK, NEW c, NEW reply, UNCHANGED task
    PROVE  Answers(c, reply)
  BY DEF TypeOK, Answers

\* A step of the call c answers its sender, if at all; it delivers the unit to whom
\* c is for, if to anybody; and a call remains what it is.
LEMMA CallKeeps ==
    ASSUME TypeOK, \A v \in Unit : UnitInv(v), NEW c \in calls, NEW reply, Answers(c, reply),
           UNCHANGED <<agentVars, requests, historyVars, changes>>, faults' \in Nat,
           calls' \subseteq Call,
           \A b \in calls' : \E a \in calls : a.unit = b.unit /\ a.to = b.to,
           \/ UNCHANGED inbox /\ reply # "stored"
           \/ inbox' = [inbox EXCEPT ![c.to[2]][c.to[1]] = @ \union {c.unit}]
    PROVE  TypeOK' /\ \A v \in Unit : UnitInv(v)'
<1> DEFINE u == c.unit
           d == c.to[1]
           n == c.to[2]
<1>1. c.unit \in Unit /\ c.to \in Inbox /\ c.to # Elsewhere /\ d \in Author /\ n \in Node
  BY FanOutAssumption DEF TypeOK, Call, Inbox
<1>2. /\ inbox' \in [Node -> [Author -> SUBSET (Unit \union Notices)]]
      /\ \A m \in Node, e \in Author : \A y :
            /\ y \in inbox'[m][e] => y \in inbox[m][e] \/ (y = u /\ m = n /\ e = d)
            /\ y \in inbox[m][e] => y \in inbox'[m][e]
      /\ reply = "stored" => u \in inbox'[n][d]
  <2>1. CASE UNCHANGED inbox /\ reply # "stored"
    BY <2>1 DEF TypeOK
  <2>2. CASE inbox' = [inbox EXCEPT ![n][d] = @ \union {u}]
    BY <1>1, <2>2, InboxGrows
  <2> QED
    BY <2>1, <2>2
<1>3. TypeOK'
  BY <1>2 DEF TypeOK, Answers
<1> HIDE DEF d, n, u
<1>4. ASSUME NEW v \in Unit, v # u PROVE UnitInv(v)'
  <2>1. ASSUME NEW r PROVE Notice(v, r) # u
    BY <1>1, UnitFacts DEF u
  <2>2. \A m \in Node, e \in Author :
           /\ v \in inbox'[m][e] <=> v \in inbox[m][e]
           /\ \A r \in Recipient : Notice(v, r) \in inbox'[m][e] => Notice(v, r) \in inbox[m][e]
    BY <1>2, <1>4, <2>1
  <2>3. task'[v] = task[v]
    BY <1>4 DEF Answers, u
  <2>4. Untouched(v)
    BY <2>2, <2>3 DEF Untouched
  <2> QED
    BY <2>4, UntouchedKeeps
<1>5. UnitInv(u)'
  <2>1. u \in Unit /\ UnitInv(u) /\ MayReceive(u, d, n) /\ task[u].pc # "none"
    BY <1>1 DEF u, d, n, UnitInv, TaskInv, OnlyRecipientsOf, StartInv
  <2> USE <2>1 DEF Answers, UnitInv, TaskInv, AtFollowers, AtHosts, AtMembers, Pushing
  <2>2. StartInv(u)'
    BY DEF StartInv, LocalRecipients, Followers
  <2>3. TargetInv(u)'
    BY DEF TargetInv, MayReceive
  <2>4. SteadyInv(u)'
    <3>1. steady[u] \subseteq Author /\ Origin[u] \in Node
      BY UnitFacts DEF TypeOK
    <3> QED
      BY <1>2, <3>1 DEF SteadyInv, LocalRecipients, Followers, Registered
  <2>5. ReplyInv(u)'
    <3>1. task[u].to \in Inbox \union {Elsewhere}
      BY TaskFields
    <3>2. CASE task'[u] = task[u]
      BY <1>2, <3>1, <3>2 DEF ReplyInv, Inbox
    <3>3. CASE task'[u].reply = reply /\ task[u].to = c.to
      BY <1>1, <1>2, <3>3 DEF ReplyInv, d, n
    <3> QED
      BY <3>2, <3>3
  <2>6. SettleInv(u)'
    BY DEF SettleInv, Settled
  <2>7. OnceInv(u)'
    BY DEF OnceInv
  <2>8. OnlyRecipientsOf(u)'
    <3>1. OnlyRecipientsOf(u) /\ \A e, m : MayReceive(u, e, m)' <=> MayReceive(u, e, m)
      BY DEF MayReceive
    <3>2. ASSUME NEW m \in Node, NEW e \in Author, u \in inbox'[m][e] PROVE MayReceive(u, e, m)'
      BY <1>2, <3>1, <3>2 DEF OnlyRecipientsOf
    <3>3. ASSUME NEW b \in calls', b.unit = u PROVE MayReceive(u, b.to[1], b.to[2])'
      BY <3>1, <3>3 DEF OnlyRecipientsOf
    <3> QED
      BY <3>2, <3>3 DEF OnlyRecipientsOf
  <2>9. NobodyForgottenBy(u)' /\ AckedIsDeliveredOf(u)'
    <3>1. steady[u] \subseteq Author /\ Origin[u] \in Node /\ reached[u] \subseteq Inbox
      BY UnitFacts DEF TypeOK
    <3> QED
      BY <1>2, <3>1 DEF NobodyForgottenBy, PastLocal, AckedIsDeliveredOf, Inbox
  <2>10. RemoteIsSettledOf(u)'
    BY DEF RemoteIsSettledOf, Settled
  <2>11. NoticeIsTrueOf(u)'
    BY <1>2, UnitFacts DEF NoticeIsTrueOf
  <2> QED
    BY <2>2, <2>3, <2>4, <2>5, <2>6, <2>7, <2>8, <2>9, <2>10, <2>11
<1> QED
  BY <1>3, <1>4, <1>5

LEMMA UnauthorizedKeeps ==
    ASSUME TypeOK, \A v \in Unit : UnitInv(v), NEW c \in calls, Unauthorized(c)
    PROVE  TypeOK' /\ \A v \in Unit : UnitInv(v)'
<1>1. Answers(c, "refused") /\ faults' \in Nat
  BY ReplyAnswers, FaultType DEF Unauthorized
<1>2. calls' \subseteq Call /\ calls' \subseteq calls
  BY DEF Unauthorized, TypeOK
<1> QED
  BY <1>1, <1>2, CallKeeps DEF Unauthorized

LEMMA ArriveKeeps ==
    ASSUME TypeOK, \A v \in Unit : UnitInv(v), NEW c \in calls, Arrive(c)
    PROVE  TypeOK' /\ \A v \in Unit : UnitInv(v)'
<1>1. PICK reply \in {"refused", "failed"} : Answers(c, reply)
  BY ReplyAnswers, NoReplyAnswers DEF Arrive
<1>2. faults' \in Nat
  BY FaultType DEF Arrive
<1>3. /\ calls' \subseteq Call
      /\ \A b \in calls' : \E a \in calls : a.unit = b.unit /\ a.to = b.to
  BY DEF Arrive, TypeOK, Call
<1>4. UNCHANGED <<agentVars, inbox, requests, historyVars, changes>>
  BY DEF Arrive
<1> QED
  BY <1>1, <1>2, <1>3, <1>4, CallKeeps

LEMMA AcceptKeeps ==
    ASSUME TypeOK, \A v \in Unit : UnitInv(v), NEW c \in calls, Accept(c)
    PROVE  TypeOK' /\ \A v \in Unit : UnitInv(v)'
<1>1. PICK reply \in {"stored", "failed"} :
         /\ Answers(c, reply)
         /\ \/ UNCHANGED inbox /\ reply # "stored"
            \/ inbox' = [inbox EXCEPT ![c.to[2]][c.to[1]] = @ \union {c.unit}]
  BY ReplyAnswers DEF Accept, DeliverToInbox
<1>2. faults' \in Nat
  BY FaultType DEF Accept
<1>3. calls' \subseteq Call /\ calls' \subseteq calls
  BY DEF Accept, TypeOK
<1>4. UNCHANGED <<agentVars, requests, historyVars, changes>>
  BY DEF Accept
<1> QED
  BY <1>1, <1>2, <1>3, <1>4, CallKeeps

LEMMA LoseKeeps ==
    ASSUME TypeOK, \A v \in Unit : UnitInv(v), NEW c \in calls, Lose(c)
    PROVE  TypeOK' /\ \A v \in Unit : UnitInv(v)'
<1>1. Answers(c, "none") /\ faults' \in Nat
  BY NoReplyAnswers, FaultType DEF Lose
<1>2. calls' \subseteq Call /\ calls' \subseteq calls
  BY DEF Lose, TypeOK
<1> QED
  BY <1>1, <1>2, CallKeeps DEF Lose
-----------------------------------------------------------------------------
(***************************************************************************)
(* The steps of agents, and crashes.                                       *)
(***************************************************************************)

\* A step of an agent takes nothing from who was promised v and is still an agent
\* of its node, and makes nobody steady.
AgentFrame(v) ==
    /\ UNCHANGED <<task, calls, missed, acked, reached, told>>
    /\ addressed[v] \subseteq addressed'[v]
    /\ \A d \in eligible'[v] : PushedTo(Origin[v], profile'[Origin[v]][d]) \subseteq addressed'[v]
    /\ task[v].pc = "none" => eligible'[v] = {}
    /\ eligible[v] \subseteq eligible'[v] /\ purged \subseteq purged' /\ steady'[v] \subseteq steady[v]
    /\ \A m \in Node, e \in Author :
          /\ inbox'[m][e] \subseteq inbox[m][e]
          /\ <<e, m>> \notin purged' => inbox'[m][e] = inbox[m][e]
    /\ task[v].pc # "none" /\ v.visibility = "network" => LocalRecipients(v)' \subseteq eligible'[v]
    /\ steady'[v] \subseteq LocalRecipients(v)'
    /\ \A d \in steady'[v] :
          /\ Registered(Origin[v], d)'
          /\ inbox'[Origin[v]][d] = inbox[Origin[v]][d]

LEMMA AgentKeeps ==
    ASSUME TypeOK, NEW v \in Unit, UnitInv(v), AgentFrame(v)
    PROVE  UnitInv(v)'
<1> USE DEF AgentFrame, UnitInv, TaskInv, AtFollowers, AtHosts, AtMembers
<1>1. \A e, m : MayReceive(v, e, m) => MayReceive(v, e, m)'
  BY DEF MayReceive
<1>2. /\ Origin[v] \in Node /\ steady[v] \subseteq Author /\ reached[v] \subseteq Inbox
      /\ steady'[v] \subseteq Author
  BY UnitFacts DEF TypeOK
<1>3. StartInv(v)'
  BY DEF StartInv
<1>4. TargetInv(v)'
  BY <1>1 DEF TargetInv
<1>5. SteadyInv(v)'
  BY DEF SteadyInv
<1>6. ReplyInv(v)'
  <2>1. task[v].to \in Inbox \union {Elsewhere}
    BY TaskFields
  <2> QED
    BY <2>1 DEF ReplyInv, Inbox
<1>7. SettleInv(v)' /\ RemoteIsSettledOf(v)'
  BY DEF SettleInv, Settled, RemoteIsSettledOf
<1>8. OnceInv(v)'
  BY DEF OnceInv
<1>9. OnlyRecipientsOf(v)'
  BY <1>1 DEF OnlyRecipientsOf
<1>10. NobodyForgottenBy(v)'
  BY <1>2 DEF NobodyForgottenBy, PastLocal
<1>11. AckedIsDeliveredOf(v)'
  BY <1>2 DEF AckedIsDeliveredOf, Inbox
<1>12. NoticeIsTrueOf(v)'
  <2>1. ASSUME NEW m \in Node, NEW e \in Author, NEW r \in Recipient, Notice(v, r) \in inbox'[m][e]
        PROVE  m = Origin[v] /\ e = v.author /\ r \in told'[v]
    <3>1. Notice(v, r) \in inbox[m][e] /\ NoticeIsTrueOf(v) /\ told' = told
      BY <2>1
    <3> QED
      BY <3>1 DEF NoticeIsTrueOf
  <2> QED
    BY <2>1 DEF NoticeIsTrueOf
<1> QED
  BY <1>3, <1>4, <1>5, <1>6, <1>7, <1>8, <1>9, <1>10, <1>11, <1>12

\* What a request is about.
LEMMA RequestFields ==
    ASSUME NEW q \in Request
    PROVE  /\ q.node \in Node /\ q.did \in Author
           /\ q.what = "register" => q.arg \in Url
           /\ q.what \in {"follow", "unfollow"} => q.arg \in Author
  BY DEF Request

LEMMA AskKeeps ==
    ASSUME TypeOK, \A v \in Unit : UnitInv(v), NEW q \in Asked, Ask(q)
    PROVE  TypeOK' /\ \A v \in Unit : UnitInv(v)'
<1>1. TypeOK'
  BY FanOutAssumption DEF TypeOK, Ask
<1>2. ASSUME NEW v \in Unit PROVE Untouched(v)
  BY DEF Ask, Untouched
<1> QED
  BY <1>1, <1>2, UntouchedKeeps DEF Ask

LEMMA RegisterKeeps ==
    ASSUME TypeOK, \A v \in Unit : UnitInv(v), NEW q \in requests, Register(q)
    PROVE  TypeOK' /\ \A v \in Unit : UnitInv(v)'
<1> DEFINE n == q.node
           d == q.did
<1>1. q \in Request
  BY DEF TypeOK
<1>2. n \in Node /\ d \in Author /\ q.arg \in Url /\ q.arg # Unregistered
  BY <1>1, RequestFields, FanOutAssumption DEF Register
<1> HIDE DEF n, d
<1>3. profile' = [profile EXCEPT ![n][d] = q.arg]
  BY DEF Register, n, d
<1>4. /\ profile' \in [Node -> [Author -> Url \union {Unregistered}]]
      /\ \A m \in Node, e \in Author : Registered(m, e) => Registered(m, e)'
      /\ \A m \in Node, e \in Author :
            profile'[m][e] = IF m = n /\ e = d THEN q.arg ELSE profile[m][e]
  BY <1>2, <1>3 DEF TypeOK, Registered
<1>5. addressed' = [v \in Unit |-> IF Origin[v] = n /\ d \in eligible[v]
                                  THEN addressed[v] \union PushedTo(n, q.arg) ELSE addressed[v]]
  BY DEF Register, n, d
<1>6. TypeOK'
  <2>1. addressed' \in [Unit -> SUBSET Inbox]
    BY <1>5, PushedToInbox DEF TypeOK
  <2> QED
    BY <1>4, <2>1 DEF TypeOK, Register
<1>7. ASSUME NEW v \in Unit PROVE AgentFrame(v)
  <2>1. /\ Origin[v] \in Node /\ steady[v] \subseteq Author /\ eligible[v] \subseteq Author
        /\ SteadyInv(v) /\ StartInv(v)
    BY UnitFacts DEF TypeOK, UnitInv, TaskInv
  <2>2. LocalRecipients(v)' = LocalRecipients(v)
    BY DEF LocalRecipients, Followers, Register
  <2>3. \A e \in steady[v] : Registered(Origin[v], e)'
    BY <1>4, <2>1 DEF SteadyInv
  <2>4. \A e \in eligible[v] : PushedTo(Origin[v], profile'[Origin[v]][e]) \subseteq addressed'[v]
    BY <1>4, <1>5, <2>1 DEF StartInv
  <2>5. addressed[v] \subseteq addressed'[v]
    BY <1>5
  <2>6. eligible' = eligible /\ (task[v].pc = "none" => eligible[v] = {})
    BY <2>1 DEF Register, StartInv
  <2> QED
    BY <2>1, <2>2, <2>3, <2>4, <2>5, <2>6 DEF AgentFrame, SteadyInv, StartInv, Register
<1> QED
  BY <1>6, <1>7, AgentKeeps

LEMMA DeleteAgentKeeps ==
    ASSUME TypeOK, \A v \in Unit : UnitInv(v), NEW q \in requests, DeleteAgent(q)
    PROVE  TypeOK' /\ \A v \in Unit : UnitInv(v)'
<1> DEFINE n == q.node
           d == q.did
<1>1. q \in Request
  BY DEF TypeOK
<1>2. n \in Node /\ d \in Author
  BY <1>1, RequestFields
<1> HIDE DEF n, d
<1>3. /\ profile' = [profile EXCEPT ![n][d] = Unregistered]
      /\ inbox' = [inbox EXCEPT ![n][d] = {}] \/ UNCHANGED inbox
      /\ purged' = purged \union {<<d, n>>}
      /\ steady' = [u \in Unit |-> IF Origin[u] = n THEN steady[u] \ {d} ELSE steady[u]]
      /\ requests' \subseteq requests
      /\ UNCHANGED <<follows, task, calls, eligible, addressed, missed, acked, reached, told, changes>>
  BY DEF DeleteAgent, n, d
<1>4. faults' \in Nat
  BY FaultType DEF DeleteAgent
<1>5. /\ profile' \in [Node -> [Author -> Url \union {Unregistered}]]
      /\ \A m \in Node, e \in Author :
            profile'[m][e] = IF m = n /\ e = d THEN Unregistered ELSE profile[m][e]
      /\ \A m \in Node, e \in Author : <<e, m>> # <<d, n>> => (Registered(m, e) => Registered(m, e)')
  BY <1>2, <1>3 DEF TypeOK, Registered
<1>6. /\ inbox' \in [Node -> [Author -> SUBSET (Unit \union Notices)]]
      /\ \A m \in Node, e \in Author :
            /\ inbox'[m][e] \subseteq inbox[m][e]
            /\ <<e, m>> # <<d, n>> => inbox'[m][e] = inbox[m][e]
  <2>1. inbox \in [Node -> [Author -> SUBSET (Unit \union Notices)]]
    BY DEF TypeOK
  <2>2. CASE UNCHANGED inbox
    BY <2>1, <2>2
  <2>3. CASE inbox' = [inbox EXCEPT ![n][d] = {}]
    <3>1. \A m \in Node, e \in Author :
             inbox'[m][e] = IF m = n /\ e = d THEN {} ELSE inbox[m][e]
      BY <1>2, <2>1, <2>3
    <3>2. inbox' \in [Node -> [Author -> SUBSET (Unit \union Notices)]]
      BY <1>2, <2>1, <2>3
    <3> QED
      BY <3>1, <3>2
  <2> QED
    BY <1>3, <2>2, <2>3
<1>7. steady' \in [Unit -> SUBSET Author]
  BY <1>3 DEF TypeOK
<1>8. TypeOK'
  BY <1>2, <1>3, <1>4, <1>5, <1>6, <1>7 DEF TypeOK
<1>9. ASSUME NEW v \in Unit PROVE AgentFrame(v)
  <2>1. Origin[v] \in Node /\ steady[v] \subseteq Author /\ SteadyInv(v) /\ StartInv(v)
    BY UnitFacts DEF TypeOK, UnitInv, TaskInv
  <2>2. LocalRecipients(v)' = LocalRecipients(v)
    BY <1>3 DEF LocalRecipients, Followers
  <2>3. steady'[v] = IF Origin[v] = n THEN steady[v] \ {d} ELSE steady[v]
    BY <1>3
  <2>4. \A e \in steady'[v] : e \in Author /\ e \in steady[v] /\ <<e, Origin[v]>> # <<d, n>>
    BY <2>1, <2>3
  <2>5. \A e \in steady'[v] :
           Registered(Origin[v], e)' /\ inbox'[Origin[v]][e] = inbox[Origin[v]][e]
    BY <1>5, <1>6, <2>1, <2>4 DEF SteadyInv
  <2>6. \A m \in Node, e \in Author :
          /\ inbox'[m][e] \subseteq inbox[m][e]
          /\ <<e, m>> \notin purged' => inbox'[m][e] = inbox[m][e]
    BY <1>3, <1>6
  <2>7. /\ task[v].pc # "none" /\ v.visibility = "network" => LocalRecipients(v)' \subseteq eligible'[v]
        /\ steady'[v] \subseteq LocalRecipients(v)'
    BY <1>3, <2>1, <2>2, <2>4 DEF SteadyInv, StartInv
  <2>8. PushedTo(n, Unregistered) = {}
    BY FanOutAssumption DEF PushedTo
  <2>9. eligible[v] \subseteq Author
    BY DEF TypeOK
  <2>10. /\ \A e \in eligible[v] : PushedTo(Origin[v], profile'[Origin[v]][e]) \subseteq addressed[v]
         /\ task[v].pc = "none" => eligible[v] = {}
    BY <1>5, <2>1, <2>8, <2>9 DEF StartInv
  <2> QED
    BY <1>3, <2>4, <2>5, <2>6, <2>7, <2>10 DEF AgentFrame
<1> QED
  BY <1>8, <1>9, AgentKeeps

LEMMA FollowKeeps ==
    ASSUME TypeOK, \A v \in Unit : UnitInv(v), NEW q \in requests, Follow(q)
    PROVE  TypeOK' /\ \A v \in Unit : UnitInv(v)'
<1> DEFINE n == q.node
           d == q.did
           e == q.arg
<1>1. q \in Request
  BY DEF TypeOK
<1>2. n \in Node /\ d \in Author /\ e \in Author
  BY <1>1, RequestFields DEF Follow
<1> HIDE DEF n, d, e
<1>3. /\ follows' = [follows EXCEPT ![n] = @ \union {<<d, e>>}]
      /\ eligible' = [u \in Unit |->
                        IF Joins(q, u) THEN eligible[u] \union {d} ELSE eligible[u]]
      /\ addressed' = [u \in Unit |->
                         IF Joins(q, u) THEN addressed[u] \union PushedTo(n, profile[n][d])
                         ELSE addressed[u]]
      /\ requests' \subseteq requests
      /\ UNCHANGED <<profile, inbox, task, calls, steady, missed, acked, reached, told, purged,
                     changes, faults>>
      /\ \A u : Joins(q, u) <=> Origin[u] = n /\ u.author = e /\ task[u].pc # "none"
  BY DEF Follow, Joins, n, d, e
<1>4. /\ follows' \in [Node -> SUBSET (Author \X Author)]
      /\ \A m \in Node : follows'[m] = IF m = n THEN follows[m] \union {<<d, e>>} ELSE follows[m]
  <2>1. follows \in [Node -> SUBSET (Author \X Author)] /\ <<d, e>> \in Author \X Author
    BY <1>2 DEF TypeOK
  <2>2. \A m \in Node : follows'[m] = IF m = n THEN follows[m] \union {<<d, e>>} ELSE follows[m]
    BY <1>2, <1>3, <2>1
  <2>3. follows' = [m \in Node |-> IF m = n THEN follows[m] \union {<<d, e>>} ELSE follows[m]]
    BY <1>3, <2>1
  <2> QED
    BY <2>1, <2>2, <2>3
<1>5. eligible' \in [Unit -> SUBSET Author] /\ addressed' \in [Unit -> SUBSET Inbox]
  BY <1>2, <1>3, PushedToInbox DEF TypeOK
<1>6. TypeOK'
  BY <1>3, <1>4, <1>5 DEF TypeOK
<1>7. ASSUME NEW v \in Unit PROVE AgentFrame(v)
  <2>1. Origin[v] \in Node /\ steady[v] \subseteq Author /\ SteadyInv(v) /\ StartInv(v)
    BY UnitFacts DEF TypeOK, UnitInv, TaskInv
  <2>2. /\ LocalRecipients(v) \subseteq LocalRecipients(v)'
        /\ v.visibility = "network" =>
              LocalRecipients(v)' \subseteq
                 LocalRecipients(v) \union (IF Origin[v] = n /\ v.author = e THEN {d} ELSE {})
    BY <1>4, <2>1 DEF LocalRecipients, Followers
  <2>3. /\ eligible'[v] = IF Joins(q, v) THEN eligible[v] \union {d} ELSE eligible[v]
        /\ addressed'[v] = IF Joins(q, v) THEN addressed[v] \union PushedTo(n, profile[n][d])
                           ELSE addressed[v]
        /\ Joins(q, v) <=> Origin[v] = n /\ v.author = e /\ task[v].pc # "none"
    BY <1>3
  <2>4. task[v].pc # "none" /\ v.visibility = "network" => LocalRecipients(v)' \subseteq eligible'[v]
    BY <2>1, <2>2, <2>3 DEF StartInv
  <2>5. /\ \A x \in eligible'[v] : PushedTo(Origin[v], profile[Origin[v]][x]) \subseteq addressed'[v]
        /\ task[v].pc = "none" => eligible'[v] = {}
        /\ addressed[v] \subseteq addressed'[v] /\ eligible[v] \subseteq eligible'[v]
    BY <2>1, <2>3 DEF StartInv
  <2> QED
    BY <1>3, <2>1, <2>2, <2>4, <2>5 DEF AgentFrame, SteadyInv, Registered
<1> QED
  BY <1>6, <1>7, AgentKeeps

LEMMA UnfollowKeeps ==
    ASSUME TypeOK, \A v \in Unit : UnitInv(v), NEW q \in requests, Unfollow(q)
    PROVE  TypeOK' /\ \A v \in Unit : UnitInv(v)'
<1> DEFINE n == q.node
           d == q.did
           e == q.arg
<1>1. q \in Request
  BY DEF TypeOK
<1>2. n \in Node /\ d \in Author /\ e \in Author
  BY <1>1, RequestFields DEF Unfollow
<1> HIDE DEF n, d, e
<1>3. /\ follows' = [follows EXCEPT ![n] = @ \ {<<d, e>>}]
      /\ steady' = [u \in Unit |->
                      IF Origin[u] = n /\ u.author = e /\ u.visibility = "network"
                      THEN steady[u] \ {d} ELSE steady[u]]
      /\ requests' \subseteq requests
      /\ UNCHANGED <<profile, inbox, task, calls, eligible, addressed, missed, acked, reached, told,
                     purged, changes, faults>>
  BY DEF Unfollow, n, d, e
<1>4. /\ follows' \in [Node -> SUBSET (Author \X Author)]
      /\ \A m \in Node : follows'[m] = IF m = n THEN follows[m] \ {<<d, e>>} ELSE follows[m]
  BY <1>2, <1>3 DEF TypeOK
<1>5. steady' \in [Unit -> SUBSET Author]
  BY <1>3 DEF TypeOK
<1>6. TypeOK'
  BY <1>3, <1>4, <1>5 DEF TypeOK
<1>7. ASSUME NEW v \in Unit PROVE AgentFrame(v)
  <2>1. Origin[v] \in Node /\ steady[v] \subseteq Author /\ SteadyInv(v) /\ StartInv(v)
    BY UnitFacts DEF TypeOK, UnitInv, TaskInv
  <2>2. /\ LocalRecipients(v)' \subseteq LocalRecipients(v)
        /\ \A x \in LocalRecipients(v) :
              ~(Origin[v] = n /\ v.author = e /\ v.visibility = "network" /\ x = d)
                 => x \in LocalRecipients(v)'
    BY <1>4, <2>1 DEF LocalRecipients, Followers
  <2>3. steady'[v] = IF Origin[v] = n /\ v.author = e /\ v.visibility = "network"
                     THEN steady[v] \ {d} ELSE steady[v]
    BY <1>3
  <2>4. steady'[v] \subseteq LocalRecipients(v)' /\ steady'[v] \subseteq steady[v]
    BY <2>1, <2>2, <2>3 DEF SteadyInv
  <2> QED
    BY <1>3, <2>1, <2>2, <2>4 DEF AgentFrame, SteadyInv, StartInv, Registered
<1> QED
  BY <1>6, <1>7, AgentKeeps

LEMMA CrashKeeps ==
    ASSUME TypeOK, \A v \in Unit : UnitInv(v), NEW n \in Node, Crash(n)
    PROVE  TypeOK' /\ \A v \in Unit : UnitInv(v)'
<1> DEFINE gone == [Idle EXCEPT !.pc = "lost"]
           dies(v) == Origin[v] = n /\ task[v].pc \notin {"none", "done"}
<1>1. gone \in Task /\ gone.pc = "lost"
  <2>1. gone = [pc |-> "lost", todo |-> {}, current |-> Nobody, to |-> Elsewhere,
                attempt |-> 0, bases |-> {}, reply |-> "none"]
    BY DEF Idle
  <2>2. 0 \in 0 .. MaxAttempts
    BY FanOutAssumption
  <2> HIDE DEF gone
  <2> QED
    BY <2>1, <2>2 DEF Task, Pc
<1>2. task' = [v \in Unit |-> IF dies(v) THEN gone ELSE task[v]]
  BY DEF Crash
<1> HIDE DEF gone, dies
<1>3. task' \in [Unit -> Task]
  BY <1>1, <1>2 DEF TypeOK
<1>4. /\ calls' \subseteq calls /\ requests' \subseteq requests
      /\ UNCHANGED <<agentVars, inbox, historyVars, changes>>
  BY DEF Crash
<1>5. TypeOK'
  BY <1>3, <1>4, FaultType DEF TypeOK, Crash
<1>6. ASSUME NEW v \in Unit PROVE UnitInv(v)'
  <2>1. CASE dies(v)
    <3>1. task'[v].pc = "lost" /\ task[v].pc # "none"
      BY <1>1, <1>2, <2>1 DEF dies
    <3> USE <1>4, <3>1 DEF UnitInv, TaskInv, AtFollowers, AtHosts, AtMembers, Pushing, MayReceive
    <3>2. StartInv(v)' /\ SteadyInv(v)'
      BY DEF StartInv, SteadyInv, LocalRecipients, Followers, Registered
    <3>3. TargetInv(v)' /\ ReplyInv(v)' /\ SettleInv(v)'
      BY DEF TargetInv, ReplyInv, SettleInv
    <3>4. OnceInv(v)'
      BY DEF OnceInv
    <3>5. OnlyRecipientsOf(v)' /\ AckedIsDeliveredOf(v)' /\ NoticeIsTrueOf(v)'
      BY DEF OnlyRecipientsOf, AckedIsDeliveredOf, NoticeIsTrueOf
    <3>6. NobodyForgottenBy(v)' /\ RemoteIsSettledOf(v)'
      BY DEF NobodyForgottenBy, PastLocal, RemoteIsSettledOf
    <3> QED
      BY <3>2, <3>3, <3>4, <3>5, <3>6
  <2>2. CASE ~dies(v)
    <3>1. Untouched(v)
      BY <1>2, <1>4, <2>2 DEF Untouched
    <3> QED
      BY <1>4, <3>1, UntouchedKeeps
  <2> QED
    BY <2>1, <2>2
<1> QED
  BY <1>5, <1>6
-----------------------------------------------------------------------------
(***************************************************************************)
(* The theorems.                                                           *)
(***************************************************************************)
LEMMA InvInit == Init => IInv
<1> SUFFICES ASSUME Init PROVE IInv
  OBVIOUS
<1>1. Idle \in Task /\ Idle.pc = "none"
  BY FanOutAssumption DEF Idle, Task, Pc
<1>2. /\ task \in [Unit -> Task] /\ \A u \in Unit : task[u].pc = "none"
      /\ inbox \in [Node -> [Author -> SUBSET (Unit \union Notices)]]
      /\ \A n \in Node, d \in Author : inbox[n][d] = {}
  BY <1>1 DEF Init
<1>3. TypeOK
  BY <1>2, FanOutAssumption DEF Init, TypeOK
<1>4. ASSUME NEW u \in Unit PROVE UnitInv(u)
  <2>1. /\ task[u].pc = "none" /\ acked[u] = {} /\ reached[u] = {} /\ told[u] = {}
        /\ steady[u] = {} /\ eligible[u] = {} /\ calls = {}
    BY <1>2 DEF Init
  <2> USE <1>2, <2>1 DEF AtFollowers, AtHosts, AtMembers, Pushing
  <2>2. StartInv(u) /\ TargetInv(u) /\ SteadyInv(u) /\ ReplyInv(u) /\ SettleInv(u) /\ OnceInv(u)
    BY DEF StartInv, TargetInv, SteadyInv, ReplyInv, SettleInv, OnceInv
  <2>3. OnlyRecipientsOf(u) /\ NobodyForgottenBy(u) /\ AckedIsDeliveredOf(u)
    BY DEF OnlyRecipientsOf, NobodyForgottenBy, AckedIsDeliveredOf, PastLocal
  <2>4. RemoteIsSettledOf(u) /\ NoticeIsTrueOf(u)
    BY DEF RemoteIsSettledOf, NoticeIsTrueOf
  <2> QED
    BY <2>2, <2>3, <2>4 DEF UnitInv, TaskInv
<1> QED
  BY <1>3, <1>4, UnitByUnit DEF EveryUnitInv

LEMMA InvStep == IInv /\ [Next]_vars => IInv'
<1> SUFFICES ASSUME IInv, [Next]_vars PROVE IInv'
  OBVIOUS
<1>1. TypeOK /\ \A u \in Unit : UnitInv(u)
  BY UnitByUnit DEF EveryUnitInv
<1>2. CASE UNCHANGED vars
  <2>1. TypeOK'
    BY <1>1, <1>2 DEF vars, TypeOK
  <2>2. \A v \in Unit : Untouched(v)
    BY <1>2 DEF vars, Untouched
  <2>3. \A v \in Unit : UnitInv(v)'
    BY <1>1, <1>2, <2>2, UntouchedKeeps DEF vars
  <2>4. EveryUnitInv'
    BY <2>1, <2>3 DEF EveryUnitInv
  <2> QED
    BY <2>4, UnitByUnit, PTL
<1>3. CASE ~UNCHANGED vars
  <2>1. TypeOK' /\ \A v \in Unit : UnitInv(v)'
    <3>1. CASE \/ \E u \in Unit : Submit(u)
               \/ \E u \in Unit : ListLocal(u)
               \/ \E u \in Unit : \E r \in task[u].todo : CheckLocal(u, r)
               \/ \E u \in Unit : DeliverLocal(u)
               \/ \E u \in Unit : EndLocal(u)
      BY <1>1, <3>1, SubmitKeeps, ListLocalKeeps, CheckLocalKeeps, DeliverLocalKeeps, EndLocalKeeps
    <3>2. CASE \/ \E u \in Unit : ListRemote(u)
               \/ \E u \in Unit : \E r \in task[u].todo : FindInbox(u, r)
               \/ \E u \in Unit : \E r \in task[u].todo : Discover(u, r)
               \/ \E u \in Unit : EndDiscovery(u)
               \/ \E u \in Unit : \E r \in task[u].todo : PickMember(u, r)
               \/ \E u \in Unit : Finish(u)
      BY <1>1, <3>2, ListRemoteKeeps, FindInboxKeeps, DiscoverKeeps, EndDiscoveryKeeps,
         PickMemberKeeps, FinishKeeps
    <3>3. CASE \/ \E u \in Unit : Push(u)
               \/ \E u \in Unit : AnswerElsewhere(u)
               \/ \E u \in Unit : Timeout(u)
               \/ \E u \in Unit : Delivered(u)
               \/ \E u \in Unit : Retry(u)
               \/ \E u \in Unit : GiveUp(u)
               \/ \E u \in Unit : CheckAuthor(u)
               \/ \E u \in Unit : ReportFailure(u)
      BY <1>1, <3>3, PushKeeps, AnswerElsewhereKeeps, TimeoutKeeps, DeliveredKeeps, RetryKeeps, GiveUpKeeps,
         CheckAuthorKeeps, ReportFailureKeeps
    <3>4. CASE \/ \E c \in calls : Unauthorized(c)
               \/ \E c \in calls : Arrive(c)
               \/ \E c \in calls : Accept(c)
               \/ \E c \in calls : Lose(c)
      BY <1>1, <3>4, UnauthorizedKeeps, ArriveKeeps, AcceptKeeps, LoseKeeps
    <3>5. CASE \/ \E q \in Asked : Ask(q)
               \/ \E q \in requests : Register(q)
               \/ \E q \in requests : DeleteAgent(q)
               \/ \E q \in requests : Follow(q)
               \/ \E q \in requests : Unfollow(q)
               \/ \E n \in Node : Crash(n)
      BY <1>1, <3>5, AskKeeps, RegisterKeeps, DeleteAgentKeeps, FollowKeeps, UnfollowKeeps, CrashKeeps
    <3> QED
      BY <1>3, <3>1, <3>2, <3>3, <3>4, <3>5, StepCases
  <2>2. EveryUnitInv'
    BY <2>1 DEF EveryUnitInv
  <2> QED
    BY <2>2, UnitByUnit, PTL
<1> QED
  BY <1>2, <1>3

\* However many agents, nodes, retries, crashes and late pushes there are, the
\* invariant the properties rest on holds in every state.
THEOREM Invariance == Spec => []IInv
<1>1. Init => IInv
  BY InvInit
<1>2. IInv /\ [Next]_vars => IInv'
  BY InvStep
<1> QED
  BY <1>1, <1>2, PTL DEF Spec

\* Every variable of the fan-out keeps its type: a task is always at a known point,
\* an inbox holds units and notices only, and an attempt is never one too many.
THEOREM TypeCorrect == Spec => []TypeOK
<1>1. IInv => TypeOK
  BY DEF IInv
<1> QED
  BY <1>1, Invariance, PTL

\* A non-public unit is never in another inbox, nor on its way to another one, than
\* those of whom it is for and those that its author's followers registered as theirs
\* while it could be had: local_fanout, remote_fanout, inbox_deliver and put_agent
\* together.  (Whose inbox a registered URL leads to, nothing in the code checks.)
THEOREM OnlyRecipientsHolds == Spec => []OnlyRecipients
<1>1. IInv => OnlyRecipients
  BY DEF IInv
<1> QED
  BY <1>1, Invariance, PTL

\* local_fanout passes over no recipient that was there all the time, unless a
\* storage error cut it off.
THEOREM NobodyForgottenHolds == Spec => []NobodyForgotten
<1>1. IInv => NobodyForgotten
  BY DEF IInv
<1> QED
  BY <1>1, Invariance, PTL

\* What an inbox answered 201 to is in it until its agent leaves that node.
THEOREM AckedIsDeliveredHolds == Spec => []AckedIsDelivered
<1>1. IInv => AckedIsDelivered
  BY DEF IInv
<1> QED
  BY <1>1, Invariance, PTL

\* remote_fanout ends only when every remote member of the audience was answered for
\* with 2xx or reported to the author, alone or with its host; all but those whose
\* host published an api_base that is no URL: push_to_inbox passes over them.
THEOREM RemoteIsSettledHolds == Spec => []RemoteIsSettled
<1>1. IInv => RemoteIsSettled
  BY DEF IInv
<1> QED
  BY <1>1, Invariance, PTL

\* notify_author_of_failure tells nobody but the author, and nothing of a
\* recipient for whom the push was answered 2xx.
THEOREM NoticeIsTrueHolds == Spec => []NoticeIsTrue
<1>1. IInv => NoticeIsTrue
  BY DEF IInv
<1> QED
  BY <1>1, Invariance, PTL
-----------------------------------------------------------------------------
(***************************************************************************)
(* FanOut implements InboxService.                                         *)
(***************************************************************************)

\* The sending of v neither begins nor ends in this step.
SamePhase(v) ==
    /\ task'[v].pc = "none" <=> task[v].pc = "none"
    /\ task'[v].pc = "done" <=> task[v].pc = "done"

LEMMA MappingStays ==
    ASSUME UNCHANGED profile, \A v \in Unit : SamePhase(v)
    PROVE  UNCHANGED <<Phase, Given>>
<1>1. UNCHANGED Phase
  BY DEF Phase, SamePhase
<1>2. UNCHANGED Given
  BY DEF Given
<1> QED
  BY <1>1, <1>2

\* How far the sending is, and who may have the unit, read off the mapping.
LEMMA MappingAt ==
    ASSUME NEW u \in Unit
    PROVE  /\ Phase[u] = "new" <=> task[u].pc = "none"
           /\ Phase[u] = "open" <=> task[u].pc \notin {"none", "done"}
           /\ \A n \in Node, d \in Author : MayReceive(u, d, n) => <<d, n>> \in Service!Readers(u)
           /\ \A n \in Node, d \in Author : Given[n][d] = PushedTo(n, profile[n][d])
<1>1. /\ Phase[u] = "new" <=> task[u].pc = "none"
      /\ Phase[u] = "open" <=> task[u].pc \notin {"none", "done"}
  BY DEF Phase
<1>2. \A n \in Node, d \in Author : MayReceive(u, d, n) => <<d, n>> \in Service!Readers(u)
  BY DEF MayReceive, Service!Readers
<1>3. \A n \in Node, d \in Author : Given[n][d] = PushedTo(n, profile[n][d])
  BY DEF Given
<1> QED
  BY <1>1, <1>2, <1>3

LEMMA OneOrNoneGiven ==
    ASSUME NEW n, NEW url
    PROVE  PushedTo(n, url) \in Service!OneOrNone
  BY DEF PushedTo, Service!OneOrNone, Inbox

\* Nothing of the service changes.
Quiet ==
    /\ UNCHANGED <<inbox, profile, eligible, addressed, acked, reached, told, purged>>
    /\ \A v \in Unit : SamePhase(v)

LEMMA QuietStutters == Quiet => UNCHANGED Service!serviceVars
  BY MappingStays DEF Quiet, Service!serviceVars

\* The steps by which a task finds out whom to deliver to, and waits.
LEMMA TaskIsQuiet ==
    ASSUME TypeOK, NEW u \in Unit,
           \/ ListLocal(u)
           \/ \E r \in task[u].todo : CheckLocal(u, r)
           \/ EndLocal(u)
           \/ ListRemote(u) /\ task'[u].pc # "done"
           \/ \E r \in task[u].todo : FindInbox(u, r)
           \/ \E r \in task[u].todo : Discover(u, r)
           \/ EndDiscovery(u)
           \/ \E r \in task[u].todo : PickMember(u, r)
           \/ Push(u)
           \/ AnswerElsewhere(u)
           \/ Timeout(u)
           \/ Retry(u)
           \/ GiveUp(u)
    PROVE  Quiet
<1> USE DEF TypeOK, Task, Quiet, SamePhase
<1>1. CASE ListLocal(u)
  <2>1. \/ task' = [task EXCEPT ![u].pc = "check", ![u].todo = {<<d, Origin[u]>> : d \in LocalRecipients(u)}]
        \/ task' = [task EXCEPT ![u].pc = "remote"]
    BY <1>1 DEF ListLocal, Goto
  <2>2. \A v \in Unit : SamePhase(v)
    <3>1. task[u].pc = "list"
      BY <1>1 DEF ListLocal
    <3>2. CASE task' = [task EXCEPT ![u].pc = "check", ![u].todo = {<<d, Origin[u]>> : d \in LocalRecipients(u)}]
      BY <3>1, <3>2
    <3>3. CASE task' = [task EXCEPT ![u].pc = "remote"]
      BY <3>1, <3>3
    <3> QED
      BY <2>1, <3>2, <3>3
  <2> QED
    BY <1>1, <2>2 DEF ListLocal
<1>2. ASSUME NEW r \in task[u].todo, CheckLocal(u, r) PROVE Quiet
  <2>1. \/ task' = [task EXCEPT ![u].pc = "deliver", ![u].todo = @ \ {r}, ![u].current = r]
        \/ task' = [task EXCEPT ![u].todo = @ \ {r}]
        \/ task' = [task EXCEPT ![u].pc = "remote", ![u].todo = {}]
    BY <1>2 DEF CheckLocal
  <2>2. \A v \in Unit : SamePhase(v)
    <3>1. task[u].pc = "check"
      BY <1>2 DEF CheckLocal
    <3>2. CASE task' = [task EXCEPT ![u].pc = "deliver", ![u].todo = @ \ {r}, ![u].current = r]
      BY <3>1, <3>2
    <3>3. CASE task' = [task EXCEPT ![u].todo = @ \ {r}]
      BY <3>1, <3>3
    <3>4. CASE task' = [task EXCEPT ![u].pc = "remote", ![u].todo = {}]
      BY <3>1, <3>4
    <3> QED
      BY <2>1, <3>2, <3>3, <3>4
  <2> QED
    BY <1>2, <2>2 DEF CheckLocal
<1>3. CASE EndLocal(u)
  BY <1>3 DEF EndLocal, Goto
<1>4. CASE ListRemote(u) /\ task'[u].pc # "done"
  <2>1. task[u].pc = "remote"
    BY <1>4 DEF ListRemote
  <2>2. \E pc \in {"profile", "discover"}, todo \in SUBSET Recipient :
            task' = [task EXCEPT ![u].pc = pc, ![u].todo = todo]
    <3>1. task' # [task EXCEPT ![u].pc = "done"]
      <4>1. ASSUME task' = [task EXCEPT ![u].pc = "done"] PROVE task'[u].pc = "done"
        BY <4>1
      <4> QED
        BY <1>4, <4>1
    <3>2. {<<d, Origin[u]>> : d \in Followers(Origin[u], u.author)} \in SUBSET Recipient
      <4>1. \A d \in Followers(Origin[u], u.author) : d \in Author
        BY DEF Followers
      <4> QED
        BY <4>1, UnitFacts DEF Recipient
    <3>3. {<<Nobody, r[2]>> : r \in Remote[u]} \in SUBSET Recipient
      BY UnitFacts DEF Recipient
    <3> QED
      BY <1>4, <3>1, <3>2, <3>3 DEF ListRemote, Goto
  <2>3. \A v \in Unit : SamePhase(v)
    BY <2>1, <2>2
  <2> QED
    BY <1>4, <2>3 DEF ListRemote
<1>5. ASSUME NEW r \in task[u].todo, FindInbox(u, r) PROVE Quiet
  <2>1. StartPush(u, r, profile[r[2]][r[1]]) \/ task' = [task EXCEPT ![u].todo = @ \ {r}]
    BY <1>5 DEF FindInbox
  <2>2. \A v \in Unit : SamePhase(v)
    <3>1. task[u].pc = "profile"
      BY <1>5 DEF FindInbox
    <3>2. CASE StartPush(u, r, profile[r[2]][r[1]])
      BY <3>1, <3>2 DEF StartPush
    <3>3. CASE task' = [task EXCEPT ![u].todo = @ \ {r}]
      BY <3>1, <3>3
    <3> QED
      BY <2>1, <3>2, <3>3
  <2> QED
    BY <1>5, <2>2 DEF FindInbox
<1>6. ASSUME NEW r \in task[u].todo, Discover(u, r) PROVE Quiet
  <2>1. \/ task' = [task EXCEPT ![u].todo = @ \ {r}, ![u].bases = @ \union {r[2]}]
        \/ task' = [task EXCEPT ![u].todo = @ \ {r}, ![u].current = r, ![u].pc = "notify"]
    BY <1>6 DEF Discover
  <2>2. \A v \in Unit : SamePhase(v)
    <3>1. task[u].pc = "discover"
      BY <1>6 DEF Discover
    <3>2. CASE task' = [task EXCEPT ![u].todo = @ \ {r}, ![u].bases = @ \union {r[2]}]
      BY <3>1, <3>2
    <3>3. CASE task' = [task EXCEPT ![u].todo = @ \ {r}, ![u].current = r, ![u].pc = "notify"]
      BY <3>1, <3>3
    <3> QED
      BY <2>1, <3>2, <3>3
  <2> QED
    BY <1>6, <2>2 DEF Discover
<1>7. CASE EndDiscovery(u)
  BY <1>7 DEF EndDiscovery
<1>8. ASSUME NEW r \in task[u].todo, PickMember(u, r) PROVE Quiet
  <2>1. task[u].pc = "members"
    BY <1>8 DEF PickMember
  <2>2. \A v \in Unit : SamePhase(v)
    <3>1. CASE StartPush(u, r, Address[r])
      BY <2>1, <3>1 DEF StartPush
    <3>2. CASE task' = [task EXCEPT ![u].todo = @ \ {r}]
      BY <2>1, <3>2
    <3> QED
      BY <1>8, <3>1, <3>2 DEF PickMember
  <2> QED
    BY <1>8, <2>2 DEF PickMember
<1>9. CASE Push(u)
  BY <1>9 DEF Push
<1>10. CASE Timeout(u)
  BY <1>10 DEF Timeout
<1>11. CASE Retry(u)
  BY <1>11 DEF Retry
<1>12. CASE GiveUp(u)
  BY <1>12 DEF GiveUp, Goto
<1>13. CASE AnswerElsewhere(u)
  BY <1>13 DEF AnswerElsewhere
<1> QED
  BY <1>1, <1>2, <1>3, <1>4, <1>5, <1>6, <1>7, <1>8, <1>9, <1>10, <1>11, <1>12, <1>13

\* The other steps that do nothing the service speaks of: calls come, go and are lost,
\* requests come, agents unfollow, processes die.
LEMMA RestIsQuiet ==
    ASSUME TypeOK,
           \/ \E c \in calls : Unauthorized(c) \/ Arrive(c) \/ Lose(c)
           \/ \E q \in Asked : Ask(q)
           \/ \E q \in requests : Unfollow(q)
           \/ \E n \in Node : Crash(n)
    PROVE  Quiet
<1> USE DEF Quiet, SamePhase
<1>1. ASSUME NEW c \in calls, NEW reply \in {"refused", "failed"}, Reply(c, reply)
      PROVE  \A v \in Unit : SamePhase(v)
  BY <1>1, ReplyAnswers DEF Answers
<1>2. ASSUME NEW c \in calls, Unauthorized(c) PROVE Quiet
  BY <1>1, <1>2 DEF Unauthorized
<1>3. ASSUME NEW c \in calls, Arrive(c) PROVE Quiet
  BY <1>1, <1>3 DEF Arrive
<1>4. ASSUME NEW c \in calls, Lose(c) PROVE Quiet
  BY <1>4 DEF Lose
<1>5. ASSUME NEW q \in Asked, Ask(q) PROVE Quiet
  BY <1>5 DEF Ask
<1>6. ASSUME NEW q \in requests, Unfollow(q) PROVE Quiet
  BY <1>6 DEF Unfollow
<1>7. ASSUME NEW n \in Node, Crash(n) PROVE Quiet
  <2>1. \A v \in Unit : task'[v] = task[v]
                        \/ (task[v].pc \notin {"none", "done"} /\ task'[v] = [Idle EXCEPT !.pc = "lost"])
    BY <1>7 DEF Crash
  <2>2. [Idle EXCEPT !.pc = "lost"].pc = "lost"
    BY DEF Idle
  <2>3. \A v \in Unit : SamePhase(v)
    BY <2>1, <2>2
  <2> QED
    BY <1>7, <2>3 DEF Crash
<1> QED
  BY <1>2, <1>3, <1>4, <1>5, <1>6, <1>7

LEMMA SubmitOpens ==
    ASSUME IInv, NEW u \in Unit, Submit(u)
    PROVE  \E fs \in SUBSET Author : Service!Open(u, fs)
<1> DEFINE n == Origin[u]
           fs == Followers(n, u.author)
<1>1. Moves(u, "list", task[u].todo) /\ task[u].pc = "none"
  BY GotoMoves DEF IInv, Submit, Pc
<1>2. /\ task'[u].pc = "list" /\ fs \subseteq Author /\ n \in Node
      /\ \A v \in Unit : v # u => task'[v] = task[v]
  BY <1>1, UnitFacts DEF Moves, Becomes, Followers
<1>3. Phase[u] = "new" /\ Phase' = [Phase EXCEPT ![u] = "open"]
  BY <1>1, <1>2 DEF Phase
<1>4. eligible' = [eligible EXCEPT ![u] = fs]
  BY DEF Submit
<1>5. addressed' = [addressed EXCEPT ![u] = UNION {Given[n][d] : d \in fs}]
  <2>1. {PushedTo(n, profile[n][d]) : d \in fs} = {Given[n][d] : d \in fs}
    BY <1>2, MappingAt
  <2> QED
    BY <2>1 DEF Submit
<1>6. UNCHANGED Given
  BY DEF Given, Submit
<1> HIDE DEF fs
<1>7. Service!Open(u, fs)
  BY <1>3, <1>4, <1>5, <1>6 DEF Service!Open, Submit
<1> QED
  BY <1>2, <1>7

LEMMA FinishEnds ==
    ASSUME IInv, IInv', NEW u \in Unit, Finish(u) \/ (ListRemote(u) /\ task'[u].pc = "done")
    PROVE  Service!End(u)
<1>1. Moves(u, "done", task[u].todo) /\ task[u].pc \notin {"none", "done"}
  <2>1. Goto(u, "done") /\ task[u].pc \notin {"none", "done"}
    BY DEF Finish, ListRemote, Goto, IInv, TypeOK, Task
  <2> QED
    BY <2>1, GotoMoves DEF IInv, Pc
<1>2. UNCHANGED <<inbox, profile, eligible, addressed, acked, reached, told, purged>>
  BY DEF Finish, ListRemote
<1>3. task'[u].pc = "done" /\ \A v \in Unit : v # u => task'[v] = task[v]
  BY <1>1 DEF Moves, Becomes
<1>4. Phase[u] = "open" /\ Phase' = [Phase EXCEPT ![u] = "over"]
  BY <1>1, <1>3 DEF Phase
<1>5. UNCHANGED Given
  BY <1>2 DEF Given
<1>6. u.visibility = "limited" =>
          \A r \in Remote[u] \ Unaddressed(u) :
              r \in acked[u] \union told[u] \/ <<Nobody, r[2]>> \in told[u]
  BY <1>2, <1>3 DEF IInv, RemoteIsSettled
<1> QED
  BY <1>2, <1>4, <1>5, <1>6 DEF Service!End

LEMMA DeliveredConfirms ==
    ASSUME IInv, NEW u \in Unit, Delivered(u)
    PROVE  \E r \in Author \X Host, inboxes \in Service!OneOrNone : Service!Confirm(u, r, inboxes)
<1> DEFINE r == task[u].current
           to == task[u].to
           inboxes == {to} \ {Elsewhere}
<1>1. task[u].pc = "await" /\ task[u].reply = "stored" /\ TargetInv(u) /\ ReplyInv(u) /\ OnceInv(u)
  BY DEF IInv, TaskInv, Delivered
<1>2. /\ r \in Author \X Host /\ r[1] # Nobody
      /\ r \in Service!Targets(u)
  BY <1>1, UnitFacts DEF TargetInv, Pushing, Service!Targets, IInv, TypeOK
<1>3. Following(u) \in {"profile", "members"}
  BY <1>2 DEF Following
<1>4. Moves(u, Following(u), task[u].todo)
  BY <1>3, GotoMoves DEF IInv, Delivered, Pc
<1>5. UNCHANGED <<Phase, Given>>
  BY <1>1, <1>3, <1>4, MappingStays DEF Moves, Becomes, SamePhase, Delivered
<1>6. Phase[u] = "open"
  BY <1>1, MappingAt
<1>7. inboxes \in Service!OneOrNone /\ inboxes \subseteq Inbox
  <2>1. to \in Inbox \union {Elsewhere}
    BY TaskFields DEF IInv
  <2>2. CASE to = Elsewhere
    BY <2>2 DEF Service!OneOrNone
  <2>3. CASE to # Elsewhere
    <3>1. inboxes = {to}
      BY <2>3
    <3> QED
      BY <2>1, <2>3, <3>1 DEF Service!OneOrNone, Inbox
  <2> QED
    BY <2>2, <2>3
<1>8. ASSUME NEW i \in inboxes
      PROVE  i \in Service!Readers(u) /\ (u \in inbox[i[2]][i[1]] \/ i \in purged)
  <2>1. i = to /\ to # Elsewhere /\ i \in Inbox
    BY <1>7
  <2>2. i = <<i[1], i[2]>> /\ i[1] \in Author /\ i[2] \in Node
    BY <2>1 DEF Inbox
  <2>3. MayReceive(u, i[1], i[2])
    BY <1>1, <2>1 DEF TargetInv
  <2> QED
    BY <1>1, <2>1, <2>2, <2>3, MappingAt DEF ReplyInv
<1>9. r \notin told[u]
  <2>1. AtFollowers(u) \/ AtMembers(u)
    BY <1>1, <1>2, UnitFacts DEF AtFollowers, AtMembers, Pushing
  <2> QED
    BY <1>1, <2>1 DEF OnceInv
<1>10. /\ acked' = [acked EXCEPT ![u] = @ \union {r}]
       /\ reached' = [reached EXCEPT ![u] = @ \union inboxes]
       /\ UNCHANGED <<inbox, eligible, addressed, told, purged>>
  BY DEF Delivered
<1> HIDE DEF r, inboxes
<1>11. Service!Confirm(u, r, inboxes)
  BY <1>2, <1>5, <1>6, <1>8, <1>9, <1>10 DEF Service!Confirm
<1> QED
  BY <1>2, <1>7, <1>11

LEMMA CheckAuthorReports ==
    ASSUME IInv, NEW u \in Unit, CheckAuthor(u)
    PROVE  \E r \in Recipient : Service!Report(u, r)
<1> DEFINE r == task[u].current
<1>1. task[u].pc = "notify" /\ r \in Recipient /\ TargetInv(u) /\ OnceInv(u)
  <2>1. task[u].pc = "notify" /\ UnitInv(u) /\ TypeOK
    BY UnitByUnit DEF IInv, CheckAuthor, EveryUnitInv
  <2> QED
    BY <2>1, FollowingFacts DEF UnitInv, TaskInv, Pushing
<1>2. \E pc \in Pc \ {"none", "done"} : Goto(u, pc)
  <2>1. Following(u) \in Pc \ {"none", "done"} /\ "report" \in Pc
    BY DEF Following, Pc
  <2> QED
    BY <2>1 DEF CheckAuthor
<1>3. PICK pc \in Pc \ {"none", "done"} : Moves(u, pc, task[u].todo)
  BY <1>2, GotoMoves DEF IInv
<1>4. UNCHANGED <<Phase, Given>>
  BY <1>1, <1>3, MappingStays DEF Moves, Becomes, SamePhase, CheckAuthor
<1>5. \/ r \in Service!Targets(u)
      \/ u.visibility = "limited" /\ r \in {<<Nobody, m[2]>> : m \in Remote[u]}
  BY <1>1 DEF TargetInv, Pushing, Service!Targets
<1>6. Phase[u] = "open"
  BY <1>1, MappingAt
<1>7. r \notin acked[u]
  <2>1. AtFollowers(u) \/ AtMembers(u) \/ AtHosts(u)
    BY <1>1, UnitFacts DEF AtFollowers, AtMembers, AtHosts, Pushing
  <2> QED
    BY <1>1, <2>1 DEF OnceInv
<1>8. /\ told' = [told EXCEPT ![u] = @ \union {r}]
      /\ UNCHANGED <<inbox, eligible, addressed, acked, reached, purged>>
  BY DEF CheckAuthor
<1> HIDE DEF r
<1>9. Service!Report(u, r)
  BY <1>4, <1>5, <1>6, <1>7, <1>8 DEF Service!Report
<1> QED
  BY <1>1, <1>9 DEF r

LEMMA ReportFailureTells ==
    ASSUME IInv, NEW u \in Unit, ReportFailure(u)
    PROVE  (\E r \in Recipient : Service!Tell(u, r)) \/ Quiet
<1> DEFINE r == task[u].current
<1>1. task[u].pc = "report" /\ r \in Recipient /\ r \in told[u]
  <2>1. task[u].pc = "report" /\ UnitInv(u) /\ TypeOK
    BY UnitByUnit DEF IInv, ReportFailure, EveryUnitInv
  <2> QED
    BY <2>1, FollowingFacts DEF UnitInv, TaskInv, OnceInv, Pushing
<1>2. Following(u) \in Pc \ {"none", "done"}
  BY DEF Following, Pc
<1>3. Moves(u, Following(u), task[u].todo)
  BY <1>2, GotoMoves DEF IInv, ReportFailure
<1>4. \A v \in Unit : SamePhase(v)
  BY <1>1, <1>2, <1>3 DEF Moves, Becomes, SamePhase
<1>5. UNCHANGED <<profile, eligible, addressed, acked, reached, told, purged>>
  BY DEF ReportFailure
<1>6. UNCHANGED <<Phase, Given>>
  BY <1>4, <1>5, MappingStays
<1>7. CASE UNCHANGED inbox
  BY <1>4, <1>5, <1>7 DEF Quiet
<1>8. CASE DeliverToInbox(Origin[u], u.author, Notice(u, r))
  <2>1. Service!Tell(u, r)
    BY <1>1, <1>5, <1>6, <1>8 DEF Service!Tell, Service!Put, DeliverToInbox, Notice
  <2> QED
    BY <1>1, <2>1
<1> QED
  BY <1>7, <1>8 DEF ReportFailure

\* Whichever way a unit comes into an inbox, it may be there.
LEMMA DeliveryReaches ==
    ASSUME NEW u \in Unit, NEW n \in Node, NEW d \in Author, MayReceive(u, d, n), task[u].pc # "none",
           DeliverToInbox(n, d, u),
           UNCHANGED <<profile, eligible, addressed, acked, reached, told, purged>>,
           \A v \in Unit : SamePhase(v)
    PROVE  Service!Deliver(u, n, d)
<1>1. <<d, n>> \in Service!Readers(u) /\ Phase[u] # "new"
  BY MappingAt
<1>2. UNCHANGED <<Phase, Given>>
  BY MappingStays
<1> QED
  BY <1>1, <1>2 DEF Service!Deliver, Service!Put, DeliverToInbox

LEMMA DeliverLocalDelivers ==
    ASSUME IInv, NEW u \in Unit, DeliverLocal(u)
    PROVE  (\E n \in Node, d \in Author : Service!Deliver(u, n, d)) \/ Quiet
<1> DEFINE d == task[u].current[1]
<1>1. task[u].pc = "deliver" /\ task[u].current \in Author \X {Origin[u]}
      /\ MayReceive(u, d, task[u].current[2])
  BY DEF IInv, DeliverLocal, TaskInv, TargetInv
<1>2. d \in Author /\ Origin[u] \in Node /\ MayReceive(u, d, Origin[u])
  BY <1>1, UnitFacts
<1>3. Moves(u, "check", task[u].todo)
  BY GotoMoves DEF IInv, DeliverLocal, Pc
<1>4. \A v \in Unit : SamePhase(v)
  BY <1>1, <1>3 DEF Moves, Becomes, SamePhase
<1>5. UNCHANGED <<profile, eligible, addressed, acked, reached, told, purged>>
  BY DEF DeliverLocal
<1>6. CASE UNCHANGED inbox
  BY <1>4, <1>5, <1>6 DEF Quiet
<1>7. CASE DeliverToInbox(Origin[u], d, u)
  BY <1>1, <1>2, <1>4, <1>5, <1>7, DeliveryReaches
<1> QED
  BY <1>6, <1>7 DEF DeliverLocal

LEMMA AcceptDelivers ==
    ASSUME IInv, NEW c \in calls, Accept(c)
    PROVE  (\E u \in Unit, n \in Node, d \in Author : Service!Deliver(u, n, d)) \/ Quiet
<1>1. /\ c.unit \in Unit /\ c.to[1] \in Author /\ c.to[2] \in Node
      /\ MayReceive(c.unit, c.to[1], c.to[2]) /\ task[c.unit].pc # "none"
  BY DEF IInv, TypeOK, Call, Inbox, OnlyRecipients, TaskInv, StartInv
<1>2. \A v \in Unit : SamePhase(v)
  BY ReplyAnswers DEF IInv, Accept, Answers, SamePhase
<1>3. UNCHANGED <<profile, eligible, addressed, acked, reached, told, purged>>
  BY DEF Accept
<1>4. CASE UNCHANGED inbox
  BY <1>2, <1>3, <1>4 DEF Quiet
<1>5. CASE DeliverToInbox(c.to[2], c.to[1], c.unit)
  BY <1>1, <1>2, <1>3, <1>5, DeliveryReaches
<1> QED
  BY <1>4, <1>5 DEF Accept

\* A request that changes an agent's URL changes the inbox it gave, or none.
LEMMA GivenBecomes ==
    ASSUME TypeOK, NEW n \in Node, NEW d \in Author, NEW url,
           profile' = [profile EXCEPT ![n][d] = url]
    PROVE  Given' = [Given EXCEPT ![n][d] = PushedTo(n, url)]
<1>1. \A m \in Node, e \in Author : profile'[m][e] = IF m = n /\ e = d THEN url ELSE profile[m][e]
  BY DEF TypeOK
<1>2. Given' = [m \in Node |-> [e \in Author |-> PushedTo(m, IF m = n /\ e = d THEN url
                                                               ELSE profile[m][e])]]
  BY <1>1 DEF Given
<1>3. [Given EXCEPT ![n][d] = PushedTo(n, url)]
         = [m \in Node |-> [e \in Author |-> IF m = n /\ e = d THEN PushedTo(n, url)
                                              ELSE PushedTo(m, profile[m][e])]]
  BY DEF Given
<1> QED
  BY <1>2, <1>3

LEMMA RegisterGives ==
    ASSUME IInv, NEW q \in requests, Register(q)
    PROVE  (\E n \in Node, d \in Author : Service!Give(n, d)) \/ UNCHANGED Service!serviceVars
<1> DEFINE n == q.node
           d == q.did
           to == PushedTo(n, q.arg)
<1>1. q \in Request /\ n \in Node /\ d \in Author
  BY RequestFields DEF IInv, TypeOK
<1>2. Given' = [Given EXCEPT ![n][d] = to]
  BY <1>1, GivenBecomes DEF IInv, Register
<1>3. addressed' = [u \in Unit |-> IF Origin[u] = n /\ d \in eligible[u]
                                  THEN addressed[u] \union to ELSE addressed[u]]
  BY DEF Register
<1>4. UNCHANGED <<inbox, Phase, eligible, acked, reached, told, purged>>
  BY DEF Register, Phase
<1>5. Given'[n][d] = to /\ to \in Service!OneOrNone
  BY <1>1, <1>2, OneOrNoneGiven DEF Given
<1> HIDE DEF n, d, to
<1>6. CASE Given[n][d] # to
  <2>1. Service!Give(n, d)
    BY <1>2, <1>3, <1>4, <1>5, <1>6 DEF Service!Give
  <2> QED
    BY <1>1, <2>1
<1>7. CASE Given[n][d] = to
  <2>1. UNCHANGED Given
    BY <1>1, <1>2, <1>7 DEF Given
  <2>2. to = PushedTo(n, profile[n][d])
    BY <1>1, <1>7 DEF Given
  <2>3. ASSUME NEW u \in Unit, Origin[u] = n, d \in eligible[u] PROVE to \subseteq addressed[u]
    BY <2>2, <2>3 DEF IInv, TaskInv, StartInv
  <2>4. UNCHANGED addressed
    BY <1>3, <2>3 DEF IInv, TypeOK
  <2> QED
    BY <1>4, <2>1, <2>4 DEF Service!serviceVars
<1> QED
  BY <1>6, <1>7

LEMMA DeleteAgentLeaves ==
    ASSUME IInv, NEW q \in requests, DeleteAgent(q)
    PROVE  \E n \in Node, d \in Author : Service!Leave(n, d)
<1>1. q.node \in Node /\ q.did \in Author
  BY RequestFields DEF IInv, TypeOK
<1>2. UNCHANGED <<Phase, eligible, addressed, acked, reached, told>>
  BY DEF DeleteAgent, Phase
<1>3. PushedTo(q.node, Unregistered) = {}
  BY FanOutAssumption DEF PushedTo
<1>4. Given' = [Given EXCEPT ![q.node][q.did] = {}]
  BY <1>1, <1>3, GivenBecomes DEF IInv, DeleteAgent
<1>5. Service!Leave(q.node, q.did)
  BY <1>2, <1>4 DEF Service!Leave, DeleteAgent
<1> QED
  BY <1>1, <1>5

LEMMA FollowAdmits ==
    ASSUME IInv, NEW q \in requests, Follow(q)
    PROVE  \E n \in Node, d \in Author, author \in Author : Service!Admit(n, d, author)
<1>1. q.node \in Node /\ q.did \in Author /\ q.arg \in Author
  BY RequestFields DEF IInv, TypeOK, Follow
<1> DEFINE gains == {u \in Unit : Phase[u] # "new" /\ Origin[u] = q.node /\ u.author = q.arg}
<1>2. \A u \in Unit : Joins(q, u) <=> u \in gains
  BY MappingAt DEF Joins
<1>3. Given[q.node][q.did] = PushedTo(q.node, profile[q.node][q.did])
  BY <1>1 DEF Given
<1>4. eligible' = [u \in Unit |-> IF u \in gains THEN eligible[u] \union {q.did} ELSE eligible[u]]
  BY <1>2 DEF Follow
<1>5. addressed' = [u \in Unit |-> IF u \in gains THEN addressed[u] \union Given[q.node][q.did]
                                    ELSE addressed[u]]
  BY <1>2, <1>3 DEF Follow
<1>6. UNCHANGED <<inbox, Phase, Given, acked, reached, told, purged>>
  BY DEF Follow, Phase, Given
<1>7. Service!Admit(q.node, q.did, q.arg)
  BY <1>4, <1>5, <1>6 DEF Service!Admit
<1> QED
  BY <1>1, <1>7

\* Whatever the interleaving of tasks, pushes, retries, registrations, departures and
\* crashes, the inboxes behave as InboxService says: delivery as a whole, rather than one
\* promise of it at a time, and no more of it than the code keeps.
THEOREM RefinesInboxService == Spec => ImplementsInboxService
<1>1. Init => Service!ServiceInit
  <2>1. ASSUME Init PROVE Given \in [Node -> [Author -> Service!OneOrNone]]
    BY OneOrNoneGiven DEF Given
  <2>2. ASSUME Init PROVE Phase = [u \in Unit |-> "new"]
    BY <2>2 DEF Init, Idle, Phase
  <2> QED
    BY <2>1, <2>2 DEF Init, Service!ServiceInit
<1>2. ASSUME IInv, IInv', [Next]_vars
      PROVE  [Service!ServiceNext]_(Service!serviceVars)
  <2> USE DEF Service!ServiceNext, IInv
  <2>1. CASE UNCHANGED vars
    <3>1. Quiet
      BY <2>1 DEF vars, Quiet, SamePhase
    <3> QED
      BY <3>1, QuietStutters
  <2>2. CASE Quiet
    BY <2>2, QuietStutters
  <2>3. ASSUME NEW u \in Unit, Submit(u) PROVE Service!ServiceNext
    BY <1>2, <2>3, SubmitOpens
  <2>4. ASSUME NEW u \in Unit, Finish(u) \/ (ListRemote(u) /\ task'[u].pc = "done")
        PROVE  Service!ServiceNext
    BY <1>2, <2>4, FinishEnds
  <2>5. ASSUME NEW u \in Unit, Delivered(u) PROVE Service!ServiceNext
    BY <1>2, <2>5, DeliveredConfirms
  <2>6. ASSUME NEW u \in Unit, CheckAuthor(u) PROVE Service!ServiceNext
    BY <1>2, <2>6, CheckAuthorReports DEF Recipient
  <2>7. ASSUME NEW u \in Unit, ReportFailure(u) PROVE Service!ServiceNext \/ Quiet
    BY <1>2, <2>7, ReportFailureTells DEF Recipient
  <2>8. ASSUME NEW u \in Unit, DeliverLocal(u) PROVE Service!ServiceNext \/ Quiet
    BY <1>2, <2>8, DeliverLocalDelivers
  <2>9. ASSUME NEW c \in calls, Accept(c) PROVE Service!ServiceNext \/ Quiet
    BY <1>2, <2>9, AcceptDelivers
  <2>10. ASSUME NEW q \in requests, DeleteAgent(q) \/ Follow(q) PROVE Service!ServiceNext
    BY <1>2, <2>10, DeleteAgentLeaves, FollowAdmits
  <2>11. ASSUME NEW q \in requests, Register(q)
         PROVE  Service!ServiceNext \/ UNCHANGED Service!serviceVars
    BY <1>2, <2>11, RegisterGives
  <2> QED
    BY <1>2, <2>1, <2>2, <2>3, <2>4, <2>5, <2>6, <2>7, <2>8, <2>9, <2>10, <2>11, StepCases,
       TaskIsQuiet, RestIsQuiet
<1> QED
  BY <1>1, <1>2, Invariance, PTL DEF Spec, ImplementsInboxService, Service!ServiceSpec
=============================================================================
