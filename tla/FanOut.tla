------------------------------- MODULE FanOut --------------------------------
(***************************************************************************)
(* Delivery of non-public units into inboxes: the background task that     *)
(* POST /v1/units starts for each new unit (local_fanout, remote_fanout,   *)
(* push_to_inbox, notify_author_of_failure), the handler that receives a   *)
(* push from another node, and the requests by which agents register,      *)
(* leave, follow and unfollow while deliveries are on their way.           *)
(*                                                                         *)
(* An action is what happens between two await points.  Profiles, follows  *)
(* and inboxes survive a crash (the SQLite backend); tasks and handlers do *)
(* not.                                                                    *)
(***************************************************************************)
EXTENDS Units, FiniteSets

CONSTANTS Host,         \* host names in addresses; a node stands for its own
          Origin,       \* Origin[u]: the node u is submitted to
          Audience,     \* Audience[u]: DIDs without a host in u's audience
          Remote,       \* Remote[u]: the <<DID, host>> in it
          Profile0,     \* the registrations to start with, as variable profile
          Follows0,     \* the follows to start with, as variable follows
          MaxAttempts,  \* attempts of a push (3 in the code)
          Asked,        \* bound: the requests agents may make, see Request
          MaxChanges,   \* bound: how many of them they make
          MaxFaults,    \* bound: crashes, failed calls and storage errors
          Url,          \* the strings agents register as inbox_url, and Address
          Leads,        \* Leads[x]: the <<agent, node>> whose inbox URL x leads to,
                        \*   or Elsewhere, or BadUrl if x cannot be parsed
          Under,        \* Under[n]: the URLs that start with the api_base of n
          Address,      \* Address[<<d, h>>]: the inbox URL of d below the api_base
                        \*   that the discovery document of host h has
          Unregistered, \* the agent has no profile at the node
          Elsewhere,    \* a server, or a path of a node, that is no inbox
          BadUrl,       \* no URL
          Nobody        \* no DID

\* Inboxes, each by its agent and its node.
Inbox == Author \X Node

\* What agents ask a node for.
Request ==
    [node : Node, did : Author, what : {"register"}, arg : Url]
    \union [node : Node, did : Author, what : {"delete"}, arg : {Nobody}]
    \union [node : Node, did : Author, what : {"follow", "unfollow"}, arg : Author]

ASSUME FanOutAssumption ==
    /\ Node \subseteq Host
    /\ Origin \in [Unit -> Node]
    /\ Audience \in [Unit -> SUBSET Author]
    /\ Remote \in [Unit -> SUBSET (Author \X Host)]
    /\ Leads \in [Url -> Inbox \union {Elsewhere, BadUrl}]
    /\ Under \in [Node -> SUBSET Url]
    /\ Address \in [Author \X Host -> Url]
    /\ Profile0 \in [Node -> [Author -> Url \union {Unregistered}]]
    /\ Follows0 \in [Node -> SUBSET (Author \X Author)]
    /\ MaxAttempts \in Nat \ {0}
    /\ Asked \subseteq Request
    /\ MaxChanges \in Nat /\ MaxFaults \in Nat
    /\ Unregistered \notin Url
    /\ Elsewhere \notin Inbox /\ BadUrl \notin Inbox \union {Elsewhere}
    /\ Nobody \notin Author
    /\ \A u \in Unit : ~IsPublic(u)

VARIABLES
    \* The storage of each node.
    profile,   \* profile[n][d]: inbox_url of agent d at n, or Unregistered
    follows,   \* follows[n]: set of <<follower, followee>>
    inbox,     \* inbox[n][d]: units and notices in the inbox of d at n
    \* Requests of agents, authenticated and not yet carried out.
    requests,  \* set of [node, did, what, arg]
    \* Fan-out.
    task,      \* task[u]: the fan-out task of u, and its program counter
    calls,     \* pushes on their way or being handled by the receiving node
    \* History, for the properties only.
    eligible,  \* eligible[u]: who followed the author at some time since u was
               \*   submitted
    addressed, \* addressed[u]: the inboxes the inbox_url of one of them led to
               \*   since then, if the node pushes to that URL
    steady,    \* steady[u]: who was a registered local recipient of u ever since
    missed,    \* missed[u]: local recipients a storage error cut off
    acked,     \* acked[u]: followers or remote members whose push was answered 2xx
    reached,   \* reached[u]: the inboxes that were pushed to with that answer
    told,      \* told[u]: recipients, or hosts, the author was to hear about
    purged,    \* <<agent, node>> pairs that were deregistered
    changes,   \* requests made so far
    faults     \* faults so far

agentVars   == <<profile, follows>>
historyVars == <<eligible, addressed, steady, missed, acked, reached, told, purged>>
vars == <<agentVars, inbox, requests, task, calls, historyVars, changes, faults>>

\* A recipient is an agent at a node: a follower at the node he follows at, or a
\* member at the host his address names.  <<Nobody, h>> stands for the host h.
Recipient == (Author \union {Nobody}) \X Host

\* The unit with which a node tells the author that u did not reach r, by the inbox
\* URL it pushed to for r, or the name of the host.
Notice(u, r) == [about |-> u, missing |-> r]
Notices == {Notice(u, r) : u \in Unit, r \in Recipient}

Pc == {"none", "list", "check", "deliver", "remote", "profile", "discover", "members",
       "push", "await", "notify", "report", "done", "lost"}

\* current is whom the task works on, to is where the URL leads it pushes to.
Task == [pc : Pc, todo : SUBSET Recipient, current : Recipient \union {Nobody},
         to : Inbox \union {Elsewhere}, attempt : 0..MaxAttempts, bases : SUBSET Host,
         reply : {"none", "stored", "refused", "failed"}]

Call == [unit : Unit, who : Recipient, to : Inbox, attempt : 1..MaxAttempts,
         at : {"arrive", "deliver"}]

TypeOK ==
    /\ profile \in [Node -> [Author -> Url \union {Unregistered}]]
    /\ follows \in [Node -> SUBSET (Author \X Author)]
    /\ inbox \in [Node -> [Author -> SUBSET (Unit \union Notices)]]
    /\ requests \subseteq Request
    /\ task \in [Unit -> Task]
    /\ calls \subseteq Call
    /\ eligible \in [Unit -> SUBSET Author]
    /\ addressed \in [Unit -> SUBSET Inbox]
    /\ steady \in [Unit -> SUBSET Author]
    /\ missed \in [Unit -> SUBSET Author]
    /\ acked \in [Unit -> SUBSET (Author \X Host)]
    /\ reached \in [Unit -> SUBSET Inbox]
    /\ told \in [Unit -> SUBSET Recipient]
    /\ purged \subseteq Author \X Node
    /\ changes \in Nat
    /\ faults \in Nat

Idle == [pc |-> "none", todo |-> {}, current |-> Nobody, to |-> Elsewhere,
         attempt |-> 0, bases |-> {}, reply |-> "none"]

Init ==
    /\ profile = Profile0
    /\ follows = Follows0
    /\ inbox = [n \in Node |-> [d \in Author |-> {}]]
    /\ requests = {}
    /\ task = [u \in Unit |-> Idle]
    /\ calls = {}
    /\ eligible = [u \in Unit |-> {}]
    /\ addressed = [u \in Unit |-> {}]
    /\ steady = [u \in Unit |-> {}]
    /\ missed = [u \in Unit |-> {}]
    /\ acked = [u \in Unit |-> {}]
    /\ reached = [u \in Unit |-> {}]
    /\ told = [u \in Unit |-> {}]
    /\ purged = {}
    /\ changes = 0
    /\ faults = 0
-----------------------------------------------------------------------------
(***************************************************************************)
(* Storage.                                                                *)
(***************************************************************************)
Registered(n, d) == profile[n][d] # Unregistered

Followers(n, author) == {d \in Author : <<d, author>> \in follows[n]}

\* The URLs that n pushes to for a follower, and the inbox, if any, such a push is for.
Pushable(n) == {x \in Url \ Under[n] : Leads[x] # BadUrl}
PushedTo(n, url) ==
    IF url \in Url \ Under[n] /\ Leads[url] \in Inbox THEN {Leads[url]} ELSE {}

DeliverToInbox(n, d, item) == inbox' = [inbox EXCEPT ![n][d] = @ \union {item}]

\* One more fault, while the budget lasts.
Fault == faults < MaxFaults /\ faults' = faults + 1
-----------------------------------------------------------------------------
(***************************************************************************)
(* POST /v1/units and the local half of the task it starts.                *)
(***************************************************************************)

\* The task of u goes on at pc.
Goto(u, pc) == task' = [task EXCEPT ![u].pc = pc]

\* Whom u is for at its own node: whoever follows the author now, or its audience.
LocalRecipients(u) ==
    IF u.visibility = "network" THEN Followers(Origin[u], u.author) ELSE Audience[u]

\* A new non-public unit was stored and its task spawned.  Its author signed
\* the request, with the key in the profile the node has of him.  Bound: one unit
\* in a behaviour; tasks of different units share nothing that one of them writes.
Submit(u) ==
    LET n == Origin[u] IN
    /\ \A v \in Unit : task[v].pc = "none"
    /\ Registered(n, u.author)
    /\ Goto(u, "list")
    /\ eligible' = [eligible EXCEPT ![u] = Followers(n, u.author)]
    /\ addressed' = [addressed EXCEPT ![u] =
                       UNION {PushedTo(n, profile[n][d]) : d \in Followers(n, u.author)}]
    /\ steady' = [steady EXCEPT ![u] = {d \in LocalRecipients(u) : Registered(n, d)}]
    /\ UNCHANGED <<agentVars, inbox, requests, calls, missed, acked, reached, told, purged, changes,
                   faults>>

\* Faulty variant: the agents the author follows instead of its followers.
ListLocalSwapped(u) ==
    LET n == Origin[u] IN
    /\ task[u].pc = "list"
    /\ task' = [task EXCEPT ![u].pc = "check",
                            ![u].todo = {<<d, n>> : d \in {e \in Author : <<u.author, e>> \in follows[n]}}]
    /\ UNCHANGED <<agentVars, inbox, requests, calls, historyVars, changes, faults>>

\* local_fanout: whom the unit is for.  An error of list_followers ends it.
ListLocal(u) ==
    /\ task[u].pc = "list"
    /\ \/ /\ task' = [task EXCEPT ![u].pc = "check",
                                  ![u].todo = {<<d, Origin[u]>> : d \in LocalRecipients(u)}]
          /\ UNCHANGED <<missed, faults>>
       \/ /\ u.visibility = "network"
          /\ Fault
          /\ Goto(u, "remote")
          /\ missed' = [missed EXCEPT ![u] = LocalRecipients(u)]
    /\ UNCHANGED <<agentVars, inbox, requests, calls, eligible, addressed, steady, acked, reached, told,
                   purged, changes>>

\* Faulty variant: a recipient that is not registered ends the loop.
CheckLocalBreaking(u, r) ==
    /\ task[u].pc = "check"
    /\ r \in task[u].todo
    /\ task' = IF Registered(r[2], r[1])
               THEN [task EXCEPT ![u].pc = "deliver", ![u].todo = @ \ {r}, ![u].current = r]
               ELSE [task EXCEPT ![u].pc = "remote", ![u].todo = {}]
    /\ UNCHANGED <<agentVars, inbox, requests, calls, historyVars, changes, faults>>

\* get_agent for one of them: who is not registered is passed over.  An error
\* ends local_fanout for all that are left.
CheckLocal(u, r) ==
    /\ task[u].pc = "check"
    /\ r \in task[u].todo
    /\ \/ /\ Registered(r[2], r[1])
          /\ task' = [task EXCEPT ![u].pc = "deliver", ![u].todo = @ \ {r}, ![u].current = r]
          /\ UNCHANGED <<missed, faults>>
       \/ /\ ~Registered(r[2], r[1])
          /\ task' = [task EXCEPT ![u].todo = @ \ {r}]
          /\ UNCHANGED <<missed, faults>>
       \/ /\ Fault
          /\ task' = [task EXCEPT ![u].pc = "remote", ![u].todo = {}]
          /\ missed' = [missed EXCEPT ![u] = @ \union {s[1] : s \in task[u].todo}]
    /\ UNCHANGED <<agentVars, inbox, requests, calls, eligible, addressed, steady, acked, reached, told,
                   purged, changes>>

\* deliver_to_inbox for that agent, whatever happened to it since get_agent.
\* An error is logged and costs only this agent the unit.
DeliverLocal(u) ==
    LET d == task[u].current[1] IN
    /\ task[u].pc = "deliver"
    /\ Goto(u, "check")
    /\ \/ DeliverToInbox(Origin[u], d, u) /\ UNCHANGED <<missed, faults>>
       \/ /\ Fault
          /\ missed' = [missed EXCEPT ![u] = @ \union {d}]
          /\ UNCHANGED inbox
    /\ UNCHANGED <<agentVars, requests, calls, eligible, addressed, steady, acked, reached, told,
                   purged, changes>>

EndLocal(u) ==
    /\ task[u].pc = "check"
    /\ task[u].todo = {}
    /\ Goto(u, "remote")
    /\ UNCHANGED <<agentVars, inbox, requests, calls, historyVars, changes, faults>>
-----------------------------------------------------------------------------
(***************************************************************************)
(* remote_fanout.                                                          *)
(***************************************************************************)

\* Whom to look at: the followers of the author as of now, or the hosts named
\* in the audience.  An error of list_followers ends the task.
ListRemote(u) ==
    LET n == Origin[u] IN
    /\ task[u].pc = "remote"
    /\ \/ /\ u.visibility = "network"
          /\ task' = [task EXCEPT ![u].pc = "profile",
                                  ![u].todo = {<<d, n>> : d \in Followers(n, u.author)}]
          /\ UNCHANGED faults
       \/ /\ u.visibility = "network"
          /\ Fault
          /\ Goto(u, "done")
       \/ /\ u.visibility = "limited"
          /\ task' = [task EXCEPT ![u].pc = "discover",
                                  ![u].todo = {<<Nobody, r[2]>> : r \in Remote[u]}]
          /\ UNCHANGED faults
    /\ UNCHANGED <<agentVars, inbox, requests, calls, historyVars, changes>>

\* push_to_inbox is called for r, whose inbox URL is url and can be parsed.
StartPush(u, r, url) ==
    task' = [task EXCEPT ![u].pc = "push", ![u].todo = @ \ {r}, ![u].current = r,
                         ![u].to = Leads[url], ![u].attempt = 1]

\* get_agent for a follower: push to the URL it registered, wherever that leads, but
\* pass over who is not registered, whose URL starts with the api_base of this node,
\* or whose URL push_to_inbox cannot parse.  An error passes over the follower.
FindInbox(u, r) ==
    LET url == profile[r[2]][r[1]] IN
    /\ task[u].pc = "profile"
    /\ r \in task[u].todo
    /\ \/ /\ url \in Pushable(Origin[u])
          /\ StartPush(u, r, url)
          /\ UNCHANGED faults
       \/ /\ task' = [task EXCEPT ![u].todo = @ \ {r}]
          /\ \/ url \notin Pushable(Origin[u]) /\ UNCHANGED faults
             \/ Fault
    /\ UNCHANGED <<agentVars, inbox, requests, calls, historyVars, changes>>

\* Faulty variant: a host that cannot be discovered is passed over.
DiscoverSilently(u, r) ==
    /\ task[u].pc = "discover"
    /\ r \in task[u].todo
    /\ \/ /\ task' = [task EXCEPT ![u].todo = @ \ {r}, ![u].bases = @ \union {r[2]}]
          /\ UNCHANGED faults
       \/ /\ Fault
          /\ task' = [task EXCEPT ![u].todo = @ \ {r}]
    /\ UNCHANGED <<agentVars, inbox, requests, calls, historyVars, changes>>

\* The discovery document of one host, asked for once: it yields some string as the
\* host's api_base, or the author is to hear of the failure.
Discover(u, r) ==
    /\ task[u].pc = "discover"
    /\ r \in task[u].todo
    /\ \/ /\ task' = [task EXCEPT ![u].todo = @ \ {r}, ![u].bases = @ \union {r[2]}]
          /\ UNCHANGED faults
       \/ /\ Fault
          /\ task' = [task EXCEPT ![u].todo = @ \ {r}, ![u].current = r, ![u].pc = "notify"]
    /\ UNCHANGED <<agentVars, inbox, requests, calls, historyVars, changes>>

\* Every host was asked: on to the members at the hosts that were discovered.
EndDiscovery(u) ==
    /\ task[u].pc = "discover"
    /\ task[u].todo = {}
    /\ task' = [task EXCEPT ![u].pc = "members",
                            ![u].todo = {r \in Remote[u] : r[2] \in task[u].bases}]
    /\ UNCHANGED <<agentVars, inbox, requests, calls, historyVars, changes, faults>>

\* Push to the next member of the audience at a discovered host.  A URL that cannot
\* be parsed, for what the host published is none, ends push_to_inbox with a warning
\* in the log: nothing is sent, and the author is not told.
PickMember(u, r) ==
    /\ task[u].pc = "members"
    /\ r \in task[u].todo
    /\ IF Leads[Address[r]] # BadUrl
       THEN StartPush(u, r, Address[r])
       ELSE task' = [task EXCEPT ![u].todo = @ \ {r}]
    /\ UNCHANGED <<agentVars, inbox, requests, calls, historyVars, changes, faults>>

\* Where the task goes on after a recipient or a host.
Following(u) ==
    IF task[u].current[1] = Nobody THEN "discover"
    ELSE IF u.visibility = "network" THEN "profile" ELSE "members"

Finish(u) ==
    /\ task[u].pc \in {"profile", "members"}
    /\ task[u].todo = {}
    /\ Goto(u, "done")
    /\ UNCHANGED <<agentVars, inbox, requests, calls, historyVars, changes, faults>>
-----------------------------------------------------------------------------
(***************************************************************************)
(* push_to_inbox, and the node that is pushed to.                          *)
(***************************************************************************)
CallOf(u) == [unit |-> u, who |-> task[u].current, to |-> task[u].to,
              attempt |-> task[u].attempt, at |-> "arrive"]

\* One attempt: the request is sent.
Push(u) ==
    /\ task[u].pc = "push"
    /\ calls' = IF task[u].to = Elsewhere THEN calls ELSE calls \union {CallOf(u)}
    /\ task' = [task EXCEPT ![u].pc = "await", ![u].reply = "none"]
    /\ UNCHANGED <<agentVars, inbox, requests, historyVars, changes, faults>>

\* The sender of c reads the reply, if it still waits for it.
Reply(c, reply) ==
    task' = IF /\ task[c.unit].pc = "await" /\ task[c.unit].reply = "none"
               /\ task[c.unit].current = c.who /\ task[c.unit].to = c.to
               /\ task[c.unit].attempt = c.attempt
            THEN [task EXCEPT ![c.unit].reply = reply]
            ELSE task

\* inbox_deliver at the receiving node: 404 unless the agent is registered.
Arrive(c) ==
    /\ c \in calls /\ c.at = "arrive"
    /\ \/ /\ Registered(c.to[2], c.to[1])
          /\ calls' = (calls \ {c}) \union {[c EXCEPT !.at = "deliver"]}
          /\ UNCHANGED <<task, faults>>
       \/ /\ ~Registered(c.to[2], c.to[1])
          /\ calls' = calls \ {c}
          /\ Reply(c, "refused")
          /\ UNCHANGED faults
       \/ /\ Fault
          /\ calls' = calls \ {c}
          /\ Reply(c, "failed")
    /\ UNCHANGED <<agentVars, inbox, requests, historyVars, changes>>

\* NodeAuth: a push whose Date is five minutes off, for it was on its way too long
\* or the clocks of the nodes differ, is answered 401.  The signature itself
\* verifies, for the node that pushes made it.
Unauthorized(c) ==
    /\ c \in calls /\ c.at = "arrive"
    /\ Fault
    /\ calls' = calls \ {c}
    /\ Reply(c, "refused")
    /\ UNCHANGED <<agentVars, inbox, requests, historyVars, changes>>

\* Faulty variant: the error of deliver_to_inbox is ignored.
AcceptBlindly(c) ==
    /\ c \in calls /\ c.at = "deliver"
    /\ calls' = calls \ {c}
    /\ Reply(c, "stored")
    /\ \/ DeliverToInbox(c.to[2], c.to[1], c.unit) /\ UNCHANGED faults
       \/ Fault /\ UNCHANGED inbox
    /\ UNCHANGED <<agentVars, requests, historyVars, changes>>

\* deliver_to_inbox there, and 201, or an error and 500.
Accept(c) ==
    /\ c \in calls /\ c.at = "deliver"
    /\ calls' = calls \ {c}
    /\ \/ /\ DeliverToInbox(c.to[2], c.to[1], c.unit)
          /\ Reply(c, "stored")
          /\ UNCHANGED faults
       \/ /\ Fault
          /\ Reply(c, "failed")
          /\ UNCHANGED inbox
    /\ UNCHANGED <<agentVars, requests, historyVars, changes>>

\* A request is lost before it arrives.
Lose(c) ==
    /\ c \in calls /\ c.at = "arrive"
    /\ calls' = calls \ {c}
    /\ Fault
    /\ UNCHANGED <<agentVars, inbox, requests, task, historyVars, changes>>

\* Whatever a URL leads to that is no inbox answers something, a 2xx perhaps.
AnswerElsewhere(u) ==
    /\ task[u].pc = "await" /\ task[u].reply = "none" /\ task[u].to = Elsewhere
    /\ \E reply \in {"stored", "refused", "failed"} : task' = [task EXCEPT ![u].reply = reply]
    /\ UNCHANGED <<agentVars, inbox, requests, calls, historyVars, changes, faults>>

\* Faulty variant: calls have no timeout.
TimeoutNever(u) ==
    /\ task[u].pc = "await" /\ task[u].reply = "lost"
    /\ UNCHANGED vars

\* The sender gives up on an attempt: the request or the answer is lost, or
\* late.  A late request may still be carried out.
Timeout(u) ==
    /\ task[u].pc = "await"
    /\ task[u].reply = "none"
    /\ task' = [task EXCEPT ![u].reply = "failed"]
    /\ \/ Fault
       \/ /\ \A c \in calls :
                c.unit = u => c.who # task[u].current \/ c.attempt # task[u].attempt
          /\ UNCHANGED faults
    /\ UNCHANGED <<agentVars, inbox, requests, calls, historyVars, changes>>

\* Faulty variants: the task runs on into the notice of failure, and tries again
\* without end.
DeliveredFallingThrough(u) ==
    /\ task[u].pc = "await" /\ task[u].reply = "stored"
    /\ Goto(u, "notify")
    /\ acked' = [acked EXCEPT ![u] = @ \union {task[u].current}]
    /\ reached' = [reached EXCEPT ![u] = @ \union ({task[u].to} \ {Elsewhere})]
    /\ UNCHANGED <<agentVars, inbox, requests, calls, eligible, addressed, steady, missed, told,
                   purged, changes, faults>>

RetryForever(u) ==
    /\ task[u].pc = "await" /\ task[u].reply = "failed"
    /\ task' = [task EXCEPT ![u].pc = "push", ![u].attempt = @ + 1]
    /\ UNCHANGED <<agentVars, inbox, requests, calls, historyVars, changes, faults>>

\* After a reply: the next recipient on 2xx; a refusal (4xx) is final; other
\* failures are tried again after a pause, MaxAttempts times in all.
Delivered(u) ==
    /\ task[u].pc = "await" /\ task[u].reply = "stored"
    /\ Goto(u, Following(u))
    /\ acked' = [acked EXCEPT ![u] = @ \union {task[u].current}]
    /\ reached' = [reached EXCEPT ![u] = @ \union ({task[u].to} \ {Elsewhere})]
    /\ UNCHANGED <<agentVars, inbox, requests, calls, eligible, addressed, steady, missed, told,
                   purged, changes, faults>>

Retry(u) ==
    /\ task[u].pc = "await" /\ task[u].reply = "failed"
    /\ task[u].attempt < MaxAttempts
    /\ task' = [task EXCEPT ![u].pc = "push", ![u].attempt = @ + 1]
    /\ UNCHANGED <<agentVars, inbox, requests, calls, historyVars, changes, faults>>

GiveUp(u) ==
    /\ task[u].pc = "await"
    /\ \/ task[u].reply = "refused"
       \/ task[u].reply = "failed" /\ task[u].attempt = MaxAttempts
    /\ Goto(u, "notify")
    /\ UNCHANGED <<agentVars, inbox, requests, calls, historyVars, changes, faults>>

\* notify_author_of_failure: nothing to do unless the author is registered.
CheckAuthor(u) ==
    /\ task[u].pc = "notify"
    /\ told' = [told EXCEPT ![u] = @ \union {task[u].current}]
    /\ \/ Registered(Origin[u], u.author) /\ Goto(u, "report") /\ UNCHANGED faults
       \/ ~Registered(Origin[u], u.author) /\ Goto(u, Following(u)) /\ UNCHANGED faults
       \/ Fault /\ Goto(u, Following(u))
    /\ UNCHANGED <<agentVars, inbox, requests, calls, eligible, addressed, steady, missed, acked,
                   reached, purged, changes>>

ReportFailure(u) ==
    /\ task[u].pc = "report"
    /\ Goto(u, Following(u))
    /\ \/ DeliverToInbox(Origin[u], u.author, Notice(u, task[u].current)) /\ UNCHANGED faults
       \/ Fault /\ UNCHANGED inbox
    /\ UNCHANGED <<agentVars, requests, calls, historyVars, changes>>
-----------------------------------------------------------------------------
(***************************************************************************)
(* Requests of agents.  Each is signed by a registered agent (RequireAuth  *)
(* and the handler find the profile) and carried out in a later step.      *)
(***************************************************************************)
Ask(q) ==
    /\ q \in Asked
    /\ changes < MaxChanges /\ changes' = changes + 1
    /\ Registered(q.node, q.did)
    /\ requests' = requests \union {q}
    /\ UNCHANGED <<agentVars, inbox, task, calls, historyVars, faults>>

\* put_agent: an upsert.  The inbox_url is stored as it is, wherever it leads.
Register(q) ==
    /\ q \in requests /\ q.what = "register"
    /\ requests' = requests \ {q}
    /\ profile' = [profile EXCEPT ![q.node][q.did] = q.arg]
    /\ addressed' = [u \in Unit |->
                       IF Origin[u] = q.node /\ q.did \in eligible[u]
                       THEN addressed[u] \union PushedTo(q.node, q.arg) ELSE addressed[u]]
    /\ UNCHANGED <<follows, inbox, task, calls, eligible, steady, missed, acked, reached, told,
                   purged, changes, faults>>

\* delete_agent: the profile goes, then the inbox, unless an error comes between
\* them; the follows stay.
DeleteAgent(q) ==
    /\ q \in requests /\ q.what = "delete"
    /\ requests' = requests \ {q}
    /\ profile' = [profile EXCEPT ![q.node][q.did] = Unregistered]
    /\ \/ inbox' = [inbox EXCEPT ![q.node][q.did] = {}] /\ UNCHANGED faults
       \/ Fault /\ UNCHANGED inbox
    /\ purged' = purged \union {<<q.did, q.node>>}
    /\ steady' = [u \in Unit |-> IF Origin[u] = q.node THEN steady[u] \ {q.did} ELSE steady[u]]
    /\ UNCHANGED <<follows, task, calls, eligible, addressed, missed, acked, reached, told, changes>>

\* By following, the agent becomes one of those u is for, were it submitted already.
Joins(q, u) == Origin[u] = q.node /\ u.author = q.arg /\ task[u].pc # "none"

\* add_follow.  (The contribution it counts is not part of this module.)
Follow(q) ==
    /\ q \in requests /\ q.what = "follow"
    /\ requests' = requests \ {q}
    /\ follows' = [follows EXCEPT ![q.node] = @ \union {<<q.did, q.arg>>}]
    /\ eligible' = [u \in Unit |->
                      IF Joins(q, u) THEN eligible[u] \union {q.did} ELSE eligible[u]]
    /\ addressed' = [u \in Unit |->
                       IF Joins(q, u)
                       THEN addressed[u] \union PushedTo(q.node, profile[q.node][q.did])
                       ELSE addressed[u]]
    /\ UNCHANGED <<profile, inbox, task, calls, steady, missed, acked, reached, told, purged, changes,
                   faults>>

\* remove_follow.
Unfollow(q) ==
    /\ q \in requests /\ q.what = "unfollow"
    /\ requests' = requests \ {q}
    /\ follows' = [follows EXCEPT ![q.node] = @ \ {<<q.did, q.arg>>}]
    /\ steady' = [u \in Unit |->
                    IF Origin[u] = q.node /\ u.author = q.arg /\ u.visibility = "network"
                    THEN steady[u] \ {q.did} ELSE steady[u]]
    /\ UNCHANGED <<profile, inbox, task, calls, eligible, addressed, missed, acked, reached, told,
                   purged, changes, faults>>

\* The process of n dies and is started again: its tasks and the requests it
\* was handling are gone, and nothing takes the tasks up again.
Crash(n) ==
    /\ Fault
    /\ requests' = {q \in requests : q.node # n}
    /\ calls' = {c \in calls : c.to[2] # n}
    /\ task' = [u \in Unit |->
                  IF Origin[u] = n /\ task[u].pc \notin {"none", "done"}
                  THEN [Idle EXCEPT !.pc = "lost"] ELSE task[u]]
    /\ UNCHANGED <<agentVars, inbox, historyVars, changes>>
-----------------------------------------------------------------------------
\* The task of u goes on.
TaskStep(u) ==
    \/ ListLocal(u)
    \/ \E r \in task[u].todo : CheckLocal(u, r)
    \/ DeliverLocal(u)
    \/ EndLocal(u)
    \/ ListRemote(u)
    \/ \E r \in task[u].todo : FindInbox(u, r)
    \/ \E r \in task[u].todo : Discover(u, r)
    \/ EndDiscovery(u)
    \/ \E r \in task[u].todo : PickMember(u, r)
    \/ Finish(u)
    \/ Push(u)
    \/ AnswerElsewhere(u)
    \/ Timeout(u)
    \/ Delivered(u)
    \/ Retry(u)
    \/ GiveUp(u)
    \/ CheckAuthor(u)
    \/ ReportFailure(u)

\* A node goes on with a push it received.
CallStep(c) == Unauthorized(c) \/ Arrive(c) \/ Accept(c)

AgentStep ==
    \/ \E q \in Asked : Ask(q)
    \/ \E q \in requests : Register(q) \/ DeleteAgent(q) \/ Follow(q) \/ Unfollow(q)

Next ==
    \/ \E u \in Unit : Submit(u) \/ TaskStep(u)
    \/ \E c \in calls : CallStep(c) \/ Lose(c)
    \/ AgentStep
    \/ \E n \in Node : Crash(n)

Spec == Init /\ [][Next]_vars

\* A spawned task keeps being polled, and every HTTP call it makes has a timeout;
\* a server goes on with the requests that reached it.
Fairness ==
    /\ \A u \in Unit : WF_vars(TaskStep(u))
    /\ \A n \in Node : WF_vars(\E c \in calls : c.to[2] = n /\ CallStep(c))

FairSpec == Spec /\ Fairness
-----------------------------------------------------------------------------
(***************************************************************************)
(* Properties.                                                             *)
(***************************************************************************)

\* The inboxes the addresses of u's remote members lead to, and the members whose host
\* published no URL.
MemberInboxes(u) == {Leads[Address[r]] : r \in Remote[u]} \intersect Inbox
Unaddressed(u) == {r \in Remote[u] : Leads[Address[r]] = BadUrl}

\* The inboxes u may reach.  For a network unit those of the followers the author had at
\* some time since the submission, at its own node, and those they gave as theirs; for a
\* limited one those of its audience, at its own node or where their addresses lead.
MayReceive(u, d, n) ==
    IF u.visibility = "network"
    THEN (n = Origin[u] /\ d \in eligible[u]) \/ <<d, n>> \in addressed[u]
    ELSE (n = Origin[u] /\ d \in Audience[u]) \/ <<d, n>> \in MemberInboxes(u)

\* However registrations, follows, retries and late pushes interleave with the two lists
\* a task reads, a non-public unit reaches only the inboxes of those it is for and those
\* they registered as theirs, and is not even on its way to another one.  (That the inbox
\* at a registered URL is the follower's own, nobody checks.)
OnlyRecipients ==
    /\ \A n \in Node, d \in Author : \A u \in inbox[n][d] \intersect Unit : MayReceive(u, d, n)
    /\ \A c \in calls : MayReceive(c.unit, c.to[1], c.to[2])

\* The local half of the task of u is over, and the task was not lost.
PastLocal(u) == task[u].pc \notin {"none", "list", "check", "deliver", "lost"}

\* A recipient that was registered, and following, from the submission on has
\* the unit in its inbox after local_fanout, unless a storage error cut it off.
NobodyForgotten ==
    \A u \in Unit : PastLocal(u) =>
        \A d \in steady[u] \ missed[u] : u \in inbox[Origin[u]][d]

\* An inbox that answered a push with 201 has the unit, after whatever retries and
\* crashes, until its agent leaves that node.
AckedIsDelivered ==
    \A u \in Unit : \A r \in reached[u] \ purged : u \in inbox[r[2]][r[1]]

\* When the task of a limited unit has ended, every remote member of its audience was
\* either answered for with 2xx or reported, alone or with its host; but for those whose
\* host published no URL, of whom the author hears nothing.
RemoteIsSettled ==
    \A u \in Unit : task[u].pc = "done" /\ u.visibility = "limited" =>
        \A r \in Remote[u] \ Unaddressed(u) :
            r \in acked[u] \union told[u] \/ <<Nobody, r[2]>> \in told[u]

\* A notice of failure is about a recipient that was not acknowledged, and only
\* the author gets it, at the node the unit was submitted to.
NoticeIsTrue ==
    \A n \in Node, d \in Author : \A x \in inbox[n][d] \ Unit :
        /\ n = Origin[x.about] /\ d = x.about.author
        /\ x.missing \in told[x.about] \ acked[x.about]

\* Every fan-out ends, unless the process dies.
FanOutEnds == \A u \in Unit : task[u].pc # "none" ~> task[u].pc \in {"done", "lost"}

\* The inboxes and what the senders know of them, as InboxService has them: of a task
\* that was lost in a crash the sending never ends.
Phase == [u \in Unit |-> IF task[u].pc = "none" THEN "new"
                         ELSE IF task[u].pc = "done" THEN "over" ELSE "open"]
Given == [n \in Node |-> [d \in Author |-> PushedTo(n, profile[n][d])]]

Service == INSTANCE InboxService WITH
    MemberInbox <- [u \in Unit |-> MemberInboxes(u)],
    NoAddress <- [u \in Unit |-> Unaddressed(u)],
    mail <- inbox, phase <- Phase, given <- Given, followers <- eligible,
    addresses <- addressed, confirmed <- acked, reported <- told, left <- purged

\* Tasks, lists, pushes and retries add up to what is promised of inboxes: step by
\* step, a unit gets only to its readers' inboxes and leaves an inbox only with its agent,
\* a confirmation is true and rules a report of failure out, a report reaches the author
\* alone, and a task does not end before every remote member with an address is settled.
ImplementsInboxService == Service!ServiceSpec
-----------------------------------------------------------------------------
(***************************************************************************)
(* The inductive invariant of the proofs.                                  *)
(***************************************************************************)
Pushing == {"push", "await", "notify", "report"}

\* Where the task of u is: at the followers of its author, at the hosts named in
\* its audience, or at the members there.
AtFollowers(u) == u.visibility = "network" /\ task[u].pc \in Pushing \union {"profile"}
AtHosts(u) ==
    /\ u.visibility = "limited"
    /\ \/ task[u].pc = "discover"
       \/ task[u].pc \in {"notify", "report"} /\ task[u].current[1] = Nobody
AtMembers(u) ==
    /\ u.visibility = "limited"
    /\ \/ task[u].pc = "members"
       \/ task[u].pc \in Pushing /\ task[u].current[1] # Nobody

\* Nothing of u is anywhere before it is submitted; from then on its author has no
\* follower that may not receive it, and no such follower an inbox_url that may not.
StartInv(u) ==
    /\ task[u].pc = "none" =>
          /\ \A n \in Node, d \in Author : u \notin inbox[n][d]
          /\ \A c \in calls : c.unit # u
          /\ eligible[u] = {}
    /\ task[u].pc # "none" /\ u.visibility = "network" => LocalRecipients(u) \subseteq eligible[u]
    /\ \A d \in eligible[u] : PushedTo(Origin[u], profile[Origin[u]][d]) \subseteq addressed[u]

\* Whom the task works on, and where it pushes, may receive u.
TargetInv(u) ==
    LET t == task[u] IN
    /\ t.pc \in {"check", "deliver"} => t.todo \subseteq Author \X {Origin[u]}
    /\ t.pc \in {"check", "deliver"} => \A r \in t.todo : MayReceive(u, r[1], r[2])
    /\ t.pc = "deliver" => t.current \in Author \X {Origin[u]} /\ MayReceive(u, t.current[1], t.current[2])
    /\ AtFollowers(u) => t.todo \subseteq eligible[u] \X {Origin[u]}
    /\ AtHosts(u) => t.todo \subseteq {<<Nobody, r[2]>> : r \in Remote[u]}
    /\ AtMembers(u) => t.todo \subseteq Remote[u]
    /\ t.pc = "profile" => u.visibility = "network"
    /\ t.pc \in {"discover", "members"} => u.visibility = "limited"
    /\ t.pc \in {"push", "await"} =>
          /\ t.attempt \in 1 .. MaxAttempts /\ t.current[1] # Nobody
          /\ t.to # Elsewhere => MayReceive(u, t.to[1], t.to[2])
    /\ t.pc \in Pushing =>
          IF t.current[1] = Nobody
          THEN u.visibility = "limited" /\ t.current \in {<<Nobody, r[2]>> : r \in Remote[u]}
          ELSE t.current \in IF u.visibility = "network" THEN eligible[u] \X {Origin[u]}
                             ELSE Remote[u]

\* Who was registered, and following, all the time is still on the list or has u.
SteadyInv(u) ==
    LET t == task[u] IN
    /\ steady[u] \subseteq LocalRecipients(u)
    /\ \A d \in steady[u] : Registered(Origin[u], d)
    /\ t.pc \in {"check", "deliver"} =>
          \A d \in steady[u] \ missed[u] :
              \/ u \in inbox[Origin[u]][d]
              \/ <<d, Origin[u]>> \in t.todo
              \/ t.pc = "deliver" /\ t.current = <<d, Origin[u]>>

\* What an inbox answered is so.
ReplyInv(u) ==
    LET r == task[u].to IN
    task[u].pc = "await" /\ task[u].reply = "stored" /\ r # Elsewhere =>
        r \in purged \/ u \in inbox[r[2]][r[1]]

\* Whom the task has not settled yet is on its list or in its hands.
Settled(u, r) == r \in acked[u] \union told[u] \/ <<Nobody, r[2]>> \in told[u]
SettleInv(u) ==
    LET t == task[u] IN
    /\ AtHosts(u) =>
          \A r \in Remote[u] :
              \/ r[2] \in t.bases
              \/ <<Nobody, r[2]>> \in t.todo \union told[u]
              \/ t.pc = "notify" /\ t.current = <<Nobody, r[2]>>
    /\ AtMembers(u) =>
          \A r \in Remote[u] \ Unaddressed(u) :
              \/ Settled(u, r) \/ r \in t.todo
              \/ t.pc \in {"push", "await", "notify"} /\ t.current = r

\* Nobody is both acknowledged and given up: whom the task has done with, it does
\* not take up again.
OnceInv(u) ==
    LET t == task[u]
        over == acked[u] \union told[u] IN
    /\ t.pc \in {"none", "list", "check", "deliver", "remote"} => over = {}
    /\ acked[u] \intersect told[u] = {}
    /\ t.pc = "report" => t.current \in told[u]
    /\ AtHosts(u) => acked[u] = {} /\ told[u] \subseteq {Nobody} \X Host
    /\ AtFollowers(u) \/ AtMembers(u) =>
          /\ over \intersect t.todo = {}
          /\ t.pc \in {"push", "await", "notify"} => t.current \notin over
          /\ t.pc \in Pushing => t.current \notin t.todo

TaskInv(u) ==
    StartInv(u) /\ TargetInv(u) /\ SteadyInv(u) /\ ReplyInv(u) /\ SettleInv(u) /\ OnceInv(u)

IInv ==
    /\ TypeOK /\ \A u \in Unit : TaskInv(u)
    /\ OnlyRecipients /\ NobodyForgotten /\ AckedIsDelivered /\ RemoteIsSettled /\ NoticeIsTrue
=============================================================================
