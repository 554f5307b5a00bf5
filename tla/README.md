# Verification of a SemanticWeft node

TLA+ models of the SemanticWeft node (`packages/node`) and of the graph library it uses
(`packages/core`), TLC configurations that check them on small instances, and TLAPS proofs. The
source is the reference; `PROJECT.json` gives for every definition the lines it translates. Paths
below are relative to `packages/` unless they start with `docs/`.

## 1. The system

A node is a Tokio process: an Axum server, two background tasks and a storage backend (in memory, or
SQLite behind one mutex). It keeps *semantic units* (immutable records with a client-made id, an
author, a visibility and references to other units), agents with follows and inboxes, and peers with
reputations. A handler or task is a sequence of storage and HTTP calls with an await point at each,
between which everything else may run. That is the grain of the models: **an action is what happens
between two await points.** A storage call runs under one lock, so that it is atomic as long as it
succeeds; what it leaves behind when it does not is the subject of `SqliteStorage`, whose actions are
single SQL statements.

| Component | State | Operations | Interacts with |
|---|---|---|---|
| Storage (`node/src/storage`) | units by id, credibility per unit, references; agents, inboxes, follows; peers, cursors, configuration | the calls of the trait `Storage`, in two backends: `put_unit` (Conflict on a taken id), `delete_agent`, `increment_agent_contribution`, `add_peer`, `list_units`, `get_inbox`, ... | all handlers and tasks |
| Reading (`list`, `get_by_id`, `inbox`) | locals of a request; the client's cursor | filter by the caller's rights, page, answer | storage, authentication |
| Submission (`handlers/units.rs: submit`) | a handler in flight | author check, store, compare on conflict, score, broadcast, spawn the fan-out | store, event channel, fan-out |
| Federation pull (`federation.rs`) | a cursor per peer; the current page | round over the peers, page by page `GET /v1/sync`, store, score, move the cursor | the peer's store over HTTP, own store |
| Event stream (`sync` with `text/event-stream`) | a broadcast channel of 256 units, a stream per client | subscribe, replay a page, go live, lag | store, submission |
| Fan-out and inboxes (`local_fanout`, `remote_fanout`, `push_to_inbox`, `inbox_deliver`) | inboxes, a detached task per unit | list followers, deliver, discover hosts, push with retries, notify the author | agents, follows, other nodes |
| Agents and follows (`handlers/agents.rs`, `follows.rs`) | profiles with status, contributions and reputation; follows | register, apply with a sponsor, delete, follow (a contribution), unfollow, vote | fan-out, store |
| Subgraph queries (`subgraph`, `core/src/graph.rs`) | locals of a request | search by hops in both directions, pick ancestors and descendants | store |
| Peer table (`handlers/peers.rs`, `peer_discovery.rs`) | reputation per peer | vote, announce and verify, startup sweep with eviction | other nodes, federation |
| Validation, signatures (`core`) | none | checks of one unit | submission |
| HTTP signatures (`middleware/auth.rs`) | none | check date and signature against the key in the profile, or in the `did:key` of a node; refuse, or go on as an anonymous caller | all handlers, storage |
| Rate limiter (`middleware/rate_limit.rs`) | count and start of a window per client address | admit or refuse a request | all handlers |
| Identity, configuration, startup (`identity.rs`, `config.rs`, `main.rs`) | a key pair, settings | load or generate, start the tasks | all |
| Command line, agent library, WASM, conformance tests | none that lasts | build requests, print answers, test a node | a node over HTTP |

What is hard: two writers race to store an id (a client's POST and the federation task); a page is
stored unit by unit while the peer's stream grows and the process may die; a unit is stored and
broadcast in two steps while clients subscribe and list in two others; a fan-out reads two lists and
many profiles while agents come and go, and pushes with retries over a network that loses answers; a
reader walks through pages while the key, the follows and the units they depend on change between
two calls and between two pages; SQLite commits the statements of a call one by one;
reputations are read in one call and written in another; a request can be dropped by its client
halfway. What makes the components correct is the list of properties in section 4.

## 2. The modules

| Module | Models | State ↔ code | Actions ↔ code |
|---|---|---|---|
| `Units` | the record types shared by all | `SemanticUnit`, `Visibility` | – |
| `UnitGraph` | what federation promises, abstractly: units only spread, by publication or adoption of public units, and an id names one unit per node for ever | `held`, `published` | `Publish`, `Adopt` |
| `Storage` | what the trait `Storage` promises: each call one step, and what a call that fails may leave behind | the tables as maps and sets under the names of `Inner`; `lost` are references that nobody will find | the calls by name; `FailPutUnit`, `FailDeleteAgent`, `FailIncrement`, `FailWithoutTrace`; `ListUnits`, `GetReferencingUnits`, `GetInbox` are what the closures of the memory backend compute |
| `SqliteStorage` | the SQLite backend and the start of the process | the tables; `call` is the call that holds the mutex between two statements; `identity` the key pair of the running node | each call by name, those of several statements in parts: `PutUnit`, `PutEdge`; `DeleteAgent`, `DeleteInbox`; `Increment`, `Graduate`; `Open`, `LoadIdentity`, `GenerateIdentity`, `UseGenerated`; `StatementFails`, `Crash`; `Where` is the WHERE clause of `list_units` |
| `Reading` | readers of a node, from the rate limiter through authentication to the page | `bucket` is the rate limiter's map; `reader` the locals of a request, and the cursor and answers of the client; `store`, `follows`, `key`, `inbox` the tables | `Check` with `Address`; `Verify` for `OptionalAuth` and `RequireAuth`; `ListFollowing`, `ListUnits` for `list`; `FindAgent`, `GetInbox` for `inbox`; `GetUnit`, `IsFollowing` for `get_by_id`; `Start`, `Send` are the client's; `Arrive`, `Deliver`, `Change` what others do; `Tick` |
| `Replication` | store, `submit` up to its answer, `GET /v1/sync` as JSON, the federation task of every node | `store`, `credibility`, `cursor` are the tables; `handlers` the POSTs in flight; `phase`, `todo`, `peer`, `page`, `next`, `more` the locals of `run`/`sync_peer`/`sync_peer_once` | `Submit`, `AnswerConflict`, `AnswerCreated`, `DropHandler`; `WakeUp`, `StartPeer`, `ServeSync`, `StorePulled`, `ScorePulled`, `NextPage`, `FinishPeer`, `EndRound`, `SyncError`; `Crash` |
| `ReplicationProofs` | – | – | proofs about `Replication` |
| `InboxService` | what delivery promises, abstractly: into which inboxes a unit may get, that confirmations are true, that no failure at an address goes unreported | `mail`; `given`, the inbox each agent gave as his; `followers` and `addresses`, whom a unit is for and where they had it sent; `confirmed`, `reached`, `reported`, `left`, `phase` | `Open`, `Admit`, `Give`, `Deliver`, `Confirm`, `Report`, `Tell`, `End`, `Leave` |
| `FanOut` | the detached task of a non-public unit, the receiving handler, agents' requests | `profile` (with the `inbox_url`), `follows`, `inbox` are the tables; `task` the locals of the task with a program counter; `calls` pushes on their way. URLs are a set of names; `Leads` says to whose inbox at which node each leads, or `Elsewhere`, or that it is no URL; `Address` is `AgentAddress::inbox_url` with what the host published | `ListLocal` … `EndLocal` for `local_fanout`; `ListRemote` … `Finish` for `remote_fanout`, with `FindInbox` and `PickMember` calling `push_to_inbox`; `Push`, `Timeout`, `Delivered`, `Retry`, `GiveUp` for its attempts; `AnswerElsewhere` for servers that are no inbox; `CheckAuthor`, `ReportFailure`; `Unauthorized` for `NodeAuth`, `Arrive`, `Accept` for `inbox_deliver`; `Register`, `DeleteAgent`, `Follow`, `Unfollow`; `Crash` |
| `SyncStream` | the event stream | `channel` is the broadcast channel since the start, `position` a subscriber's place in it, `batch` what is left of the replayed page | `Submit`, `Broadcast`, `DropHandler`, `Pull`; `Connect`, `List`, `Replay`, `GoLive`, `Live`, `Disconnect`; `Crash` |
| `Subgraph` | one subgraph request against a growing store | the locals of the handler under their names (`frontier`, `ahead` = `next_frontier`, `graph`) | `LoadRoot`, `Expand`, `LoadReferenced`, `LoadReferencing`, `EndHop`, `Respond`; `Hops` is `Graph::bfs`, `Up`, `Down`, `SubgraphOf` are `Graph::ancestors`, `descendants`, `subgraph` |
| `PeerTable` | the peer table and the tasks that write it | `score`; `vote`, `check`, `discovery` are the locals of `update_reputation`, `verify_peer_reachability`/`nudge_peer_reputation`, `try_add_peer` | `VoteList`, `VoteStats`, `VoteWrite`; `Announce`, `NudgeRead`, `NudgeNothing`, `NudgeWrite`; `Candidate`, `DiscoveryList`, `DiscoveryRemove`, `DiscoveryAdd`; `Crash` |
| `Voting` | the arithmetic that votes on peers and on agents share: the gate (mean plus a multiple of the deviation) and the weighted average | – | – |
| `Admission` | the standing of a node's members | `profile` is the table of agents; `handler` the requests in flight, each with the locals it carries from one storage call to the next | `Authenticate` for `RequireAuth`; `RegisterAuth`, `Register`; `ApplyAuth`, `ApplyFind`, `ApplySponsor`, `ApplyPut` for `apply`; `DeleteFind`, `DeleteAgent`; `FollowFind`, `Contribute` for the contribution that a follow is; `VoteCaller`, `VoteGate`, `VoteTarget`, `VoteWrite` for `update_reputation`; `GiveUp` (a failing call or a dropped handler), `Crash` |
| `AdmissionProofs` | – | – | proofs about `Admission` |
| `SqliteStorageProofs` | – | – | proofs about `SqliteStorage` and that it implements `Storage` |
| `FanOutProofs` | – | – | proofs about `FanOut` and that it implements `InboxService` |
| `SyncStreamProofs` | – | – | proofs about `SyncStream` |
| `PeerTableProofs` | – | – | proofs about `Voting` and `PeerTable` |
| `ReadingProofs` | – | – | proofs about `Reading` |
| `SubgraphProofs` | – | – | proofs about the traversals of `Subgraph` and about the request |

The modules whose names begin with `MC` give the constants their values for TLC. Operators whose comment begins with "Faulty variant" are no part of any
specification: each is a plausible mistake in the definition after it, kept to show that the
properties notice (`PROJECT.json`, `mutants`).

Abstractions common to all modules:

- Ids are positive integers in the order of the strings. Clients make them (UUIDv7), so any order of
  arrival is possible, and two units may share an id.
- Of a unit the models keep id, author, visibility, and a `body` for the rest: what tells two
  units with one id apart, or (in `Subgraph`) the ids referenced. Units are valid ones.
- `FanOut`, `Admission`, `PeerTable`, `Replication` and `Reading` take a storage call for one step, as
  `Storage` does. Where a call that fails leaves something behind, they have that case themselves
  (`DeleteAgent` of `FanOut`, `IncrementCut` of `Admission`).
- A reputation is a number only in `PeerTable`, `Admission` and `Storage`, where 1.0 is `Top` and divisions round
  down; the code computes with doubles, so the models are coarser, not finer. In `Replication` a score is represented by
  whose reputation it was computed from, which is what may go wrong.
- Peers run this code. A page or an inbox push is what such a node sends. Servers that an `inbox_url`
  or a published `api_base` leads to are no nodes: they answer anything (`FanOut`, `AnswerElsewhere`).
- An inbox of `FanOut` is found under one URL. That a push may be redirected is left out, and so is how
  a notice words the recipient (by the URL; `Notice` has the recipient).
- `Admission` starts with agents the operator entered (`Founders`), on probation or not, since the
  handlers let in only who is in the table with a public key. Profiles without one are left out: they
  can make no request.
- Storage survives a crash (SQLite), unless said otherwise; tasks, handlers, the broadcast channel
  and connections do not.
- `faults` counts crashes, lost calls, storage errors and dropped handlers; each module says
  which action is which, and `MaxFaults` bounds them.
- Variables marked "history" record what properties speak of; no guard depends on them, except on
  the budgets `faults` and `changes`.

## 3. Findings

Each is a `violation` run: the code does something else than a comment beside it says.

| Run | What the code does | What the comment says |
|---|---|---|
| `sync_is_up_to_date` | a unit that reaches a peer with an id below our cursor for it is in the peer's stream and is never pulled | `sync_peer` "brings the local store fully up to date with the peer's public unit stream" (`node/src/federation.rs:153`) |
| `subgraph_public` | only the root's visibility is looked at; a network or limited unit that references a public one is returned with it | "non-public units are silently omitted" (`node/src/handlers/units.rs:786`) |
| `peer_lost_vote` | a vote written between a nudge's read and its write is lost | "preserving any community-voted value rather than overwriting it" (`node/src/handlers/peers.rs:60`) |

Seen while modelling, and not the subject of a run:

- `register` stores any string as `inbox_url` (`handlers/agents.rs:65`), `remote_fanout` pushes network
  units wherever it leads (`units.rs:326`), and `inbox_deliver` looks neither at the audience nor at who
  follows whom. So a network unit gets into the inbox of an agent that never followed the author if a
  follower registered that inbox's URL. `OnlyRecipients` says what holds: a unit reaches the inboxes of
  those it is for and those they had it sent to. `addressed` records the latter.
- The `api_base` of a discovery document may be any string (`units.rs:375`). If no URL comes of it,
  `push_to_inbox` returns with a warning in the log (`units.rs:479`): the members at that host neither
  get the unit nor does the author get a notice, although "when a push attempt fails … this node
  generates a `constraint` unit" (`units.rs:280`), and a host without `api_base` does give one.
  `RemoteIsSettled` exempts these members (`Unaddressed`); followers with such an `inbox_url` are passed
  over in the same way.
- Any 2xx counts as delivery (`units.rs:503`), of a web site too. `AckedIsDelivered` is about pushes that
  an inbox answered (`reached`); `RemoteIsSettled` about answers of any kind (`acked`).
- Inboxes are addressed as `{api_base}/agents/…/inbox` (`agent-core/src/address.rs:103`), the stream and
  the peer list likewise (`federation.rs:88`, `peer_discovery.rs:82`), and the router serves
  `/v1/agents/…` and so on (`router.rs:58-75`). They meet only if `api_base` ends with `/v1`, as
  `handlers/webfinger.rs:113` says and the tests have it; but `spec/node-api.md:401` says that it "MUST NOT
  include a path", `config.rs:34` calls it a host URL, and its default (`config.rs:118`) has no path. On
  a node so configured a push for an audience member is answered 404 and the author gets a notice. The
  models take an `api_base` that leads to the node's routes; `Address` has the other case as `Elsewhere`.
- `RequireAuth` finds the key in the table (`middleware/auth.rs:266-274`) and answers 401 to who is not
  there. So `POST /v1/agents/{did}` and `…/apply` admit nobody who was not in the table when it was
  authenticated, while ADR-0013 has agents register and apply with their `did:key` alone
  (`docs/decisions/0013-agent-admission.md:38`). Past its check for a 409 `apply` comes only with an
  applicant that left after it was authenticated. `Admission` models what the code does.
- Followers may list network units and get them by id (`units.rs:5-8` and the table of ADR-0007;
  `spec/node-api.md:928` bars such units from unauthenticated listings only), while
  `spec/node-api.md:810-811` says that they "are accessible only via the inbox". `OnlyEntitled` follows
  the former.
- `Last-Event-ID` is a cursor in the order of ids (`units.rs:699-700`: "resume without gaps"). A unit that
  was submitted with a smaller id while the client was away is not replayed, as in
  `sync_is_up_to_date`. `QuietIsComplete` is about one connection: it says nothing of what is missed
  between two.
- `local_fanout` uses `?` on `get_agent`, so that one storage error ends it for all remaining
  recipients, although "failures per-recipient … do not abort delivery" (`units.rs:221`). The model
  has the step; `missed` records whom it cuts off.
- `deliver_to_inbox` does not look at the registration, which was read one await earlier: a delivery
  in flight refills an inbox that `delete_agent` "purges" (`handlers/agents.rs:131`).
- `apply` looks whether the agent is registered in one call and stores the application in another.
  An application that overlaps with a deletion and a registration puts a full member back on probation,
  instead of the 409 of `handlers/agents.rs:207`. `StandingIsKept` exempts it ("starting anew").
- A vote or a contribution that was under way when its target left and registered again counts for
  the new membership. It cannot bring back one that stays away (`ReturnsAreFresh`).
- SQLite counts a contribution and graduates the agent in two statements without a transaction. A
  failure between them leaves the agent on probation until its next contribution (`cut` records it).
- The discovery sweep evicts the worst peer without looking whether the candidate is in the table
  already, and removes it one await after choosing it: a vote may have raised it meanwhile.
- With `SWEFT_MAX_PEERS` = 0 the sweep finds no peer to evict in an empty table and admits one
  (`peer_discovery.rs:177`).
- The memory backend stores a newcomer's claimed reputation, SQLite 0.5 (ADR-0008). `Storage` allows
  both; `PeerTable` has both (`KeepsClaim`) and is checked for SQLite.
- The event stream replays one page of 50 (at most 500) units and goes live, whatever else there is
  (`units.rs:731`), while its comment says that it "first replays all historical public units"
  (`units.rs:694`). `QuietIsComplete` exempts a page that was cut off.
- SQLite's `put_unit` inserts the unit and the rows of its reference index without a transaction.
  After a failure in between the unit is there, some of its references are not, and since a
  resubmission gets a Conflict nobody adds them: `get_referencing_units` does not "find all units
  whose `references` array contains `id`" (`storage/mod.rs:134`). `Storage` has it as `FailPutUnit`
  and remembers it in `lost`; on SQLite, `AnswerIsComplete` of `Subgraph` holds up to such references.
- `OptionalAuth` makes an anonymous caller of everybody whose date, signature or storage lookup
  fails (`middleware/auth.rs:95`). A follower whose request is late gets a page without network units
  and no sign of it, and its cursor moves past them. `WalkIsComplete` exempts walks with such a page.
- The key, the follow list and the units are read in three calls. A unit that arrived after an
  unfollow may be shown if the follow list was read before; `OnlyEntitled` says what holds.
- The author of a network unit cannot read it by `GET /v1/units` or by id, unless it follows itself.
- `Retry-After` is rounded down (`rate_limit.rs:85`), so that a client that waits exactly as long may be
  refused once more. It does get through: a refusal does not extend the window (`WalkEnds`).
- The limit holds for windows that begin with a request, so that up to twice the limit passes in a
  minute across two of them (`BurstIsBounded`). Addresses are never forgotten, and clients without
  proxy headers share one.
- A node that is configured with another DID than that of its key pair (`main.rs:71-77`) signs pushes
  with a key that the receiver does not find in the DID. The models take the DID from the key.
- Ties in an eviction are broken by node id, not by the oldest `last_seen`
  (`node-api/src/peer.rs:53`).
- A crash or a dropped handler after `put_unit` loses score, broadcast and fan-out for good: the
  resubmission is answered 200 and does none of them.

## 4. What is checked

Every property has a mutant: with one definition replaced by its faulty variant TLC finds it
violated under the same configuration.

**`replication_safety`** – two nodes, `b` pulls from `a`; two ids, one of them shared by a public and
a network unit; pages of one unit; one handler per node, one fault. One page boundary, one conflict
of each kind (same unit, other unit, across nodes) and one fault at any point are what the
properties need; a third id would add a second boundary of the same kind.

- `AnsweredIsHeld`: what was answered 201 or 200 is held with that content for ever.
- `PrivateStaysHome`: no non-public unit leaves its node through the stream or sits in a page.
- `DrainedIsComplete`: when `sync_peer` returns with success, all ids that were past the cursor in
  the peer's stream when it began are held.
- `ScoreIsFinal`: of all who race to store a unit one scores it, once.
- `ImplementsUnitGraph`: the refinement, with `held <- store`: POSTs and pulled pages that race for an
  id leave one unit under it, for ever.

**`replication_live`** – two public ids, the first of which clients may submit to both nodes, under
`FairSpec`. `AheadIsPulled`: a unit past the cursor (and not behind the page in hand) reaches the
puller in spite of the fault. `RoundsEnd`: every round ends, though the peer's stream grows.

**`fanout`** – one of two units of alice, submitted at node `a`: a network unit with followers bob, who
gave the URL of his inbox at `b`, and carol, who gave the same; or a limited unit for local members
and, by address, for bob at `b` and for carol at a host whose `api_base` is no URL. One request of any
agent: a follower of alice registers one of four strings as `inbox_url` (below `a`'s own `api_base`,
the URL of bob's inbox, a web site, no URL), leaves, follows or unfollows. Two attempts per push, two
faults (lost or late calls, calls rejected as too old, storage errors, crashes), under `FairSpec`;
101,050 states.
`ImplementsInboxService`: the refinement; a task that is lost maps to a sending that never ends. That a
notice is about somebody who was not acknowledged, and goes to the author alone, is checked as part
of it (`NoticeIsTrue`). `OnlyRecipients`: a non-public unit reaches, and is on its way to, only the
inboxes of those it is for and those they had it sent to. `NobodyForgotten`: who was registered and
following throughout has the unit after `local_fanout`. `AckedIsDelivered`: an inbox that answered 201
has the unit until its agent leaves. `RemoteIsSettled`: at the end every remote member was answered for
with 2xx or reported, unless its host published no URL. `FanOutEnds`. Two attempts instead of
three: the second is already both "after a failure" and "the last". Two inboxes are enough for a URL
to be somebody's own or another's, and a follower who moves between the two lists is the one request.
One unit in a behaviour: tasks of different units share nothing that one of them writes.

**`storage`** – four calls of any kind, two agents, one peer, three ids, one of them with two contents,
a unit with two references, a failing statement or a crash and restart anywhere. A call has at most
three statements, and four calls are enough to register, fill an inbox, delete, and register again.
`ImplementsStorage`: the refinement of `Storage`; a call in progress is mapped to the tables as they
were when it took the mutex, and references that were not inserted to `lost`. `ReadsAgree`: for forty
filters on every state, `list_units`, `get_referencing_units` and `get_inbox` of the tables give what
the closures of the memory backend give, page by page. `IdentityIsStable`: a node never serves under
two DIDs, after whatever crashes and failures while it starts.

**`reading`** – bob reads lists, his or alice's inbox, or one of her units, with pages of one; a
stranger of the same address reads one unit; a limit of one request per window of three ticks, a
date window of one; one unit of each visibility, of which two arrive later, and the one for bob comes into
his inbox at any time, whether or not he is registered and the store has it; one
change (follow, unfollow, new key, departure) and one failing call; under `FairSpec`.
`OnlyEntitled`: nobody gets a unit that he had no right to see at any time of the request.
`WalkIsComplete`: a walk that comes to its end has everything that was there and allowed all the
time, except pages answered as to a stranger. `BurstIsBounded`: in the time of a window at most two
windows' requests pass. `WalkEnds`: whoever keeps asking, waiting as long as he is told to, comes to
an end in spite of his competitor. Limit and pages of one make every request meet the limit and
every second unit a page boundary.

**`sync_stream`** – three public units, one of which may come from a peer, and a network unit; one
client; pages of two, a channel that retains one unit, so that truncation and lag both happen; one
fault (disconnection, dropped handler, crash). `QuietIsComplete`: having read all there is, a client
has everything that was past its cursor when it connected and everything broadcast since, unless it
got a lag event or the page was cut off. `OnlyPublicStreamed`. `Pushed`: what is broadcast while a
client is connected reaches it, or it is told, or it is cut off.

**`subgraph`** – three ids with every choice of references among them (the first may reference
itself, the third a missing unit), submitted at any time; two hops; one storage error.
`AnswerIsComplete`: without errors the answer has all that was within two hops upwards or downwards
when the request arrived. `AnswerIsConnected`: the answer can be walked from the root in one
direction without leaving it, so siblings met on the way are not in it. Three ids suffice for a
cycle, a chain of two hops and a sibling.

**`peer_table`** – three peers, one of which announces itself, a cap of one, up to two peers entered by
POSTs (`MaxEntered`), reputations 0, ½ and 1, one vote and one verification in flight beside the
sweep, one fault; SQLite. `SomeoneMayVote`: the gate, computed from the table it guards, never shuts
out everybody, nor anybody when all are alike. `CapHolds`: the sweep fills the table to the cap (with
`SWEFT_MAX_PEERS` = 0, to one peer); beyond it there is at most one peer for each time a POST entered
one, and one for each fault. `ReputationIsEarned`: reputations of peers that stay change by votes and
nudges only. With three levels every comparison (worse, equal, better) and both clamps occur; with
two entries the peer that announces itself can be evicted and enter again.

**`admission`** – two agents that the operator entered, as full members or on probation; two requests
in flight, each from the lookup of its key on, a threshold of two contributions of which three are
counted, reputations in quarters, voters propose the extremes, one fault; SQLite. `ProbationEnds`:
who has reached the threshold is a full member, unless storage failed half-way through its last
contribution. `SponsorsWereMembers`: a sponsor reported as valid has been a full member.
`StandingIsKept`: overlapping requests neither lose a contribution nor give or take membership.
`ReturnsAreFresh`: a vote or contribution under way does not bring back who left. Two requests are
what a race needs, and three contributions are one before, at and past the threshold.

Each pass run but those on single points of liveness also checks its module's `TypeOK`.

**Fairness.** `Replication`: the federation task and the handlers are polled by Tokio as long as the
process runs, each HTTP call has a timeout (`main.rs`), and `run` is an endless loop: weak fairness
of a task's or a handler's next step. `FanOut`: a spawned task goes on, each push ends in an answer
or a timeout, every node goes on with the pushes that reached it. `SyncStream`: a client that is
connected reads, and Hyper polls the stream. `Reading`: time passes, the node goes on with a request
that reached it, and a reader goes on with the walk it began, which is what `WalkEnds` is about; it
need not begin one, and its competitor's walk is finite. No fairness for clients' and agents' requests, faults,
crashes or lost answers. A deadlock is checked only in `Replication`, where the task never ends, and
in `Reading`, where time goes on; the other systems come to rest when their bounded inputs are used up.

## 5. What is proved

`ReplicationProofs` holds for any finite or infinite sets of nodes and units, any peer lists, any
page limit, and any number of handlers and faults; it assumes only `ReplicationAssumption` and
`UnitAssumption`.

The safety properties are not inductive. `IInv` adds to them:

- `StoreInv`: stores are finite (so that a page that is not everything ends at some id), and what
  has a score is stored (so that a newly stored unit has none: `OneScorer`, `ScoreIsFinal`);
- `PageInv`: a page is part of what the visited peer holds, lies past the cursor, and is empty
  outside a visit (so that an adopted unit is one the peer has: the refinement);
- `VisitInv`: of what the peer's stream held when the visit began, all up to the cursor is stored,
  all between the cursor and the end of the page is stored or in the page, and when there is no next
  page nothing lies beyond (hence `DrainedIsComplete`).

`Invariance` proves `Spec => []IInv` from `Init => IInv` and a lemma per conjunct and action.
`TypeCorrect`, `OneUnitPerIdHolds`, `AnsweredIsHeldHolds`, `PrivateStaysHomeHolds`,
`OneScorerHolds` and `DrainedIsCompleteHolds` follow; `ScoreIsFinalHolds` and
`CursorNeverRetreatsHolds` are step properties under `IInv`; `RefinesUnitGraph` proves that
`Replication` implements `UnitGraph`: each step is a `Publish`, an `Adopt` or a stutter.

`AdmissionProofs` holds for any agents, requests in flight, threshold, gate and fault budget, and for
either backend; it assumes `AdmissionAssumption` alone. `IInv` is `TableInv` (types of the profiles,
`ProbationEnds`, and that every full member is in the history `members`), `HandlersInv` (types of
the locals, and `SponsorsWereMembers`) and `faults \in Nat`. The operator's entries satisfy it, whoever
they are. That full members are recorded is what
`SponsorsWereMembers` needs at the step where a sponsor is read. `TypeCorrect`,
`ProbationEndsHolds` and `SponsorsWereMembersHolds` follow from `Invariance`; `StandingIsKeptHolds` and
`ReturnsAreFreshHolds` go through `Effects`, which says what a step can do to the table:
nothing, empty it (the memory backend after a crash), enter or overwrite one agent as a newcomer, remove
one, count one contribution, or replace one reputation.

`SqliteStorageProofs` holds for any agents, units, seeds and filters, and any number of calls and
faults. `IInv` adds to `TypeOK` what the statements of the call that holds the mutex have done so
far (`CallInv`: a unit that is being put is in its table, and so are the references not in `left`; an
agent that is being deleted is gone from one table; a contribution that is counted is counted
once) and where the seed is (`IdentityInv`: whoever served did so with the seed in the table, so
that a start that found none knows that nobody has served). `RefinesStorage` then proves
`ImplementsStorage` statement by statement. The mapping shows a call in progress as not begun, so that
its last statement is the contract's call, its failure one of the four failures of the
contract, and all others stutter. The lemmas of the refinement are about what a statement does to the
*mapped* tables; the one that needs most is that a unit which is cut off leaves as `lost` what was
`left`, and that nothing else was lost before, for its id was new. `ReadsAgreeHolds` needs that
`Limit` of a set limited before is `Limit` of the set, since the query asks for one row too many and
the code cuts it off again.

`FanOutProofs` holds for any nodes, hosts, agents, followers and audiences, any URLs wherever they lead,
any number of attempts, changes and faults. None of the five properties is inductive, nor is their conjunction: `TaskInv` adds, for the
task of each unit, whom it works on (`TargetInv`, by the three loops `AtFollowers`, `AtHosts`,
`AtMembers`, and where it pushes: an inbox that a follower had the unit sent to, or that a member's address
leads to; `StartInv` keeps `addressed` up with the profiles), who stayed (`SteadyInv`: on the list, in
hand, or served), that an answer 201 of an inbox that was read is true (`ReplyInv`), who is unsettled
(`SettleInv`: host to be discovered, on the list, in hand, or without an address) and that who was done with is not taken
up again (`OnceInv`: without it somebody could be both acknowledged and the subject of a notice).
`OnlyRecipientsHolds`, `NobodyForgottenHolds`, `AckedIsDeliveredHolds`, `RemoteIsSettledHolds` and
`NoticeIsTrueHolds` follow from `Invariance`, whose steps are a lemma per action.
`RefinesInboxService` puts them together, step by step: `Delivered` is a `Confirm` because of `ReplyInv`
and `OnceInv`, `CheckAuthor` a `Report` because of `OnceInv` and of what `TargetInv` says of hosts,
`Finish` an `End` because of `RemoteIsSettled` in the state it leads to, and a push that arrives after
its task is over a `Deliver` like any other; `Register` is a `Give` if another inbox comes of the new URL. Steps that only find out whom to deliver to, wait, or
lose something stutter (`TaskIsQuiet`, `RestIsQuiet`).

`SyncStreamProofs` holds for any units, clients, page limit, channel capacity and fault budget.
`OwedInv` says what a connection still owes: of what was past the cursor when it connected, all that
is not received is in the page (once it is listed, and if it was not cut off), and of what was
broadcast since, all before `position` is received, unless a lag event was sent. It needs that
the client joined the channel before the page was read, which is the order in which `sync` does it.
`PublicInv` is that nothing else is on its way; the pull from a peer brings public units only by the
assumption on `Federated`, which is what `PrivateStaysHomeHolds` of `Replication` proves of a peer.

`PeerTableProofs` holds for any peers, votes and verifications in flight, cap, gains, penalties,
multiple of the deviation and fault budget, and for both backends. `SweepInv` says what the sweep
still knows when it goes on: there is room for the candidate about to be added, and the worst peer,
chosen one await earlier, is still there to make room, since nobody else removes peers.
`ReputationIsEarnedHolds` is a step property under `IInv`. `SomeoneMayVoteHolds` cites `GateIsOpen`, the types
of written votes `VoteNeverOvershoots`. The proof of `CapHolds` found what an earlier form of it had
wrong, which the instance of the time was too small to show: a peer that POSTed itself, was evicted and POSTs
itself again enters a second time, so that entries have to be counted, not the peers that made
them; and with `SWEFT_MAX_PEERS` = 0 the sweep finds nobody to evict in an empty table and admits one.

`ReadingProofs` holds for any readers, units, follows, limits and windows, and any number of changes
and faults; `ReadingAssumption` asks that the store is finite to begin with and has one unit per id,
which is `OneUnitPerIdHolds` and the primary key of the table. `CallerInv` ties what the node took the
caller for, and the follow list it read, to what was true at some time of the request (hence
`OnlyEntitled`); `WalkInv` says that what a walk owes is got or still ahead of the cursor, and that the
filter lets it through (hence `WalkIsComplete`: a page ends at its greatest id when it is full, and
there is such an id because the store is finite). `BurstInv` relates the counter of an address to
`passed`, how many requests passed in the last tick, the last two, and so on: what passed since the
window began is counted in it, what passed before that did so in the window before, and in this tick
nothing has passed if the window is over.

`SubgraphProofs` holds for any units, any depth and any number of submissions and faults; it assumes
`SubgraphAssumption` and `UnitAssumption`. The first part is about `Hops` on any graph: it exists and is
what its recursion says (`HopsExist`, `HopsFacts`), grows with the number of hops (`HopsGrow`), and stays
within every set that has the start and no edge leaving it (`HopsWithin`). `SearchEnds`: in a finite graph
as many hops as there are nodes are enough, for each hop that is not the last adds one, so that
`ancestors` and `descendants` find exactly what can be reached. `AnswerStands`: searching the
answer alone finds the answer again, since what is reached along one direction is reached inside
what is reached; this is `AnswerIsConnected`. For `AnswerIsComplete`, `IInv` has

- `StoreInv`: the store is finite, has one unit per id (`OneUnitPerIdHolds`; here by the guard of
  `Submit`), and has all that was there when the request arrived;
- `PlaceInv`: where the handler is, and that whatever id it follows, or will, is that of a loaded unit.
  Without this a reference that was just loaded might be the unit being followed, and then
  count as followed;
- `SearchInv`, as long as no call failed: all that is within `depth` hops of the root in the graph at the
  start is loaded and not put off to the next hop, who was followed has all its old neighbours
  loaded, and who is being followed those the handler is through with.

At the end of a hop the second part turns `depth` hops into `depth + 1`. At the end of the search
either the depth is reached or nothing is put off, so that what is loaded is closed; in both cases the
old hops lie in what `SubgraphOf` then finds (`SearchIsMet`).

The community modules define sums by recursion over sets, and `Hops` is a recursive function. The
induction theorems of the library cannot be instantiated with the provers at hand; the lemmas
reason by a least counterexample instead: a set of naturals has a least element (`LeastNumber`),
so among the finite sets a lemma fails for there is a smallest (`SmallestSet`). In `PeerTableProofs` that
gives `TotalExists` (the recursive function behind `MapThenSumSet` is what it is meant to be), what a sum
does when an element leaves (`TotalWithout`) and its bounds (`TotalBounds`), and with them two theorems
about what votes compute. `VoteNeverOvershoots`: the weighted average that both kinds of votes write lies
between the current and the proposed reputation, for every weight and scale, rounding included.
`GateIsOpen`: the mean of a finite table is no more than its greatest member, so that somebody passes
any gate made of mean and deviation.

`OneUnitPerIdHolds`, `NoticeIsTrueHolds`, `OneScorerHolds` and `CursorNeverRetreatsHolds` are about
properties that no run lists by name: the first two are part of what `ImplementsUnitGraph` and
`ImplementsInboxService` check, the others were found to hold before they were proved. Every `IInv` was also checked by TLC, on the
constants of its component's run.

Only model-checked: liveness (`AheadIsPulled`, `RoundsEnd`, `FanOutEnds`, `Pushed`, `WalkEnds`), for
fairness and ENABLED are beyond the prover. Every safety property and every refinement that a run
checks is also stated by a theorem.

## 6. What is not modelled

- Validation and proofs on units, WebFinger, node information: pure functions and reads of one
  request, where unit tests reach what can go wrong.
- Of HTTP signatures, the parsing of headers and the cryptography: in the models a signature verifies
  with the key that made it and with no other.
- Configuration from the environment, the router, the warnings at startup: sequential, before the
  server listens.
- Command line, agent library, WASM bindings, conformance tests: clients of a node. Of the agent
  library the form of an address is used (`FanOut`, `Recipient`).
- A thread that stalls between reading the clock and taking the rate limiter's lock; a limit of 0,
  which switches the limiter off.
- The operator's notification of an application: one POST that nobody waits for or repeats.
- Formats, logging, `last_seen`, names and other columns that no call decides on.

## 7. Plan

Done, in this order: `Units`, `UnitGraph`, `Replication` with its proofs; `FanOut`; `SyncStream`;
`Subgraph`; `PeerTable`; `Voting` and `Admission` with their proofs; `Storage`, `SqliteStorage` and
`Reading`; the refinement of `Storage`; the safety properties of `FanOut`, `SyncStream`, `PeerTable`,
`Reading` and `Subgraph` for all constants; `InboxService` and its refinement.

Left:

1. The validation of a unit, as operators checked against a reference definition, if it proves to
   have more in it than unit tests reach.
2. An abstract specification of the event stream, of which `QuietIsComplete` and `Pushed` would be the
   two halves.
