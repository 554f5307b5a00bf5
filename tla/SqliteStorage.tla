--------------------------- MODULE SqliteStorage ----------------------------
(***************************************************************************)
(* The SQLite backend: tables, written one SQL statement at a time.  A     *)
(* call holds the mutex of the connection from its first statement to its  *)
(* last, so that calls do not interleave; but there is no transaction, and *)
(* every statement is committed on its own.  A failing statement ends the  *)
(* call, a crash of the process ends it too, and what was written stays.   *)
(*                                                                         *)
(* A call of one statement is one action.  A handler that is dropped in    *)
(* the middle of a call cuts nothing off: the call runs on a thread of its *)
(* own.                                                                    *)
(***************************************************************************)
EXTENDS Units, FiniteSets, Functions

CONSTANTS UnitType, Base, Top, Threshold, Nobody, \* as in Storage
          Seed,       \* of key pairs
          NoSeed,     \* the node is not running
          Scores,     \* bound: the scores and reputations that callers set
          Filters,    \* bound: the filters list_units is asked with
          MaxCalls,   \* bound: calls that write
          MaxFaults   \* bound: failing statements and crashes

ASSUME SqliteStorageAssumption ==
    /\ Body \subseteq [type : UnitType, created : Nat, references : SUBSET (Nat \ {0})]
    /\ Top \in Nat \ {0} /\ Top % 2 = 0 /\ Scores \subseteq 0 .. Top
    /\ Threshold \in Nat /\ Nobody \notin Author /\ NoSeed \notin Seed
    /\ MaxCalls \in Nat /\ MaxFaults \in Nat

VARIABLES
    \* The tables.
    units,       \* units, without the column credibility
    credibility, \* that column; no entry for NULL
    edges,       \* unit_references: set of <<referencing_id, referenced_id>>
    agents,      \* agents, by did
    rows,        \* inbox: set of [agent_did, unit]
    follows,     \* follows
    peers,       \* peers, by node_id
    cursors,     \* sync_cursors, by peer_url
    config,      \* node_config, by key
    \* The process.
    identity,    \* the seed the running node signs with, or NoSeed
    \* The connection.
    call,        \* the call that holds the mutex between two of its statements
    reply,       \* what the last call returned
    \* History, for the properties only.
    published,   \* the seeds whose DID the node has served under
    calls,       \* calls so far
    faults       \* faults so far

unitTables  == <<units, credibility, edges>>
agentTables == <<agents, rows>>
nodeTables  == <<peers, cursors, config>>
tables == <<unitTables, agentTables, follows, nodeTables>>
node == <<identity, published>>
vars == <<tables, node, call, reply, calls, faults>>

Neutral == Top \div 2
Reputation == 0 .. Top
AgentProfile == [status : {"full", "probationary"}, contribution_count : Nat, reputation : Reputation]
Newcomers == [status : {"full", "probationary"}, contribution_count : {0}, reputation : {Neutral}]
PeerInfo == [api_base : Base, reputation : Reputation]
Claims == [api_base : Base, reputation : Scores]
Edges(u) == {<<u.id, i>> : i \in u.body.references}

\* No call is between two statements; the node is not running; it is starting.
Free == [op |-> "none"]
Closed == [op |-> "closed"]
Starting == [op |-> "starting"]

SeedKey == "node_identity_seed"
Between == {"put_unit", "delete_agent", "increment"}

TypeOK ==
    /\ units \subseteq Unit /\ \A u, v \in units : u.id = v.id => u = v
    /\ credibility \in [DOMAIN credibility -> Reputation]
    /\ \A i \in DOMAIN credibility : HasId(units, i)
    /\ edges \subseteq UNION {Edges(u) : u \in units}
    /\ DOMAIN agents \subseteq Author /\ agents \in [DOMAIN agents -> AgentProfile]
    /\ rows \subseteq [agent_did : Author, unit : Unit]
    /\ follows \subseteq Author \X Author
    /\ DOMAIN peers \subseteq Node /\ peers \in [DOMAIN peers -> PeerInfo]
    /\ DOMAIN cursors \subseteq Node /\ cursors \in [DOMAIN cursors -> Nat]
    /\ DOMAIN config \subseteq {SeedKey} /\ config \in [DOMAIN config -> Seed]
    /\ call.op \in Between \union {"none", "closed", "starting", "generated"}
    /\ identity \in Seed \union {NoSeed} /\ published \subseteq Seed
    /\ reply \in {"none", "ok", "true", "false", "conflict", "not_found", "internal"}
    /\ calls \in Nat /\ faults \in Nat

Init ==
    /\ units = {} /\ credibility = <<>> /\ edges = {}
    /\ agents = <<>> /\ rows = {} /\ follows = {}
    /\ peers = <<>> /\ cursors = <<>> /\ config = <<>>
    /\ identity = NoSeed /\ published = {}
    /\ call = Closed /\ reply = "none" /\ calls = 0 /\ faults = 0
-----------------------------------------------------------------------------
(***************************************************************************)
(* Statements.                                                             *)
(***************************************************************************)

\* INSERT ... ON CONFLICT DO UPDATE of the row with key x.
Upsert(f, x, row) == [y \in DOMAIN f \union {x} |-> IF y = x THEN row ELSE f[y]]
Delete(f, x) == Restrict(f, DOMAIN f \ {x})

\* One more fault, while the budget lasts.
Fault == faults < MaxFaults /\ faults' = faults + 1

\* A call takes the mutex.
Lock == call = Free /\ calls < MaxCalls /\ calls' = calls + 1 /\ UNCHANGED <<node, faults>>

\* It returns r and gives the mutex back.
Return(r) == reply' = r /\ call' = Free

\* It goes on to its next statement.
Goto(c) == call' = c /\ UNCHANGED reply

\* A call whose one statement is done.
Single(r) == Lock /\ Return(r)
-----------------------------------------------------------------------------
(***************************************************************************)
(* Units.                                                                  *)
(***************************************************************************)

\* Faulty variant: the references are indexed before the unit is stored.
PutUnitEdgesFirst(u) ==
    /\ Lock
    /\ ~HasId(units, u.id)
    /\ edges' = edges \union Edges(u)
    /\ Goto([op |-> "put_unit", unit |-> u, left |-> {}])
    /\ UNCHANGED <<units, credibility, agentTables, follows, nodeTables>>

\* put_unit: SELECT COUNT, then INSERT INTO units.
PutUnit(u) ==
    /\ Lock
    /\ \/ HasId(units, u.id) /\ Return("conflict") /\ UNCHANGED units
       \/ /\ ~HasId(units, u.id)
          /\ units' = units \union {u}
          /\ IF Edges(u) = {} THEN Return("ok")
             ELSE Goto([op |-> "put_unit", unit |-> u, left |-> u.body.references])
    /\ UNCHANGED <<credibility, edges, agentTables, follows, nodeTables>>

\* ... and one INSERT INTO unit_references for each reference.
PutEdge(i) ==
    /\ call.op = "put_unit" /\ i \in call.left
    /\ edges' = edges \union {<<call.unit.id, i>>}
    /\ IF call.left = {i} THEN Return("ok") ELSE Goto([call EXCEPT !.left = @ \ {i}])
    /\ UNCHANGED <<units, credibility, agentTables, follows, nodeTables, node, calls, faults>>

SetUnitCredibility(i, score) ==
    /\ \/ HasId(units, i) /\ Single("ok") /\ credibility' = Upsert(credibility, i, score)
       \/ ~HasId(units, i) /\ Single("not_found") /\ UNCHANGED credibility
    /\ UNCHANGED <<units, edges, agentTables, follows, nodeTables>>
-----------------------------------------------------------------------------
(***************************************************************************)
(* Agents, inboxes and follows.                                            *)
(***************************************************************************)
PutAgent(d, p) ==
    /\ Single("ok")
    /\ agents' = Upsert(agents, d, p)
    /\ UNCHANGED <<unitTables, rows, follows, nodeTables>>

\* delete_agent: DELETE FROM agents, ...
DeleteAgent(d) ==
    /\ Lock
    /\ agents' = Delete(agents, d)
    /\ Goto([op |-> "delete_agent", did |-> d, was |-> Restrict(agents, {d} \intersect DOMAIN agents)])
    /\ UNCHANGED <<unitTables, rows, follows, nodeTables>>

\* Faulty variant: the inbox is left to the next agent of that DID.
DeleteInboxNever ==
    /\ call.op = "delete_agent"
    /\ Return("ok")
    /\ UNCHANGED <<tables, node, calls, faults>>

\* ... then DELETE FROM inbox.
DeleteInbox ==
    /\ call.op = "delete_agent"
    /\ rows' = {r \in rows : r.agent_did # call.did}
    /\ Return("ok")
    /\ UNCHANGED <<unitTables, agents, follows, nodeTables, node, calls, faults>>

\* increment_agent_contribution: the first UPDATE, which says how many rows it
\* changed.
Increment(d) ==
    /\ Lock
    /\ \/ d \notin DOMAIN agents /\ Return("false") /\ UNCHANGED agents
       \/ /\ d \in DOMAIN agents
          /\ agents' = [agents EXCEPT ![d].contribution_count = @ + 1]
          /\ Goto([op |-> "increment", did |-> d, was |-> Restrict(agents, {d})])
    /\ UNCHANGED <<unitTables, rows, follows, nodeTables>>

\* The SELECT, and the second UPDATE when probation is over.
Graduate ==
    LET p == agents[call.did] IN
    /\ call.op = "increment"
    /\ \/ /\ p.status = "probationary" /\ p.contribution_count >= Threshold
          /\ agents' = [agents EXCEPT ![call.did].status = "full"]
          /\ Return("true")
       \/ /\ p.status = "full" \/ p.contribution_count < Threshold
          /\ Return("false")
          /\ UNCHANGED agents
    /\ UNCHANGED <<unitTables, rows, follows, nodeTables, node, calls, faults>>

UpdateAgentReputation(d, r) ==
    /\ \/ d \notin DOMAIN agents /\ Single("not_found") /\ UNCHANGED agents
       \/ /\ d \in DOMAIN agents /\ Single("ok")
          /\ agents' = [agents EXCEPT ![d].reputation = r]
    /\ UNCHANGED <<unitTables, rows, follows, nodeTables>>

AddFollow(d, e) ==
    /\ Single("ok")
    /\ follows' = follows \union {<<d, e>>}
    /\ UNCHANGED <<unitTables, agentTables, nodeTables>>

RemoveFollow(d, e) ==
    /\ Single("ok")
    /\ follows' = follows \ {<<d, e>>}
    /\ UNCHANGED <<unitTables, agentTables, nodeTables>>

\* INSERT OR IGNORE by the key <<agent_did, unit_id>>.
DeliverToInbox(d, u) ==
    /\ Single("ok")
    /\ rows' = IF \E r \in rows : r.agent_did = d /\ r.unit.id = u.id THEN rows
               ELSE rows \union {[agent_did |-> d, unit |-> u]}
    /\ UNCHANGED <<unitTables, agents, follows, nodeTables>>
-----------------------------------------------------------------------------
(***************************************************************************)
(* Peers and cursors.                                                      *)
(***************************************************************************)

\* A newcomer gets 0.5 whatever it claims, a known peer keeps what it has.
AddPeer(n, p) ==
    /\ Single("ok")
    /\ peers' = IF n \in DOMAIN peers THEN [peers EXCEPT ![n].api_base = p.api_base]
                ELSE Upsert(peers, n, [p EXCEPT !.reputation = Neutral])
    /\ UNCHANGED <<unitTables, agentTables, follows, cursors, config>>

RemovePeer(n) ==
    /\ Single("ok")
    /\ peers' = Delete(peers, n)
    /\ UNCHANGED <<unitTables, agentTables, follows, cursors, config>>

UpdatePeerReputation(n, r) ==
    /\ \/ n \notin DOMAIN peers /\ Single("not_found") /\ UNCHANGED peers
       \/ n \in DOMAIN peers /\ Single("ok") /\ peers' = [peers EXCEPT ![n].reputation = r]
    /\ UNCHANGED <<unitTables, agentTables, follows, cursors, config>>

SetCursor(n, i) ==
    /\ Single("ok")
    /\ cursors' = Upsert(cursors, n, i)
    /\ UNCHANGED <<unitTables, agentTables, follows, peers, config>>
-----------------------------------------------------------------------------
(***************************************************************************)
(* Startup.                                                                *)
(***************************************************************************)

\* `open': the tables exist, and the columns that migrate would add.
Open ==
    /\ call = Closed
    /\ Goto(Starting)
    /\ UNCHANGED <<tables, node, calls, faults>>

SetNodeConfig(k, v) == config' = Upsert(config, k, v) /\ reply' = "ok"
HasNodeConfig(k) == k \in DOMAIN config

\* The node serves, under the DID of its seed (it is not given one by its settings).
Run(seed) ==
    /\ call' = Free
    /\ identity' = seed /\ published' = published \union {seed}
    /\ UNCHANGED <<tables, reply, calls, faults>>

\* load_or_generate: the seed in the table, ...
LoadIdentity ==
    /\ call = Starting /\ HasNodeConfig(SeedKey)
    /\ Run(config[SeedKey])

\* Faulty variant: the node goes on although the seed could not be saved.
GenerateIdentityUnsaved(seed) ==
    /\ call = Starting /\ ~HasNodeConfig(SeedKey)
    /\ Goto([op |-> "generated", seed |-> seed])
    /\ UNCHANGED <<tables, node, calls, faults>>

\* ... or a new one, saved by set_node_config, ...
GenerateIdentity(seed) ==
    /\ call = Starting /\ ~HasNodeConfig(SeedKey)
    /\ SetNodeConfig(SeedKey, seed)
    /\ call' = [op |-> "generated", seed |-> seed]
    /\ UNCHANGED <<unitTables, agentTables, follows, peers, cursors, node, calls, faults>>

\* ... with which `main' goes on.
UseGenerated == call.op = "generated" /\ Run(call.seed)
-----------------------------------------------------------------------------
(***************************************************************************)
(* Failures.                                                               *)
(***************************************************************************)

\* The next statement fails, be it the first of a call or a later one.
StatementFails ==
    /\ call.op \notin {"closed", "starting", "generated"}
    /\ Fault
    /\ Return("internal")
    /\ UNCHANGED <<tables, node, calls>>

\* The process dies: killed between two statements, or in a panic because a
\* statement failed while the node was starting.
Crash ==
    /\ call # Closed
    /\ Fault
    /\ call' = Closed /\ reply' = "none" /\ identity' = NoSeed
    /\ UNCHANGED <<tables, published, calls>>
-----------------------------------------------------------------------------
UnitCall ==
    \/ \E u \in Unit : PutUnit(u)
    \/ \E u \in Unit, s \in Scores : SetUnitCredibility(u.id, s)
    \/ \E i \in UNION {u.body.references : u \in Unit} : PutEdge(i)

AgentCall ==
    \E d \in Author :
        \/ \E p \in Newcomers : PutAgent(d, p)
        \/ DeleteAgent(d) \/ Increment(d)
        \/ \E r \in Scores : UpdateAgentReputation(d, r)
        \/ \E e \in Author : AddFollow(d, e) \/ RemoveFollow(d, e)
        \/ \E u \in Unit : DeliverToInbox(d, u)

PeerCall ==
    \E n \in Node :
        \/ \E p \in Claims : AddPeer(n, p)
        \/ RemovePeer(n)
        \/ \E r \in Scores : UpdatePeerReputation(n, r)
        \/ \E u \in Unit : SetCursor(n, u.id)

Next ==
    \/ UnitCall
    \/ AgentCall \/ DeleteInbox \/ Graduate
    \/ PeerCall
    \/ Open \/ LoadIdentity \/ (\E seed \in Seed : GenerateIdentity(seed)) \/ UseGenerated
    \/ StatementFails \/ Crash

Spec == Init /\ [][Next]_vars
-----------------------------------------------------------------------------
(***************************************************************************)
(* Queries.                                                                *)
(***************************************************************************)

\* The first n rows of the set S of units, ORDER BY id.
Limit(S, n) == {u \in S : Cardinality({v \in S : v.id < u.id}) < n}

\* A query asks for one row more than the page has.
Page(selected, limit) ==
    [items |-> Limit(selected, limit), has_more |-> Cardinality(selected) > limit]

\* Faulty variant: the restriction to followed authors does not wait for a filter
\* by visibility, and spares nobody.
WhereAnyNetwork(u, f) ==
    /\ f.unit_types = {} \/ u.body.type \in f.unit_types
    /\ f.author = Nobody \/ u.author = f.author
    /\ u.body.created >= f.since
    /\ u.id > f.after
    /\ f.visibilities = {} \/ u.visibility \in f.visibilities
    /\ f.network_for_authors = {} \/ u.author \in f.network_for_authors

\* The WHERE clause of list_units.
Where(u, f) ==
    /\ f.unit_types = {} \/ u.body.type \in f.unit_types
    /\ f.author = Nobody \/ u.author = f.author
    /\ u.body.created >= f.since
    /\ u.id > f.after
    /\ f.visibilities = {} \/
          /\ u.visibility \in f.visibilities
          /\ \/ f.network_for_authors = {}
             \/ u.visibility # "network" \/ u.author \in f.network_for_authors

ListUnits(f) == Page(Limit({u \in units : Where(u, f)}, f.limit + 1), f.limit)

\* The join of units with unit_references.
GetReferencingUnits(i) == {u \in units : <<u.id, i>> \in edges}

GetInbox(d, after, limit) ==
    Page(Limit({r.unit : r \in {q \in rows : q.agent_did = d /\ q.unit.id > after}}, limit + 1), limit)
-----------------------------------------------------------------------------
(***************************************************************************)
(* Properties.                                                             *)
(***************************************************************************)

\* What a call shows before it returns is what was there when it took the mutex.
ShownUnits == IF call.op = "put_unit" THEN units \ {call.unit} ELSE units

ShownAgents ==
    IF call.op \in {"delete_agent", "increment"}
    THEN [d \in DOMAIN agents \union DOMAIN call.was |->
             IF d \in DOMAIN call.was THEN call.was[d] ELSE agents[d]]
    ELSE agents

ShownInbox == [d \in Author |-> {r.unit : r \in {q \in rows : q.agent_did = d}}]

\* The references that the table does not have.
ShownLost == (UNION {Edges(u) : u \in ShownUnits}) \ edges

Contract == INSTANCE Storage WITH
    Key <- {SeedKey},
    Value <- Seed,
    units <- ShownUnits,
    agents <- ShownAgents,
    inbox <- ShownInbox,
    lost <- ShownLost

\* Statements committed one by one, failures and crashes included, the backend
\* does what the trait Storage promises: a call takes effect at once and returns
\* what it should, and one that fails leaves behind no more than Storage allows.
ImplementsStorage == Contract!Spec

\* Whoever gets the mutex reads what the contract says, through the WHERE clause,
\* the reference index and the inbox table: the two backends page, filter by the
\* caller's rights and follow references alike.
ReadsAgree ==
    call = Free =>
        /\ \A f \in Filters : ListUnits(f) = Contract!ListUnits(f)
        /\ \A u \in Unit : GetReferencingUnits(u.id) = Contract!GetReferencingUnits(u.id)
        /\ \A d \in Author, n \in 1..2, i \in {0, 1} :
              GetInbox(d, i, n) = Contract!GetInbox(d, i, n)

\* The DID under which a node has served once is its DID for ever, after whatever
\* crashes and failed starts: peers know it by that DID.
IdentityIsStable ==
    /\ Cardinality(published) <= 1
    /\ identity # NoSeed => HasNodeConfig(SeedKey) /\ config[SeedKey] = identity
-----------------------------------------------------------------------------
(***************************************************************************)
(* The inductive invariant of the proofs.                                  *)
(***************************************************************************)

\* What the statements of the call in progress have done so far.
PutUnitHalf ==
    call.op = "put_unit" =>
        /\ call \in [op : {"put_unit"}, unit : units, left : SUBSET call.unit.body.references]
        /\ \A i \in call.unit.body.references \ call.left : <<call.unit.id, i>> \in edges

DeleteAgentHalf ==
    call.op = "delete_agent" =>
        /\ call.did \in Author \ DOMAIN agents
        /\ DOMAIN call.was \subseteq {call.did} /\ call.was \in [DOMAIN call.was -> AgentProfile]

IncrementHalf ==
    call.op = "increment" =>
        /\ call.did \in DOMAIN agents
        /\ call.was \in [{call.did} -> AgentProfile]
        /\ agents[call.did] = [call.was[call.did] EXCEPT !.contribution_count = @ + 1]

CallInv == PutUnitHalf /\ DeleteAgentHalf /\ IncrementHalf

\* Whoever served, did so with the seed in the table.
IdentityInv ==
    /\ identity # NoSeed => identity \in published
    /\ published # {} => HasNodeConfig(SeedKey) /\ published = {config[SeedKey]}
    /\ call.op = "generated" => HasNodeConfig(SeedKey) /\ call.seed = config[SeedKey]

IInv == TypeOK /\ CallInv /\ IdentityInv
=============================================================================
