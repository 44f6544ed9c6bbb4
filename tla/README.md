# Verification of Agent Graph Studio

TLA+ models of the parts of Agent Graph Studio whose correctness depends on
order, concurrency, failure and persistence; TLC runs that check them on small
instances; TLAPS proofs of the most important properties for every instance.
Everything is translated from the code under `src/`; `PROJECT.json` maps each
definition to the lines it stands for.

## 1. The system and its parts

A graph drawn on the canvas is the program. A FastAPI process stores graphs,
validates them, runs them with a round-based scheduler, asks people to approve
tool calls, and arms triggers (cron jobs and webhooks) for activated graphs.

| part | code | state | operations | what is hard |
|---|---|---|---|---|
| graph format, validation | `backend/schema`, `backend/validation` | none | `validate_graph` and its rules, `kahn_order` | what the engine may rely on afterwards; repeated and dangling edges |
| execution engine | `backend/execution/engine.py` | `pending`, `finished`, `available`, the trace of a run | scan, round start, worker threads, commit | readiness decided on state that changes during the scan; any order of completion |
| approval registry | `backend/execution/approvals.py` | `_pending`, `_remembered`, an Event per approval | `request_approval`, `resolve_approval`, `clear_remembered_for_run` | blocked threads, answers racing each other and the end of the run |
| API server threads | `backend/api/app.py`, anyio | tokens of the thread pool | `POST /runs`, `POST .../approvals/...` | runs and the answers they wait for share one bounded pool |
| runs | `backend/api/runs.py`, `backend/storage/runs_store.py` | `_runs`, table `runs` | create, execute, poll, invoke with timeout | polling while a thread writes, crash, swallowed writes |
| activation, triggers | `backend/api/app.py`, `backend/triggers` | scheduler jobs, router routes, `_active`, row of `graphs` | activate, deactivate, delete, restart, fire | five stores without a common lock, rollback, crash |
| saved graphs, sharing | `backend/storage/graphs_store.py`, `graph_sharing_store.py` | tables `graphs`, slots, mappings | CRUD, slot mapping, resolving a run's connections | read-modify-write without a transaction; row and slots written apart; three identities a run may have |
| node types | `backend/nodes`, `backend/registry` | registry of node types | `execute` of each type; agent loop, loop node | iteration limits, memory window, nested runs |
| connections | `backend/connections` | one JSON file | add, update, delete, promote, resolve | load-change-save without a lock |
| generated MCP nodes | `backend/mcp/generated_nodes.py` | node types per connection | generate, unregister, regenerate at startup | the registry follows the store |
| OAuth | `backend/mcp/oauth_*.py` | tokens per connection and user | start, callback, refresh | rotating refresh tokens, concurrent refresh |
| authentication | `backend/auth`, `users_store`, `invoke_keys_store` | tables of invitations, accounts, keys; signed tokens | login, invite, keys, `require_auth` | overlapping sign-ins, invitations that change meanwhile; scoping of invoke keys |
| canvas | `frontend/src` | React state | edit, save, run, poll, approve | polling against a moving record |
| MCP/LLM clients, CLI, gateway | `backend/mcp/client.py`, `backend/llm`, ... | none of their own | calls to external services | pure I/O |

Interactions: the canvas calls the API; `POST /runs` validates, creates a run
record and hands `execute_run` to the thread pool; `execute_run` drives
`run_graph`, which calls each node's `execute` in a worker thread and reports
rounds and records back through callbacks; a tool node blocks in
`request_approval` until another request calls `resolve_approval`; activation
registers jobs and routes that later call `fire`, which starts a run in a
thread of its own; at startup the table of graphs is read and every active one
is registered again.

The behaviours that are hard to test are listed one by one, with their lines,
under `hazards` in `PROJECT.json`.

## 2. Modules

| module | models | composed with |
|---|---|---|
| `GraphSpec` | graphs as the engine sees them, and what it relies on (`ValidGraph`) | extended by `Scheduler`, `Dataflow`, `Validation` |
| `Validation` | `validate_graph` rule by rule over graphs as clients send them, `kahn_order` | ties what is accepted to `ValidGraph` |
| `Scheduler` | one run of `_run_graph_async` | implements `Dataflow` |
| `Dataflow` | what a run promises, without rounds or threads | abstract specification |
| `SchedulerProofs` | theorems about `Scheduler` | refinement of `Dataflow` |
| `Approvals` | the approval registry, its callers, answers and runs | extended by `Server` |
| `ApprovalsProofs` | theorems about `Approvals` and `Server` | |
| `Server` | the thread pool runs and answers share | `Approvals` under a bound on threads |
| `Runs` | the record of a run, its row, its polls, `invoke_graph`, crash | |
| `Activation` | activate, deactivate, save, delete, crash, restart | |
| `Connections` | the connection store, ownership, generated node types, tokens and keys | |
| `Sharing` | one saved graph, its slots and mappings, the connections its runs take | |
| `OAuth` | the token of one user and connection: consent, refresh, use, deletion | |
| `Agent` | one execution of an agent node with its tools | |
| `Accounts` | invitations, sign-ins, accounts, sessions, invoke keys | |
| `RunsProofs`, `ActivationProofs`, `ConnectionsProofs`, `OAuthProofs`, `AgentProofs` | theorems about the module of that name | |
| `UsersProofs` | theorems about `Sharing` and `Accounts`, what users have of each other and of the system | extends both, which is why `Accounts` says `AccountsSpec`, `AccountsInit`, `Invocations`, `Absent` |
| `Contract` | the names by which an invocation's inputs and outputs reach nodes | pure; evaluated by `MCAccounts` |
| `MC...` | instances for TLC; `MCScheduler` also evaluates `Validation`, `MCAccounts` `Contract` | |

### GraphSpec and Scheduler

A node is its position in `graph.nodes`; a slot its position in the list of
inputs of the node's type, because the scan and `gather_inputs` walk both in
that order. A value is the output slot it came from: the properties only ask
where a value came from and whether it was there. The action for one pass of
the scan (`ScanNode`) evaluates `gather_inputs` on the state as it is in the
middle of the scan, since skipping a node changes what the next one sees.
`FinishNode` lets the worker threads of a round come back in any order, with
any outputs or an exception; `CommitNode` replays the results in submission
order. `Ready`, `Blocked` and neither of them are the three results of
`gather_inputs`: the first slot that blocks or waits decides.

`Dataflow` has one variable for the fate of each node and one for the outputs
that fired. A node may be run once everything wired to it has met its fate and
its required slots are fed, and skipped once one required slot is dead. The
refinement maps trace and `finished` to fates.

### Validation

`Scheduler` and its proofs start from graphs that satisfy `ValidGraph`.
`Validation` shows that these are the graphs that pass the rules as written:
unregistered types whose nodes other rules skip, slots resolved from a config
or mirrored from a sub-node, dangling edges dropped before the cycle check,
cardinalities of sub-node slots, and Kahn's queue with its in-degrees. The
rules are pure, so there is no run for them: `MCScheduler` states two
assumptions that TLC evaluates in the run `scheduler`. `AcceptedAreValid`: an
accepted graph, turned into the engine's view of it (`AsGraph`), satisfies
`ValidGraph` (60,956 graphs of two nodes under test with up to two edges over a
registry of six types, 144 of them accepted). `KahnFindsCycles`: Kahn's
algorithm leaves nodes over exactly when the edges have a cycle (every list of
at most three edges, repeated, looping and dangling ones too). Which configs
are well formed and which connections exist are parameters of a graph.

### Approvals and Server

Every access to `_pending`, `_remembered`, the decision or the Event is an
action of its own, because the lock covers single accesses only. Two history
variables say which remembered answers were delivered (`told`) and which calls
were made afterwards (`bound`). `Server` adds the guard that a run or an answer
needs a token of the pool to start. `Answers` gives each request the answers it
may bring.

### Runs

The worker thread writes a `RunRecord` field by field (`running_node_ids` at
the start of a round, then for each result the removal and the append to the
trace, at the end `result`, `status`, the dump and the row) while
`get_run_snapshot` reads it field by field; no lock orders the two. Both are
sequences of single accesses in the model, in the order of the code, so that
every interleaving of a poll with the writer happens. Calls of nodes to
sub-nodes overlap and are counted as `on_sub_node_activity` counts them.
`invoke_graph` joins the thread with a timeout that may fall anywhere, then
decides what to answer. The faults are those the code handles: a failing INSERT
or UPDATE (logged and dropped), a result that cannot be dumped, a graph that is
invalid by the time it runs, a node type unregistered in the middle of a round,
a crash of the process. `lost` holds the runs whose row a fault kept from being
written. What the engine decides is free here; `Scheduler` models it. A reply
that says "failed" may still name running nodes or lack the error, because
`status` is written before them; no property claims otherwise.

### Activation

Each step of a request is one access to one store: list jobs, remove a job,
copy the routes, swap them, clear the registry entry, register a node, tell the
external service, publish, write the row. `remove_job` raising for a job that
is gone and `add_job` raising for an id that exists end the request where the
code has no handler for them. `Crash` forgets jobs, routes, registry and
requests; `Restart` is `_reactivate_persisted_graphs`, which runs before the
first request is served and is therefore one step. A failing call of the external service has
two outcomes, as in the code: what becomes an `HTTPException` rolls the
activation back (or is logged by a deactivation), anything else (a time-out
while the answer is read, a body that is no JSON, a `ValueError` of the
resolver) leaves the handler and ends the request where it is. In both the
service may have acted. `Under` says whose jobs `remove_jobs_for_graph` lists:
those with ids that begin with the graph's id and a colon, which are also those
of `a:b` where the graph is `a`. Node ids have no colon: the canvas makes them
from a type and a number. The routes of a graph are compared by their whole
first segment.

Three history variables narrow the properties to what the code promises:
`overlapped` holds the graphs two requests were about at once; `disturbed`
those that an exception nobody catches ended an activation of, that the last
start failed on, or that lost jobs to a graph with a shorter id, until they are
taken down from end to end; `unsynced` those a start armed without calling the
service, or whose deactivation an exception ended, until they are activated.
A graph that an exception disturbed is not in the registry, so deactivation and
deletion pass it over, and another activation stops at a job id that is there
already, until the server is restarted. Two graphs do not share a bot (`BotsOf`): `deleteWebhook`
names the bot only.

### Connections

`connections.json` is one set of profiles; every function of `store.py` is
three steps: load and check, empty the file, write what was loaded and changed.
A request resolves its name to the caller's own connection or the global one
and goes on with what it found, as in `app.py`. `generate_node_types_for_connection`
is a step for the discovery, one for popping the entry of the tracking table,
one for each `unregister` and each `register` (which refuses a name that is
there), one for the new entry. A generated type is the pair of its connection
and the tool's place in the list. Of a config the model keeps whether a caller
needs an OAuth token or an API key of their own. `Restart` kills every request
at any point and runs `regenerate_all_on_startup`, one step since no request is
served before it ends; each discovery may fail. `took` in a request remembers
which types it popped, until the request is answered. A request that fails is
refused by the endpoint ("error") or ended by an exception the endpoint does
not catch ("raised"): a network error of `httpx` while the OAuth server is
looked for or the client registered, or the assertion after
`update_connection_config`. `alone` holds the creations no other request
overlapped; `vouched` the global profiles that somebody who may manage them put
into a copy to be written. Overlapping writers lose each other's
writes in the model as in the code: a deleted connection may come back and a
created one vanish, a global one too, by the write of a member who had loaded
the file before. The properties say what holds nevertheless: what is global in
the file was put there, with that very config, by someone who may.

### Sharing

One graph, since every table is keyed by its id. A route is a sequence of
accesses to the row, the slots, the mappings and the registry of active graphs,
one step each. A run remembers what it was accepted with and for whom:
`POST /runs` as the caller with the slot mappings, `POST .../invoke` as the
graph's owner with none, a trigger as whoever activated it. The config nodes'
connections are resolved at submission, profiles when the run starts, and a
generated node looks its connection up while it runs, by the rule of
`_make_execute`; the engine validates once more in between. Connections named
in `Changing` come and go at any time. `overlapped` is set while two edits of
the graph are under way or one is cut off by a crash, and is cleared by a
`clear_slots` that has the graph to itself; `settled` in a run says that no
connection changed since it was accepted.

### OAuth

The row of one user and connection. A node reads it, refreshes it if it is
about to expire, stores the answer and holds the token until the call goes out;
a consent exchanges its code and stores the answer; deletion removes the
connection and then the token. The provider is external: a grant has no refresh
token, one for ever, a new one with each refresh with the old one still good,
or a new one that voids the old. The clock may go on at any point and for any
time: `httpx` gives each phase of a request 15 s, a tool call has 60 s after its
session is initialized, and a gated call waits for a person, so that nothing in
the code bounds the time from the provider's answer to the use of the token.
The property says instead what the 60 s of `REFRESH_SKEW_SECONDS` are good for:
an answer on its way to the row and a token on its way to its use may take that
long together. An answer may be lost on the way, and a crash may come before it
is stored: `dropped` remembers the grants this happened to with a rotated token.

### Agent

The conversation is the list of messages with the calls each contains and the
call each result belongs to; text is left out. The model may answer, or call
one or two tools, known or not, with arguments that are an object or not. A
tool may be an `mcp_call` with its approval gate, which may fail to resolve, be
declined, fail, or act. `lit` is the set of sub-nodes shown as active, `record`
what the node hands back to the engine, `effects` the remote calls that came
back.

### Accounts

A callback reads the invitation, looks the account up and creates it in three
connections of the database; invitations and restarts come in between. Session
tokens are in no table, so an expired one is one that is not used again. State
tokens are numbered; a browser has one cookie. A request with an invoke key is
admitted, then reads the graph, then runs. `granted`, `minted` and `revoked`
are history variables.

### Contract

An invocation names the inputs and outputs of a graph by the labels of its
nodes, or by their ids where they have no label. The functions are pure, so
`MCAccounts` states three assumptions that TLC evaluates in the run `accounts`,
over graphs of up to three nodes whose labels may be each other's ids: a
contract is refused exactly when two nodes of one direction share a name
(`RefusedIfAmbiguous`); accepted inputs reach the node of their name and no
other, and a node without a saved value gets one (`InputsReachTheirNodes`); an
output is that of the node with its name (`OutputsComeFromTheirNodes`).
`Runs` has the wait and the answer of the request, `Accounts` who may send it.

## 3. Runs

| run | what it asks | bounds | distinct states |
|---|---|---|---|
| `scheduler` | safety of every schedule, refinement of `Dataflow`, termination; the two assumptions about `Validation` | all valid graphs with 3 nodes and at most 2 data edges in both list orders, every choice of optional slots, an inert fourth node wired as a sub-node; 4 nodes in the shapes of the shipped control-flow nodes | 267,215 |
| `scheduler_lost` | finding | the graphs with 3 nodes, no data edge out of a sub-node | |
| `server` | safety of approvals; no lost wake-up, runs end when a thread is left | 2 calls of one run to one tool, one of them answered twice at once, a call of that run to another tool, a call of another run to the first tool, 5 answers, 3 threads (the two runs hold 2) | 1.1 M |
| `runs` | replies are consistent, the table follows memory, invoke answers what happened | 1 run of 2 nodes, 2 sub-nodes, 1 polling client, invoke, every fault | 3.1 M |
| `activation_rollback` | all or nothing, the active graph has the webhook | 1 worker, 2 graphs with nested ids, 2 bots, 5 specs, every fault | 118,000 |
| `activation` | jobs, table and memory agree under concurrency and crashes | 2 workers, 2 graphs with nested ids and two cron jobs each, crashes | 3.4 M |
| `connections` | names unique, tracked types registered, refused creations undone, global connections put there by those who may | 1 admin and 1 member with one request each at a time out of 5 and 6 kinds, 1 name in 3 scopes, 2 tools | 5.2 M |
| `sharing` | private graphs have no slots or mappings, mappings are kept, slots are the runner's | an author with 6 requests and a runner with 4 kinds (map, run, invoke, fire), 2 workers, 3 connections of which 2 come and go, 1 run, crashes | 1.7 M |
| `sharing_refused` | finding | the same with the private connections alone | |
| `oauth` | no expired token goes out within the skew, a refreshable row stays so | 2 calls, 2 consents, 4 kinds of provider, time up to 4 with tokens that live for 3 and a skew of 2, lost answers and crashes | 3.8 M |
| `agent` | the conversation, the window, what is shown, what is recorded, the end | 2 tools (plain and gated), an unknown one, at most 2 calls at once and 3 iterations, a window of 3 | 319,000 |
| `accounts` | sessions name accounts, roles were granted, keys invoke their graph; the three assumptions about `Contract` | 2 addresses, either of them the administrator's, 2 accounts, 2 overlapping callbacks, 2 graphs, 1 key | 443,000 |

Why the bounds are enough: the scheduler's interesting cases (a slot whose
source is skipped in the same scan, two edges into one slot, a node waiting on
two sources) need three nodes and two edges, and the shapes add fan-out with a
join; the approval races need two calls that share a key, two more that differ
from it in the run alone and in the tool alone, and two answers to the same call
plus one to each other; a run record is written
by one thread and shared with no other run, so one run, two nodes (a round of
two, or two rounds), and two sub-nodes both nodes may use give each kind of
overlap of writer and reader; activation needs a second
node after the first for a half-registered graph, a second graph for the shared
list of routes, an id that begins with that of the other for the jobs, and a
second worker for an overlap. Connections clash on one
name in its three scopes (the admin's, the member's, global); two tools give a
set of types that is half there; two requests are enough for every pair of
store operations to overlap, and every kind of request is made by one of the
two callers. A shared graph needs a slot, a runner's own connection to map it
to and a global one of the slot's name that a run may fall back to; one run is
enough, since runs share nothing but what they read. The token needs two calls
that find it expired together and a second consent in between; a token that
lives for 3 expires within the clock's 4 units, once with and once without a
refresh on the way. The agent needs two calls in one response, so that results
come after one another, and three iterations, so that a hint, calls and an
answer, or three rounds of calls with results past the window, fit. Sign-ins
overlap in pairs, and a key needs a second graph to be wrong about.

`CHECK_DEADLOCK FALSE` is set where the system may stop: a run ends, no more
approvals are asked for, no request is made, the node has ended.

### Fairness

`Scheduler!FairSpec` is weak fairness of the whole loop: the event loop goes on
and every `execute` returns or raises. `Server!FairServerSpec` lets threads
go on unless they wait for the Event, gives a free thread to a run that waits
for one, and has each approval answered eventually, by weak fairness of all of
this together: calls, runs and answers take finitely many steps, so that none
can go on for ever in another's place; `Approvals` alone states no
fairness, since nobody has to start a run or to answer. `Agent!FairSpec` is weak fairness of
the whole node: its thread goes on, and the model, the tools and the person who
approves answer in the end, with a result or an error (each has a timeout or is
the premise of `Server!FairServerSpec`). The other modules state no liveness:
nobody has to make a request.

### Findings

Each `violation` run checks one statement a comment or a document makes and TLC
finds a behaviour that breaks it; `findings` in `PROJECT.json` quotes the line.
`scheduler_lost`: the scheduler's "safety net" can drop work.
`sharing_refused`: a run of a shared graph that was validated with the runner's
slot mappings is refused by the engine's second validation, which is not given
them, whenever the slot names a private connection of the author.

### Further counterexamples

These configurations are kept beside the runs. Each checks one statement of the
repository that the code does not keep and ends in a counterexample:
`tlc -config <cfg> <module>`.

| cfg | statement | what happens |
|---|---|---|
| `MCServer_leak.cfg` | approvals.py:100, "remembered decisions are scoped to one run's lifetime" | the slower of two answers to one approval is remembered after the run has ended |
| `MCServer_full.cfg` | app.py:656, the run "executes in a background worker thread" while requests go on | as many blocked runs as the pool has threads leave none for the answers |
| `MCActivation_orphans.cfg` | app.py:1789, "don't leave a half-registered graph behind" | a start that fails half way leaves cron jobs for a graph that is not active |
| `MCActivation_escape.cfg` | the same | the bot's API times out while its answer is read: the exception is no `HTTPException`, and the graph's jobs and routes stay without a registry entry |
| `MCActivation_nested.cfg` | scheduler.py:42, `remove_jobs_for_graph` takes the jobs of the one graph it is given | taking down graph `a` removes the cron jobs of the active graph `a:b` |
| `MCConnections_unrolled.cfg` | app.py:986, a failure "rolls the creation back rather than leaving a saved connection" | a network error while the OAuth server is looked for, or the client registered, ends in a 500 with the connection saved |
| `MCConnections_refresh.cfg` | app.py:1397, "A failed refresh leaves the previously-generated set intact" | two refreshes at once both fail and take the types away until a restart |
| `MCSharing_restart.cfg` | app.py:1837, "exactly the identity that activated it originally" | a graph that was activated without having been saved, or that somebody else saved, does not run as its activator after a restart |
| `MCOAuth_stale.cfg` | oauth_flow.py:62, no expiry "between 'checked valid' and 'used'" | an answer that was slow to be stored, a call that is slow to start, or one that waits for a person's approval uses up the skew, and the token goes out expired |
| `MCOAuth_orphan.cfg` | app.py:1258, "avoids leaving a stored token orphaned" | a refresh that ends after the deletion stores the token again |
| `MCAgent_untraced.cfg` | specs/008, a tool's record "becomes a `child_trace` on the agent's own record" | an agent that fails after a tool acted loses the record of it |
| `MCAgent_arguments.cfg` | agent.py:108, a tool call "never raises" | arguments that are no JSON object make the constructor of the record raise, and the node fails |

Other behaviour the models show is listed under `hazards` with a note where no
property covers it: a data edge out of a sub-node also ends in the safety net;
an approval can be found again until its thread has woken up; a failed
re-activation leaves the row active; a deactivation can drop a route another
activation adds meanwhile; a graph can stay active while it is deleted; a
connection is lost, or comes back, when two requests write the store at once;
promotion leaves the node types of the private connection behind; two
overlapping edits of a graph can leave slots behind on a private one; of two
first sign-ins with one address one is answered with an error; an account keeps
its role whatever later invitations say.

## 4. Proofs

One module of theorems for each component, for every value of the constants
that its named assumptions admit: any graphs, users, connections, workers,
requests, faults, durations, and threads. Each component that is proved about
ends in an inductive invariant `IInv`; it was checked with TLC on the runs of
the component before it was proved.

`SchedulerProofs` proves, for every set of valid graphs, type correctness,
`AtMostOnce`, `CausalInputs`, `SkippedForCause`, `InputsComplete` and, for
graphs listed in data order, `NothingLost`. `IInv` adds what the properties
rest on: pending and finished partition the scheduled nodes, a value is
available exactly when a record put it out, and every decision to run a node,
taken or about to be (`GatheredJustified`, `RecordsJustified`), stays right: a
slot left out belongs to a finished source that did not fire it. That last part
is what makes the properties inductive, since the scan decides early and the
commit happens later. `NothingLost` needs `OrderedInv` as well, which says that
a node the scan has passed waits for an unfinished earlier one.
`TraceFollowsRounds` needs `RoundsFit`: what is being run was announced last,
and what is traced stands before it, in an earlier round or earlier in the
list. The refinement of `Dataflow` (`SchedulerImplements`) goes action by
action: only the skip in a scan and the commit of a record are steps of the
abstract specification, everything else changes nothing of it.

What `Termination` rests on is proved as well. `LoopCannotSpin`: `Left`, a
natural number, falls with every step. It weighs each pending node with more
than a round has steps, because a skip and a commit retire a node and may send
the loop back, and every other step takes the round further (`StepsAreCounted`);
a run has at most `(N + 1) * (2 * N + 4)` steps, whichever nodes fail or wait for
a value that never comes. `LoopIsNeverStuck`: until a run is done the guard of a
step holds; this needs that no round is empty (`RoundsAreNotEmpty`), which the
safety net of `_run_graph_async` is there for. Weak fairness of the loop, which
TLC assumes in the run, is all that is missing.

`ApprovalsProofs` proves type correctness, `AnswerWasGiven`, `NeverAsksAgain`,
`BlockedIsListed` and `TidyAfterRun` for every set of calls, runs, tools and
requests. `IInv` ties each entry to the request that put it there
(`RegistryInv`), each place in `request_approval` to the registry (`CallInv`),
each delivered answer to the memory (`MemoryInv`), and says that a call that is
answered once cannot go on before it is woken (`SingleInv`).
`ServerIsRegistry`: every behaviour of `Server` is one of `Approvals`, since
tokens only delay; so the four properties hold with any number of threads.
`AnswersAreNotLost` is what `RunsEnd` rests on: a request that is
through has set the Event of its call, and no step clears one, so a call finds
it set whether it came to wait before or after.

`RunsProofs` proves `CompletedIsWhole`, `PollsGoForward` (an action property),
`SubNodesShown`, `RecordedWhenOver` and `InvokeTellsTruth`. The order in which
`execute_run` writes and `get_run_snapshot` reads carries the proof: `RecordFits`
says which fields are written at each step of the writer, `PollFits` that what a
poll has read cannot be overtaken by what it is still to read, `ToldFits` that
the last reply is behind the record and behind what the next poll of that client
has read. `status` is written after `result` and read before it: exchange either
and `PollFits` no longer holds. `CallsAreCounted` ties the dict of
`on_sub_node_activity` to the calls under way.

`ActivationProofs` follows one graph. `Half` says, for a graph that only one
request is about, how far that request has got: which jobs, routes and entry
are gone while it takes down, which are there while it puts up, up to the node
it has reached. `Settled` is what a graph is with no request about it, and
`Provenance` that a spec stays with its graph. `JobsFollowActive` is proved
without a hypothesis on the constants, for any number of concurrent requests,
any nesting of ids and every fault and crash. It speaks of graphs that are not
`disturbed`: an exception that escapes an activation leaves jobs behind, a
failed start too, and a graph with a shorter id takes jobs away, and that is
what the models show (`MCActivation_escape`, `_orphans`, `_nested`). That a graph
which was disturbed and then taken down is whole again is part of what is
proved. The others hold under hypotheses that are theirs in the code as well:

- `AllOrNothing` and `ActiveIsWired` with one request at a time: the list of
  routes is one object, which a deactivation of one graph copies and swaps while
  an activation of another appends to it.
- `ActiveIsWired` also where no two graphs share a bot: the second activation
  takes the webhook. It is not asked of a graph whose deactivation was ended by
  an exception, which may have dropped the webhook first, until the next
  activation.
- `StoreMatchesMemory` where the writes of `is_active` succeed, since the code
  swallows their failure, and where an activation that has begun does not fail
  (the external service refuses, or only APScheduler finds that a cron
  expression is bad): the roll-back takes the graph down in memory and leaves
  the flag of the activation before it. It needs no hypothesis on the number of
  requests.

`ConnectionsProofs` proves `NamesUnique`, `TrackedAreRegistered`,
`RefusedCreateUndone` and `GlobalsVouched` for any
number of workers, tools and tool lists. A writer goes on with what it loaded,
so `RequestFits` says of each request what its loaded copy may contain and
where in its course it can be, and the copies are vouched for like the file.
`RefusedCreateUndone` is about creations the endpoint refuses; one that ends in
an exception keeps its connection. `TrackedAreRegistered` is inductive only with
`Ownership`: a registered node type is held by one request, or tracked, or by
nobody; popping the tracking entry hands its types to the request that popped it.

`OAuthProofs` proves `FreshWithinSkew` for any skew and life of a token and
with no bound on how long any step takes: a stored expiry is late by just what
the answer took to be stored (`GoodRow`), and a token is handed out more than
the skew before that expiry, or in the moment it was stored (`CallIsGood`); so
what both ways take together may be as much as the skew. `StaysRefreshable` needs `HoldsTheLast`: whoever waits to
store the only refresh token that is accepted waits alone. Its hypothesis
excludes a provider that revokes a whole grant when it sees a used token twice,
with which two concurrent nodes lose the account.

`AgentProofs` proves `ConversationFits`, `NewResultsHaveCalls`, `LitInUse` and
`AnswerIsTraced`, for any window, iterations, calls in a response and tools.
`CallsAreOpen` places every result at its distance from the response that
called it: the calls still to be run are the last of one response. What a
conversation contains is stated by position for that reason. `AgentCannotSpin`
is to `Ends` what `LoopCannotSpin` is to `Termination`: each step brings `Left`
down, which counts the iterations not yet begun and the calls not yet run.

`UsersProofs` proves `PrivateIsClean`, `SlotsAreTheRunners` and, as an action
property, `MappingsAreKept` of `Sharing`, for any users, names, connections and
requests, with crashes at any point. A route goes on with what it read, so
`Course` says for each place in a route what kind of request is there and what
it has by then, and `AcceptedIsMapped` that from the check of the mappings on
the copy that goes into the run maps every slot that was declared, whatever the
tables hold by now. From this the bindings of the accepted run follow, and of a
connection looked up while it runs (`BoundToRunner`). `PrivateIsClean` is not
inductive, since `update_graph` writes the row before the slots are cleared.
`EditsAreApart` states it for the time in between: while no two edits of the
graph overlap, nobody else changes whether it is shared, and only the edit that
is about to clear leaves a private graph with slots. Overlapping edits, and a
crash that cuts one off, do leave some behind (`overlapped`).

Of `Accounts` it proves `SessionsHaveAccounts`, `RolesWereGranted` and
`KeysInvokeTheirGraph` for any people and requests. Callbacks act on an
invitation they read earlier, so `CallbacksHold` says that it was granted once,
and `GrantsAreFounded` that whoever granted it was an administrator.

The assumptions are those of the modules: sizes are positive, valid graphs are
valid graph records, calls belong to runs and tools, sub-nodes of an agent are
distinct nodes, durations are natural numbers, the marks for "nothing"
(`None`, `Absent`, `Ended`) are no values of the kind they stand in for. That validation
lets through nothing else is `AcceptedAreValid`, which TLC evaluates on small
graphs (`Validation`).

Only model-checked:

- liveness under fairness (`Termination`, `RunsEnd`, `Ends`):
  TLAPS has no rule for `ENABLED`; that the steps are bounded, or enough to go
  on, is proved for the scheduler, the agent and the registry as said above;
- what `Validation` and `Contract` compute, over data of bounded size.

Proofs that failed corrected the models: two arms of the CASE that picks the
next step of a writer of `connections.json` overlapped, as TLC had not shown,
because it takes the first that holds. `SUBSET Names \cup {None}`, the type of
the slots a save declares, is the set of all subsets of a union, not a set of
names or `None`; TLC only enumerates the requests of an instance, and the proof
asked what they have in general. The properties of the agent's
conversation are stated by position in the list, the form in which they are
inductive. Hypotheses of the theorems on `Activation` are those without which
the proof did not go through and for which the models have a behaviour that
breaks the property.

## 5. Not modelled, and the plan

In the order in which they matter:

1. Less to assume for `Activation`: `AllOrNothing` and `ActiveIsWired` for
   concurrent requests of which none takes routes down. They cannot be had for
   all: a deactivation that has copied the list of routes brings back, when it
   swaps its copy in, routes another one has removed meanwhile.
2. The canvas: the polling loop and the status it shows for each node.

Not modelled in the parts that are: node ids with a colon, the remote calls of
generated nodes, what discovery of an OAuth provider and registration of a
client say (how they end is modelled), the shared API
key and the exempt paths of `require_auth`, the text of messages and errors,
lists that are only read (`list_run_records`, the palette). A provider that
takes back every token when one refresh token is used twice is left out of
`Ways` in the runs: no client can keep its tokens with one and no lock between
its nodes.

Left out for good: LLM and MCP clients, the CLI, the Discord server and the
gateway, which do I/O and keep no state of their own; the loop node, a sequence
of runs of `Scheduler` that share nothing but a value.
