------------------------------ MODULE Scheduler ------------------------------
(***************************************************************************)
(* The round-based scheduler of backend/execution/engine.py: one run of    *)
(* _run_graph_async over a validated graph.                                *)
(*                                                                         *)
(* A round scans the pending nodes in list order (ScanNode), announces and *)
(* starts the ready ones together (StartRound), waits for all of them      *)
(* (FinishNode, in any order: each runs in a worker thread) and commits    *)
(* the results one by one in the order of submission (CommitNode).         *)
(* A value is abstracted to the output slot it came from; which slots a    *)
(* node fires, and whether it raises, is chosen freely.                    *)
(***************************************************************************)
EXTENDS GraphSpec

CONSTANT Graphs  \* the graphs a run may be given

ASSUME GraphsAssumption == \A g \in Graphs : g \in GraphRecord /\ ValidGraph(g)

VARIABLES
  graph,      \* the graph of this run, fixed by Init
  phase,      \* where the loop is: "loop" | "scan" | "run" | "commit" | "done"
  cursor,     \* position the scan of list(pending) has reached
  pending,    \* nodes not yet finished
  finished,   \* nodes that ran, failed or were skipped
  available,  \* output slots that hold a value
  ready,      \* nodes of this round not yet committed
  gathered,   \* the input slots gathered for each node of this round
  running,    \* nodes whose execute() has not returned yet
  outcome,    \* what execute() of each node of this round did
  trace,      \* the trace records, in order
  result,     \* nodes with an entry in RunResult.result
  rounds      \* the node sets on_round_start announced, in order

vars == <<graph, phase, cursor, pending, finished, available, ready, gathered,
          running, outcome, trace, result, rounds>>

Outcome == [error : BOOLEAN, outputs : SUBSET OutSlots]
NoOutcome == [error |-> TRUE, outputs |-> {}]

TraceRecord == [node : NodeIds, inputs : SUBSET InSlots, outputs : SUBSET OutSlots,
                error : BOOLEAN]

Traced == {trace[i].node : i \in DOMAIN trace}

(* Nodes this scheduler schedules at all. *)
Scheduled == NodeIds \ graph.subNodes

-----------------------------------------------------------------------------
(* gather_inputs *)

Declared(n, s) == graph.slots[n][s] # "undeclared"

(* The slot has a value now: a literal, or the output it is wired to. *)
Gathers(n, s) ==
  /\ Declared(n, s)
  /\ IF Wired(graph, n, s) THEN Source(graph, n, s) \in available
                           ELSE <<n, s>> \in graph.literals

(* Nothing can fill the slot any more: no edge, or the edge's source is    *)
(* finished and never produced that output.                                *)
Dead(n, s) ==
  /\ ~Gathers(n, s)
  /\ Wired(graph, n, s) => Incoming(graph, n, s).from \in finished

Blocks(n, s) == graph.slots[n][s] = "required" /\ Dead(n, s)
Waits(n, s)  == Declared(n, s) /\ ~Gathers(n, s) /\ ~Dead(n, s)

(* Mutants: optional slots block like required ones; optional slots are    *)
(* not waited for; no slot is waited for.                                  *)
BlockedByOptional(n) == \E s \in InSlots : Declared(n, s) /\ Dead(n, s) /\ Wired(graph, n, s)
ReadyOptionalEager(n) ==
  \A s \in InSlots : ~Blocks(n, s) /\ (graph.slots[n][s] = "required" => ~Waits(n, s))
ReadyEager(n) == \A s \in InSlots : ~Blocks(n, s)

(* The slots are looked at in order and the first one that blocks or waits *)
(* decides.                                                                *)
Blocked(n) == \E s \in InSlots : Blocks(n, s) /\ \A t \in InSlots : t < s => ~Waits(n, t)
Ready(n)   == \A s \in InSlots : ~Blocks(n, s) /\ ~Waits(n, s)

-----------------------------------------------------------------------------
Init ==
  /\ graph \in Graphs
  /\ phase = "loop"
  /\ cursor = 1
  /\ pending = Scheduled
  /\ finished = {}
  /\ available = {}
  /\ ready = {}
  /\ gathered = [n \in NodeIds |-> {}]
  /\ running = {}
  /\ outcome = [n \in NodeIds |-> NoOutcome]
  /\ trace = <<>>
  /\ result = {}
  /\ rounds = <<>>

(* while pending: ... *)
BeginRound ==
  /\ phase = "loop"
  /\ pending # {}
  /\ phase' = "scan"
  /\ cursor' = 1
  /\ ready' = {}
  /\ UNCHANGED <<graph, pending, finished, available, gathered, running, outcome,
                 trace, result, rounds>>

(* Mutants: a finished node stays pending; a node leaves pending without   *)
(* being marked finished.                                                  *)
RetireKeepsPending(n) == pending' = pending /\ finished' = finished \cup {n}
RetireUnmarked(n) == pending' = pending \ {n} /\ finished' = finished

Retire(n) == pending' = pending \ {n} /\ finished' = finished \cup {n}

ScanNode(n) ==
  /\ phase = "scan"
  /\ n \in pending
  /\ cursor <= n
  /\ \A m \in pending : cursor <= m => n <= m
  /\ cursor' = n + 1
  /\ \/ /\ Blocked(n)
        /\ Retire(n)
        /\ UNCHANGED <<ready, gathered>>
     \/ /\ Ready(n)
        /\ ready' = ready \cup {n}
        /\ gathered' = [gathered EXCEPT ![n] = {s \in InSlots : Gathers(n, s)}]
        /\ UNCHANGED <<pending, finished>>
     \/ /\ ~Blocked(n) /\ ~Ready(n)
        /\ UNCHANGED <<pending, finished, ready, gathered>>
  /\ UNCHANGED <<graph, phase, available, running, outcome, trace, result, rounds>>

ScanOver == phase = "scan" /\ \A m \in pending : m < cursor

(* The scan found something to run: announce it and start it all. *)
StartRound ==
  /\ ScanOver
  /\ ready # {}
  /\ phase' = "run"
  /\ running' = ready
  /\ rounds' = Append(rounds, ready)
  /\ UNCHANGED <<graph, cursor, pending, finished, available, ready, gathered, outcome,
                 trace, result>>

(* Mutant: an empty round goes back to the head of the loop.                *)
RetryWhenNothingReady ==
  /\ ScanOver
  /\ ready = {}
  /\ phase' = "loop"
  /\ UNCHANGED <<graph, cursor, pending, finished, available, ready, gathered, running,
                 outcome, trace, result, rounds>>

(* if not ready: break.  Taken also when the scan just skipped the last    *)
(* pending nodes.                                                          *)
SafetyNetBreak ==
  /\ ScanOver
  /\ ready = {}
  /\ phase' = "done"
  /\ UNCHANGED <<graph, cursor, pending, finished, available, ready, gathered, running,
                 outcome, trace, result, rounds>>

(* A worker thread comes back, with the outputs that fired or an exception. *)
FinishNode(n, o) ==
  /\ phase = "run"
  /\ n \in running
  /\ o.error => o.outputs = {}
  /\ running' = running \ {n}
  /\ outcome' = [outcome EXCEPT ![n] = o]
  /\ phase' = IF running' = {} THEN "commit" ELSE "run"
  /\ UNCHANGED <<graph, cursor, pending, finished, available, ready, gathered, trace,
                 result, rounds>>

(* Mutant: results are committed in the order threads come back. *)
IsNextToReturn(n) == TRUE

(* gather returns the results in the order the nodes were submitted.       *)
IsNext(n) == \A m \in ready : n <= m

AppendRecord(n) ==
  trace' = Append(trace, [node |-> n, inputs |-> gathered[n],
                          outputs |-> outcome[n].outputs, error |-> outcome[n].error])

CommitOutputs(n) == available' = available \cup ({n} \X outcome[n].outputs)

CommitNode(n) ==
  /\ phase = "commit"
  /\ n \in ready
  /\ IsNext(n)
  /\ ready' = ready \ {n}
  /\ Retire(n)
  /\ AppendRecord(n)
  /\ CommitOutputs(n)
  /\ result' = IF ~outcome[n].error /\ n \in graph.sinks THEN result \cup {n} ELSE result
  /\ phase' = IF ready' = {} THEN "loop" ELSE "commit"
  /\ UNCHANGED <<graph, cursor, gathered, running, outcome, rounds>>

EndRun ==
  /\ phase = "loop"
  /\ pending = {}
  /\ phase' = "done"
  /\ UNCHANGED <<graph, cursor, pending, finished, available, ready, gathered, running,
                 outcome, trace, result, rounds>>

Next ==
  \/ BeginRound
  \/ \E n \in NodeIds : ScanNode(n)
  \/ StartRound
  \/ SafetyNetBreak
  \/ \E n \in NodeIds, o \in Outcome : FinishNode(n, o)
  \/ \E n \in NodeIds : CommitNode(n)
  \/ EndRun

Spec == Init /\ [][Next]_vars

(* The event loop keeps running the coroutine, and every node's execute()  *)
(* returns or raises: asyncio.gather waits for all of them.                *)
FairSpec == Spec /\ WF_vars(Next)
-----------------------------------------------------------------------------
(* Properties *)

TypeOK ==
  /\ graph \in GraphRecord
  /\ phase \in {"loop", "scan", "run", "commit", "done"}
  /\ cursor \in 1..(N + 1)
  /\ pending \in SUBSET NodeIds
  /\ finished \in SUBSET NodeIds
  /\ available \in SUBSET (NodeIds \X OutSlots)
  /\ ready \in SUBSET NodeIds
  /\ gathered \in [NodeIds -> SUBSET InSlots]
  /\ running \in SUBSET NodeIds
  /\ outcome \in [NodeIds -> Outcome]
  /\ trace \in Seq(TraceRecord)
  /\ result \in SUBSET NodeIds
  /\ rounds \in Seq(SUBSET NodeIds)

(* A node is executed at most once in a run, whatever happens around it:   *)
(* its record appears once in the trace.                                   *)
AtMostOnce ==
  \A i, j \in DOMAIN trace : trace[i].node = trace[j].node => i = j

Fired(i, src) == trace[i].node = src[1] /\ src[2] \in trace[i].outputs

(* A node only ever sees values that an earlier record of the trace put    *)
(* out, through the edge wired to that slot, and sees all its required     *)
(* inputs: nothing downstream of a failed node or of an unfired branch     *)
(* runs.                                                                   *)
CausalInputs ==
  \A i \in DOMAIN trace : \A s \in InSlots :
    LET n == trace[i].node IN
    /\ s \in trace[i].inputs /\ Wired(graph, n, s) =>
         \E j \in 1..(i - 1) : Fired(j, Source(graph, n, s))
    /\ graph.slots[n][s] = "required" => s \in trace[i].inputs

(* A node never starts while something wired to it may still fire: an      *)
(* input left out of a record, an optional one too, is one whose source    *)
(* never produces it in the whole run.                                     *)
InputsComplete ==
  \A i, j \in DOMAIN trace : \A s \in InSlots :
    LET n == trace[i].node IN
    Wired(graph, n, s) /\ Fired(j, Source(graph, n, s)) => s \in trace[i].inputs

(* A node the scheduler gave up on has a required slot that stays empty    *)
(* for good: its source is finished and has no such output.  (Blocking     *)
(* looks at finished and available in the middle of a scan.)               *)
SkippedForCause ==
  \A n \in finished \ Traced : \E s \in InSlots :
    /\ graph.slots[n][s] = "required"
    /\ Wired(graph, n, s)
    /\ Incoming(graph, n, s).from \in finished
    /\ Source(graph, n, s) \notin available

(* The order of the trace does not depend on which worker thread came back *)
(* first: records follow the announced rounds, and inside a round the list *)
(* order of the nodes.                                                     *)
TraceFollowsRounds ==
  \A i, j \in DOMAIN trace : i < j =>
    \E a, b \in DOMAIN rounds :
      /\ trace[i].node \in rounds[a] /\ trace[j].node \in rounds[b]
      /\ a < b \/ (a = b /\ trace[i].node < trace[j].node)

(* When the data edges go forward in graph.nodes and none leaves a         *)
(* sub-node, the run leaves no node undecided: each was run or skipped.    *)
NothingLost ==
  phase = "done" /\ ListedInDataOrder(graph) /\ NoDataFromSubNodes(graph) => pending = {}

(* engine.py 183, at the break: "Nothing left can ever become ready".      *)
NothingLeftCouldRun ==
  phase = "done" => \A n \in pending : ~Ready(n)

(* Every run ends, whatever its graph and whichever nodes fail.            *)
Termination == <>(phase = "done")

(* The fate of each node, as the rest of the system sees it in the trace.  *)
FateOf(n) ==
  IF \E i \in DOMAIN trace : trace[i].node = n
  THEN IF \E i \in DOMAIN trace : trace[i].node = n /\ trace[i].error THEN "failed" ELSE "ran"
  ELSE IF n \in finished THEN "skipped" ELSE "pending"

DF == INSTANCE Dataflow WITH fate <- [n \in NodeIds |-> FateOf(n)], fired <- available

(* Rounds, scans and worker threads implement the dataflow promise: no     *)
(* node is decided twice, early or without cause.                          *)
ImplementsDataflow == DF!Spec

-----------------------------------------------------------------------------
(* The inductive invariant behind the safety properties above. *)

(* Every scheduled node is either pending or finished; what is being run   *)
(* is pending.                                                             *)
Partition ==
  /\ pending \cup finished = Scheduled
  /\ pending \cap finished = {}
  /\ ready \subseteq pending
  /\ running \subseteq ready
  /\ phase # "run" => running = {}
  /\ Traced \subseteq finished

(* available holds exactly what the trace records put out. *)
AvailableIsTraced ==
  \A m \in NodeIds, o \in OutSlots :
    <<m, o>> \in available <=> \E j \in DOMAIN trace : Fired(j, <<m, o>>)

(* The decision to run n with the input slots `inputs` is still right: the *)
(* slots left out belong to finished nodes that did not fill them.         *)
Justified(n, inputs) ==
  \A s \in InSlots :
    /\ Wired(graph, n, s) /\ s \notin inputs =>
         /\ Incoming(graph, n, s).from \in finished
         /\ Source(graph, n, s) \notin available
    /\ graph.slots[n][s] = "required" => s \in inputs

GatheredJustified ==
  \A n \in ready : /\ Justified(n, gathered[n])
                   /\ \A s \in gathered[n] :
                         Wired(graph, n, s) => Source(graph, n, s) \in available

RecordsJustified ==
  \A i \in DOMAIN trace : Justified(trace[i].node, trace[i].inputs)

IInv ==
  /\ TypeOK
  /\ Partition
  /\ AvailableIsTraced
  /\ GatheredJustified
  /\ RecordsJustified
  /\ CausalInputs
  /\ SkippedForCause
  /\ AtMostOnce

(* For NothingLost: on a graph listed in data order, a pending node the    *)
(* scan has passed is ready or waits for an earlier pending node.           *)
ScanFresh ==
  /\ phase = "scan" =>
       \A n \in pending \ ready : n < cursor =>
         \E s \in InSlots : Wired(graph, n, s) /\ Incoming(graph, n, s).from \notin finished
  /\ phase = "done" =>
       \A n \in pending :
         \E s \in InSlots : Wired(graph, n, s) /\ Incoming(graph, n, s).from \notin finished

OrderedInv == ListedInDataOrder(graph) => ScanFresh

(* For TraceFollowsRounds: what is being run was announced last, and what  *)
(* is traced was announced before it or stands before it in the list.      *)
RoundsFit ==
  /\ phase \in {"run", "commit"} => rounds # <<>> /\ ready \subseteq rounds[Len(rounds)]
  /\ \A i \in DOMAIN trace : \E a \in DOMAIN rounds :
       /\ trace[i].node \in rounds[a]
       /\ phase \in {"run", "commit"} => a < Len(rounds) \/ \A m \in ready : trace[i].node < m

(* For the refinement: a node that raised has put out nothing.             *)
FailuresAreEmpty == \A n \in NodeIds : outcome[n].error => outcome[n].outputs = {}

OrderInv == RoundsFit /\ TraceFollowsRounds /\ FailuresAreEmpty

-----------------------------------------------------------------------------
(* Why a run ends: until it is done some step can be taken, and each step  *)
(* brings Left down.                                                       *)

(* How far the loop has got since it was last at its head.                 *)
Stage ==
  CASE phase = "loop" -> 0
    [] phase = "scan" -> cursor
    [] phase = "run" -> 2 * N + 2 - Cardinality(running)
    [] phase = "commit" -> 2 * N + 2
    [] phase = "done" -> 2 * N + 3

RoundLength == 2 * N + 4

Left == Cardinality(pending) * RoundLength + (2 * N + 3 - Stage)

(* A step of _run_graph_async retires a node or takes the round further.   *)
EachStepCounts == [][Left' < Left]_vars

(* The guards of the steps.                                                *)
CanGoOn ==
  \/ phase = "loop"
  \/ \E n \in pending : phase = "scan" /\ cursor <= n /\ \A m \in pending : cursor <= m => n <= m
  \/ ScanOver
  \/ phase = "run" /\ running # {}
  \/ phase = "commit" /\ \E n \in ready : IsNext(n)

(* The loop of _run_graph_async waits for nothing that does not come.      *)
NeverStuck == phase # "done" => CanGoOn

(* A round is only begun with something to run (engine.py 182).            *)
RoundsAreNotEmpty == (phase = "run" => running # {}) /\ (phase = "commit" => ready # {})
=============================================================================
