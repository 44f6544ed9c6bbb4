-------------------------------- MODULE Runs --------------------------------
(***************************************************************************)
(* The record of a run: backend/api/runs.py over _runs in memory and the   *)
(* table of backend/storage/runs_store.py, the poll GET /runs/{run_id} and *)
(* POST /graphs/{graph_id}/invoke, which waits for its run with a timeout. *)
(*                                                                         *)
(* A worker thread writes the record field by field while polls read it    *)
(* field by field, with no lock: the order of the two sequences is all     *)
(* that keeps a reply consistent, so each access is a step of its own.     *)
(* What the engine decides (which nodes make a round, which fail, which    *)
(* sub-nodes an agent calls) is chosen freely; Scheduler models it.        *)
(***************************************************************************)
EXTENDS Integers, Sequences, FiniteSets

CONSTANTS
  RunIds,   \* run ids
  N,        \* number of scheduled nodes of a graph, in list order
  Subs,     \* sub-nodes: models, memories, tool groups, tools
  Clients,  \* pollers
  Invoked,  \* the runs that POST .../invoke starts; the others come from POST /runs or a trigger
  Faults,   \* what may go wrong: "store", "dump", "invalid", "unregistered", "crash"
  None      \* no record, row or reply

NodeIds == 1..N

ASSUME RunsAssumption == N \in Nat /\ Invoked \subseteq RunIds /\ None \notin RunIds

VARIABLES
  records,  \* _runs: the RunRecord of each run
  rows,     \* the table
  task,     \* execute_run of each run
  poll,     \* the GET each client has under way
  told,     \* the last reply each client got
  answer,   \* what POST .../invoke has come to
  lost      \* history: runs whose row was not written, or that a crash cut off

vars == <<records, rows, task, poll, told, answer, lost>>

TraceRecord == [node : NodeIds, error : BOOLEAN]
Statuses    == {"running", "completed", "failed"}

RunRecord == [status : Statuses, running : SUBSET NodeIds, sub : SUBSET Subs,
              trace : Seq(TraceRecord), result : BOOLEAN, error : BOOLEAN]

NewRecord == [status |-> "running", running |-> {}, sub |-> {},
              trace |-> <<>>, result |-> FALSE, error |-> FALSE]

(* json: RunResult.model_dump_json(), which holds the trace.               *)
Row == [status : Statuses, json : Seq(TraceRecord) \cup {None}, error : BOOLEAN]

(* What a client was last told.                                            *)
Told == [run : RunIds, reply : RunRecord \cup {None}]

ASSUME NoneAssumption == None \notin RunRecord \cup Row \cup Told \cup Seq(TraceRecord)

(* threads: nodes being executed; calls: sub-nodes they are using; counts: *)
(* the dict of on_sub_node_activity; commit: nodes still to be reported.   *)
NewTask == [step |-> "none", threads |-> {}, calls |-> {}, counts |-> <<>>,
            commit |-> {}, json |-> None, error |-> FALSE]

Idle == [run |-> None, next |-> 1, got |-> NewRecord]

Init ==
  /\ records = [r \in RunIds |-> None]
  /\ rows = [r \in RunIds |-> None]
  /\ task = [r \in RunIds |-> NewTask]
  /\ poll = [c \in Clients |-> Idle]
  /\ told = [c \in Clients |-> None]
  /\ answer = [r \in RunIds |-> "none"]
  /\ lost = {}

Goto(r, step) == task' = [task EXCEPT ![r].step = step]
At(r, step)   == task[r].step = step

-----------------------------------------------------------------------------
(* create_run: the record first, then the row; a failing INSERT is logged. *)
CreateRun(r) ==
  /\ At(r, "none")
  /\ records' = [records EXCEPT ![r] = NewRecord]
  /\ Goto(r, "insert")
  /\ UNCHANGED <<rows, poll, told, answer, lost>>

CreateRunRecord(r) ==
  /\ At(r, "insert")
  /\ \/ /\ rows' = [rows EXCEPT ![r] = [status |-> "running", json |-> None, error |-> FALSE]]
        /\ UNCHANGED lost
     \/ /\ "store" \in Faults
        /\ lost' = lost \cup {r}
        /\ UNCHANGED rows
  /\ answer' = IF r \in Invoked THEN [answer EXCEPT ![r] = "joining"] ELSE answer
  /\ Goto(r, "start")
  /\ UNCHANGED <<records, poll, told>>

-----------------------------------------------------------------------------
(* execute_run *)

(* run_graph validates once more and may refuse. *)
StartGraph(r) ==
  /\ At(r, "start")
  /\ \/ Goto(r, "loop")
     \/ "invalid" \in Faults /\ Goto(r, "failed")
  /\ UNCHANGED <<records, rows, poll, told, answer, lost>>

Traced(r) == {records[r].trace[i].node : i \in DOMAIN records[r].trace}

(* Mutant: the trace shows the round under way only. *)
ForgetEarlierRounds(record, S) == [record EXCEPT !.running = S, !.trace = <<>>]

AnnounceRound(record, S) == [record EXCEPT !.running = S]

OnRoundStart(r, S) ==
  /\ At(r, "loop")
  /\ S # {} /\ S \subseteq NodeIds \ Traced(r)
  /\ records' = [records EXCEPT ![r] = AnnounceRound(@, S)]
  /\ task' = [task EXCEPT ![r].step = "nodes", ![r].threads = S, ![r].commit = S]
  /\ UNCHANGED <<rows, poll, told, answer, lost>>

(* Mutant: calls are not counted. *)
PlainSet(counts, s, k) ==
  LET ks == IF k > 0 /\ s \notin DOMAIN counts THEN DOMAIN counts \cup {s} ELSE DOMAIN counts \ {s}
  IN [t \in ks |-> 1]

(* counts[s] = k if k > 0 else counts.pop(s) *)
WithCount(counts, s, k) ==
  LET ks == IF k > 0 THEN DOMAIN counts \cup {s} ELSE DOMAIN counts \ {s}
  IN [t \in ks |-> IF t = s THEN k ELSE counts[t]]

CountOf(counts, s) == IF s \in DOMAIN counts THEN counts[s] ELSE 0

(* Under its lock: the count, and the list of keys published from it.      *)
OnSubNodeActivity(r, calls, s, k) ==
  LET counts == WithCount(task[r].counts, s, CountOf(task[r].counts, s) + k) IN
  /\ task' = [task EXCEPT ![r].calls = calls, ![r].counts = counts]
  /\ records' = [records EXCEPT ![r].sub = DOMAIN counts]
  /\ UNCHANGED <<rows, poll, told, answer, lost>>

BeginCall(r, n, s) ==
  /\ At(r, "nodes")
  /\ n \in task[r].threads
  /\ <<n, s>> \notin task[r].calls
  /\ OnSubNodeActivity(r, task[r].calls \cup {<<n, s>>}, s, 1)

EndCall(r, n, s) ==
  /\ At(r, "nodes")
  /\ <<n, s>> \in task[r].calls
  /\ OnSubNodeActivity(r, task[r].calls \ {<<n, s>>}, s, -1)

(* A node's execute() returns or raises; asyncio.gather waits for all.     *)
EndNode(r, n) ==
  LET rest == task[r].threads \ {n} IN
  /\ At(r, "nodes")
  /\ n \in task[r].threads
  /\ \A s \in Subs : <<n, s>> \notin task[r].calls
  /\ task' = [task EXCEPT ![r].threads = rest,
                          ![r].step = IF rest = {} THEN "remove" ELSE "nodes"]
  /\ UNCHANGED <<records, rows, poll, told, answer, lost>>

IsNext(r, n) == n \in task[r].commit /\ \A m \in task[r].commit : n <= m

(* on_trace_record takes the node off running_node_ids, then appends.      *)
RemoveRunning(r, n) ==
  /\ At(r, "remove")
  /\ IsNext(r, n)
  /\ records' = [records EXCEPT ![r].running = @ \ {n}]
  /\ Goto(r, "append")
  /\ UNCHANGED <<rows, poll, told, answer, lost>>

(* The engine then looks the node's type up again: a type that was         *)
(* unregistered in between ends the run in the middle of the round.        *)
AppendTrace(r, n, failed) ==
  LET rest == task[r].commit \ {n} IN
  /\ At(r, "append")
  /\ IsNext(r, n)
  /\ records' = [records EXCEPT ![r].trace = Append(@, [node |-> n, error |-> failed])]
  /\ \/ task' = [task EXCEPT ![r].commit = rest, ![r].step = IF rest = {} THEN "loop" ELSE "remove"]
     \/ /\ "unregistered" \in Faults /\ ~failed
        /\ task' = [task EXCEPT ![r].commit = {}, ![r].step = "failed"]
  /\ UNCHANGED <<rows, poll, told, answer, lost>>

(* run_graph returns: nodes that were not run were skipped. *)
SetResult(r) ==
  /\ At(r, "loop")
  /\ records' = [records EXCEPT ![r].result = TRUE]
  /\ Goto(r, "status")
  /\ UNCHANGED <<rows, poll, told, answer, lost>>

SetCompleted(r) ==
  /\ At(r, "status")
  /\ records' = [records EXCEPT ![r].status = "completed"]
  /\ Goto(r, "dump")
  /\ UNCHANGED <<rows, poll, told, answer, lost>>

DumpResult(r) ==
  /\ At(r, "dump")
  /\ \/ task' = [task EXCEPT ![r].json = records[r].trace, ![r].step = "finally"]
     \/ "dump" \in Faults /\ Goto(r, "failed")
  /\ UNCHANGED <<records, rows, poll, told, answer, lost>>

SetFailed(r) ==
  /\ At(r, "failed")
  /\ records' = [records EXCEPT ![r].status = "failed"]
  /\ Goto(r, "error")
  /\ UNCHANGED <<rows, poll, told, answer, lost>>

SetError(r) ==
  /\ At(r, "error")
  /\ records' = [records EXCEPT ![r].error = TRUE]
  /\ task' = [task EXCEPT ![r].error = TRUE, ![r].step = "finally"]
  /\ UNCHANGED <<rows, poll, told, answer, lost>>

ClearRunning(r) ==
  /\ At(r, "finally")
  /\ records' = [records EXCEPT ![r].running = {}]
  /\ Goto(r, "sub")
  /\ UNCHANGED <<rows, poll, told, answer, lost>>

ClearSub(r) ==
  /\ At(r, "sub")
  /\ records' = [records EXCEPT ![r].sub = {}]
  /\ Goto(r, "update")
  /\ UNCHANGED <<rows, poll, told, answer, lost>>

(* Mutant: a failed run keeps the row it has. *)
UpdateCompleted(r) ==
  IF rows[r] = None \/ task[r].error THEN rows
  ELSE [rows EXCEPT ![r] = [status |-> records[r].status, json |-> task[r].json, error |-> FALSE]]

(* UPDATE ... WHERE run_id = ? *)
Updated(r) ==
  IF rows[r] = None THEN rows
  ELSE [rows EXCEPT ![r] = [status |-> records[r].status, json |-> task[r].json,
                            error |-> task[r].error]]

CompleteRunRecord(r) ==
  /\ At(r, "update")
  /\ \/ rows' = Updated(r) /\ UNCHANGED lost
     \/ "store" \in Faults /\ lost' = lost \cup {r} /\ UNCHANGED rows
  /\ Goto(r, "over")
  /\ UNCHANGED <<records, poll, told, answer>>

-----------------------------------------------------------------------------
(* GET /runs/{run_id} *)

(* The order in which get_run_snapshot reads the record. *)
Fields == <<"status", "running", "sub", "trace", "result", "error">>

ReplyFromRow(row) ==
  IF row = None THEN None
  ELSE [NewRecord EXCEPT !.status = row.status, !.error = row.error,
                         !.trace = IF row.json = None THEN <<>> ELSE row.json,
                         !.result = row.json # None]

(* A client knows a run id once POST /runs has returned it, or from the    *)
(* list of runs.  A run that is not in memory is looked up in the table.   *)
GetRun(c, r) ==
  /\ poll[c] = Idle
  /\ ~At(r, "none") /\ ~At(r, "insert")
  /\ IF records[r] # None
     THEN poll' = [poll EXCEPT ![c] = [Idle EXCEPT !.run = r]] /\ UNCHANGED told
     ELSE told' = [told EXCEPT ![c] = [run |-> r, reply |-> ReplyFromRow(rows[r])]] /\ UNCHANGED poll
  /\ UNCHANGED <<records, rows, task, answer, lost>>

(* Mutant: the status is read last, after what it speaks of. *)
FieldsStatusLast == <<"running", "sub", "trace", "result", "error", "status">>

ReadAs(order, c) ==
  LET p == poll[c]  f == order[p.next] IN
  [p EXCEPT !.got[f] = records[p.run][f], !.next = p.next + 1]

StatusLast(c) == ReadAs(FieldsStatusLast, c)
NextField(c)  == ReadAs(Fields, c)

ReadField(c) ==
  /\ poll[c] # Idle /\ poll[c].next \in DOMAIN Fields
  /\ poll' = [poll EXCEPT ![c] = NextField(c)]
  /\ UNCHANGED <<records, rows, task, told, answer, lost>>

Reply(c) ==
  /\ poll[c] # Idle /\ poll[c].next \notin DOMAIN Fields
  /\ told' = [told EXCEPT ![c] = [run |-> poll[c].run, reply |-> poll[c].got]]
  /\ poll' = [poll EXCEPT ![c] = Idle]
  /\ UNCHANGED <<records, rows, task, answer, lost>>

-----------------------------------------------------------------------------
(* POST /graphs/{graph_id}/invoke *)

(* thread.join(timeout_seconds) returns: the thread is over, or time is.   *)
JoinReturns(r) ==
  /\ answer[r] = "joining"
  /\ answer' = [answer EXCEPT ![r] = "checking"]
  /\ UNCHANGED <<records, rows, task, poll, told, lost>>

SomeFailed(r) == \E i \in DOMAIN records[r].trace : records[r].trace[i].error

(* Mutant: the answer is taken from the snapshot whatever join() was. *)
AnswerNow(r) ==
  IF records[r].status = "failed" THEN "failed"
  ELSE IF SomeFailed(r) THEN "node failed" ELSE "outputs"

AnswerFor(r) ==
  IF ~At(r, "over") THEN "timeout"
  ELSE IF records[r].status = "failed" THEN "failed"
  ELSE IF SomeFailed(r) THEN "node failed" ELSE "outputs"

Answer(r) ==
  /\ answer[r] = "checking"
  /\ answer' = [answer EXCEPT ![r] = AnswerFor(r)]
  /\ UNCHANGED <<records, rows, task, poll, told, lost>>

-----------------------------------------------------------------------------
UnderWay(r) == task[r].step \notin {"none", "over", "dead"}

(* The process dies and another starts: only the table is left.            *)
Crash ==
  /\ "crash" \in Faults
  /\ \E r \in RunIds : records[r] # None
  /\ records' = [r \in RunIds |-> None]
  /\ task' = [r \in RunIds |-> IF UnderWay(r) THEN [NewTask EXCEPT !.step = "dead"] ELSE task[r]]
  /\ lost' = lost \cup {r \in RunIds : UnderWay(r)}
  /\ poll' = [c \in Clients |-> Idle]
  /\ told' = [c \in Clients |-> None]
  /\ answer' = [r \in RunIds |-> IF answer[r] \in {"joining", "checking"} THEN "gone" ELSE answer[r]]
  /\ UNCHANGED rows

RunStep(r) ==
  \/ CreateRun(r) \/ CreateRunRecord(r) \/ StartGraph(r)
  \/ \E S \in SUBSET NodeIds : OnRoundStart(r, S)
  \/ \E n \in NodeIds, s \in Subs : BeginCall(r, n, s) \/ EndCall(r, n, s)
  \/ \E n \in NodeIds : EndNode(r, n) \/ RemoveRunning(r, n)
  \/ \E n \in NodeIds, failed \in BOOLEAN : AppendTrace(r, n, failed)
  \/ SetResult(r) \/ SetCompleted(r) \/ DumpResult(r) \/ SetFailed(r) \/ SetError(r)
  \/ ClearRunning(r) \/ ClearSub(r) \/ CompleteRunRecord(r)

Next ==
  \/ \E r \in RunIds : RunStep(r) \/ JoinReturns(r) \/ Answer(r)
  \/ \E c \in Clients, r \in RunIds : GetRun(c, r)
  \/ \E c \in Clients : ReadField(c) \/ Reply(c)
  \/ Crash

Spec == Init /\ [][Next]_vars

-----------------------------------------------------------------------------
(* Properties *)

TaskSteps == {"none", "insert", "start", "loop", "nodes", "remove", "append", "status", "dump",
              "failed", "error", "finally", "sub", "update", "over", "dead"}

(* counts is a dict: a key is bound to the number of nodes using it.       *)
Counts == UNION {[S -> NodeIds] : S \in SUBSET Subs}

Tasks == [step : TaskSteps, threads : SUBSET NodeIds, calls : SUBSET (NodeIds \X Subs),
          counts : Counts, commit : SUBSET NodeIds, json : Seq(TraceRecord) \cup {None},
          error : BOOLEAN]

TypeOK ==
  /\ records \in [RunIds -> RunRecord \cup {None}]
  /\ rows \in [RunIds -> Row \cup {None}]
  /\ task \in [RunIds -> Tasks]
  /\ poll \in [Clients -> [run : RunIds \cup {None}, next : 1..(Len(Fields) + 1), got : RunRecord]]
  /\ told \in [Clients -> Told \cup {None}]
  /\ answer \in [RunIds -> {"none", "joining", "checking", "timeout", "failed", "node failed",
                            "outputs", "gone"}]
  /\ lost \in SUBSET RunIds

Replies == {told[c] : c \in Clients} \ {None}

(* runs.py, get_run_snapshot: a client that reads "completed" reads the    *)
(* whole result with it, and sees no node or sub-node as still running,    *)
(* although the fields are read one by one while the worker writes them.   *)
(* It stops polling there, so this reply is what it shows for good.        *)
CompletedIsWhole ==
  \A t \in Replies : t.reply # None /\ t.reply.status = "completed" =>
    /\ t.reply.result
    /\ t.reply.running = {} /\ t.reply.sub = {}
    /\ records[t.run] # None => t.reply.trace = records[t.run].trace
    /\ records[t.run] = None => t.reply.trace = rows[t.run].json

Terminal(status) == status \in {"completed", "failed"}

IsPrefixOf(s, t) == Len(s) <= Len(t) /\ \A i \in DOMAIN s : s[i] = t[i]

Forward(old, new) ==
  old # None /\ new # None /\ new.run = old.run /\ new.reply # None /\ old.reply # None =>
    /\ IsPrefixOf(old.reply.trace, new.reply.trace)
    /\ Terminal(old.reply.status) => Terminal(new.reply.status)

(* From one poll to the next a run only goes forward: no trace record is   *)
(* taken back, and a run that was reported over is not running again.      *)
(* Holds as long as the process lives: a crash starts a new count.         *)
PollsGoForward == [][\A c \in Clients : Forward(told[c], told'[c])]_vars

(* active_sub_node_ids names exactly the sub-nodes some node is using at   *)
(* the moment, also when two agents share a model or a tool.               *)
SubNodesShown ==
  \A r \in RunIds : records[r] # None =>
    records[r].sub = {s \in Subs : \E n \in NodeIds : <<n, s>> \in task[r].calls}

(* specs/010: a run that is over is in the table as it ended, unless one   *)
(* of its two writes failed, and a row says running only while the run is  *)
(* under way.                                                              *)
RecordedWhenOver ==
  \A r \in RunIds \ lost :
    /\ At(r, "over") =>
         /\ rows[r] # None /\ Terminal(rows[r].status)
         /\ rows[r].status = "completed" <=> rows[r].json # None
         /\ rows[r].status = "failed" <=> rows[r].error
         /\ records[r] # None =>
              /\ rows[r].status = records[r].status
              /\ rows[r].json # None => rows[r].json = records[r].trace
    /\ rows[r] # None /\ rows[r].status = "running" => UnderWay(r)

(* app.py, invoke_graph: outputs are returned only for a run that is over, *)
(* completed and without a failed node, and a failure is reported as what  *)
(* it was, whenever the timeout fell.                                      *)
InvokeTellsTruth ==
  \A r \in Invoked : records[r] # None =>
    /\ answer[r] = "outputs" => At(r, "over") /\ records[r].status = "completed" /\ ~SomeFailed(r)
    /\ answer[r] = "node failed" => records[r].status = "completed" /\ SomeFailed(r)
    /\ answer[r] = "failed" => records[r].status = "failed"

-----------------------------------------------------------------------------
(* The inductive invariant behind the safety properties above. *)

Ending == {"finally", "sub", "update", "over"}

(* The counts of on_sub_node_activity, and that only nodes being executed  *)
(* use sub-nodes.                                                          *)
Users(r, s) == {n \in NodeIds : <<n, s>> \in task[r].calls}

CallsAreCounted(r) ==
  /\ \A s \in Subs :
       /\ s \in DOMAIN task[r].counts <=> Users(r, s) # {}
       /\ s \in DOMAIN task[r].counts => task[r].counts[s] = Cardinality(Users(r, s))
  /\ task[r].calls \subseteq task[r].threads \X Subs
  /\ task[r].threads # {} => At(r, "nodes")

(* Which fields execute_run has written where it is.                       *)
RecordFits(r) ==
  LET t == task[r]  record == records[r] IN
  /\ UnderWay(r) => record # None
  /\ t.step = "dead" => record = None
  /\ t.step \notin Ending => t.json = None /\ ~t.error
  /\ record # None =>
       /\ t.step \in {"insert", "start", "loop", "nodes", "remove", "append", "status"} => record.status = "running"
       /\ t.step \in {"insert", "start", "loop", "status"} => record.running = {}
       /\ t.step \in {"nodes", "remove", "append"} => record.running \subseteq t.commit
       /\ t.step = "append" => \A n \in NodeIds : IsNext(r, n) => n \notin record.running
       /\ t.step = "status" => record.result
       /\ t.step = "dump" => record.status = "completed"
       /\ t.step = "error" => record.status = "failed"
       /\ t.step \in Ending =>
            /\ record.status = IF t.error THEN "failed" ELSE "completed"
            /\ t.json = IF t.error THEN None ELSE record.trace
       /\ record.status = "completed" => record.result /\ record.running = {}

(* A run the worker will append no trace record to.                        *)
Settled(r) ==
  /\ task[r].step \in Ending \cup {"dump", "failed", "error"}
  /\ records[r].result /\ records[r].running = {} /\ records[r].sub = {}

(* A poll under way: what it has read cannot be overtaken.                 *)
PollFits(c) ==
  LET p == poll[c]  r == p.run IN
  /\ r = None => p = Idle
  /\ r # None =>
       /\ records[r] # None /\ ~At(r, "none") /\ ~At(r, "insert")
       /\ p.next = 1 => p.got.status = "running"
       /\ p.next <= 2 => p.got.running = {}
       /\ p.next <= 3 => p.got.sub = {}
       /\ Terminal(p.got.status) => Terminal(records[r].status)
       /\ p.next > 4 => IsPrefixOf(p.got.trace, records[r].trace)
       /\ p.got.status = "completed" =>
            /\ Settled(r)
            /\ p.got.running = {} /\ p.got.sub = {}
            /\ p.next > 4 => p.got.trace = records[r].trace
            /\ p.next > 5 => p.got.result

(* The last reply is behind the record, or the row, and behind what the    *)
(* client's next poll has read of it.                                      *)
ToldFits(c) ==
  LET t == told[c]  r == t.run IN
  t # None =>
    /\ ~At(r, "none") /\ ~At(r, "insert")
    /\ records[r] = None => t.reply = ReplyFromRow(rows[r])
    /\ records[r] # None =>
         /\ t.reply # None
         /\ IsPrefixOf(t.reply.trace, records[r].trace)
         /\ Terminal(t.reply.status) => Terminal(records[r].status)
         /\ t.reply.status = "completed" =>
              /\ Settled(r)
              /\ t.reply.result /\ t.reply.running = {} /\ t.reply.sub = {}
              /\ t.reply.trace = records[r].trace
    /\ poll[c].run = r =>
         /\ poll[c].next > 1 /\ Terminal(t.reply.status) => Terminal(poll[c].got.status)
         /\ poll[c].next > 4 => IsPrefixOf(t.reply.trace, poll[c].got.trace)

RowFits(r) ==
  /\ rows[r] # None /\ rows[r].status = "completed" => rows[r].json # None
  /\ r \notin lost =>
       /\ task[r].step # "dead"
       /\ task[r].step \in {"none", "insert"} => rows[r] = None
       /\ UnderWay(r) /\ ~At(r, "insert") =>
            rows[r] = [status |-> "running", json |-> None, error |-> FALSE]

AnswerFits(r) ==
  /\ answer[r] \in {"joining", "checking"} => records[r] # None
  /\ answer[r] \in {"failed", "node failed", "outputs"} => At(r, "over")

IInv ==
  /\ TypeOK
  /\ \A r \in RunIds : CallsAreCounted(r) /\ RecordFits(r) /\ RowFits(r) /\ AnswerFits(r)
  /\ \A c \in Clients : PollFits(c) /\ ToldFits(c)
  /\ SubNodesShown /\ RecordedWhenOver /\ InvokeTellsTruth
=============================================================================
