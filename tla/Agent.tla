-------------------------------- MODULE Agent --------------------------------
(***************************************************************************)
(* One execution of an agent node: it asks the model, runs the tools the   *)
(* model calls for, feeds back what they return and asks again, until the  *)
(* model answers or the limit of iterations is reached.  The tools are     *)
(* nodes that the agent executes itself, mcp_call nodes with their         *)
(* approval gate among them (Approvals models the gate).                   *)
(*                                                                         *)
(* The model is external: it may call tools that do not exist, call        *)
(* several at once, and give arguments that are no JSON object.            *)
(***************************************************************************)
EXTENDS Naturals, Sequences, FiniteSets

CONSTANTS
  Tools,          \* tool nodes in the agent's tool_group
  Remote,         \* those that are mcp_call nodes
  Gated,          \* mcp_call nodes with require_approval
  Unknown,        \* another name a model may come up with
  Model, Memory, Group,   \* the other sub-nodes
  SubNodes,       \* those of the three that are connected
  Window,         \* max_messages of the memory
  MaxIterations,
  MaxCalls,       \* bound of the model: tool calls in one response
  Arguments,      \* what arguments the model gives: "object", "other"
  None

ASSUME AgentAssumption ==
  /\ Gated \subseteq Remote /\ Remote \subseteq Tools /\ Unknown \notin Tools
  /\ Model \in SubNodes /\ SubNodes \subseteq {Model, Memory, Group}
  /\ Tools # {} => Group \in SubNodes
  /\ Cardinality({Model, Memory, Group}) = 3 /\ {Model, Memory, Group} \cap Tools = {}
  /\ {Window, MaxIterations} \subseteq Nat \ {0} /\ MaxCalls \in Nat
  /\ Arguments \subseteq {"object", "other"}

VARIABLES
  pc,        \* where execute_agent is
  tries,     \* iterations begun
  messages,
  calls,     \* the calls of the last response that are still to be run
  called,    \* tools_ever_called
  nudged,    \* tool_call_nudge_used
  traces,    \* child_traces
  lit,       \* the sub-nodes shown as active
  record,    \* the node's own trace record
  effects    \* history: the remote calls that came back

conversation == <<messages, calls, called, nudged>>
vars == <<pc, tries, conversation, traces, lit, record, effects>>

(* A call is named by the iteration and its place in the response.         *)
CallIds == (1..MaxIterations) \X (1..MaxCalls)
CallRecord == [id : CallIds, name : Tools \cup {Unknown}, args : Arguments]
Message == [role : {"user", "assistant", "tool"}, calls : Seq(CallRecord), id : CallIds \cup {None}]
Trace == [id : CallIds, ok : BOOLEAN, acted : BOOLEAN]
Record == [outcome : {"answer", "wiring", "limit", "model", "arguments"}, traces : Seq(Trace)]

ASSUME NoneAssumption == None \notin Record

User == [role |-> "user", calls |-> <<>>, id |-> None]
Assistant(cs) == [role |-> "assistant", calls |-> cs, id |-> None]
Result(call) == [role |-> "tool", calls |-> <<>>, id |-> call.id]

Init ==
  /\ pc = "prepare"
  /\ tries = 0
  /\ messages = <<User>> /\ calls = <<>>
  /\ called = FALSE /\ nudged = FALSE
  /\ traces = <<>> /\ lit = {} /\ record = None
  /\ effects = <<>>

-----------------------------------------------------------------------------
(* _execute_node makes the record of what execute_agent returns or raises: *)
(* a failure carries no child traces.                                      *)
Fail(why) == pc' = "over" /\ record' = [outcome |-> why, traces |-> <<>>]
Answer == pc' = "over" /\ record' = [outcome |-> "answer", traces |-> traces]

(* Sub-nodes, the connection and the tools' schemas are looked up.         *)
Prepare ==
  /\ pc = "prepare"
  /\ \/ pc' = "ask" /\ UNCHANGED record
     \/ Fail("wiring")
  /\ UNCHANGED <<tries, conversation, traces, lit, effects>>

(* for _ in range(config.max_iterations)                                   *)
InRange == tries < MaxIterations

Ask ==
  /\ pc = "ask"
  /\ IF InRange
     THEN /\ tries' = tries + 1
          /\ lit' = lit \cup (SubNodes \ {Group})
          /\ pc' = "asking" /\ UNCHANGED record
     ELSE Fail("limit") /\ UNCHANGED <<tries, lit>>
  /\ UNCHANGED <<conversation, traces, effects>>

(* Mutant: one message less. *)
ShortWindow(ms) ==
  IF Memory \in SubNodes /\ Len(ms) >= Window
  THEN SubSeq(ms, Len(ms) - Window + 2, Len(ms)) ELSE ms

(* What of the conversation the model is sent: messages[-max_messages:].   *)
Windowed(ms) ==
  IF Memory \in SubNodes /\ Len(ms) > Window
  THEN SubSeq(ms, Len(ms) - Window + 1, Len(ms)) ELSE ms

ModelIsDone == lit' = lit \ {Model, Memory}

(* Mutant: the model is asked again, and the failure does not count. *)
AskAgain == pc' = "ask" /\ tries' = tries - 1 /\ UNCHANGED record

GiveUp == Fail("model") /\ UNCHANGED tries

ModelFails ==
  /\ pc = "asking"
  /\ GiveUp
  /\ ModelIsDone
  /\ UNCHANGED <<conversation, traces, effects>>

NeedsNudge == Tools # {} /\ ~called /\ ~nudged

(* A response without tool calls: the answer, or once a hint that there    *)
(* are tools.                                                              *)
ModelAnswers ==
  /\ pc = "asking"
  /\ IF NeedsNudge
     THEN /\ nudged' = TRUE
          /\ messages' = messages \o <<Assistant(<<>>), User>>
          /\ pc' = "ask" /\ UNCHANGED record
     ELSE Answer /\ UNCHANGED <<nudged, messages>>
  /\ ModelIsDone
  /\ UNCHANGED <<tries, calls, called, traces, effects>>

Numbered(cs) == [i \in DOMAIN cs |-> [id |-> <<tries, i>>, name |-> cs[i].name, args |-> cs[i].args]]

ModelCalls(cs) ==
  /\ pc = "asking"
  /\ called' = TRUE
  /\ calls' = Numbered(cs)
  /\ messages' = Append(messages, Assistant(Numbered(cs)))
  /\ lit' = (lit \ {Model, Memory}) \cup ({Group} \cap SubNodes)
  /\ pc' = "next"
  /\ UNCHANGED <<tries, nudged, traces, record, effects>>

-----------------------------------------------------------------------------
(* The batch of calls *)

Call == Head(calls)

NextCall ==
  /\ pc = "next" /\ calls # <<>> /\ Call.name \in Tools
  /\ lit' = lit \cup {Call.name}
  /\ pc' = "resolve"
  /\ UNCHANGED <<tries, conversation, traces, record, effects>>

EndBatch ==
  /\ pc = "next" /\ calls = <<>>
  /\ lit' = lit \ {Group}
  /\ pc' = "ask"
  /\ UNCHANGED <<tries, conversation, traces, record, effects>>

(* Mutant: the agent goes on to the next call without telling the model.   *)
Untold(call) == UNCHANGED messages

Tell(call) == messages' = Append(messages, Result(call))

(* Mutant: only what worked is recorded. *)
TraceIfOk(call, ok, acted) ==
  traces' = IF ok THEN Append(traces, [id |-> call.id, ok |-> ok, acted |-> acted]) ELSE traces

TraceCall(call, ok, acted) ==
  traces' = Append(traces, [id |-> call.id, ok |-> ok, acted |-> acted])

(* Mutant: an exception leaves the tool_group lit. *)
ToolOff == lit \ Tools

(* The finally blocks, innermost first. *)
BatchOff == lit \ (Tools \cup {Group})

(* The call's trace record takes an object for its inputs: with anything   *)
(* else its constructor raises, and that ends the node.                    *)
Close(ok, acted) ==
  /\ calls' = Tail(calls)
  /\ IF Call.args = "object"
     THEN /\ TraceCall(Call, ok, acted) /\ Tell(Call)
          /\ lit' = lit \ Tools
          /\ pc' = "next" /\ UNCHANGED record
     ELSE /\ Fail("arguments")
          /\ lit' = BatchOff
          /\ UNCHANGED <<traces, messages>>
  /\ UNCHANGED <<tries, called, nudged>>

UnknownTool ==
  /\ pc = "next" /\ calls # <<>> /\ Call.name \notin Tools
  /\ Close(FALSE, FALSE)
  /\ UNCHANGED effects

(* execute_mcp_call lists the server's tools and converts the arguments;   *)
(* any tool may fail on its arguments.                                     *)
Resolve ==
  /\ pc = "resolve"
  /\ pc' = IF Call.name \in Gated THEN "approve" ELSE "use"
  /\ UNCHANGED <<tries, conversation, traces, lit, record, effects>>

ResolveFails ==
  /\ pc = "resolve"
  /\ Close(FALSE, FALSE) /\ UNCHANGED effects

Approved ==
  /\ pc = "approve"
  /\ pc' = "use"
  /\ UNCHANGED <<tries, conversation, traces, lit, record, effects>>

Declined ==
  /\ pc = "approve"
  /\ Close(FALSE, FALSE) /\ UNCHANGED effects

(* side_effect of the result: TRUE for mcp_call. *)
Acts(call) == call.name \in Remote

Use ==
  /\ pc = "use"
  /\ Close(TRUE, Acts(Call))
  /\ effects' = IF Acts(Call) THEN Append(effects, Call.id) ELSE effects

UseFails ==
  /\ pc = "use"
  /\ Close(FALSE, FALSE) /\ UNCHANGED effects

-----------------------------------------------------------------------------
Responses == UNION {[1..n -> [name : Tools \cup {Unknown}, args : Arguments]] : n \in 1..MaxCalls}

Next ==
  \/ Prepare \/ Ask
  \/ ModelFails \/ ModelAnswers \/ \E cs \in Responses : ModelCalls(cs)
  \/ NextCall \/ EndBatch \/ UnknownTool
  \/ Resolve \/ ResolveFails \/ Approved \/ Declined \/ Use \/ UseFails

Spec == Init /\ [][Next]_vars

(* The thread goes on; model, tools and the person who approves answer.    *)
FairSpec == Spec /\ WF_vars(Next)

-----------------------------------------------------------------------------
(* Properties *)

TypeOK ==
  /\ pc \in {"prepare", "ask", "asking", "next", "resolve", "approve", "use", "over"}
  /\ tries \in 0..MaxIterations
  /\ messages \in Seq(Message) /\ calls \in Seq(CallRecord)
  /\ called \in BOOLEAN /\ nudged \in BOOLEAN
  /\ traces \in Seq(Trace) /\ record \in Record \cup {None} /\ effects \in Seq(CallIds)
  /\ lit \in SUBSET (SubNodes \cup Tools)
  /\ (pc = "over") <=> (record # None)

(* The conversation is one a model accepts: it starts with the task, the   *)
(* hint (agent.py 195, "it can never interfere") comes before any tool     *)
(* call and once, and each call is answered once, in the order of the      *)
(* calls, before anything else is said.                                    *)
ConversationFits ==
  pc \in {"ask", "asking"} =>
    /\ \A i \in DOMAIN messages : messages[i].role = "user" => i \in {1, 3}
    /\ \A i \in DOMAIN messages : \A j \in DOMAIN messages[i].calls :
         i + j <= Len(messages) /\ messages[i + j] = Result(messages[i].calls[j])
    /\ \A i \in DOMAIN messages : messages[i].role = "tool" =>
         \E k \in 1..i-1 : i - k \in DOMAIN messages[k].calls /\ messages[i] = Result(messages[k].calls[i - k])

(* spec-008 73, "the last N messages": as long as the window is longer     *)
(* than a response has calls, the model sees the calls that the results it *)
(* has just been given belong to.                                          *)
NewResultsHaveCalls ==
  pc = "asking" /\ Window > MaxCalls =>
    LET seen == Windowed(messages) IN
    \A i \in DOMAIN messages :
      (\A j \in i+1..Len(messages) : messages[j].role = "tool") =>
        i > Len(messages) - Len(seen)

(* What is shown as active is in use, and nothing once the node is over,   *)
(* however it ended.                                                       *)
LitInUse ==
  /\ lit \cap {Model, Memory} # {} => pc = "asking"
  /\ lit \cap Tools # {} => pc \in {"resolve", "approve", "use"} /\ lit \cap Tools = {Call.name}
  /\ Group \in lit => pc \in {"next", "resolve", "approve", "use"}

(* The record of an agent that answered shows every call it made, in       *)
(* order, with what it did outside (spec-003, "external side effect        *)
(* occurred: yes/no").                                                     *)
Results == {i \in DOMAIN messages : messages[i].role = "tool"}
Acted(ts) == {i \in DOMAIN ts : ts[i].acted}
Rank(places, i) == Cardinality({j \in places : j <= i})

ResultsAreTraced(ts) ==
  Len(ts) = Cardinality(Results) /\ \A i \in Results : ts[Rank(Results, i)].id = messages[i].id

EffectsAreIn(ts) ==
  Len(effects) = Cardinality(Acted(ts)) /\ \A i \in Acted(ts) : effects[Rank(Acted(ts), i)] = ts[i].id

AnswerIsTraced ==
  record # None /\ record.outcome = "answer" =>
    ResultsAreTraced(record.traces) /\ EffectsAreIn(record.traces)

(* The node ends, whatever the model asks for. *)
Ends == <>(pc = "over")

(* spec-008 38, "a normal trace record, which becomes a `child_trace` on   *)
(* the agent's own record": what the tools did outside can be read from    *)
(* the record, however the agent ended.                                    *)
EffectsAreTraced == record # None => EffectsAreIn(record.traces)

(* agent.py 108, "Never raises": no call of a tool ends the agent.         *)
CallsNeverEndIt == record # None => record.outcome \in {"answer", "wiring", "model", "limit"}

-----------------------------------------------------------------------------
(* The inductive invariant behind the safety properties above. *)

InBatch == pc \in {"next", "resolve", "approve", "use"}

(* The calls still to be run are the last ones of one response, and all    *)
(* others have been answered, each at its distance from the response.      *)
CallsAreOpen ==
  pc # "over" =>
    /\ \A i \in DOMAIN messages : \A j \in DOMAIN messages[i].calls :
         IF i + j <= Len(messages) THEN messages[i + j] = Result(messages[i].calls[j])
         ELSE i + j - Len(messages) \in DOMAIN calls /\ calls[i + j - Len(messages)] = messages[i].calls[j]
    /\ calls # <<>> => \E i \in DOMAIN messages : i + Len(messages[i].calls) = Len(messages) + Len(calls)
    /\ \A i \in DOMAIN messages : messages[i].role = "tool" =>
         \E k \in 1..i-1 : i - k \in DOMAIN messages[k].calls /\ messages[i] = Result(messages[k].calls[i - k])

(* The hint is given while the task is all there is.                       *)
HintIsEarly ==
  /\ ~called /\ ~nudged => Len(messages) = 1
  /\ \A i \in DOMAIN messages : messages[i].role = "user" => i \in {1, 3}

Steps ==
  /\ pc \in {"prepare", "ask", "asking"} => calls = <<>>
  /\ InBatch => called
  /\ pc \in {"resolve", "approve", "use"} => calls # <<>> /\ Call.name \in Tools
  /\ pc = "asking" => tries > 0
  /\ \A i \in DOMAIN messages :
       Len(messages[i].calls) <= MaxCalls /\ (messages[i].role = "tool" => messages[i].calls = <<>>)

TracesFit == pc # "over" => ResultsAreTraced(traces) /\ EffectsAreIn(traces)

IInv ==
  /\ TypeOK /\ Steps
  /\ CallsAreOpen /\ HintIsEarly /\ TracesFit
  /\ LitInUse /\ AnswerIsTraced

-----------------------------------------------------------------------------
(* Why a node ends: each step brings Left down.                            *)

(* What a call can take, and what is left of the iteration begun.          *)
CallLength == 4

InIteration ==
  CASE pc = "over" -> 0
    [] pc = "ask" -> 1
    [] pc = "prepare" -> 2
    [] pc = "asking" -> CallLength * MaxCalls + 3
    [] pc = "next" -> CallLength * Len(calls) + 2
    [] pc = "resolve" -> CallLength * Len(calls) + 1
    [] pc = "approve" -> CallLength * Len(calls)
    [] pc = "use" -> CallLength * Len(calls) - 1

IterationLength == CallLength * MaxCalls + 4

Left == (MaxIterations - tries) * IterationLength + InIteration

(* No step of execute_agent leads back without using up a call or an       *)
(* iteration.                                                              *)
EachStepCounts == [][Left' < Left]_vars
=============================================================================
