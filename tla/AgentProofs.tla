----------------------------- MODULE AgentProofs -----------------------------
(***************************************************************************)
(* Theorems about the agent node, for any tools, limits and windows, and   *)
(* whatever the model answers.                                             *)
(***************************************************************************)
EXTENDS Agent, SequenceTheorems, FiniteSetTheorems, TLAPS

(* The three sub-nodes are different nodes, and no tools.                  *)
LEMMA SubNodesDiffer ==
  /\ Model # Memory /\ Model # Group /\ Memory # Group
  /\ Model \notin Tools /\ Memory \notin Tools /\ Group \notin Tools
<1>1. Cardinality({Model, Memory, Group}) = 3
  BY AgentAssumption
<1>2. ASSUME NEW a, NEW b PROVE Cardinality({a, b}) # 3
  <2>1. IsFiniteSet({a}) /\ Cardinality({a}) = 1
    BY FS_Singleton
  <2>2. {a, b} = {a} \cup {b}
    OBVIOUS
  <2> QED BY <2>1, <2>2, FS_AddElement
<1>3. Model # Memory /\ Model # Group /\ Memory # Group
  <2>1. Cardinality({Model, Group}) # 3 /\ Cardinality({Model, Memory}) # 3
    BY <1>2
  <2>2. Model = Memory => {Model, Memory, Group} = {Model, Group}
    OBVIOUS
  <2>3. Model = Group \/ Memory = Group => {Model, Memory, Group} = {Model, Memory}
    OBVIOUS
  <2> QED BY <1>1, <2>1, <2>2, <2>3
<1> QED BY <1>3, AgentAssumption

LEMMA OutcomeType ==
  ASSUME NEW why \in {"wiring", "limit", "model", "arguments"}, Fail(why)
  PROVE  pc' = "over" /\ record' \in Record /\ record' # None /\ record'.outcome = why
<1>1. <<>> \in Seq(Trace)
  BY EmptySeq
<1>2. [outcome |-> why, traces |-> <<>>] \in Record
  BY <1>1 DEF Record
<1> QED BY <1>2, NoneAssumption DEF Fail

(* What Close does to the calls, the conversation and the traces.          *)
LEMMA Closes ==
  ASSUME TypeOK, calls # <<>>, NEW ok \in BOOLEAN, NEW acted \in BOOLEAN, Close(ok, acted)
  PROVE  /\ Call \in CallRecord /\ Result(Call) \in Message
         /\ calls' \in Seq(CallRecord) /\ Len(calls') = Len(calls) - 1
         /\ \A j \in 1..Len(calls) - 1 : calls'[j] = calls[j + 1]
         /\ \/ /\ messages' = Append(messages, Result(Call))
               /\ traces' = Append(traces, [id |-> Call.id, ok |-> ok, acted |-> acted])
               /\ [id |-> Call.id, ok |-> ok, acted |-> acted] \in Trace
               /\ lit' = lit \ Tools /\ pc' = "next" /\ record' = record
            \/ /\ Fail("arguments") /\ lit' = lit \ (Tools \cup {Group})
               /\ UNCHANGED <<traces, messages>>
         /\ UNCHANGED <<tries, called, nudged>>
<1>1. Call \in CallRecord
  BY DEF Call, TypeOK
<1>2. Result(Call) \in Message
  <2>1. <<>> \in Seq(CallRecord)
    BY EmptySeq
  <2> QED BY <1>1, <2>1 DEF Result, Message, CallRecord
<1>3. [id |-> Call.id, ok |-> ok, acted |-> acted] \in Trace
  BY <1>1 DEF Trace, CallRecord
<1>4. calls' = Tail(calls)
  BY DEF Close
<1>5. /\ calls' \in Seq(CallRecord) /\ Len(calls') = Len(calls) - 1
      /\ \A j \in 1..Len(calls) - 1 : calls'[j] = calls[j + 1]
  BY <1>4, HeadTailProperties DEF TypeOK
<1> QED BY <1>1, <1>2, <1>3, <1>5 DEF Close, TraceCall, Tell, BatchOff

LEMMA TypeInit == Init => TypeOK
<1>1. <<>> \in Seq(CallRecord) /\ <<>> \in Seq(Trace) /\ <<>> \in Seq(CallIds)
  BY EmptySeq
<1>2. User \in Message
  BY <1>1 DEF User, Message
<1>3. <<User>> \in Seq(Message)
  BY <1>2
<1>4. 0 \in 0..MaxIterations
  BY AgentAssumption
<1> QED BY <1>1, <1>3, <1>4 DEF Init, TypeOK

(* The conversation after the hint, and after a response with calls.       *)
LEMMA Hinted ==
  ASSUME TypeOK, messages' = messages \o <<Assistant(<<>>), User>>
  PROVE  /\ messages' \in Seq(Message) /\ Len(messages') = Len(messages) + 2
         /\ \A i \in DOMAIN messages : i \in DOMAIN messages' /\ messages'[i] = messages[i]
         /\ messages'[Len(messages) + 1] = Assistant(<<>>)
         /\ messages'[Len(messages) + 2] = User
<1>1. <<>> \in Seq(CallRecord)
  BY EmptySeq
<1>2. Assistant(<<>>) \in Message /\ User \in Message
  BY <1>1 DEF Assistant, User, Message
<1>3. <<Assistant(<<>>), User>> \in Seq(Message) /\ Len(<<Assistant(<<>>), User>>) = 2
  BY <1>2
<1> QED BY <1>3, ConcatProperties DEF TypeOK

LEMMA Called ==
  ASSUME TypeOK, tries > 0, NEW cs \in Responses, ModelCalls(cs)
  PROVE  /\ calls' \in Seq(CallRecord) /\ Len(calls') \in 1..MaxCalls
         /\ Assistant(calls') \in Message
         /\ messages' = Append(messages, Assistant(calls'))
<1>1. PICK n \in 1..MaxCalls : cs \in [1..n -> [name : Tools \cup {Unknown}, args : Arguments]]
  BY DEF Responses
<1>2. Numbered(cs) \in [1..n -> CallRecord]
  BY <1>1, AgentAssumption DEF Numbered, CallRecord, CallIds, TypeOK
<1>3. Numbered(cs) \in Seq(CallRecord) /\ Len(Numbered(cs)) = n
  BY <1>2, AgentAssumption
<1>4. Assistant(Numbered(cs)) \in Message
  BY <1>3 DEF Assistant, Message
<1> QED BY <1>3, <1>4 DEF ModelCalls

LEMMA TypeStep ==
  ASSUME TypeOK, Steps, [Next]_vars
  PROVE  TypeOK'
<1> USE DEF TypeOK
<1>1. ASSUME Prepare \/ Ask PROVE TypeOK'
  BY <1>1, OutcomeType, AgentAssumption DEF Prepare, Ask, InRange, conversation
<1>2. ASSUME ModelFails PROVE TypeOK'
  BY <1>2, OutcomeType DEF ModelFails, GiveUp, ModelIsDone, conversation
<1>3. ASSUME ModelAnswers PROVE TypeOK'
  <2>1. CASE NeedsNudge
    BY <1>3, <2>1, Hinted DEF ModelAnswers, ModelIsDone
  <2>2. CASE ~NeedsNudge
    <3>1. record' \in Record /\ record' # None
      BY <1>3, <2>2, NoneAssumption DEF ModelAnswers, Answer, Record
    <3> QED BY <1>3, <2>2, <3>1 DEF ModelAnswers, ModelIsDone, Answer
  <2> QED BY <2>1, <2>2
<1>4. ASSUME NEW cs \in Responses, ModelCalls(cs) PROVE TypeOK'
  <2>1. tries > 0
    BY <1>4 DEF ModelCalls, Steps
  <2> QED BY <1>4, <2>1, Called DEF ModelCalls
<1>5. ASSUME NextCall \/ EndBatch \/ Resolve \/ Approved PROVE TypeOK'
  <2>1. Call.name \in Tools => {Call.name} \subseteq SubNodes \cup Tools
    OBVIOUS
  <2> QED BY <1>5, <2>1 DEF NextCall, EndBatch, Resolve, Approved, conversation
<1>6. ASSUME NEW ok \in BOOLEAN, NEW acted \in BOOLEAN, Close(ok, acted), calls # <<>>, pc # "over",
             effects' \in Seq(CallIds)
      PROVE  TypeOK'
  <2>1. /\ calls' \in Seq(CallRecord) /\ UNCHANGED <<tries, called, nudged>>
        /\ lit' \subseteq lit
    BY <1>6, Closes
  <2>2. CASE /\ messages' = Append(messages, Result(Call))
             /\ traces' = Append(traces, [id |-> Call.id, ok |-> ok, acted |-> acted])
             /\ [id |-> Call.id, ok |-> ok, acted |-> acted] \in Trace
             /\ Result(Call) \in Message
             /\ pc' = "next" /\ record' = record
    <3>1. messages' \in Seq(Message)
      BY <2>2
    <3>2. traces' \in Seq(Trace)
      BY <2>2
    <3> QED BY <1>6, <2>1, <2>2, <3>1, <3>2
  <2>3. CASE Fail("arguments") /\ UNCHANGED <<traces, messages>>
    BY <1>6, <2>1, <2>3, OutcomeType
  <2> QED BY <1>6, <2>2, <2>3, Closes
<1>7. ASSUME UnknownTool \/ ResolveFails \/ Declined \/ UseFails PROVE TypeOK'
  BY <1>7, <1>6 DEF UnknownTool, ResolveFails, Declined, UseFails, Steps
<1>8. ASSUME Use PROVE TypeOK'
  <2>1. Acts(Call) \in BOOLEAN /\ calls # <<>>
    BY <1>8 DEF Use, Acts, Steps
  <2>2. Call \in CallRecord
    BY <2>1 DEF Call
  <2>3. Call.id \in CallIds
    BY <2>2 DEF CallRecord
  <2>4. effects' \in Seq(CallIds)
    BY <1>8, <2>3 DEF Use
  <2> QED BY <1>8, <1>6, <2>1, <2>4 DEF Use
<1>9. CASE UNCHANGED vars
  BY <1>9 DEF vars, conversation
<1> QED BY <1>1, <1>2, <1>3, <1>4, <1>5, <1>7, <1>8, <1>9 DEF Next

-----------------------------------------------------------------------------
(* The conversation *)

(* Messages are added by the hint, by a response with calls, and by the    *)
(* end of a call, which may also be that of the node.                      *)
Hint ==
  /\ pc = "asking" /\ pc' = "ask" /\ NeedsNudge /\ nudged'
  /\ messages' = messages \o <<Assistant(<<>>), User>>
  /\ UNCHANGED <<calls, called, traces, effects, record>>

CallClosed(ok, acted) ==
  /\ InBatch /\ calls # <<>>
  /\ Close(ok, acted)
  /\ effects' = IF acted THEN Append(effects, Call.id) ELSE effects

Silent ==
  /\ UNCHANGED <<messages, calls, called, nudged, traces, effects>>
  /\ \/ pc' = "over" /\ (record' = record \/ (pc # "over" /\ (record'.outcome = "answer" => record'.traces = traces)))
     \/ /\ pc # "over" /\ pc' # "over" /\ record' = record
        /\ pc' \in {"prepare", "ask", "asking"} => calls = <<>>
        /\ InBatch' => called
        /\ pc' \in {"resolve", "approve", "use"} => calls # <<>> /\ Call.name \in Tools
        /\ pc' = "asking" => tries' > 0

LEMMA AgentSteps ==
  ASSUME TypeOK, Steps, [Next]_vars
  PROVE  \/ Silent
         \/ Hint
         \/ pc = "asking" /\ \E cs \in Responses : ModelCalls(cs)
         \/ \E ok, acted \in BOOLEAN : CallClosed(ok, acted)
<1> USE DEF Steps
<1>1. CASE Prepare
  BY <1>1 DEF Prepare, Fail, conversation, TypeOK, Silent, InBatch
<1>2. CASE Ask
  BY <1>2, AgentAssumption DEF Ask, InRange, Fail, conversation, TypeOK, Silent, InBatch
<1>3. CASE ModelFails
  BY <1>3 DEF ModelFails, GiveUp, Fail, conversation, Silent
<1>4. CASE ModelAnswers
  BY <1>4 DEF ModelAnswers, Answer, Hint, TypeOK, Silent
<1>5. CASE \E cs \in Responses : ModelCalls(cs)
  BY <1>5 DEF ModelCalls
<1>6. CASE NextCall \/ EndBatch \/ Resolve \/ Approved
  BY <1>6 DEF NextCall, EndBatch, Resolve, Approved, conversation, InBatch, Call, Silent, TypeOK
<1>7. CASE UnknownTool \/ ResolveFails \/ Declined \/ UseFails
  <2>1. CallClosed(FALSE, FALSE)
    BY <1>7 DEF UnknownTool, ResolveFails, Declined, UseFails, CallClosed, InBatch
  <2> QED BY <2>1
<1>8. CASE Use
  <2>1. Acts(Call) \in BOOLEAN
    BY DEF Acts
  <2>2. CallClosed(TRUE, Acts(Call))
    BY <1>8 DEF Use, CallClosed, InBatch
  <2> QED BY <2>1, <2>2
<1>9. CASE UNCHANGED vars
  BY <1>9 DEF vars, conversation, InBatch, Call, Silent, TypeOK
<1> QED BY <1>1, <1>2, <1>3, <1>4, <1>5, <1>6, <1>7, <1>8, <1>9 DEF Next

LEMMA StepsStep ==
  ASSUME TypeOK, Steps, [Next]_vars
  PROVE  Steps'
<1> DEFINE Short(m) == Len(m.calls) <= MaxCalls /\ (m.role = "tool" => m.calls = <<>>)
<1>1. \A i \in DOMAIN messages : Short(messages[i])
  BY DEF Steps
<1>2. Short(Assistant(<<>>)) /\ Short(User) /\ \A call : Short(Result(call))
  BY AgentAssumption DEF Assistant, User, Result
<1> HIDE DEF Short
<1>3. CASE Silent
  <2>1. \A i \in DOMAIN messages' : Short(messages'[i])
    BY <1>1, <1>3 DEF Silent
  <2> QED BY <1>3, <2>1 DEF Silent, Steps, InBatch, Short, Call
<1>4. CASE Hint
  <2>1. \A i \in DOMAIN messages' : Short(messages'[i])
    <3> SUFFICES ASSUME NEW i \in 1..Len(messages) + 2 PROVE Short(messages'[i])
      BY <1>4, Hinted DEF Hint
    <3>1. CASE i \in DOMAIN messages
      BY <1>1, <1>4, <3>1, Hinted DEF Hint
    <3>2. messages'[Len(messages) + 1] = Assistant(<<>>) /\ messages'[Len(messages) + 2] = User
      BY <1>4, Hinted DEF Hint
    <3>3. i \in DOMAIN messages \/ i = Len(messages) + 1 \/ i = Len(messages) + 2
      BY DEF TypeOK
    <3> QED BY <1>2, <3>1, <3>2, <3>3
  <2> QED BY <1>4, <2>1 DEF Hint, Steps, InBatch, Short
<1>5. ASSUME NEW cs \in Responses, ModelCalls(cs), pc = "asking" PROVE Steps'
  <2>1. tries > 0
    BY <1>5 DEF Steps
  <2>2. \A i \in DOMAIN messages' : Short(messages'[i])
    <3>1. Short(Assistant(calls'))
      BY <1>5, <2>1, Called DEF Short, Assistant
    <3>2. messages' = Append(messages, Assistant(calls')) /\ Assistant(calls') \in Message
      BY <1>5, <2>1, Called
    <3> QED BY <1>1, <3>1, <3>2 DEF TypeOK
  <2> QED BY <1>5, <2>2 DEF ModelCalls, Steps, InBatch, Short
<1>6. ASSUME NEW ok \in BOOLEAN, NEW acted \in BOOLEAN, CallClosed(ok, acted) PROVE Steps'
  <2>1. Close(ok, acted) /\ calls # <<>>
    BY <1>6 DEF CallClosed
  <2>2. CASE messages' = Append(messages, Result(Call)) /\ pc' = "next" /\ Result(Call) \in Message
    <3>1. \A i \in DOMAIN messages' : Short(messages'[i])
      BY <1>1, <1>2, <2>2 DEF TypeOK
    <3> QED BY <1>6, <2>1, <2>2, <3>1, Closes DEF CallClosed, Steps, InBatch, Short
  <2>3. CASE UNCHANGED messages /\ pc' = "over"
    BY <1>6, <2>3 DEF CallClosed, Steps, InBatch
  <2> QED BY <2>1, <2>2, <2>3, Closes DEF Fail
<1> QED BY <1>3, <1>4, <1>5, <1>6, AgentSteps

LEMMA OpenStep ==
  ASSUME TypeOK, Steps, CallsAreOpen, [Next]_vars
  PROVE  CallsAreOpen'
<1> USE DEF CallsAreOpen
<1>1. CASE Silent
  BY <1>1 DEF Silent, Result
<1>2. CASE Hint
  <2>1. pc # "over" /\ calls = <<>> /\ UNCHANGED calls
    BY <1>2 DEF Hint, Steps
  <2>2. \A i \in DOMAIN messages : messages'[i] = messages[i] /\ i \in DOMAIN messages'
    BY <1>2, Hinted DEF Hint
  <2>3. ASSUME NEW i \in DOMAIN messages'
        PROVE  i \in DOMAIN messages \/ (messages'[i].calls = <<>> /\ messages'[i].role # "tool")
    <3>1. i \in 1..Len(messages) + 2
      BY <1>2, Hinted DEF Hint
    <3>2. i \in DOMAIN messages \/ messages'[i] \in {Assistant(<<>>), User}
      BY <1>2, <3>1, Hinted DEF Hint, TypeOK
    <3> QED BY <3>2 DEF Assistant, User
  <2>4. ASSUME NEW i \in DOMAIN messages', NEW j \in DOMAIN messages'[i].calls
        PROVE  i + j <= Len(messages') /\ messages'[i + j] = Result(messages'[i].calls[j])
    <3>1. i \in DOMAIN messages /\ j \in DOMAIN messages[i].calls
      BY <2>2, <2>3, <2>4
    <3>2. i + j <= Len(messages) /\ messages[i + j] = Result(messages[i].calls[j])
      BY <2>1, <3>1
    <3>3. i \in Nat /\ j \in Nat /\ i + j \in DOMAIN messages
      <4>1. messages[i] \in Message
        BY <3>1 DEF TypeOK
      <4>2. messages[i].calls \in Seq(CallRecord)
        BY <4>1 DEF Message
      <4> QED BY <3>1, <3>2, <4>2 DEF TypeOK
    <3> QED BY <3>1, <3>2, <3>3, <2>2, <1>2, Hinted DEF Hint, TypeOK
  <2>5. ASSUME NEW i \in DOMAIN messages', messages'[i].role = "tool"
        PROVE  \E k \in 1..i-1 : i - k \in DOMAIN messages'[k].calls
                                 /\ messages'[i] = Result(messages'[k].calls[i - k])
    <3>1. i \in DOMAIN messages /\ messages'[i] = messages[i]
      BY <2>2, <2>3, <2>5
    <3>2. PICK k \in 1..i-1 : i - k \in DOMAIN messages[k].calls
                              /\ messages[i] = Result(messages[k].calls[i - k])
      BY <2>1, <2>5, <3>1
    <3> QED BY <3>1, <3>2, <2>2 DEF TypeOK
  <2> QED BY <2>1, <2>4, <2>5
<1>3. ASSUME NEW cs \in Responses, ModelCalls(cs), pc = "asking" PROVE CallsAreOpen'
  <2> DEFINE n == Len(messages)
             new == Assistant(calls')
  <2>1. pc # "over" /\ calls = <<>> /\ tries > 0
    BY <1>3 DEF Steps
  <2>2. /\ messages' = Append(messages, new) /\ new \in Message
        /\ calls' \in Seq(CallRecord) /\ Len(calls') \in 1..MaxCalls
    BY <1>3, <2>1, Called
  <2>3. new.calls = calls' /\ new.role = "assistant"
    BY DEF Assistant
  <2> HIDE DEF new
  <2>4. /\ n \in Nat /\ Len(messages') = n + 1 /\ messages'[n + 1] = new
        /\ DOMAIN messages = 1..n /\ DOMAIN messages' = 1..n+1
        /\ \A i \in 1..n : messages'[i] = messages[i]
    BY <2>2 DEF TypeOK
  <2> HIDE DEF n
  <2>5. ASSUME NEW i \in DOMAIN messages', NEW j \in DOMAIN messages'[i].calls
        PROVE  IF i + j <= Len(messages') THEN messages'[i + j] = Result(messages'[i].calls[j])
               ELSE /\ i + j - Len(messages') \in DOMAIN calls'
                    /\ calls'[i + j - Len(messages')] = messages'[i].calls[j]
    <3>1. CASE i = n + 1
      BY <2>2, <2>3, <2>4, <3>1
    <3>2. CASE i \in 1..n
      <4>1. messages'[i] = messages[i] /\ messages[i] \in Message
        BY <3>2, <2>4 DEF TypeOK
      <4>2. messages[i].calls \in Seq(CallRecord)
        BY <4>1 DEF Message
      <4>3. i + j <= n /\ messages[i + j] = Result(messages[i].calls[j])
        BY <2>1, <2>4, <2>5, <3>2, <4>1 DEF n
      <4>4. i + j \in 1..n
        BY <3>2, <4>1, <4>2, <4>3, <2>5, <2>4
      <4> QED BY <2>4, <4>1, <4>3, <4>4
    <3> QED BY <3>1, <3>2, <2>4
  <2>6. \E i \in DOMAIN messages' : i + Len(messages'[i].calls) = Len(messages') + Len(calls')
    <3>1. n + 1 \in DOMAIN messages' /\ Len(messages') = n + 1 /\ messages'[n + 1].calls = calls'
      BY <2>3, <2>4
    <3>2. n + 1 + Len(messages'[n + 1].calls) = Len(messages') + Len(calls')
      BY <3>1, Zenon
    <3> QED BY <3>1, <3>2, Zenon
  <2>7. ASSUME NEW i \in DOMAIN messages', messages'[i].role = "tool"
        PROVE  \E k \in 1..i-1 : i - k \in DOMAIN messages'[k].calls
                                 /\ messages'[i] = Result(messages'[k].calls[i - k])
    <3>1. i \in 1..n
      BY <2>3, <2>4, <2>7
    <3>2. PICK k \in 1..i-1 : i - k \in DOMAIN messages[k].calls
                              /\ messages[i] = Result(messages[k].calls[i - k])
      BY <2>1, <2>4, <2>7, <3>1
    <3>3. k \in 1..n
      BY <2>4, <3>1
    <3> QED BY <2>4, <3>1, <3>2, <3>3
  <2> QED BY <2>5, <2>6, <2>7
<1>4. ASSUME NEW ok \in BOOLEAN, NEW acted \in BOOLEAN, CallClosed(ok, acted) PROVE CallsAreOpen'
  <2> DEFINE n == Len(messages)
  <2>1. Close(ok, acted) /\ calls # <<>> /\ pc # "over"
    BY <1>4 DEF CallClosed, InBatch
  <2>2. /\ Call \in CallRecord /\ Result(Call) \in Message
        /\ calls' \in Seq(CallRecord) /\ Len(calls') = Len(calls) - 1
        /\ \A j \in 1..Len(calls) - 1 : calls'[j] = calls[j + 1]
    BY <2>1, Closes
  <2>3. CASE pc' = "over"
    BY <2>3
  <2>4. CASE messages' = Append(messages, Result(Call))
    <3>1. /\ n \in Nat /\ Len(messages') = n + 1 /\ messages'[n + 1] = Result(Call)
          /\ DOMAIN messages = 1..n /\ DOMAIN messages' = 1..n+1
          /\ \A i \in 1..n : messages'[i] = messages[i]
      BY <2>2, <2>4 DEF TypeOK
    <3>2. Result(Call).calls = <<>> /\ Call = calls[1] /\ Len(calls) \in Nat \ {0} /\ DOMAIN calls' = 1..Len(calls) - 1
          /\ DOMAIN calls = 1..Len(calls)
      BY <2>1, <2>2 DEF Result, Call, TypeOK
    <3>3. \A i \in 1..n : messages[i].calls \in Seq(CallRecord)
      <4> TAKE i \in 1..n
      <4>1. messages[i] \in Message
        BY <3>1 DEF TypeOK
      <4> QED BY <4>1 DEF Message
    <3>4. \A i \in 1..n : \A j \in DOMAIN messages[i].calls :
            IF i + j <= n THEN messages[i + j] = Result(messages[i].calls[j])
            ELSE i + j - n \in 1..Len(calls) /\ calls[i + j - n] = messages[i].calls[j]
      BY <2>1, <3>1, <3>2
    <3>5. PICK m \in 1..n : m + Len(messages[m].calls) = n + Len(calls)
      BY <2>1, <3>1
    <3>9. \A i \in 1..n : messages[i].role = "tool" =>
            \E k \in 1..i-1 : i - k \in DOMAIN messages[k].calls /\ messages[i] = Result(messages[k].calls[i - k])
      BY <2>1, <3>1
    <3> HIDE DEF n, CallsAreOpen
    <3>6. ASSUME NEW i \in 1..n+1, NEW j \in DOMAIN messages'[i].calls
          PROVE  IF i + j <= n + 1 THEN messages'[i + j] = Result(messages'[i].calls[j])
                 ELSE /\ i + j - (n + 1) \in DOMAIN calls'
                      /\ calls'[i + j - (n + 1)] = messages'[i].calls[j]
      <4>1. i \in 1..n /\ messages'[i] = messages[i]
        BY <3>1, <3>2, <3>6
      <4>2. j \in Nat \ {0}
        BY <4>1, <3>3, <3>6
      <4>3. CASE i + j <= n
        BY <4>1, <4>2, <4>3, <3>1, <3>4, <3>6
      <4>4. CASE i + j = n + 1
        <5>1. calls[1] = messages[i].calls[j]
          <6>1. i + j - n = 1 /\ ~(i + j <= n)
            BY <4>1, <4>2, <4>4, <3>1
          <6> QED BY <6>1, <4>1, <3>4, <3>6
        <5> QED BY <5>1, <4>1, <4>4, <3>1, <3>2
      <4>5. CASE i + j > n + 1
        <5>1. i + j - n \in 1..Len(calls) /\ calls[i + j - n] = messages[i].calls[j]
          <6>1. ~(i + j <= n)
            BY <4>1, <4>2, <4>5, <3>1
          <6> QED BY <6>1, <4>1, <3>4, <3>6
        <5>2. i + j - (n + 1) \in 1..Len(calls) - 1 /\ (i + j - (n + 1)) + 1 = i + j - n
          BY <4>1, <4>2, <4>5, <5>1, <3>1, <3>2
        <5>3. calls'[i + j - (n + 1)] = calls[i + j - n]
          BY <5>2, <2>2
        <5> QED BY <4>1, <4>2, <4>5, <5>1, <5>2, <5>3, <3>1, <3>2
      <4> QED BY <4>1, <4>2, <4>3, <4>4, <4>5, <3>1
    <3>7. \E i \in 1..n+1 : i + Len(messages'[i].calls) = (n + 1) + Len(calls')
      <4>1. m \in 1..n+1 /\ messages'[m] = messages[m] /\ Len(messages[m].calls) \in Nat
        BY <3>1, <3>3
      <4>2. m + Len(messages[m].calls) = (n + 1) + Len(calls')
        <5>1. n \in Nat /\ m \in Nat /\ Len(calls) \in Nat
          BY <3>1, <3>2
        <5>2. Len(calls') = Len(calls) - 1 /\ m + Len(messages[m].calls) = n + Len(calls)
          BY <2>2, <3>5
        <5> QED BY <5>1, <5>2
      <4> QED BY <4>1, <4>2
    <3>8. ASSUME NEW i \in 1..n+1, messages'[i].role = "tool"
          PROVE  \E k \in 1..i-1 : i - k \in DOMAIN messages'[k].calls
                                   /\ messages'[i] = Result(messages'[k].calls[i - k])
      <4>1. CASE i = n + 1
        <5>1. n + 1 - m \in DOMAIN messages[m].calls /\ messages'[m] = messages[m]
          BY <3>1, <3>2, <3>3, <3>5
        <5>2. ~(m + (n + 1 - m) <= n) /\ m + (n + 1 - m) - n = 1
          BY <3>1, <3>5
        <5>3. calls[1] = messages[m].calls[n + 1 - m]
          BY <5>1, <5>2, <3>4
        <5> QED BY <4>1, <5>1, <5>3, <3>1, <3>2
      <4>2. CASE i \in 1..n
        <5>1. PICK k \in 1..i-1 : i - k \in DOMAIN messages[k].calls
                                  /\ messages[i] = Result(messages[k].calls[i - k])
          BY <3>1, <3>8, <3>9, <4>2
        <5>2. k \in 1..n
          BY <3>1, <4>2
        <5> QED BY <3>1, <4>2, <5>1, <5>2
      <4> QED BY <4>1, <4>2, <3>1
    <3> QED BY <3>1, <3>6, <3>7, <3>8 DEF CallsAreOpen
  <2> QED BY <2>1, <2>3, <2>4, Closes DEF Fail
<1> QED BY <1>1, <1>2, <1>3, <1>4, AgentSteps

LEMMA HintStep ==
  ASSUME TypeOK, Steps, HintIsEarly, [Next]_vars
  PROVE  HintIsEarly'
<1> USE DEF HintIsEarly
<1>1. CASE Silent
  BY <1>1 DEF Silent
<1>2. CASE Hint
  <2>1. Len(messages) = 1 /\ nudged'
    BY <1>2 DEF Hint, NeedsNudge
  <2>2. /\ Len(messages') = 3 /\ messages' \in Seq(Message)
        /\ messages'[2] = Assistant(<<>>)
    BY <1>2, <2>1, Hinted DEF Hint
  <2>3. messages'[2].role # "user"
    BY <2>2 DEF Assistant
  <2>4. DOMAIN messages' = {1, 2, 3}
    BY <2>2
  <2> QED BY <2>1, <2>3, <2>4
<1>3. ASSUME NEW cs \in Responses, ModelCalls(cs), pc = "asking" PROVE HintIsEarly'
  <2>1. tries > 0
    BY <1>3 DEF Steps
  <2>2. messages' = Append(messages, Assistant(calls')) /\ Assistant(calls') \in Message
    BY <1>3, <2>1, Called
  <2>3. Assistant(calls').role # "user" /\ called'
    BY <1>3 DEF Assistant, ModelCalls
  <2> QED BY <2>2, <2>3 DEF TypeOK
<1>4. ASSUME NEW ok \in BOOLEAN, NEW acted \in BOOLEAN, CallClosed(ok, acted) PROVE HintIsEarly'
  <2>1. called' /\ Close(ok, acted) /\ calls # <<>>
    BY <1>4 DEF CallClosed, Steps, Close
  <2>2. Result(Call) \in Message /\ Result(Call).role # "user"
    BY <2>1, Closes DEF Result
  <2>3. CASE messages' = Append(messages, Result(Call))
    BY <2>1, <2>2, <2>3 DEF TypeOK
  <2>4. CASE UNCHANGED messages
    BY <2>1, <2>4
  <2> QED BY <2>1, <2>3, <2>4, Closes
<1> QED BY <1>1, <1>2, <1>3, <1>4, AgentSteps

(* Where the agent asks again, nothing is open.                            *)
LEMMA ConversationClosed ==
  ASSUME TypeOK, Steps, CallsAreOpen, HintIsEarly
  PROVE  ConversationFits
<1> SUFFICES ASSUME pc \in {"ask", "asking"} PROVE ConversationFits
  BY DEF ConversationFits
<1>1. calls = <<>>
  BY DEF Steps
<1>2. \A i \in DOMAIN messages : \A j \in DOMAIN messages[i].calls :
        i + j <= Len(messages) /\ messages[i + j] = Result(messages[i].calls[j])
  BY <1>1 DEF CallsAreOpen
<1> QED BY <1>2 DEF CallsAreOpen, HintIsEarly, ConversationFits

(* The calls of the last results are at most MaxCalls messages back.       *)
LEMMA WindowReaches ==
  ASSUME TypeOK, Steps, CallsAreOpen
  PROVE  NewResultsHaveCalls
<1> SUFFICES ASSUME pc = "asking", Window > MaxCalls, NEW i \in DOMAIN messages,
                    \A j \in i+1..Len(messages) : messages[j].role = "tool"
             PROVE  i > Len(messages) - Len(Windowed(messages))
  BY DEF NewResultsHaveCalls
<1> DEFINE n == Len(messages)
<1>1. n \in Nat /\ i \in 1..n /\ Window \in Nat \ {0} /\ MaxCalls \in Nat
  BY AgentAssumption DEF TypeOK
<1>2. n - i <= MaxCalls
  <2>1. CASE i = n
    BY <1>1, <2>1
  <2>2. CASE i < n
    <3>1. messages[n].role = "tool" /\ n \in DOMAIN messages
      BY <1>1, <2>2 DEF TypeOK
    <3>2. PICK k \in 1..n-1 : n - k \in DOMAIN messages[k].calls
      BY <3>1 DEF CallsAreOpen
    <3>3. k \in DOMAIN messages /\ messages[k] \in Message
      BY <1>1 DEF TypeOK
    <3>4. messages[k].calls \in Seq(CallRecord)
      BY <3>3 DEF Message
    <3>5. messages[k].role # "tool" /\ n - k <= MaxCalls
      BY <1>1, <3>2, <3>3, <3>4 DEF Steps
    <3>6. ~(k \in i+1..n)
      BY <3>5
    <3> QED BY <1>1, <3>5, <3>6
  <2> QED BY <1>1, <2>1, <2>2
<1>3. CASE Memory \in SubNodes /\ n > Window
  <2>1. Windowed(messages) = SubSeq(messages, n - Window + 1, n)
    BY <1>3 DEF Windowed
  <2>2. Len(Windowed(messages)) = Window
    BY <1>1, <1>3, <2>1, SubSeqProperties DEF TypeOK
  <2> QED BY <1>1, <1>2, <2>2
<1>4. CASE ~(Memory \in SubNodes /\ n > Window)
  <2>1. Windowed(messages) = messages
    BY <1>4 DEF Windowed
  <2> QED BY <1>1, <2>1
<1> QED BY <1>3, <1>4

-----------------------------------------------------------------------------
(* The records of the calls *)

(* One more place at the end leaves the ranks of the others.               *)
LEMMA RankAdd ==
  ASSUME NEW n \in Nat, NEW P \in SUBSET (1..n)
  PROVE  /\ Cardinality(P) \in Nat /\ Cardinality(P \cup {n + 1}) = Cardinality(P) + 1
         /\ Rank(P \cup {n + 1}, n + 1) = Cardinality(P) + 1
         /\ \A i \in P : Rank(P, i) \in 1..Cardinality(P) /\ Rank(P \cup {n + 1}, i) = Rank(P, i)
<1>1. IsFiniteSet(P)
  <2>1. IsFiniteSet(1..n)
    BY FS_Interval
  <2> QED BY <2>1, FS_Subset
<1>2. n + 1 \notin P
  OBVIOUS
<1>3. Cardinality(P) \in Nat /\ Cardinality(P \cup {n + 1}) = Cardinality(P) + 1
  BY <1>1, <1>2, FS_AddElement, FS_CardinalityType
<1>4. Rank(P \cup {n + 1}, n + 1) = Cardinality(P) + 1
  <2>1. \A j \in P \cup {n + 1} : j <= n + 1
    OBVIOUS
  <2>2. {j \in P \cup {n + 1} : j <= n + 1} = P \cup {n + 1}
    BY <2>1
  <2> QED BY <2>2, <1>3 DEF Rank
<1>5. ASSUME NEW i \in P
      PROVE  Rank(P, i) \in 1..Cardinality(P) /\ Rank(P \cup {n + 1}, i) = Rank(P, i)
  <2> DEFINE Q == {j \in P : j <= i}
  <2>1. {j \in P \cup {n + 1} : j <= i} = Q
    OBVIOUS
  <2>2. i \in Q /\ Q \subseteq P
    OBVIOUS
  <2>3. IsFiniteSet(Q) /\ Cardinality(Q) <= Cardinality(P) /\ Cardinality(Q) \in Nat
    BY <1>1, <2>2, FS_Subset, FS_CardinalityType
  <2>4. Cardinality(Q) # 0
    BY <2>2, <2>3, FS_EmptySet
  <2> QED BY <1>3, <2>1, <2>3, <2>4 DEF Rank
<1> QED BY <1>3, <1>4, <1>5

LEMMA TracesStep ==
  ASSUME TypeOK, Steps, TracesFit, [Next]_vars
  PROVE  TracesFit'
<1> USE DEF TracesFit
<1>1. CASE pc' = "over"
  BY <1>1
<1>2. CASE Silent /\ pc' # "over"
  BY <1>2 DEF Silent, ResultsAreTraced, EffectsAreIn, Results
<1>3. ASSUME pc # "over", UNCHANGED <<traces, effects>>, Results' = Results,
             \A i \in Results : messages'[i] = messages[i]
      PROVE  TracesFit'
  BY <1>3 DEF ResultsAreTraced, EffectsAreIn
<1>4. CASE Hint
  <2>1. Results' = Results
    <3>1. \A i \in DOMAIN messages' :
            (i \in DOMAIN messages /\ messages'[i] = messages[i]) \/ messages'[i].role # "tool"
      <4> TAKE i \in DOMAIN messages'
      <4>1. i \in 1..Len(messages) + 2
        BY <1>4, Hinted DEF Hint
      <4>2. CASE i \in DOMAIN messages
        BY <4>2, <1>4, Hinted DEF Hint
      <4>3. CASE i \notin DOMAIN messages
        <5>1. i = Len(messages) + 1 \/ i = Len(messages) + 2
          BY <4>1, <4>3 DEF TypeOK
        <5>2. messages'[Len(messages) + 1] = Assistant(<<>>) /\ messages'[Len(messages) + 2] = User
          BY <1>4, Hinted DEF Hint
        <5> QED BY <5>1, <5>2 DEF Assistant, User
      <4> QED BY <4>2, <4>3
    <3> QED BY <3>1, <1>4, Hinted DEF Results, Hint
  <2>2. \A i \in Results : messages'[i] = messages[i]
    BY <1>4, Hinted DEF Results, Hint
  <2> QED BY <1>3, <1>4, <2>1, <2>2 DEF Hint
<1>5. ASSUME NEW cs \in Responses, ModelCalls(cs), pc = "asking" PROVE TracesFit'
  <2>1. tries > 0
    BY <1>5 DEF Steps
  <2>2. messages' = Append(messages, Assistant(calls')) /\ Assistant(calls') \in Message
    BY <1>5, <2>1, Called
  <2>3. Assistant(calls').role # "tool"
    BY DEF Assistant
  <2>4. Results' = Results /\ \A i \in Results : messages'[i] = messages[i]
    BY <2>2, <2>3 DEF Results, TypeOK
  <2> QED BY <1>3, <1>5, <2>4 DEF ModelCalls
<1>6. ASSUME NEW ok \in BOOLEAN, NEW acted \in BOOLEAN, CallClosed(ok, acted), pc' # "over"
      PROVE  TracesFit'
  <2> DEFINE n == Len(messages)
             m == Len(traces)
             t == [id |-> Call.id, ok |-> ok, acted |-> acted]
  <2>1. Close(ok, acted) /\ calls # <<>> /\ pc # "over"
    BY <1>6 DEF CallClosed, InBatch
  <2>2. /\ messages' = Append(messages, Result(Call)) /\ Result(Call) \in Message
        /\ traces' = Append(traces, t) /\ t \in Trace
    BY <1>6, <2>1, Closes DEF Fail
  <2>3. /\ n \in Nat /\ messages'[n + 1] = Result(Call) /\ DOMAIN messages = 1..n /\ DOMAIN messages' = 1..n+1
        /\ \A i \in 1..n : messages'[i] = messages[i]
    BY <2>2 DEF TypeOK
  <2>4. /\ m \in Nat /\ Len(traces') = m + 1 /\ traces'[m + 1] = t /\ DOMAIN traces = 1..m /\ DOMAIN traces' = 1..m+1
        /\ \A i \in 1..m : traces'[i] = traces[i]
    BY <2>2 DEF TypeOK
  <2>5. Result(Call).role = "tool" /\ Result(Call).id = Call.id /\ t.id = Call.id /\ t.acted = acted
    BY DEF Result
  <2>6. ResultsAreTraced(traces) /\ EffectsAreIn(traces)
    BY <2>1
  <2> HIDE DEF t, n, m
  <2>7. ResultsAreTraced(traces)'
    <3>1. Results \subseteq 1..n /\ Results' = Results \cup {n + 1}
      BY <2>3, <2>5 DEF Results
    <3>2. Len(traces') = Cardinality(Results')
      <4>1. Cardinality(Results') = Cardinality(Results) + 1
        BY <2>3, <3>1, RankAdd
      <4> QED BY <2>4, <2>6, <4>1 DEF ResultsAreTraced, m
    <3>3. ASSUME NEW i \in Results' PROVE traces'[Rank(Results', i)].id = messages'[i].id
      <4>1. CASE i = n + 1
        <5>1. Rank(Results', i) = m + 1
          BY <2>3, <2>6, <3>1, <4>1, RankAdd DEF ResultsAreTraced, m
        <5> QED BY <2>3, <2>4, <2>5, <4>1, <5>1
      <4>2. CASE i \in Results
        <5>1. Rank(Results', i) = Rank(Results, i) /\ Rank(Results, i) \in 1..m
          BY <2>3, <2>6, <3>1, <4>2, RankAdd DEF ResultsAreTraced, m
        <5> QED BY <2>3, <2>4, <2>6, <3>1, <4>2, <5>1 DEF ResultsAreTraced
      <4> QED BY <3>1, <4>1, <4>2
    <3> QED BY <3>2, <3>3 DEF ResultsAreTraced
  <2>8. EffectsAreIn(traces)'
    <3>1. Acted(traces) \subseteq 1..m
      BY <2>4 DEF Acted
    <3>2. CASE ~acted
      <4>1. Acted(traces') = Acted(traces) /\ effects' = effects
        BY <1>6, <2>4, <2>5, <3>2 DEF Acted, CallClosed
      <4> QED BY <4>1, <3>1, <2>4, <2>6 DEF EffectsAreIn
    <3>3. CASE acted
      <4>1. Acted(traces') = Acted(traces) \cup {m + 1}
        <5>1. \A i \in 1..m+1 : traces'[i].acted <=> i \in Acted(traces) \/ i = m + 1
          <6> TAKE i \in 1..m+1
          <6>1. CASE i = m + 1
            BY <2>4, <2>5, <3>3, <6>1
          <6>2. CASE i # m + 1
            <7>1. i \in DOMAIN traces /\ traces'[i] = traces[i]
              BY <2>4, <6>2
            <7> QED BY <6>2, <7>1, Zenon DEF Acted
          <6> QED BY <6>1, <6>2
        <5>2. Acted(traces') = {i \in 1..m+1 : traces'[i].acted}
          BY <2>4 DEF Acted
        <5> QED BY <3>1, <2>4, <5>1, <5>2
      <4> DEFINE e == Len(effects)
      <4>2. /\ e \in Nat /\ Len(effects') = e + 1 /\ effects'[e + 1] = Call.id
            /\ \A i \in 1..e : effects'[i] = effects[i]
        <5>1. effects' = Append(effects, Call.id) /\ Call.id \in CallIds
          BY <1>6, <2>2, <2>5, <3>3 DEF CallClosed, Trace
        <5> QED BY <5>1 DEF TypeOK
      <4>3. e = Cardinality(Acted(traces))
        BY <2>6 DEF EffectsAreIn
      <4> HIDE DEF e
      <4>4. Len(effects') = Cardinality(Acted(traces'))
        BY <2>4, <3>1, <4>1, <4>2, <4>3, RankAdd
      <4>5. ASSUME NEW i \in Acted(traces') PROVE effects'[Rank(Acted(traces'), i)] = traces'[i].id
        <5>1. CASE i = m + 1
          <6>1. Rank(Acted(traces'), i) = e + 1
            BY <2>4, <3>1, <4>1, <4>3, <5>1, RankAdd
          <6> QED BY <2>4, <2>5, <4>2, <5>1, <6>1
        <5>2. CASE i \in Acted(traces)
          <6>1. Rank(Acted(traces'), i) = Rank(Acted(traces), i) /\ Rank(Acted(traces), i) \in 1..e
            <7>1. /\ Rank(Acted(traces), i) \in 1..Cardinality(Acted(traces))
                  /\ Rank(Acted(traces) \cup {m + 1}, i) = Rank(Acted(traces), i)
              BY <2>4, <3>1, <5>2, RankAdd
            <7> QED BY <7>1, <4>1, <4>3
          <6> QED BY <2>4, <2>6, <3>1, <4>2, <5>2, <6>1 DEF EffectsAreIn
        <5> QED BY <4>1, <5>1, <5>2
      <4> QED BY <4>4, <4>5 DEF EffectsAreIn
    <3> QED BY <3>2, <3>3
  <2> QED BY <2>7, <2>8
<1> QED BY <1>1, <1>2, <1>4, <1>5, <1>6, AgentSteps

LEMMA AnswerStep ==
  ASSUME TypeOK, Steps, TracesFit, AnswerIsTraced, [Next]_vars
  PROVE  AnswerIsTraced'
<1> USE DEF AnswerIsTraced
<1>1. CASE Silent
  <2>1. ASSUME record' # None, record'.outcome = "answer"
        PROVE  ResultsAreTraced(record'.traces) /\ EffectsAreIn(record'.traces)
    BY <1>1, <2>1 DEF Silent, TracesFit, TypeOK
  <2>2. UNCHANGED <<messages, effects>>
    BY <1>1 DEF Silent
  <2> QED BY <2>1, <2>2 DEF ResultsAreTraced, EffectsAreIn, Results
<1>2. CASE Hint \/ (pc = "asking" /\ \E cs \in Responses : ModelCalls(cs))
  BY <1>2 DEF Hint, ModelCalls, TypeOK
<1>3. ASSUME NEW ok \in BOOLEAN, NEW acted \in BOOLEAN, CallClosed(ok, acted) PROVE AnswerIsTraced'
  <2>1. Close(ok, acted) /\ calls # <<>> /\ record = None
    BY <1>3 DEF CallClosed, InBatch, TypeOK
  <2>2. record' = record \/ Fail("arguments")
    BY <2>1, Closes
  <2>3. CASE record' = record
    BY <2>1, <2>3
  <2>4. CASE Fail("arguments")
    <3>1. record' = [outcome |-> "arguments", traces |-> <<>>]
      BY <2>4 DEF Fail
    <3>2. record'.outcome = "arguments"
      BY <3>1
    <3> QED BY <3>2
  <2> QED BY <2>2, <2>3, <2>4
<1> HIDE DEF AnswerIsTraced
<1> QED BY <1>1, <1>2, <1>3, AgentSteps

-----------------------------------------------------------------------------
(* What is shown as active *)

LEMMA LitStep ==
  ASSUME TypeOK, Steps, LitInUse, [Next]_vars
  PROVE  LitInUse'
<1> USE SubNodesDiffer, AgentAssumption DEF LitInUse
<1>1. CASE Prepare
  BY <1>1 DEF Prepare, Fail, conversation, Call
<1>2. CASE Ask
  BY <1>2 DEF Ask, Fail, conversation, Call
<1>3. CASE ModelFails
  BY <1>3 DEF ModelFails, GiveUp, Fail, ModelIsDone
<1>4. CASE ModelAnswers
  BY <1>4 DEF ModelAnswers, Answer, ModelIsDone
<1>5. CASE \E cs \in Responses : ModelCalls(cs)
  BY <1>5 DEF ModelCalls
<1>6. CASE NextCall
  BY <1>6 DEF NextCall, conversation, Call
<1>7. CASE EndBatch
  BY <1>7 DEF EndBatch
<1>8. CASE Resolve \/ Approved
  BY <1>8 DEF Resolve, Approved, conversation, Call
<1>9. ASSUME NEW ok \in BOOLEAN, NEW acted \in BOOLEAN, CallClosed(ok, acted) PROVE LitInUse'
  <2>1. Close(ok, acted) /\ calls # <<>> /\ InBatch
    BY <1>9 DEF CallClosed
  <2>2. lit \cap {Model, Memory} = {}
    BY <2>1 DEF InBatch
  <2>3. CASE lit' = lit \ Tools /\ pc' = "next"
    BY <2>2, <2>3
  <2>4. CASE lit' = lit \ (Tools \cup {Group})
    BY <2>2, <2>4
  <2> QED BY <2>1, <2>3, <2>4, Closes
<1>10. CASE UnknownTool \/ ResolveFails \/ Declined \/ UseFails
  <2>1. CallClosed(FALSE, FALSE)
    BY <1>10 DEF UnknownTool, ResolveFails, Declined, UseFails, CallClosed, InBatch, Steps
  <2> QED BY <2>1, <1>9
<1>11. CASE Use
  <2>1. Acts(Call) \in BOOLEAN
    BY DEF Acts
  <2>2. CallClosed(TRUE, Acts(Call))
    BY <1>11 DEF Use, CallClosed, InBatch, Steps
  <2> QED BY <2>1, <2>2, <1>9
<1>12. CASE UNCHANGED vars
  BY <1>12 DEF vars, conversation, Call
<1> QED BY <1>1, <1>2, <1>3, <1>4, <1>5, <1>6, <1>7, <1>8, <1>10, <1>11, <1>12 DEF Next

-----------------------------------------------------------------------------
LEMMA InvInit == Init => IInv
<1> SUFFICES ASSUME Init PROVE IInv
  OBVIOUS
<1>1. messages = <<User>> /\ DOMAIN messages = {1} /\ Len(messages) = 1 /\ messages[1] = User
  BY DEF Init
<1>2. User.role = "user" /\ User.calls = <<>>
  BY DEF User
<1>3. Steps
  BY <1>1, <1>2, AgentAssumption DEF Init, Steps, InBatch
<1>4. CallsAreOpen /\ HintIsEarly
  BY <1>1, <1>2 DEF Init, CallsAreOpen, HintIsEarly
<1>5. TracesFit
  <2>1. Results = {} /\ Acted(traces) = {} /\ Len(traces) = 0 /\ Len(effects) = 0
    BY <1>1, <1>2 DEF Init, Results, Acted
  <2> QED BY <2>1, FS_EmptySet DEF TracesFit, ResultsAreTraced, EffectsAreIn
<1>6. LitInUse /\ AnswerIsTraced
  BY DEF Init, LitInUse, AnswerIsTraced
<1> QED BY <1>3, <1>4, <1>5, <1>6, TypeInit DEF IInv

(* Agent.tla, IInv: the conversation, the trace and the lit sub-nodes at    *)
(* every step of the loop, in the middle of a call as between turns.       *)
THEOREM AgentInvariant == Spec => []IInv
<1>1. IInv /\ [Next]_vars => IInv'
  BY TypeStep, StepsStep, OpenStep, HintStep, TracesStep, AnswerStep, LitStep DEF IInv
<1> QED BY <1>1, InvInit, PTL DEF Spec

(* Whatever the model asks for and whatever fails, the model is only asked *)
(* with a conversation in which every call has its result.                 *)
THEOREM AgentConversation == Spec => []ConversationFits
<1>1. IInv => ConversationFits
  BY ConversationClosed DEF IInv
<1> QED BY <1>1, AgentInvariant, PTL

(* The memory window never parts new results from their calls, if it is    *)
(* longer than a response has calls.                                       *)
THEOREM AgentWindow == Spec => []NewResultsHaveCalls
<1>1. IInv => NewResultsHaveCalls
  BY WindowReaches DEF IInv
<1> QED BY <1>1, AgentInvariant, PTL

(* Nothing stays shown as active, however the node ends.                   *)
THEOREM AgentLit == Spec => []LitInUse
<1>1. IInv => LitInUse
  BY DEF IInv
<1> QED BY <1>1, AgentInvariant, PTL

(* The record of an answer has every call and every remote effect in order *)
(* and nothing else.                                                       *)
THEOREM AgentTraced == Spec => []AnswerIsTraced
<1>1. IInv => AnswerIsTraced
  BY DEF IInv
<1> QED BY <1>1, AgentInvariant, PTL

-----------------------------------------------------------------------------
(* Why a node ends.                                                        *)

LEMMA InIterationType ==
  ASSUME TypeOK, Steps
  PROVE  InIteration \in Nat
<1>1. Len(calls) \in Nat /\ (calls # <<>> => Len(calls) > 0) /\ MaxCalls \in Nat
  BY EmptySeq, AgentAssumption DEF TypeOK
<1>2. pc = "use" => Len(calls) > 0
  BY <1>1 DEF Steps
<1> QED BY <1>1, <1>2 DEF TypeOK, InIteration, CallLength

(* A step takes the iteration further, or begins the next one.             *)
LEMMA IterationCounts ==
  ASSUME TypeOK, TypeOK', Steps, Next
  PROVE  \/ tries' = tries /\ InIteration' < InIteration
         \/ /\ tries' = tries + 1
            /\ InIteration = 1 /\ InIteration' = CallLength * MaxCalls + 3
<1> USE DEF InIteration, CallLength
<1>1. MaxCalls \in Nat /\ Len(calls) \in Nat /\ (calls # <<>> => Len(calls) > 0)
  BY EmptySeq, AgentAssumption DEF TypeOK
<1>2. CASE Prepare \/ ModelFails
  BY <1>1, <1>2 DEF Prepare, ModelFails, GiveUp, Fail
<1>3. CASE Ask
  BY <1>3 DEF Ask, Fail
<1>4. CASE ModelAnswers
  BY <1>1, <1>4 DEF ModelAnswers, Answer
<1>5. ASSUME NEW cs \in Responses, ModelCalls(cs) PROVE tries' = tries /\ InIteration' < InIteration
  <2>1. tries > 0
    BY <1>5 DEF ModelCalls, Steps
  <2>2. Len(calls') \in 1..MaxCalls
    BY <1>5, <2>1, Called
  <2> QED BY <1>1, <1>5, <2>2 DEF ModelCalls
<1>6. CASE NextCall \/ Resolve \/ Approved
  BY <1>1, <1>6 DEF NextCall, Resolve, Approved, conversation
<1>7. CASE EndBatch
  BY <1>1, <1>7 DEF EndBatch
<1>8. ASSUME NEW ok \in BOOLEAN, NEW acted \in BOOLEAN, Close(ok, acted),
             pc \in {"next", "resolve", "approve", "use"}, calls # <<>>
      PROVE  tries' = tries /\ InIteration' < InIteration
  <2>1. /\ Len(calls') = Len(calls) - 1 /\ tries' = tries
        /\ pc' = "next" \/ pc' = "over"
    BY <1>8, Closes DEF Fail
  <2> QED BY <1>1, <1>8, <2>1
<1>9. CASE UnknownTool \/ ResolveFails \/ Declined \/ UseFails
  BY <1>8, <1>9 DEF UnknownTool, ResolveFails, Declined, UseFails, Steps
<1>10. CASE Use
  <2>1. Acts(Call) \in BOOLEAN /\ calls # <<>>
    BY <1>10 DEF Use, Acts, Steps
  <2> QED BY <1>8, <1>10, <2>1 DEF Use
<1> QED BY <1>2, <1>3, <1>4, <1>5, <1>6, <1>7, <1>9, <1>10 DEF Next

LEMMA LeftType ==
  ASSUME TypeOK, Steps
  PROVE  Left \in Nat
<1>1. MaxIterations - tries \in Nat /\ IterationLength \in Nat
  BY AgentAssumption DEF TypeOK, IterationLength, CallLength
<1>2. (MaxIterations - tries) * IterationLength \in Nat
  BY <1>1
<1> QED BY <1>2, InIterationType DEF Left

LEMMA StepsAreCounted ==
  ASSUME TypeOK, TypeOK', Steps, Next, InIteration \in Nat, InIteration' \in Nat
  PROVE  Left' < Left
<1> DEFINE length == 4 * MaxCalls + 4
<1>1. MaxCalls \in Nat /\ length \in Nat /\ MaxIterations \in Nat /\ tries \in Nat
  BY AgentAssumption DEF TypeOK
<1>2. /\ Left = (MaxIterations - tries) * length + InIteration
      /\ Left' = (MaxIterations - tries') * length + InIteration'
  BY DEF Left, IterationLength, CallLength
<1>3. CASE tries' = tries /\ InIteration' < InIteration
  <2>1. (MaxIterations - tries) * length \in Int
    BY <1>1
  <2> QED BY <1>2, <1>3, <2>1
<1>4. CASE tries' = tries + 1 /\ InIteration = 1 /\ InIteration' = 4 * MaxCalls + 3
  <2>1. ASSUME NEW k \in Int PROVE (k - 1) * length = k * length - length /\ k * length \in Int
    BY <1>1
  <2>2. MaxIterations - tries' = (MaxIterations - tries) - 1 /\ MaxIterations - tries \in Int
    BY <1>1, <1>4
  <2>3. (MaxIterations - tries') * length = (MaxIterations - tries) * length - length
    BY <2>1, <2>2
  <2> QED BY <1>1, <1>2, <1>4, <2>1, <2>2, <2>3
<1> QED BY <1>3, <1>4, IterationCounts DEF CallLength

(* Every step brings a natural number down, so a node takes at most        *)
(* (MaxIterations + 1) * (4 * MaxCalls + 4) steps, whatever the model asks *)
(* for: the loop of execute_agent (agent.py 246) has no other way round.   *)
THEOREM AgentCannotSpin == Spec => [](Left \in Nat) /\ EachStepCounts
<1>1. TypeOK /\ Steps => Left \in Nat
  BY LeftType
<1>2. TypeOK /\ Steps => InIteration \in Nat
  BY InIterationType
<1>3. TypeOK /\ TypeOK' /\ Steps /\ [Next]_vars /\ InIteration \in Nat /\ (InIteration \in Nat)'
        => [Left' < Left]_vars
  BY StepsAreCounted
<1>4. IInv => TypeOK /\ Steps
  BY DEF IInv
<1> QED BY <1>1, <1>2, <1>3, <1>4, AgentInvariant, PTL DEF Spec, EachStepCounts
=============================================================================
