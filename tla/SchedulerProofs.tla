--------------------------- MODULE SchedulerProofs ---------------------------
(***************************************************************************)
(* Theorems about the scheduler, for every number of nodes and slots and   *)
(* every set of validated graphs.                                          *)
(***************************************************************************)
EXTENDS Scheduler, WellFoundedInduction, FiniteSetTheorems, TLAPS

(* A non-empty set of numbers below a bound has a greatest element.        *)
LEMMA MaxExists ==
  ASSUME NEW b \in Nat, NEW S \in SUBSET (0..b), S # {}
  PROVE  \E i \in S : \A j \in S : j <= i
<1> DEFINE T == {b - i : i \in S}
<1>1. T \subseteq Nat /\ T # {}
  <2>1. \A i \in S : i \in 0..b
    OBVIOUS
  <2>2. \A i \in S : b - i \in Nat
    BY <2>1
  <2>3. PICK i \in S : TRUE
    OBVIOUS
  <2>4. b - i \in T
    BY <2>3
  <2> QED BY <2>2, <2>4
<1> HIDE DEF T
<1>2. PICK x \in T : \A y \in T : ~(<<y, x>> \in OpToRel(<, Nat))
  BY <1>1, NatLessThanWellFounded, WFMin, Zenon
<1>3. \A y \in T : ~(y < x)
  BY <1>1, <1>2 DEF OpToRel
<1>4. PICK i \in S : x = b - i
  BY DEF T
<1>5. ASSUME NEW j \in S PROVE j <= i
  <2>1. b - j \in T
    BY DEF T
  <2>2. ~(b - j < b - i)
    BY <2>1, <1>3, <1>4
  <2> QED BY <2>2
<1> QED BY <1>5

(* The edge incoming_by_slot keeps for a wired slot is one of the edges    *)
(* into that slot.                                                         *)
LEMMA IncomingIsAnEdge ==
  ASSUME NEW g \in GraphRecord, NEW n \in NodeIds, NEW s \in InSlots, Wired(g, n, s)
  PROVE  /\ \E i \in DOMAIN g.edges : /\ g.edges[i] = Incoming(g, n, s)
                                      /\ g.edges[i].to = n /\ g.edges[i].slot = s
         /\ Incoming(g, n, s) \in EdgeSpec
<1>1. g.edges \in Seq(EdgeSpec)
  BY DEF GraphRecord
<1>2. EdgesInto(g, n, s) \in SUBSET (0..Len(g.edges)) /\ EdgesInto(g, n, s) # {}
  BY <1>1 DEF EdgesInto, Wired
<1>3. \E i \in EdgesInto(g, n, s) : \A j \in EdgesInto(g, n, s) : j <= i
  <2>1. Len(g.edges) \in Nat
    BY <1>1
  <2> QED BY <2>1, <1>2, MaxExists
<1> DEFINE last == CHOOSE i \in EdgesInto(g, n, s) : \A j \in EdgesInto(g, n, s) : j <= i
<1>4. last \in EdgesInto(g, n, s)
  BY <1>3
<1>5. Incoming(g, n, s) = g.edges[last]
  BY DEF Incoming
<1> HIDE DEF last
<1> QED BY <1>1, <1>4, <1>5 DEF EdgesInto

LEMMA SourceType ==
  ASSUME NEW g \in GraphRecord, NEW n \in NodeIds, NEW s \in InSlots, Wired(g, n, s)
  PROVE  /\ Incoming(g, n, s).from \in NodeIds
         /\ Incoming(g, n, s).out \in OutSlots
         /\ Source(g, n, s) = <<Incoming(g, n, s).from, Incoming(g, n, s).out>>
         /\ Source(g, n, s) \in NodeIds \X OutSlots
  BY IncomingIsAnEdge DEF EdgeSpec, Source

LEMMA TypeInit == Init => TypeOK
  BY GraphsAssumption, SizeAssumption
     DEF Init, TypeOK, NodeIds, InSlots, Outcome, NoOutcome, Scheduled, TraceRecord

LEMMA TypeStep == TypeOK /\ [Next]_vars => TypeOK'
<1> SUFFICES ASSUME TypeOK, [Next]_vars PROVE TypeOK'
  OBVIOUS
<1> USE SizeAssumption DEF TypeOK
<1>1. CASE BeginRound
  BY <1>1 DEF BeginRound
<1>2. ASSUME NEW n \in NodeIds, ScanNode(n) PROVE TypeOK'
  <2>1. cursor' \in 1..(N + 1)
    BY <1>2 DEF ScanNode, NodeIds
  <2>2. pending' \in SUBSET NodeIds /\ finished' \in SUBSET NodeIds /\ ready' \in SUBSET NodeIds
    BY <1>2 DEF ScanNode, Retire
  <2>3. gathered' \in [NodeIds -> SUBSET InSlots]
    BY <1>2 DEF ScanNode
  <2>4. UNCHANGED <<graph, phase, available, running, outcome, trace, result, rounds>>
    BY <1>2 DEF ScanNode
  <2> QED BY <2>1, <2>2, <2>3, <2>4
<1>3. CASE StartRound
  BY <1>3 DEF StartRound, ScanOver
<1>4. CASE SafetyNetBreak
  BY <1>4 DEF SafetyNetBreak, ScanOver
<1>5. ASSUME NEW n \in NodeIds, NEW o \in Outcome, FinishNode(n, o) PROVE TypeOK'
  BY <1>5 DEF FinishNode
<1>6. ASSUME NEW n \in NodeIds, CommitNode(n) PROVE TypeOK'
  <2>1. trace' \in Seq(TraceRecord)
    BY <1>6 DEF CommitNode, AppendRecord, TraceRecord, Outcome
  <2>2. available' \in SUBSET (NodeIds \X OutSlots)
    BY <1>6 DEF CommitNode, CommitOutputs, Outcome
  <2>3. /\ pending' \in SUBSET NodeIds /\ finished' \in SUBSET NodeIds
        /\ ready' \in SUBSET NodeIds /\ result' \in SUBSET NodeIds
        /\ phase' \in {"loop", "scan", "run", "commit", "done"}
    BY <1>6 DEF CommitNode, Retire
  <2> QED BY <1>6, <2>1, <2>2, <2>3 DEF CommitNode
<1>7. CASE EndRun
  BY <1>7 DEF EndRun
<1>8. CASE UNCHANGED vars
  BY <1>8 DEF vars
<1> QED BY <1>1, <1>2, <1>3, <1>4, <1>5, <1>6, <1>7, <1>8 DEF Next

(* The variables of the scheduler keep their types in every run.           *)
THEOREM TypeCorrect == Spec => []TypeOK
<1> QED BY TypeInit, TypeStep, PTL DEF Spec

-----------------------------------------------------------------------------
(* What the scan concludes about a node. *)

(* A valid graph leaves no required slot of a scheduled node without an    *)
(* edge or a literal.                                                      *)
LEMMA BlockedForCause ==
  ASSUME TypeOK, ValidGraph(graph), NEW n \in Scheduled, Blocked(n)
  PROVE  \E s \in InSlots :
           /\ graph.slots[n][s] = "required"
           /\ Wired(graph, n, s)
           /\ Incoming(graph, n, s).from \in finished
           /\ Source(graph, n, s) \notin available
<1>1. PICK s \in InSlots : Blocks(n, s)
  BY DEF Blocked
<1>2. Wired(graph, n, s) \/ <<n, s>> \in graph.literals
  BY <1>1 DEF Blocks, ValidGraph, CheckRequiredInputs, Scheduled
<1> QED BY <1>1, <1>2 DEF Blocks, Dead, Gathers, Declared

LEMMA ReadyIsJustified ==
  ASSUME TypeOK, ValidGraph(graph), NEW n \in Scheduled, Ready(n)
  PROVE  /\ Justified(n, {s \in InSlots : Gathers(n, s)})
         /\ \A s \in InSlots : Gathers(n, s) /\ Wired(graph, n, s) => Source(graph, n, s) \in available
<1> SUFFICES ASSUME NEW s \in InSlots
             PROVE  /\ Wired(graph, n, s) /\ ~Gathers(n, s) =>
                         /\ Incoming(graph, n, s).from \in finished
                         /\ Source(graph, n, s) \notin available
                    /\ graph.slots[n][s] = "required" => Gathers(n, s)
                    /\ Gathers(n, s) /\ Wired(graph, n, s) => Source(graph, n, s) \in available
  BY DEF Justified
<1>1. ~Blocks(n, s) /\ ~Waits(n, s)
  BY DEF Ready
<1>2. graph \in GraphRecord /\ n \in NodeIds
  BY DEF TypeOK, Scheduled
<1>3. Wired(graph, n, s) => Declared(n, s)
  BY <1>2, IncomingIsAnEdge DEF ValidGraph, CheckSlotsDeclared, Declared
<1> QED BY <1>1, <1>3 DEF Blocks, Waits, Dead, Gathers, Declared

(* A node the scan leaves pending waits for an unfinished node.            *)
LEMMA WaitingWaits ==
  ASSUME NEW n, ~Blocked(n), ~Ready(n)
  PROVE  \E s \in InSlots : Wired(graph, n, s) /\ Incoming(graph, n, s).from \notin finished
<1>1. PICK s \in InSlots : Waits(n, s)
  BY DEF Blocked, Ready
<1> QED BY <1>1 DEF Waits, Dead

LEMMA GraphIsValid == Spec => [](ValidGraph(graph))
<1>1. Init => ValidGraph(graph)
  BY GraphsAssumption DEF Init
<1>2. ValidGraph(graph) /\ [Next]_vars => ValidGraph(graph)'
  BY DEF Next, vars, BeginRound, ScanNode, StartRound, SafetyNetBreak, FinishNode, CommitNode, EndRun
<1> QED BY <1>1, <1>2, PTL DEF Spec

-----------------------------------------------------------------------------
(* The inductive invariant. *)

LEMMA InvInit == Init => IInv
<1> SUFFICES ASSUME Init PROVE IInv
  OBVIOUS
<1>1. TypeOK
  BY TypeInit
<1>2. DOMAIN trace = {} /\ Traced = {}
  BY DEF Init, Traced
<1>3. Partition
  BY <1>2 DEF Init, Partition
<1>4. AvailableIsTraced /\ GatheredJustified /\ RecordsJustified /\ CausalInputs /\ AtMostOnce
  BY <1>2 DEF Init, AvailableIsTraced, GatheredJustified, RecordsJustified, CausalInputs, AtMostOnce
<1>5. SkippedForCause
  BY DEF Init, SkippedForCause
<1> QED BY <1>1, <1>3, <1>4, <1>5 DEF IInv

(* The wiring is that of the one graph of the run.                         *)
LEMMA WiringFixed ==
  ASSUME graph' = graph, NEW n, NEW s
  PROVE  /\ Wired(graph, n, s)' = Wired(graph, n, s)
         /\ Incoming(graph, n, s)' = Incoming(graph, n, s)
         /\ Source(graph, n, s)' = Source(graph, n, s)
  BY DEF Wired, EdgesInto, Incoming, Source

(* Steps that touch neither the results nor the bookkeeping of nodes.      *)
LEMMA CalmStep ==
  ASSUME IInv, TypeOK',
         UNCHANGED <<graph, pending, finished, available, trace, gathered>>,
         ready' \subseteq ready, running' \subseteq ready',
         phase' # "run" => running' = {}
  PROVE  IInv'
<1> USE DEF IInv
<1>1. Traced' = Traced /\ Scheduled' = Scheduled
  BY DEF Traced, Scheduled
<1>2. Partition'
  BY <1>1 DEF Partition
<1>3. AvailableIsTraced'
  BY DEF AvailableIsTraced, Fired
<1>4. GatheredJustified'
  BY WiringFixed DEF GatheredJustified, Justified
<1>5. RecordsJustified'
  BY WiringFixed DEF RecordsJustified, Justified
<1>6. CausalInputs'
  BY WiringFixed DEF CausalInputs, Fired
<1>7. SkippedForCause'
  BY <1>1, WiringFixed DEF SkippedForCause
<1>8. AtMostOnce'
  BY DEF AtMostOnce
<1> QED BY <1>2, <1>3, <1>4, <1>5, <1>6, <1>7, <1>8

(* Finishing more nodes, without new outputs, keeps every decision right.  *)
LEMMA JustifiedGrows ==
  ASSUME NEW n, NEW inputs, Justified(n, inputs),
         graph' = graph, finished \subseteq finished',
         \A s \in InSlots :
           Wired(graph, n, s) /\ Incoming(graph, n, s).from \in finished
             /\ Source(graph, n, s) \notin available
           => Source(graph, n, s) \notin available'
  PROVE  Justified(n, inputs)'
  BY WiringFixed DEF Justified

LEMMA ScanStep ==
  ASSUME IInv, ValidGraph(graph), TypeOK', NEW n \in NodeIds, ScanNode(n)
  PROVE  IInv'
<1> USE DEF IInv
<1>1. UNCHANGED <<graph, phase, available, running, trace>>
  BY DEF ScanNode
<1>2. n \in Scheduled /\ n \in pending
  BY DEF ScanNode, Partition
<1>3. CASE Blocked(n) /\ Retire(n) /\ UNCHANGED <<ready, gathered>>
  <2>1. n \notin ready
    <3>1. SUFFICES ASSUME n \in ready PROVE FALSE
      OBVIOUS
    <3>2. PICK s \in InSlots :
            /\ graph.slots[n][s] = "required" /\ Wired(graph, n, s)
            /\ Source(graph, n, s) \notin available
      BY <1>2, <1>3, BlockedForCause
    <3>3. s \in gathered[n] /\ (s \in gathered[n] => Source(graph, n, s) \in available)
      BY <3>1, <3>2 DEF GatheredJustified, Justified
    <3> QED BY <3>2, <3>3
  <2>2. Partition'
    <3>1. Traced' = Traced /\ Scheduled' = Scheduled
      BY <1>1 DEF Traced, Scheduled
    <3>2. /\ pending' = pending \ {n} /\ finished' = finished \cup {n}
          /\ running' = running /\ ready' = ready /\ phase' = phase
      BY <1>1, <1>3 DEF Retire
    <3> QED BY <2>1, <3>1, <3>2, <1>2 DEF Partition
  <2>3. AvailableIsTraced' /\ CausalInputs' /\ AtMostOnce'
    BY <1>1, WiringFixed DEF AvailableIsTraced, CausalInputs, AtMostOnce, Fired
  <2>4. GatheredJustified' /\ RecordsJustified'
    <3>1. finished \subseteq finished'
      BY <1>3 DEF Retire
    <3>2. ASSUME NEW m \in ready PROVE Justified(m, gathered[m])'
      BY <3>1, <1>1, <1>3, JustifiedGrows DEF GatheredJustified
    <3>3. ASSUME NEW i \in DOMAIN trace PROVE Justified(trace[i].node, trace[i].inputs)'
      BY <3>1, <1>1, JustifiedGrows DEF RecordsJustified
    <3> QED BY <3>2, <3>3, <1>1, <1>3, WiringFixed DEF GatheredJustified, RecordsJustified
  <2>5. SkippedForCause'
    <3>1. Traced' = Traced /\ finished' = finished \cup {n}
      BY <1>1, <1>3 DEF Traced, Retire
    <3> QED BY <3>1, <1>1, <1>2, <1>3, BlockedForCause, WiringFixed DEF SkippedForCause
  <2> QED BY <2>2, <2>3, <2>4, <2>5
<1>4. CASE Ready(n) /\ ready' = ready \cup {n}
           /\ gathered' = [gathered EXCEPT ![n] = {s \in InSlots : Gathers(n, s)}]
           /\ UNCHANGED <<pending, finished>>
  <2>1. Partition'
    <3>1. Traced' = Traced /\ Scheduled' = Scheduled
      BY <1>1 DEF Traced, Scheduled
    <3>2. running' = running /\ phase' = phase
      BY <1>1
    <3> QED BY <3>1, <3>2, <1>2, <1>4 DEF Partition
  <2>2. AvailableIsTraced' /\ CausalInputs' /\ AtMostOnce'
    BY <1>1, WiringFixed DEF AvailableIsTraced, CausalInputs, AtMostOnce, Fired
  <2>3. RecordsJustified'
    BY <1>1, <1>4, JustifiedGrows DEF RecordsJustified
  <2>4. SkippedForCause'
    BY <1>1, <1>4, WiringFixed DEF SkippedForCause, Traced
  <2>5. ASSUME NEW m \in ready'
        PROVE  /\ Justified(m, gathered[m])'
               /\ \A s \in gathered'[m] : Wired(graph, m, s) => Source(graph, m, s) \in available
    <3>1. CASE m = n
      <4> DEFINE slots == {s \in InSlots : Gathers(n, s)}
      <4>1. gathered'[n] = slots
        BY <1>4 DEF TypeOK
      <4>2. Justified(n, slots) /\ \A s \in slots : Wired(graph, n, s) => Source(graph, n, s) \in available
        BY <1>2, <1>4, ReadyIsJustified
      <4> HIDE DEF slots
      <4>3. Justified(m, gathered[m])'
        BY <4>1, <4>2, <1>1, <1>4, <3>1, WiringFixed DEF Justified
      <4> QED BY <4>1, <4>2, <4>3, <3>1
    <3>2. CASE m # n
      <4>1. m \in ready /\ gathered'[m] = gathered[m]
        BY <3>2, <1>4 DEF TypeOK
      <4>2. Justified(m, gathered[m])'
        BY <4>1, <1>1, <1>4, WiringFixed DEF Justified, GatheredJustified
      <4> QED BY <4>1, <4>2 DEF GatheredJustified
    <3> QED BY <3>1, <3>2
  <2>6. GatheredJustified'
    BY <2>5, <1>1, WiringFixed DEF GatheredJustified
  <2> QED BY <2>1, <2>2, <2>3, <2>4, <2>6
<1>5. CASE UNCHANGED <<pending, finished, ready, gathered>>
  <2>1. running \subseteq ready /\ (phase # "run" => running = {})
    BY DEF Partition
  <2> QED BY <2>1, <1>1, <1>5, CalmStep
<1> QED BY <1>3, <1>4, <1>5 DEF ScanNode

(* Appending a record: the earlier ones keep their place.                  *)
LEMMA RecordAppended ==
  ASSUME NEW T, NEW t \in Seq(T), NEW r \in T
  PROVE  /\ DOMAIN Append(t, r) = DOMAIN t \cup {Len(t) + 1}
         /\ Append(t, r)[Len(t) + 1] = r
         /\ \A i \in DOMAIN t : Append(t, r)[i] = t[i] /\ i \in 1..Len(t)
         /\ Len(t) + 1 \notin DOMAIN t
         /\ DOMAIN t = 1..Len(t) /\ Len(t) \in Nat
  OBVIOUS

LEMMA RecordType ==
  ASSUME TypeOK, NEW i \in DOMAIN trace
  PROVE  trace[i] \in TraceRecord /\ trace[i].node \in NodeIds
<1>1. trace[i] \in TraceRecord
  BY DEF TypeOK
<1> QED BY <1>1 DEF TraceRecord

LEMMA CommitStep ==
  ASSUME IInv, TypeOK', NEW n \in NodeIds, CommitNode(n)
  PROVE  IInv'
<1> DEFINE outs == outcome[n].outputs
           rec  == [node |-> n, inputs |-> gathered[n], outputs |-> outs, error |-> outcome[n].error]
<1> USE DEF IInv
<1>1. /\ graph' = graph /\ gathered' = gathered /\ running' = running
      /\ phase = "commit" /\ phase' \in {"loop", "commit"}
      /\ n \in ready /\ ready' = ready \ {n}
      /\ pending' = pending \ {n} /\ finished' = finished \cup {n}
      /\ trace' = Append(trace, rec)
      /\ available' = available \cup ({n} \X outs)
  BY DEF CommitNode, Retire, AppendRecord, CommitOutputs
<1>2. n \in pending /\ n \notin finished /\ n \in Scheduled /\ running = {}
  BY <1>1 DEF Partition
<1>k. PICK k : k = Len(trace) + 1
  OBVIOUS
<1>3. rec \in TraceRecord /\ trace \in Seq(TraceRecord) /\ outs \in SUBSET OutSlots
  BY DEF TypeOK, TraceRecord, Outcome
<1>4. /\ DOMAIN trace' = DOMAIN trace \cup {k} /\ k \notin DOMAIN trace
      /\ trace'[k] = rec
      /\ \A i \in DOMAIN trace : trace'[i] = trace[i]
      /\ DOMAIN trace = 1..Len(trace) /\ Len(trace) \in Nat
  BY <1>1, <1>3, <1>k, RecordAppended
<1>5. rec.node = n /\ rec.inputs = gathered[n] /\ rec.outputs = outs
  OBVIOUS
<1> HIDE DEF rec, outs
<1>6. Traced' = Traced \cup {n}
  BY <1>4, <1>5 DEF Traced
<1>7. n \notin Traced
  BY <1>2 DEF Partition
<1>8. \A i \in DOMAIN trace : trace[i].node # n
  BY <1>7 DEF Traced
<1>9. \A m \in NodeIds \ {n}, o \in OutSlots : <<m, o>> \in available' <=> <<m, o>> \in available
  BY <1>1
<1>10. \A o \in OutSlots : <<n, o>> \in available' <=> <<n, o>> \in available \/ o \in outs
  BY <1>1
<1>11. \A j \in DOMAIN trace : \A src : Fired(j, src)' <=> Fired(j, src)
  BY <1>4 DEF Fired
<1>12. \A src : Fired(k, src)' <=> n = src[1] /\ src[2] \in outs
  BY <1>4, <1>5 DEF Fired
<1>13. available \subseteq available' /\ finished \subseteq finished'
  BY <1>1
<1>14. \A m \in NodeIds, s \in InSlots :
         Wired(graph, m, s) /\ Incoming(graph, m, s).from \in finished
           /\ Source(graph, m, s) \notin available
         => Source(graph, m, s) \notin available'
  BY <1>2, <1>9, SourceType DEF TypeOK
<1>15. ASSUME NEW m \in NodeIds, NEW inputs, Justified(m, inputs) PROVE Justified(m, inputs)'
  BY <1>15, <1>1, <1>13, <1>14, JustifiedGrows
<1>16. Partition'
  <2>1. Scheduled' = Scheduled
    BY <1>1 DEF Scheduled
  <2> QED BY <2>1, <1>1, <1>2, <1>6 DEF Partition
<1>17. AvailableIsTraced'
  <2> SUFFICES ASSUME NEW m \in NodeIds, NEW o \in OutSlots
               PROVE  <<m, o>> \in available' <=> \E j \in DOMAIN trace' : Fired(j, <<m, o>>)'
    BY DEF AvailableIsTraced
  <2>1. <<m, o>> \in available <=> \E j \in DOMAIN trace : Fired(j, <<m, o>>)
    BY DEF AvailableIsTraced
  <2>2. (\E j \in DOMAIN trace' : Fired(j, <<m, o>>)')
          <=> (\E j \in DOMAIN trace : Fired(j, <<m, o>>)) \/ (n = m /\ o \in outs)
    BY <1>4, <1>11, <1>12
  <2> QED BY <2>1, <2>2, <1>9, <1>10
<1>18. GatheredJustified'
  <2> SUFFICES ASSUME NEW m \in ready'
               PROVE  /\ Justified(m, gathered[m])'
                      /\ \A s \in gathered'[m] : Wired(graph, m, s)' => Source(graph, m, s)' \in available'
    BY DEF GatheredJustified
  <2>1. m \in ready /\ m \in NodeIds
    BY <1>1 DEF TypeOK
  <2> QED BY <2>1, <1>1, <1>13, <1>15, WiringFixed DEF GatheredJustified
<1>19. RecordsJustified'
  <2>1. ASSUME NEW i \in DOMAIN trace PROVE Justified(trace[i].node, trace[i].inputs)'
    <3>1. trace[i].node \in NodeIds
      BY RecordType
    <3> QED BY <3>1, <1>4, <1>15 DEF RecordsJustified
  <2>2. Justified(n, gathered[n])'
    BY <1>1, <1>15 DEF GatheredJustified
  <2>3. Justified(trace[k].node, trace[k].inputs)'
    BY <2>2, <1>1, <1>4, <1>5, WiringFixed DEF Justified
  <2> QED BY <2>1, <2>3, <1>4 DEF RecordsJustified
<1>20. CausalInputs'
  <2> SUFFICES ASSUME NEW i \in DOMAIN trace', NEW s \in InSlots
               PROVE  (LET m == trace[i].node IN
                       /\ s \in trace[i].inputs /\ Wired(graph, m, s) =>
                            \E j \in 1..(i - 1) : Fired(j, Source(graph, m, s))
                       /\ graph.slots[m][s] = "required" => s \in trace[i].inputs)'
    BY DEF CausalInputs
  <2>1. CASE i \in DOMAIN trace
    <3>1. trace'[i] = trace[i] /\ 1..(i - 1) \subseteq DOMAIN trace
      BY <2>1, <1>4
    <3> QED BY <3>1, <2>1, <1>1, <1>11, WiringFixed DEF CausalInputs
  <2>2. CASE i = k
    <3>1. 1..(i - 1) = DOMAIN trace
      BY <2>2, <1>k, <1>4
    <3>2. graph.slots[n][s] = "required" => s \in gathered[n]
      BY <1>1 DEF GatheredJustified, Justified
    <3>3. s \in gathered[n] /\ Wired(graph, n, s) => \E j \in DOMAIN trace : Fired(j, Source(graph, n, s))
      <4> SUFFICES ASSUME s \in gathered[n], Wired(graph, n, s)
                   PROVE  \E j \in DOMAIN trace : Fired(j, Source(graph, n, s))
        OBVIOUS
      <4>1. Source(graph, n, s) \in available
        BY <1>1 DEF GatheredJustified
      <4> QED BY <4>1, SourceType DEF AvailableIsTraced, TypeOK
    <3> QED BY <3>1, <3>2, <3>3, <2>2, <1>1, <1>4, <1>5, <1>11, WiringFixed
  <2> QED BY <2>1, <2>2, <1>4
<1>21. SkippedForCause'
  <2> SUFFICES ASSUME NEW m \in finished' \ Traced'
               PROVE  \E s \in InSlots :
                        /\ graph'.slots[m][s] = "required"
                        /\ Wired(graph, m, s)'
                        /\ Incoming(graph, m, s)'.from \in finished'
                        /\ Source(graph, m, s)' \notin available'
    BY DEF SkippedForCause
  <2>1. m \in finished \ Traced /\ m \in NodeIds
    BY <1>1, <1>6 DEF TypeOK
  <2>2. PICK s \in InSlots :
          /\ graph.slots[m][s] = "required"
          /\ Wired(graph, m, s)
          /\ Incoming(graph, m, s).from \in finished
          /\ Source(graph, m, s) \notin available
    BY <2>1 DEF SkippedForCause
  <2>3. Source(graph, m, s) \notin available'
    BY <2>1, <2>2, <1>14
  <2> QED BY <2>2, <2>3, <1>1, <1>13, WiringFixed
<1>22. AtMostOnce'
  <2> SUFFICES ASSUME NEW i \in DOMAIN trace', NEW j \in DOMAIN trace',
                      trace'[i].node = trace'[j].node
               PROVE  i = j
    BY DEF AtMostOnce
  <2> QED BY <1>4, <1>5, <1>8 DEF AtMostOnce
<1> QED BY <1>16, <1>17, <1>18, <1>19, <1>20, <1>21, <1>22

LEMMA InvStep ==
  ASSUME IInv, ValidGraph(graph), TypeOK', [Next]_vars
  PROVE  IInv'
<1> DEFINE Untouched == UNCHANGED <<graph, pending, finished, available, trace, gathered>>
<1>0. running \subseteq ready /\ (phase # "run" => running = {}) /\ running \in SUBSET NodeIds
  BY DEF IInv, Partition, TypeOK
<1>1. CASE BeginRound
  <2>1. Untouched /\ ready' = {} /\ running' = {} /\ phase' = "scan"
    BY <1>0, <1>1 DEF BeginRound
  <2> QED BY <2>1, CalmStep
<1>2. ASSUME NEW n \in NodeIds, ScanNode(n) PROVE IInv'
  BY <1>2, ScanStep
<1>3. CASE StartRound
  <2>1. Untouched /\ ready' = ready /\ running' = ready /\ phase' = "run"
    BY <1>3 DEF StartRound
  <2> QED BY <2>1, CalmStep
<1>4. CASE SafetyNetBreak \/ EndRun
  <2>1. Untouched /\ ready' = ready /\ running' = {}
    BY <1>0, <1>4 DEF SafetyNetBreak, EndRun, ScanOver
  <2> QED BY <2>1, CalmStep
<1>5. ASSUME NEW n \in NodeIds, NEW o \in Outcome, FinishNode(n, o) PROVE IInv'
  <2>1. Untouched /\ ready' = ready /\ running' \subseteq ready
    BY <1>0, <1>5 DEF FinishNode
  <2>2. phase' # "run" => running' = {}
    BY <1>5 DEF FinishNode
  <2> QED BY <2>1, <2>2, CalmStep
<1>6. ASSUME NEW n \in NodeIds, CommitNode(n) PROVE IInv'
  BY <1>6, CommitStep
<1>7. CASE UNCHANGED vars
  <2>1. Untouched /\ ready' = ready /\ running' = running /\ phase' = phase
    BY <1>7 DEF vars
  <2> QED BY <2>1, <1>0, CalmStep
<1> QED BY <1>1, <1>2, <1>3, <1>4, <1>5, <1>6, <1>7 DEF Next

-----------------------------------------------------------------------------
LEMMA InvHolds == Spec => []IInv
<1>1. IInv => TypeOK
  BY DEF IInv
<1>2. IInv /\ ValidGraph(graph) /\ TypeOK' /\ [Next]_vars => IInv'
  BY InvStep
<1> QED BY <1>2, InvInit, TypeCorrect, GraphIsValid, PTL DEF Spec

(* No graph, order of worker threads or set of failing nodes makes a run   *)
(* execute a node twice.                                                   *)
THEOREM NodesRunAtMostOnce == Spec => []AtMostOnce
<1>1. IInv => AtMostOnce
  BY DEF IInv
<1> QED BY <1>1, InvHolds, PTL

(* Every value a node sees was put out by an earlier record of the trace,  *)
(* and no node runs without its required inputs.                           *)
THEOREM InputsAreCausal == Spec => []CausalInputs
<1>1. IInv => CausalInputs
  BY DEF IInv
<1> QED BY <1>1, InvHolds, PTL

(* A node is given up on only when a required input can never come.        *)
THEOREM SkipsHaveCause == Spec => []SkippedForCause
<1>1. IInv => SkippedForCause
  BY DEF IInv
<1> QED BY <1>1, InvHolds, PTL

(* An input missing from a record is missing from the whole run: no node   *)
(* runs before an input that is still to come.                             *)
THEOREM InputsAreComplete == Spec => []InputsComplete
<1>1. IInv => InputsComplete
  <2> SUFFICES ASSUME IInv, NEW i \in DOMAIN trace, NEW j \in DOMAIN trace, NEW s \in InSlots,
                      Wired(graph, trace[i].node, s), Fired(j, Source(graph, trace[i].node, s))
               PROVE  s \in trace[i].inputs
    BY DEF InputsComplete
  <2>1. graph \in GraphRecord /\ trace[i].node \in NodeIds
    BY RecordType DEF IInv, TypeOK
  <2>2. Source(graph, trace[i].node, s) \in available
    BY <2>1, SourceType DEF IInv, AvailableIsTraced
  <2> QED BY <2>2 DEF IInv, RecordsJustified, Justified
<1> QED BY <1>1, InvHolds, PTL

-----------------------------------------------------------------------------
(* Nothing is lost when the nodes are listed in data order. *)

(* A node waits for an unfinished source: what ScanFresh says of it.       *)
LEMMA OrderedStep ==
  ASSUME IInv, OrderedInv, [Next]_vars
  PROVE  OrderedInv'
<1> SUFFICES ASSUME ListedInDataOrder(graph)' PROVE ScanFresh'
  BY DEF OrderedInv
<1>0. graph' = graph /\ graph \in GraphRecord /\ pending \in SUBSET NodeIds
  BY DEF IInv, TypeOK, Next, vars, BeginRound, ScanNode, StartRound, SafetyNetBreak,
         FinishNode, CommitNode, EndRun
<1>1. ListedInDataOrder(graph) /\ ScanFresh
  BY <1>0 DEF OrderedInv, ListedInDataOrder
<1>2. CASE BeginRound
  <2>1. phase' = "scan" /\ cursor' = 1 /\ pending' = pending
    BY <1>2 DEF BeginRound
  <2>2. \A n \in NodeIds : ~(n < 1)
    BY DEF NodeIds
  <2> QED BY <2>1, <2>2, <1>0 DEF ScanFresh
<1>3. ASSUME NEW m \in NodeIds, ScanNode(m) PROVE ScanFresh'
  <2>1. /\ phase = "scan" /\ phase' = "scan" /\ m \in pending /\ cursor' = m + 1
        /\ \A n \in pending : cursor <= n => m <= n
        /\ pending' \subseteq pending /\ ready \subseteq ready'
        /\ finished' = finished \/ finished' = finished \cup {m}
        /\ m \in pending' \ ready' => ~Blocked(m) /\ ~Ready(m) /\ finished' = finished
    BY <1>3 DEF ScanNode, Retire
  <2> SUFFICES ASSUME NEW n \in pending' \ ready', n < cursor'
               PROVE  \E s \in InSlots : Wired(graph, n, s) /\ Incoming(graph, n, s).from \notin finished'
    BY <2>1, <1>0, WiringFixed DEF ScanFresh
  <2>2. CASE n = m
    BY <2>1, <2>2, WaitingWaits
  <2>3. CASE n # m
    <3>1. n < cursor /\ n < m
      <4>1. cursor \in Int /\ m \in Int /\ n \in Int /\ cursor <= m
        BY <2>1, <1>0, <1>3 DEF IInv, TypeOK, NodeIds, ScanNode
      <4> QED BY <4>1, <2>1, <2>3
    <3>2. PICK s \in InSlots : Wired(graph, n, s) /\ Incoming(graph, n, s).from \notin finished
      BY <3>1, <2>1, <1>1 DEF ScanFresh
    <3>3. n \in NodeIds
      BY <2>1, <1>0
    <3>4. Incoming(graph, n, s).from < n
      BY <3>2, <3>3, <1>0, <1>1, IncomingIsAnEdge DEF ListedInDataOrder
    <3>5. Incoming(graph, n, s).from # m
      <4>1. Incoming(graph, n, s).from \in Int /\ n \in Int /\ m \in Int
        BY <3>2, <3>3, <1>0, SourceType DEF NodeIds
      <4> QED BY <4>1, <3>1, <3>4
    <3> QED BY <3>2, <3>5, <2>1
  <2> QED BY <2>2, <2>3
<1>4. CASE SafetyNetBreak
  <2>1. /\ phase = "scan" /\ phase' = "done" /\ ready = {}
        /\ pending' = pending /\ finished' = finished
        /\ \A n \in pending : n < cursor
    BY <1>4 DEF SafetyNetBreak, ScanOver
  <2> QED BY <2>1, <1>0, <1>1, WiringFixed DEF ScanFresh
<1>5. CASE EndRun
  BY <1>5 DEF EndRun, ScanFresh
<1>6. CASE StartRound
  BY <1>6 DEF StartRound, ScanFresh
<1>7. ASSUME NEW n \in NodeIds, NEW o \in Outcome, FinishNode(n, o) PROVE ScanFresh'
  BY <1>7 DEF FinishNode, ScanFresh
<1>8. ASSUME NEW n \in NodeIds, CommitNode(n) PROVE ScanFresh'
  BY <1>8 DEF CommitNode, ScanFresh
<1>9. CASE UNCHANGED vars
  BY <1>9, <1>1, WiringFixed DEF vars, ScanFresh
<1> QED BY <1>2, <1>3, <1>4, <1>5, <1>6, <1>7, <1>8, <1>9 DEF Next

(* On a graph whose data edges go forward in the list of nodes and do not  *)
(* leave sub-nodes, the loop never breaks off with a node undecided.       *)
THEOREM NothingIsLost == Spec => []NothingLost
<1>1. Init => OrderedInv
  BY DEF Init, OrderedInv, ScanFresh
<1>2. IInv /\ OrderedInv /\ [Next]_vars => OrderedInv'
  BY OrderedStep
<1>3. IInv /\ ValidGraph(graph) /\ OrderedInv => NothingLost
  <2> SUFFICES ASSUME IInv, ValidGraph(graph), OrderedInv, phase = "done",
                      ListedInDataOrder(graph), NoDataFromSubNodes(graph), pending # {}
               PROVE  FALSE
    BY DEF NothingLost
  <2>1. graph \in GraphRecord /\ pending \in SUBSET NodeIds
    BY DEF IInv, TypeOK
  <2>2. PICK n \in pending :
          \A i \in DOMAIN graph.edges : graph.edges[i].to = n => graph.edges[i].from \notin pending
    BY <2>1 DEF ValidGraph, CheckCycles
  <2>3. PICK s \in InSlots : Wired(graph, n, s) /\ Incoming(graph, n, s).from \notin finished
    BY DEF OrderedInv, ScanFresh
  <2>4. n \in NodeIds
    BY <2>1
  <2>5. PICK i \in DOMAIN graph.edges : graph.edges[i] = Incoming(graph, n, s) /\ graph.edges[i].to = n
    BY <2>1, <2>3, <2>4, IncomingIsAnEdge
  <2>6. graph.edges[i].from \notin graph.subNodes /\ graph.edges[i].from \in NodeIds
    BY <2>1, <2>3, <2>4, <2>5, SourceType DEF NoDataFromSubNodes
  <2>7. graph.edges[i].from \in pending
    BY <2>3, <2>5, <2>6 DEF IInv, Partition, Scheduled
  <2> QED BY <2>2, <2>5, <2>7
<1> QED BY <1>1, <1>2, <1>3, InvHolds, GraphIsValid, PTL DEF Spec

-----------------------------------------------------------------------------
(* The order of the trace *)

LEMMA OrderInit == Init => OrderInv
<1> SUFFICES ASSUME Init PROVE OrderInv
  OBVIOUS
<1>1. DOMAIN trace = {} /\ phase = "loop" /\ \A n \in NodeIds : outcome[n].outputs = {}
  BY DEF Init, NoOutcome
<1> QED BY <1>1 DEF OrderInv, RoundsFit, TraceFollowsRounds, FailuresAreEmpty

LEMMA OrderStep ==
  ASSUME IInv, IInv', OrderInv, [Next]_vars
  PROVE  OrderInv'
<1>0. /\ rounds \in Seq(SUBSET NodeIds) /\ Len(rounds) \in Nat /\ DOMAIN rounds = 1..Len(rounds)
      /\ ready \in SUBSET NodeIds /\ outcome \in [NodeIds -> Outcome]
      /\ \A i \in DOMAIN trace : trace[i].node \in NodeIds
  <2>1. rounds \in Seq(SUBSET NodeIds) /\ ready \in SUBSET NodeIds /\ outcome \in [NodeIds -> Outcome]
    BY DEF IInv, TypeOK
  <2>2. \A i \in DOMAIN trace : trace[i].node \in NodeIds
    BY RecordType DEF IInv
  <2> QED BY <2>1, <2>2
<1>1. RoundsFit /\ TraceFollowsRounds /\ FailuresAreEmpty
  BY DEF OrderInv
<1>2. ASSUME UNCHANGED <<trace, rounds, outcome>>,
             phase' \in {"run", "commit"} => phase \in {"run", "commit"} /\ ready' = ready
      PROVE  OrderInv'
  BY <1>1, <1>2 DEF OrderInv, RoundsFit, TraceFollowsRounds, FailuresAreEmpty
<1>3. CASE BeginRound \/ SafetyNetBreak \/ EndRun
  BY <1>2, <1>3 DEF BeginRound, SafetyNetBreak, EndRun
<1>4. ASSUME NEW n \in NodeIds, ScanNode(n) PROVE OrderInv'
  BY <1>2, <1>4 DEF ScanNode
<1>5. CASE StartRound
  <2>1. /\ phase' = "run" /\ rounds' = Append(rounds, ready)
        /\ UNCHANGED <<ready, trace, outcome>>
    BY <1>5 DEF StartRound
  <2>2. /\ Len(rounds') = Len(rounds) + 1 /\ DOMAIN rounds' = 1..(Len(rounds) + 1)
        /\ rounds'[Len(rounds) + 1] = ready
        /\ \A a \in DOMAIN rounds : rounds'[a] = rounds[a] /\ a \in DOMAIN rounds' /\ a < Len(rounds')
    BY <1>0, <2>1
  <2>3. ASSUME NEW i \in DOMAIN trace
        PROVE  \E a \in DOMAIN rounds' : trace[i].node \in rounds'[a] /\ a < Len(rounds')
    BY <1>1, <2>2 DEF RoundsFit
  <2>4. rounds' # <<>>
    BY <1>0, <2>2
  <2>5. RoundsFit'
    BY <1>0, <2>1, <2>2, <2>3, <2>4 DEF RoundsFit
  <2>6. TraceFollowsRounds'
    BY <1>1, <2>1, <2>2 DEF TraceFollowsRounds
  <2> QED BY <1>1, <2>1, <2>5, <2>6 DEF OrderInv, FailuresAreEmpty
<1>6. ASSUME NEW n \in NodeIds, NEW o \in Outcome, FinishNode(n, o) PROVE OrderInv'
  <2>1. /\ phase = "run" /\ phase' \in {"run", "commit"} /\ UNCHANGED <<rounds, ready, trace>>
        /\ outcome' = [outcome EXCEPT ![n] = o] /\ (o.error => o.outputs = {})
    BY <1>6 DEF FinishNode
  <2>2. RoundsFit' /\ TraceFollowsRounds'
    BY <1>1, <2>1 DEF RoundsFit, TraceFollowsRounds
  <2>3. FailuresAreEmpty'
    BY <1>0, <1>1, <2>1 DEF FailuresAreEmpty
  <2> QED BY <2>2, <2>3 DEF OrderInv
<1>7. ASSUME NEW n \in NodeIds, CommitNode(n) PROVE OrderInv'
  <2> DEFINE rec == [node |-> n, inputs |-> gathered[n], outputs |-> outcome[n].outputs, error |-> outcome[n].error]
             k == Len(trace) + 1
             last == Len(rounds)
  <2>1. /\ phase = "commit" /\ n \in ready /\ ready' = ready \ {n} /\ \A m \in ready : n <= m
        /\ trace' = Append(trace, rec) /\ UNCHANGED <<rounds, outcome>>
    BY <1>7 DEF CommitNode, AppendRecord, IsNext
  <2>2. trace \in Seq(TraceRecord) /\ rec \in TraceRecord /\ rec.node = n
    BY DEF IInv, TypeOK, TraceRecord, Outcome
  <2> HIDE DEF rec
  <2>3. /\ DOMAIN trace' = DOMAIN trace \cup {k} /\ trace'[k] = rec /\ k \notin DOMAIN trace
        /\ \A i \in DOMAIN trace : trace'[i] = trace[i] /\ i \in Nat /\ i < k
    <3>1. /\ DOMAIN trace' = DOMAIN trace \cup {k} /\ trace'[k] = rec /\ k \notin DOMAIN trace
          /\ DOMAIN trace = 1..Len(trace) /\ Len(trace) \in Nat
          /\ \A i \in DOMAIN trace : trace'[i] = trace[i]
      BY <2>1, <2>2, RecordAppended
    <3> QED BY <3>1
  <2>4. k \in Nat
    BY <2>2
  <2> HIDE DEF k
  <2>5. last \in DOMAIN rounds /\ ready \subseteq rounds[last]
    <3>1. rounds # <<>> /\ ready \subseteq rounds[last]
      BY <1>1, <2>1 DEF RoundsFit
    <3>2. Len(rounds) # 0
      BY <1>0, <3>1
    <3> QED BY <1>0, <3>1, <3>2
  <2>6. \A m \in ready' : n < m
    <3>1. \A m \in ready : m \in NodeIds
      BY <1>0
    <3> QED BY <2>1, <3>1, SizeAssumption DEF NodeIds
  <2>7. ASSUME NEW i \in DOMAIN trace
        PROVE  \E a \in DOMAIN rounds : trace[i].node \in rounds[a] /\ (a < last \/ \A m \in ready : trace[i].node < m)
    BY <1>1, <2>1 DEF RoundsFit
  <2>8. RoundsFit'
    <3>1. ASSUME NEW i \in DOMAIN trace'
          PROVE  \E a \in DOMAIN rounds : trace'[i].node \in rounds[a] /\ (a < last \/ \A m \in ready' : trace'[i].node < m)
      <4>1. CASE i = k
        BY <2>1, <2>2, <2>3, <2>5, <2>6, <4>1
      <4>2. CASE i # k
        BY <2>1, <2>3, <2>7, <4>2
      <4> QED BY <4>1, <4>2
    <3>2. rounds # <<>> /\ ready' \subseteq rounds[last]
      BY <1>0, <2>1, <2>5
    <3> QED BY <2>1, <3>1, <3>2 DEF RoundsFit
  <2>9. TraceFollowsRounds'
    <3> SUFFICES ASSUME NEW i \in DOMAIN trace', NEW j \in DOMAIN trace', i < j
                 PROVE  \E a, b \in DOMAIN rounds :
                          /\ trace'[i].node \in rounds[a] /\ trace'[j].node \in rounds[b]
                          /\ a < b \/ (a = b /\ trace'[i].node < trace'[j].node)
      BY <2>1 DEF TraceFollowsRounds
    <3>1. i \in DOMAIN trace
      BY <2>3, <2>4
    <3>2. CASE j = k
      <4>1. PICK a \in DOMAIN rounds : trace[i].node \in rounds[a] /\ (a < last \/ \A m \in ready : trace[i].node < m)
        BY <3>1, <2>7
      <4>2. a = last \/ a < last
        BY <1>0
      <4>3. a < last \/ (a = last /\ trace[i].node < n)
        BY <2>1, <4>1, <4>2
      <4> QED BY <2>1, <2>2, <2>3, <2>5, <3>1, <3>2, <4>1, <4>3
    <3>3. CASE j # k
      BY <1>1, <2>3, <3>1, <3>3 DEF TraceFollowsRounds
    <3> QED BY <3>2, <3>3
  <2> QED BY <1>1, <2>1, <2>8, <2>9 DEF OrderInv, FailuresAreEmpty
<1>8. CASE UNCHANGED vars
  BY <1>2, <1>8 DEF vars
<1> QED BY <1>3, <1>4, <1>5, <1>6, <1>7, <1>8 DEF Next

LEMMA OrderHolds == Spec => []OrderInv
BY OrderInit, OrderStep, InvHolds, PTL DEF Spec

(* The trace is the same whichever worker thread comes back first.         *)
THEOREM TraceIsOrdered == Spec => []TraceFollowsRounds
<1>1. OrderInv => TraceFollowsRounds
  BY DEF OrderInv
<1> QED BY <1>1, OrderHolds, PTL

-----------------------------------------------------------------------------
(* Rounds, scans and worker threads implement Dataflow. *)

LEMMA SameWiring ==
  ASSUME NEW g, NEW n, NEW s
  PROVE  /\ DF!Wired(g, n, s) = Wired(g, n, s)
         /\ DF!Incoming(g, n, s) = Incoming(g, n, s)
         /\ DF!Source(g, n, s) = Source(g, n, s)
  BY DEF DF!Wired, DF!EdgesInto, DF!Incoming, DF!Source, Wired, EdgesInto, Incoming, Source

Fate == [n \in NodeIds |-> FateOf(n)]

LEMMA FatesKnown ==
  ASSUME IInv, NEW n \in NodeIds
  PROVE  /\ n \in pending => FateOf(n) = "pending"
         /\ n \in finished => FateOf(n) # "pending"
<1>1. Traced \subseteq finished /\ pending \cap finished = {}
  BY DEF IInv, Partition
<1> QED BY <1>1 DEF FateOf, Traced

LEMMA FatesStay ==
  ASSUME UNCHANGED <<graph, trace, finished, available>>
  PROVE  UNCHANGED <<graph, Fate, available>>
  BY DEF Fate, FateOf

(* A node the scan gives up on is one Dataflow may skip.                   *)
LEMMA SkipMaps ==
  ASSUME IInv, ValidGraph(graph), NEW n \in NodeIds, ScanNode(n), Blocked(n), Retire(n)
  PROVE  DF!Skip(n)
<1>1. /\ n \in pending /\ finished' = finished \cup {n} /\ UNCHANGED <<graph, available, trace>>
      /\ n \in Scheduled /\ n \notin graph.subNodes /\ n \notin Traced
  BY DEF ScanNode, Retire, IInv, Partition, Scheduled
<1>2. PICK s \in InSlots :
        /\ graph.slots[n][s] = "required" /\ Wired(graph, n, s)
        /\ Incoming(graph, n, s).from \in finished /\ Source(graph, n, s) \notin available
  BY <1>1, BlockedForCause DEF IInv
<1>3. Incoming(graph, n, s).from \in NodeIds
  BY <1>2 DEF IInv, TypeOK
<1>4. Fate[n] = "pending" /\ Fate[Incoming(graph, n, s).from] # "pending"
  BY <1>1, <1>2, <1>3, FatesKnown DEF Fate
<1>5. Fate' = [Fate EXCEPT ![n] = "skipped"]
  <2>1. FateOf(n)' = "skipped"
    BY <1>1 DEF FateOf, Traced
  <2>2. ASSUME NEW m \in NodeIds, m # n PROVE FateOf(m)' = FateOf(m)
    BY <1>1, <2>2 DEF FateOf
  <2> QED BY <2>1, <2>2 DEF Fate
<1>6. s \in DF!Required(n) /\ ~DF!Fed(n, s) /\ Fate[DF!Incoming(graph, n, s).from] # "pending"
  BY <1>2, <1>4, SameWiring DEF DF!Required, DF!Fed, DF!InSlots, InSlots
<1> QED BY <1>1, <1>4, <1>5, <1>6 DEF DF!Skip, Fate

(* A node whose record is appended is one Dataflow may run.                *)
LEMMA RunMaps ==
  ASSUME IInv, ValidGraph(graph), FailuresAreEmpty, NEW n \in NodeIds, CommitNode(n)
  PROVE  DF!Run(n)
<1> DEFINE outs == outcome[n].outputs
           rec  == [node |-> n, inputs |-> gathered[n], outputs |-> outs, error |-> outcome[n].error]
<1>1. /\ graph' = graph /\ n \in ready /\ finished' = finished \cup {n}
      /\ trace' = Append(trace, rec) /\ available' = available \cup ({n} \X outs)
  BY DEF CommitNode, Retire, AppendRecord, CommitOutputs
<1>2. n \in pending /\ n \notin Traced /\ n \notin graph.subNodes /\ n \in Scheduled
  BY <1>1 DEF IInv, Partition, Scheduled
<1>3. Fate[n] = "pending"
  BY <1>2, FatesKnown DEF Fate
<1>4. Justified(n, gathered[n]) /\ \A s \in gathered[n] : Wired(graph, n, s) => Source(graph, n, s) \in available
  BY <1>1 DEF IInv, GatheredJustified
<1>5. ASSUME NEW s \in InSlots, Wired(graph, n, s)
      PROVE  Fate[Incoming(graph, n, s).from] # "pending"
  <2>1. /\ Incoming(graph, n, s).from \in NodeIds /\ Incoming(graph, n, s).out \in OutSlots
        /\ Source(graph, n, s) = <<Incoming(graph, n, s).from, Incoming(graph, n, s).out>>
    BY <1>5, SourceType DEF IInv, TypeOK
  <2>2. CASE s \notin gathered[n]
    BY <1>4, <1>5, <2>1, <2>2, FatesKnown DEF Justified, Fate
  <2>3. CASE s \in gathered[n]
    <3>1. Source(graph, n, s) \in available
      BY <1>4, <1>5, <2>3
    <3>2. PICK j \in DOMAIN trace : Fired(j, Source(graph, n, s))
      BY <2>1, <3>1 DEF IInv, AvailableIsTraced
    <3>3. Incoming(graph, n, s).from \in Traced
      BY <2>1, <3>2 DEF Fired, Traced
    <3> QED BY <2>1, <3>3, FatesKnown DEF IInv, Partition, Fate
  <2> QED BY <2>2, <2>3
<1>6. ASSUME NEW s \in InSlots, graph.slots[n][s] = "required"
      PROVE  IF Wired(graph, n, s) THEN Source(graph, n, s) \in available ELSE <<n, s>> \in graph.literals
  BY <1>2, <1>4, <1>6 DEF Justified, ValidGraph, CheckRequiredInputs, Scheduled
<1>7. DF!Settled(n) /\ \A s \in DF!Required(n) : DF!Fed(n, s)
  <2>1. DF!InSlots = InSlots
    BY DEF DF!InSlots, InSlots
  <2>2. DF!Settled(n)
    BY <1>5, <2>1, SameWiring DEF DF!Settled, Fate
  <2>3. \A s \in DF!Required(n) : DF!Fed(n, s)
    BY <1>6, <2>1, SameWiring DEF DF!Required, DF!Fed
  <2> QED BY <2>2, <2>3
<1>8. Fate' = [Fate EXCEPT ![n] = IF outcome[n].error THEN "failed" ELSE "ran"]
  <2> DEFINE k == Len(trace) + 1
  <2>1. trace \in Seq(TraceRecord) /\ rec \in TraceRecord /\ rec.node = n /\ rec.error = outcome[n].error
    BY DEF IInv, TypeOK, TraceRecord, Outcome
  <2> HIDE DEF rec
  <2>2. /\ DOMAIN trace' = DOMAIN trace \cup {k} /\ trace'[k] = rec /\ k \notin DOMAIN trace
        /\ \A i \in DOMAIN trace : trace'[i] = trace[i]
    BY <1>1, <2>1, RecordAppended
  <2> HIDE DEF k
  <2>3. FateOf(n)' = IF outcome[n].error THEN "failed" ELSE "ran"
    <3>1. \A i \in DOMAIN trace : trace[i].node # n
      BY <1>2 DEF Traced
    <3>2. /\ \E i \in DOMAIN trace' : trace'[i].node = n
          /\ (\E i \in DOMAIN trace' : trace'[i].node = n /\ trace'[i].error) <=> outcome[n].error
      BY <2>1, <2>2, <3>1
    <3> QED BY <3>2 DEF FateOf
  <2>4. ASSUME NEW m \in NodeIds, m # n PROVE FateOf(m)' = FateOf(m)
    <3>1. /\ (\E i \in DOMAIN trace' : trace'[i].node = m) <=> (\E i \in DOMAIN trace : trace[i].node = m)
          /\ (\E i \in DOMAIN trace' : trace'[i].node = m /\ trace'[i].error)
               <=> (\E i \in DOMAIN trace : trace[i].node = m /\ trace[i].error)
      BY <2>1, <2>2, <2>4
    <3>2. m \in finished' <=> m \in finished
      BY <1>1, <2>4
    <3> QED BY <3>1, <3>2 DEF FateOf
  <2> QED BY <2>3, <2>4 DEF Fate
<1>9. outs \in SUBSET OutSlots /\ (outcome[n].error => available' = available)
  BY <1>1 DEF IInv, TypeOK, Outcome, FailuresAreEmpty
<1> QED BY <1>1, <1>2, <1>3, <1>7, <1>8, <1>9 DEF DF!Run, Fate

(* A run of the scheduler is a run of Dataflow: however rounds are formed, *)
(* scans pass over nodes and threads come back, each node meets one fate,  *)
(* with everything wired to it settled and for the reason Dataflow gives.  *)
THEOREM SchedulerImplements == Spec => ImplementsDataflow
<1>1. Init => DF!Init
  <2> SUFFICES ASSUME Init PROVE DF!Init
    OBVIOUS
  <2>1. DOMAIN trace = {} /\ finished = {} /\ graph \in Graphs /\ available = {}
    BY DEF Init
  <2>2. \A n \in NodeIds : FateOf(n) = "pending"
    BY <2>1 DEF FateOf
  <2> QED BY <2>1, <2>2 DEF DF!Init, DF!NodeIds, NodeIds
<1>2. IInv /\ ValidGraph(graph) /\ FailuresAreEmpty /\ [Next]_vars => [DF!Next]_DF!vars
  <2> SUFFICES ASSUME IInv, ValidGraph(graph), FailuresAreEmpty, [Next]_vars
               PROVE  (\E n \in NodeIds : DF!Run(n) \/ DF!Skip(n)) \/ UNCHANGED <<graph, Fate, available>>
    BY DEF DF!Next, DF!vars, DF!NodeIds, NodeIds, Fate
  <2>1. CASE BeginRound \/ StartRound \/ SafetyNetBreak \/ EndRun
             \/ (\E n \in NodeIds, o \in Outcome : FinishNode(n, o)) \/ UNCHANGED vars
    BY <2>1, FatesStay DEF BeginRound, StartRound, SafetyNetBreak, EndRun, FinishNode, vars
  <2>2. ASSUME NEW n \in NodeIds, ScanNode(n)
        PROVE  DF!Skip(n) \/ UNCHANGED <<graph, Fate, available>>
    <3>1. CASE Blocked(n) /\ Retire(n)
      BY <2>2, <3>1, SkipMaps
    <3>2. CASE UNCHANGED finished
      BY <2>2, <3>2, FatesStay DEF ScanNode
    <3> QED BY <2>2, <3>1, <3>2 DEF ScanNode
  <2>3. ASSUME NEW n \in NodeIds, CommitNode(n) PROVE DF!Run(n)
    BY <2>3, RunMaps
  <2> QED BY <2>1, <2>2, <2>3 DEF Next
<1>3. OrderInv => FailuresAreEmpty
  BY DEF OrderInv
<1> QED BY <1>1, <1>2, <1>3, InvHolds, OrderHolds, GraphIsValid, PTL DEF Spec, ImplementsDataflow, DF!Spec

-----------------------------------------------------------------------------
(* Why a run ends.                                                         *)

LEMMA NodesAreFinite ==
  ASSUME NEW S \in SUBSET NodeIds
  PROVE  IsFiniteSet(S) /\ Cardinality(S) \in 0..N /\ (Cardinality(S) = 0 <=> S = {})
<1>1. IsFiniteSet(NodeIds) /\ Cardinality(NodeIds) = N
  BY SizeAssumption, FS_Interval DEF NodeIds
<1>2. IsFiniteSet(S) /\ Cardinality(S) <= N
  BY <1>1, FS_Subset
<1> QED BY <1>2, FS_CardinalityType, FS_EmptySet, SizeAssumption

LEMMA StageType ==
  ASSUME TypeOK, RoundsAreNotEmpty
  PROVE  Stage \in 0..(2 * N + 3)
<1>1. CASE phase = "scan"
  BY <1>1, SizeAssumption DEF Stage, TypeOK
<1>2. CASE phase = "run"
  <2>1. Cardinality(running) \in 0..N
    BY NodesAreFinite DEF TypeOK
  <2> QED BY <1>2, <2>1, SizeAssumption DEF Stage
<1>3. CASE phase \in {"loop", "commit", "done"}
  BY <1>3, SizeAssumption DEF Stage
<1> QED BY <1>1, <1>2, <1>3 DEF TypeOK

LEMMA RoundsStep ==
  ASSUME RoundsAreNotEmpty, Partition, [Next]_vars
  PROVE  RoundsAreNotEmpty'
<1> USE DEF RoundsAreNotEmpty
<1>1. CASE StartRound
  BY <1>1 DEF StartRound
<1>2. ASSUME NEW n \in NodeIds, NEW o \in Outcome, FinishNode(n, o) PROVE RoundsAreNotEmpty'
  BY <1>2 DEF FinishNode, Partition
<1>3. ASSUME NEW n \in NodeIds, CommitNode(n) PROVE RoundsAreNotEmpty'
  BY <1>3 DEF CommitNode
<1>4. CASE BeginRound \/ SafetyNetBreak \/ EndRun \/ UNCHANGED vars
  BY <1>4 DEF BeginRound, SafetyNetBreak, EndRun, vars
<1>5. ASSUME NEW n \in NodeIds, ScanNode(n) PROVE RoundsAreNotEmpty'
  BY <1>5 DEF ScanNode
<1> QED BY <1>1, <1>2, <1>3, <1>4, <1>5 DEF Next

(* A step retires a node, or takes the round further.                      *)
LEMMA StepCounts ==
  ASSUME TypeOK, Partition, RoundsAreNotEmpty, Next
  PROVE  \/ \E n \in pending : pending' = pending \ {n}
         \/ pending' = pending /\ Stage < Stage'
<1>1. ASSUME NEW S \in SUBSET NodeIds, S # {} PROVE Cardinality(S) \in 1..N
  BY <1>1, NodesAreFinite, SizeAssumption
<1>2. CASE BeginRound
  BY <1>2 DEF BeginRound, Stage
<1>3. ASSUME NEW n \in NodeIds, ScanNode(n), ~Blocked(n) PROVE pending' = pending /\ Stage < Stage'
  <2>1. Stage = cursor /\ Stage' = n + 1 /\ pending' = pending
    BY <1>3 DEF ScanNode, Stage
  <2>2. cursor <= n
    BY <1>3 DEF ScanNode
  <2> QED BY <2>1, <2>2 DEF TypeOK, NodeIds
<1>4. ASSUME NEW n \in NodeIds, ScanNode(n), Blocked(n) PROVE \E m \in pending : pending' = pending \ {m}
  BY <1>4 DEF ScanNode, Retire, Blocked, Ready
<1>5. CASE StartRound
  <2>1. ready # {} /\ ready \in SUBSET NodeIds /\ running' = ready /\ pending' = pending
    BY <1>5 DEF StartRound, TypeOK
  <2>2. Stage = cursor /\ Stage' = 2 * N + 2 - Cardinality(ready)
    BY <1>5 DEF StartRound, ScanOver, Stage
  <2> QED BY <1>1, <2>1, <2>2, SizeAssumption DEF TypeOK
<1>6. CASE SafetyNetBreak
  <2>1. Stage = cursor /\ Stage' = 2 * N + 3 /\ pending' = pending
    BY <1>6 DEF SafetyNetBreak, ScanOver, Stage
  <2> QED BY <2>1, SizeAssumption DEF TypeOK
<1>7. ASSUME NEW n \in NodeIds, NEW o \in Outcome, FinishNode(n, o) PROVE pending' = pending /\ Stage < Stage'
  <2>1. n \in running /\ running \in SUBSET NodeIds /\ running' = running \ {n} /\ pending' = pending
    BY <1>7 DEF FinishNode, TypeOK
  <2>2. Stage = 2 * N + 2 - Cardinality(running)
    BY <1>7 DEF FinishNode, Stage
  <2>3. Cardinality(running') = Cardinality(running) - 1 /\ Cardinality(running) \in 1..N
    BY <1>1, <2>1, NodesAreFinite, FS_RemoveElement
  <2>4. Stage' = IF running' = {} THEN 2 * N + 2 ELSE 2 * N + 2 - Cardinality(running')
    BY <1>7 DEF FinishNode, Stage
  <2> QED BY <2>1, <2>2, <2>3, <2>4, SizeAssumption
<1>8. ASSUME NEW n \in NodeIds, CommitNode(n) PROVE \E m \in pending : pending' = pending \ {m}
  BY <1>8 DEF CommitNode, Retire, Partition
<1>9. CASE EndRun
  <2>1. Stage = 0 /\ Stage' = 2 * N + 3 /\ pending' = pending
    BY <1>9 DEF EndRun, Stage
  <2> QED BY <2>1, SizeAssumption
<1> QED BY <1>2, <1>3, <1>4, <1>5, <1>6, <1>7, <1>8, <1>9 DEF Next, BeginRound

LEMMA LeftType ==
  ASSUME TypeOK, RoundsAreNotEmpty
  PROVE  Left \in Nat
<1>1. Stage \in 0..(2 * N + 3) /\ Cardinality(pending) \in Nat /\ RoundLength \in Nat
  BY StageType, NodesAreFinite, SizeAssumption DEF TypeOK, RoundLength
<1>2. Cardinality(pending) * RoundLength \in Nat
  BY <1>1
<1> QED BY <1>1, <1>2, SizeAssumption DEF Left

(* One node fewer outweighs any way back within a round.                   *)
LEMMA RoundsOutweighStages ==
  ASSUME NEW i \in Nat, NEW j \in Nat,
         NEW s \in 0..(2 * N + 3), NEW t \in 0..(2 * N + 3),
         i = j + 1 \/ (i = j /\ s < t)
  PROVE  j * RoundLength + (2 * N + 3 - t) < i * RoundLength + (2 * N + 3 - s)
<1> DEFINE round == 2 * N + 4
<1>1. N \in Nat /\ RoundLength = round
  BY SizeAssumption DEF RoundLength
<1>2. CASE i = j + 1
  <2>1. i * round = j * round + round /\ j * round \in Nat
    BY <1>1, <1>2
  <2>2. ASSUME NEW m \in Nat PROVE m + (2 * N + 3 - t) < (m + round) + (2 * N + 3 - s)
    BY <1>1
  <2> QED BY <1>1, <2>1, <2>2
<1>3. CASE i = j /\ s < t
  <2>1. j * round \in Nat
    BY <1>1
  <2>2. ASSUME NEW m \in Nat PROVE m + (2 * N + 3 - t) < m + (2 * N + 3 - s)
    BY <1>1, <1>3
  <2> QED BY <1>1, <1>3, <2>1, <2>2
<1> QED BY <1>2, <1>3

LEMMA StepsAreCounted ==
  ASSUME TypeOK, TypeOK', Partition, RoundsAreNotEmpty, Next,
         Stage \in 0..(2 * N + 3), Stage' \in 0..(2 * N + 3)
  PROVE  Left' < Left
<1>1. Cardinality(pending) \in Nat /\ Cardinality(pending') \in Nat
  BY NodesAreFinite DEF TypeOK
<1>2. \/ Cardinality(pending) = Cardinality(pending') + 1
      \/ Cardinality(pending) = Cardinality(pending') /\ Stage < Stage'
  <2>1. ASSUME NEW n \in pending, pending' = pending \ {n}
        PROVE  Cardinality(pending) = Cardinality(pending') + 1
    <3>1. IsFiniteSet(pending)
      BY NodesAreFinite DEF TypeOK
    <3>2. Cardinality(pending') = Cardinality(pending) - 1
      BY <2>1, <3>1, FS_RemoveElement
    <3> QED BY <1>1, <3>2
  <2>2. CASE pending' = pending /\ Stage < Stage'
    BY <2>2
  <2> QED BY <2>1, <2>2, StepCounts
<1>3. Left' = Cardinality(pending') * RoundLength + (2 * N + 3 - Stage')
  BY DEF Left, RoundLength
<1> QED BY <1>1, <1>2, <1>3, RoundsOutweighStages DEF Left

LEMMA RoundsHold == Spec => []RoundsAreNotEmpty
<1>1. Init => RoundsAreNotEmpty
  BY DEF Init, RoundsAreNotEmpty
<1>2. IInv => Partition
  BY DEF IInv
<1> QED BY <1>1, <1>2, RoundsStep, InvHolds, PTL DEF Spec

(* Every step brings a natural number down, so a run of the loop takes at  *)
(* most (N + 1) * (2 * N + 4) steps: while pending (engine.py 171) cannot  *)
(* spin, whichever nodes fail or wait for what never comes.                *)
THEOREM LoopCannotSpin == Spec => [](Left \in Nat) /\ EachStepCounts
<1>1. TypeOK /\ RoundsAreNotEmpty => Left \in Nat
  BY LeftType
<1>2. TypeOK /\ RoundsAreNotEmpty => Stage \in 0..(2 * N + 3)
  BY StageType
<1>3. TypeOK /\ TypeOK' /\ Partition /\ RoundsAreNotEmpty /\ [Next]_vars
      /\ Stage \in 0..(2 * N + 3) /\ (Stage \in 0..(2 * N + 3))' => [Left' < Left]_vars
  BY StepsAreCounted
<1>4. IInv => Partition
  BY DEF IInv
<1> QED BY <1>1, <1>2, <1>3, <1>4, InvHolds, RoundsHold, TypeCorrect, PTL DEF Spec, EachStepCounts

(* Until the run is done the guard of one of its steps holds: the scan     *)
(* finds its next node or is over, a round that was announced has threads  *)
(* to wait for and then results to commit.                                 *)
THEOREM LoopIsNeverStuck == Spec => []NeverStuck
<1>1. ASSUME NEW S \in SUBSET NodeIds, S # {} PROVE \E n \in S : \A m \in S : n <= m
  <2> DEFINE T == {N - n : n \in S}
  <2>1. \A n \in S : n \in Nat /\ N - n \in 0..N
    BY SizeAssumption DEF NodeIds
  <2>2. T \in SUBSET (0..N) /\ T # {}
    BY <1>1, <2>1
  <2> HIDE DEF T
  <2>3. PICK i \in T : \A j \in T : j <= i
    BY <2>2, MaxExists, SizeAssumption
  <2>4. PICK n \in S : i = N - n
    BY DEF T
  <2>5. ASSUME NEW m \in S PROVE n <= m
    <3>1. N - m <= N - n
      BY <2>3, <2>4 DEF T
    <3> QED BY <2>1, <3>1, SizeAssumption
  <2> QED BY <2>5
<1>2. TypeOK /\ RoundsAreNotEmpty => NeverStuck
  <2> SUFFICES ASSUME TypeOK, RoundsAreNotEmpty, phase # "done" PROVE CanGoOn
    BY DEF NeverStuck
  <2>1. CASE phase = "loop"
    BY <2>1 DEF CanGoOn
  <2>2. CASE phase = "scan"
    <3> DEFINE rest == {n \in pending : cursor <= n}
    <3>1. CASE rest = {}
      BY <2>2, <3>1 DEF CanGoOn, ScanOver, TypeOK, NodeIds
    <3>2. CASE rest # {}
      <4>1. PICK n \in rest : \A m \in rest : n <= m
        BY <1>1, <3>2 DEF TypeOK
      <4> QED BY <2>2, <4>1 DEF CanGoOn
    <3> QED BY <3>1, <3>2
  <2>3. CASE phase = "run"
    BY <2>3 DEF CanGoOn, RoundsAreNotEmpty
  <2>4. CASE phase = "commit"
    BY <1>1, <2>4 DEF CanGoOn, RoundsAreNotEmpty, IsNext, TypeOK
  <2> QED BY <2>1, <2>2, <2>3, <2>4 DEF TypeOK
<1> QED BY <1>2, TypeCorrect, RoundsHold, PTL
=============================================================================
