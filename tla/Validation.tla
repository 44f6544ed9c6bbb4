----------------------------- MODULE Validation -----------------------------
(***************************************************************************)
(* validate_graph, rule by rule, over graphs as clients send them: nodes   *)
(* of types that may not be registered, data and sub_node edges whose ends *)
(* may not exist.  AsGraph is what the engine then takes from a graph, and *)
(* AcceptedAreValid says that what the rules let through has the four      *)
(* properties (ValidGraph) that Scheduler and its proofs rely on.          *)
(*                                                                         *)
(* Definitions are functions of a graph, evaluated and not run: the rules  *)
(* are called one after the other, each on the graph and on what earlier   *)
(* ones found.  A rule that looked up a node or a type that is not there   *)
(* would apply a function outside its domain, which TLC reports.           *)
(***************************************************************************)
EXTENDS GraphSpec, SequencesExt

CONSTANTS
  Types,         \* registered node types
  Unregistered,  \* another type name
  Definition,    \* [Types -> NodeDefinition]
  SlotType,      \* types of slots
  SubSlots,      \* names of sub-node slots
  Role,          \* roles of sub-nodes
  Missing,       \* a node id that no node has
  None

(* inputs, outputs: of a static type, or what resolve_slots finds in a     *)
(* node whose config is well formed; mirrors: resolve_slots_from_sub_node. *)
NodeDefinition ==
  [inputs   : [InSlots -> [kind : SlotKinds, type : SlotType]],
   outputs  : [OutSlots -> SlotType \cup {None}],
   resolves : BOOLEAN,
   subSlots : [SubSlots -> [cardinality : {"one", "zero_or_one", "many"}, role : Role \cup {None}] \cup {None}],
   role     : Role \cup {None},
   mirrors  : SubSlots \cup {None},
   sink     : BOOLEAN]

ASSUME RegistryAssumption ==
  /\ Definition \in [Types -> NodeDefinition] /\ Unregistered \notin Types
  /\ Missing \notin NodeIds

(* A data edge names an output and an input slot, a sub_node edge one of   *)
(* its target's sub-node slots.                                            *)
DataEdge == [kind : {"data"}, from : NodeIds \cup {Missing}, out : OutSlots, to : NodeIds \cup {Missing}, slot : InSlots]
SubNodeEdge == [kind : {"sub_node"}, from : NodeIds \cup {Missing}, to : NodeIds \cup {Missing}, slot : SubSlots]

(* malformed: nodes whose config does not fit their type's model;          *)
(* unresolved: nodes that name a connection their caller cannot resolve    *)
(* (Sharing has the resolution).                                           *)
SentGraph == [type : [NodeIds -> Types \cup {Unregistered}], edges : Seq(DataEdge \cup SubNodeEdge),
              literals : SUBSET (NodeIds \X InSlots), malformed : SUBSET NodeIds, unresolved : SUBSET NodeIds]

Issue(rule, n) == [rule |-> rule, node |-> n]

-----------------------------------------------------------------------------
(* Kahn's algorithm *)

(* The ends of the edges that have both, in order. *)
Follow(es) == SelectSeq(es, LAMBDA e : {e.from, e.to} \subseteq NodeIds)

Indegree(es) == [n \in NodeIds |-> Len(SelectSeq(es, LAMBDA e : e.to = n))]
Adjacency(es, n) == LET out == SelectSeq(es, LAMBDA e : e.from = n) IN [i \in DOMAIN out |-> out[i].to]

(* One turn of "while queue": an edge is one entry of the adjacency list,  *)
(* however many lead from n to m.                                          *)
Release(st, m) ==
  [st EXCEPT !.indegree[m] = @ - 1,
             !.queue = IF st.indegree[m] = 1 THEN Append(@, m) ELSE @]

Turn(st, es) ==
  IF st.queue = <<>> THEN st
  ELSE LET n == Head(st.queue) IN
       FoldLeft(Release, [st EXCEPT !.queue = Tail(@), !.order = Append(@, n)], Adjacency(es, n))

(* A node enters the queue once, so after N turns the queue is empty.      *)
KahnOrder(edges) ==
  LET es == Follow(edges)
      indegree == Indegree(es)
      turn[k \in 0..N] ==
        IF k = 0
        THEN [indegree |-> indegree, order |-> <<>>,
              queue |-> SelectSeq([n \in NodeIds |-> n], LAMBDA n : indegree[n] = 0)]
        ELSE Turn(turn[k - 1], es)
  IN turn[N].order

Remaining(edges) == NodeIds \ ToSet(KahnOrder(edges))

-----------------------------------------------------------------------------
(* The rules *)

Dangling(e) == {e.from, e.to} \cap {Missing} # {}

CheckStructural(g) == {Issue("structural", None) : i \in {j \in DOMAIN g.edges : Dangling(g.edges[j])}}

(* What the rules about data flow look at. *)
ValidEdges(g) == SelectSeq(g.edges, LAMBDA e : ~Dangling(e) /\ e.kind = "data")

UnregisteredIds(g) == {n \in NodeIds : g.type[n] \notin Types}
CheckUnregisteredTypes(g) == {Issue("unregistered_type", n) : n \in UnregisteredIds(g)}

(* The sources of all sub_node edges, the dangling ones among them. *)
SubNodeReferencedIds(g) == {e.from : e \in {f \in ToSet(g.edges) : f.kind = "sub_node"}}

Def(g, n) == Definition[g.type[n]]

(* resolve_slots finds no slots in a malformed config. *)
Resolvable(g, n) == Def(g, n).resolves => n \notin g.malformed

RequiredInputs(g) ==
  {Issue("missing_required_input", n) : n \in
     {m \in NodeIds \ (UnregisteredIds(g) \cup SubNodeReferencedIds(g)) :
        /\ Resolvable(g, m)
        /\ \E s \in InSlots :
             /\ Def(g, m).inputs[s].kind = "required"
             /\ \A e \in ToSet(ValidEdges(g)) : e.to # m \/ e.slot # s
             /\ <<m, s>> \notin g.literals}}

(* The outputs of a root that mirrors a sub-node are those of the first    *)
(* node wired to that slot, none if there is none.                         *)
Mirrored(g, n) ==
  SelectSeq(g.edges, LAMBDA e : e.kind = "sub_node" /\ e.to = n /\ e.slot = Def(g, n).mirrors)

OutputsFrom(g, n) ==
  IF Def(g, n).mirrors = None THEN {n}
  ELSE IF Mirrored(g, n) = <<>> THEN {}
  ELSE {Head(Mirrored(g, n)).from} \ (UnregisteredIds(g) \cup {Missing})

OutputType(g, n, out) ==
  IF OutputsFrom(g, n) = {} THEN None
  ELSE Def(g, CHOOSE m \in OutputsFrom(g, n) : TRUE).outputs[out]

(* The node an edge is reported at: its source if that has no such output, *)
(* its target if it has no such input or one of another type.              *)
Mismatched(g, e) ==
  LET out == OutputType(g, e.from, e.out)
      in  == Def(g, e.to).inputs[e.slot]
  IN  IF out = None THEN {e.from}
      ELSE IF in.kind = "undeclared" \/ out # in.type THEN {e.to} ELSE {}

(* Edges of which both ends' slots are known. *)
TypedEdges(g) ==
  {e \in ToSet(ValidEdges(g)) :
     /\ {e.from, e.to} \cap UnregisteredIds(g) = {}
     /\ \A m \in OutputsFrom(g, e.from) \cup {e.to} : Resolvable(g, m)}

TypeMismatches(g) == {Issue("type_mismatch", n) : n \in UNION {Mismatched(g, e) : e \in TypedEdges(g)}}

Cycles(g) == IF Remaining(ValidEdges(g)) # {} THEN {Issue("cycle", None)} ELSE {}

ConfigSchema(g) == {Issue("invalid_config", n) : n \in g.malformed \ UnregisteredIds(g)}

MissingConnections(g) == {Issue("missing_connection", n) : n \in g.unresolved}

(* sub_node edges that the rule looks at, and what it says of one.         *)
SubNodeEdges(g) ==
  SelectSeq(g.edges, LAMBDA e : /\ e.kind = "sub_node" /\ ~Dangling(e)
                                /\ {e.from, e.to} \cap UnregisteredIds(g) = {})

Slot(g, e) == Def(g, e.to).subSlots[e.slot]

Fits(g, e) == Slot(g, e) # None /\ Slot(g, e).role \in {None, Def(g, e.from).role}

Conflicts(g, e) == \E f \in ToSet(g.edges) : f.kind = "data" /\ f.to = e.from

Connected(g, n, slot) == Len(SelectSeq(SubNodeEdges(g), LAMBDA e : Fits(g, e) /\ e.to = n /\ e.slot = slot))

Allows(cardinality, count) ==
  /\ cardinality = "one" => count = 1
  /\ cardinality = "zero_or_one" => count <= 1

SubNodeEdgeIssues(g) ==
  LET es == ToSet(SubNodeEdges(g)) IN
  {Issue("unknown_sub_node_slot", e.to) : e \in {f \in es : Slot(g, f) = None}}
    \cup {Issue("incompatible_sub_node_type", e.to) : e \in {f \in es : Slot(g, f) # None /\ ~Fits(g, f)}}
    \cup {Issue("sub_node_has_conflicting_edges", e.to) : e \in {f \in es : Fits(g, f) /\ Conflicts(g, f)}}
    \cup {Issue("sub_node_cardinality", n) : n \in
            {m \in NodeIds \ UnregisteredIds(g) :
               \E slot \in SubSlots : /\ Def(g, m).subSlots[slot] # None
                                      /\ ~Allows(Def(g, m).subSlots[slot].cardinality, Connected(g, m, slot))}}

(* The issues of a graph: it is accepted if there are none. *)
Issues(g) ==
  CheckStructural(g) \cup CheckUnregisteredTypes(g) \cup RequiredInputs(g) \cup TypeMismatches(g)
    \cup Cycles(g) \cup ConfigSchema(g) \cup MissingConnections(g) \cup SubNodeEdgeIssues(g)

-----------------------------------------------------------------------------
(* What the engine takes from a graph: run_graph_async reads the data      *)
(* edges, the sources of the sub_node edges and the types' inputs.         *)
AsGraph(g) ==
  LET data == SelectSeq(g.edges, LAMBDA e : e.kind = "data") IN
  [slots    |-> [n \in NodeIds |-> [s \in InSlots |-> Def(g, n).inputs[s].kind]],
   literals |-> g.literals,
   edges    |-> [i \in DOMAIN data |-> [from |-> data[i].from, out |-> data[i].out,
                                        to |-> data[i].to, slot |-> data[i].slot]],
   subNodes |-> SubNodeReferencedIds(g),
   sinks    |-> {n \in NodeIds : Def(g, n).sink}]

(* topo.py 13, "`remaining` is non-empty iff the graph (restricted to      *)
(* node_ids) contains a cycle": and the order puts the source of every     *)
(* edge before its target, when edges are repeated, loop or dangle too.    *)
KahnFindsCycles(edges) ==
  LET es == Follow(edges)  order == KahnOrder(edges) IN
  /\ (Remaining(edges) = {}) <=> CheckCycles([edges |-> es])
  /\ IsInjective(order)
  /\ \A i \in DOMAIN es : es[i].to \in ToSet(order) =>
       \E j, k \in DOMAIN order : j < k /\ order[j] = es[i].from /\ order[k] = es[i].to

(* What the rules accept is a graph the scheduler may be given; and a      *)
(* graph of well-formed nodes that they reject for its data edges alone is *)
(* no valid graph, unless the type of a value is wrong.                    *)
AcceptedAreValid(g) ==
  /\ Issues(g) = {} => AsGraph(g) \in GraphRecord /\ ValidGraph(AsGraph(g))
  /\ Issues(g) # {} /\ Issues(g) \subseteq RequiredInputs(g) \cup Cycles(g) => ~ValidGraph(AsGraph(g))
=============================================================================
