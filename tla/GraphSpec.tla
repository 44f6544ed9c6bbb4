------------------------------ MODULE GraphSpec ------------------------------
(***************************************************************************)
(* The graphs the engine runs: nodes in the order of graph.nodes, typed    *)
(* input slots in the order the node's type declares them, data edges in   *)
(* the order of graph.edges, and the nodes that sub_node edges leave from. *)
(* ValidGraph is what validate_graph lets through, as far as the scheduler *)
(* can tell graphs apart.                                                  *)
(*                                                                         *)
(* A node is its position in graph.nodes and an input slot its position in *)
(* the type's list of inputs: gather_inputs and the scheduler's scan walk  *)
(* both lists in that order.                                               *)
(***************************************************************************)
EXTENDS Integers, Sequences, FiniteSets

CONSTANTS N,        \* number of nodes of a graph
          M,        \* number of input slots a node may declare
          OutSlots  \* names of output slots

ASSUME SizeAssumption == N \in Nat \ {0} /\ M \in Nat \ {0}

NodeIds == 1..N
InSlots == 1..M

SlotKinds == {"required", "optional", "undeclared"}

EdgeSpec == [from : NodeIds, out : OutSlots, to : NodeIds, slot : InSlots]

(* slots: the input slots of each node's type; literals: node.input_values; *)
(* subNodes: the sources of sub_node edges; sinks: nodes whose type has a   *)
(* result_slot.                                                             *)
GraphRecord == [slots    : [NodeIds -> [InSlots -> SlotKinds]],
                literals : SUBSET (NodeIds \X InSlots),
                edges    : Seq(EdgeSpec),
                subNodes : SUBSET NodeIds,
                sinks    : SUBSET NodeIds]

EdgesInto(g, n, s) == {i \in DOMAIN g.edges : g.edges[i].to = n /\ g.edges[i].slot = s}

Wired(g, n, s) == EdgesInto(g, n, s) # {}

(* incoming_by_slot is built by a dict comprehension over graph.edges: when *)
(* two data edges end in one slot the later one replaces the earlier.       *)
Incoming(g, n, s) ==
  LET last == CHOOSE i \in EdgesInto(g, n, s) : \A j \in EdgesInto(g, n, s) : j <= i
  IN  g.edges[last]

Source(g, n, s) == <<Incoming(g, n, s).from, Incoming(g, n, s).out>>

-----------------------------------------------------------------------------
(* The rules of validate_graph. *)

CheckRequiredInputs(g) ==
  \A n \in NodeIds \ g.subNodes, s \in InSlots :
    g.slots[n][s] = "required" => Wired(g, n, s) \/ <<n, s>> \in g.literals

CheckSlotsDeclared(g) ==
  \A i \in DOMAIN g.edges : g.slots[g.edges[i].to][g.edges[i].slot] # "undeclared"

(* No set of nodes in which every node is fed from inside the set. *)
CheckCycles(g) ==
  \A S \in SUBSET NodeIds :
    S # {} => \E n \in S : \A i \in DOMAIN g.edges : g.edges[i].to = n => g.edges[i].from \notin S

CheckSubNodeEdges(g) ==
  \A i \in DOMAIN g.edges : g.edges[i].to \notin g.subNodes

ValidGraph(g) ==
  /\ CheckRequiredInputs(g)
  /\ CheckSlotsDeclared(g)
  /\ CheckCycles(g)
  /\ CheckSubNodeEdges(g)

(* Two shapes of graph the scheduler treats better than the rest: every    *)
(* data edge leads from an earlier node of graph.nodes to a later one, and  *)
(* no data edge leaves a node that is wired as a sub-node.                  *)
ListedInDataOrder(g) == \A i \in DOMAIN g.edges : g.edges[i].from < g.edges[i].to
NoDataFromSubNodes(g) == \A i \in DOMAIN g.edges : g.edges[i].from \notin g.subNodes
=============================================================================
