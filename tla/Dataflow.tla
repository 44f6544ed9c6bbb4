------------------------------- MODULE Dataflow -------------------------------
(***************************************************************************)
(* What a run of a graph promises, with no rounds, scan order or worker    *)
(* threads: each scheduled node meets one fate, decided once, as soon as   *)
(* the fate of everything wired to it is known.                            *)
(*                                                                         *)
(* ARCHITECTURE.md and the docstrings of run_graph and _run_graph_async    *)
(* promise this much: a node runs when its inputs are there, and a failed  *)
(* node or a branch that did not fire skips what depends on it.            *)
(***************************************************************************)
EXTENDS GraphSpec

CONSTANT Graphs

VARIABLES graph,  \* the graph of this run
          fate,   \* what became of each node
          fired   \* the output slots that were produced

vars == <<graph, fate, fired>>

Fates == {"pending", "ran", "failed", "skipped"}

(* Everything wired to the node has met its fate. *)
Settled(n) ==
  \A s \in InSlots : Wired(graph, n, s) => fate[Incoming(graph, n, s).from] # "pending"

Fed(n, s) == IF Wired(graph, n, s) THEN Source(graph, n, s) \in fired
                                   ELSE <<n, s>> \in graph.literals

Required(n) == {s \in InSlots : graph.slots[n][s] = "required"}

Init ==
  /\ graph \in Graphs
  /\ fate = [n \in NodeIds |-> "pending"]
  /\ fired = {}

Run(n) ==
  /\ n \notin graph.subNodes
  /\ fate[n] = "pending"
  /\ Settled(n)
  /\ \A s \in Required(n) : Fed(n, s)
  /\ \/ /\ fate' = [fate EXCEPT ![n] = "failed"]
        /\ UNCHANGED fired
     \/ /\ fate' = [fate EXCEPT ![n] = "ran"]
        /\ \E outs \in SUBSET OutSlots : fired' = fired \cup ({n} \X outs)
  /\ UNCHANGED graph

(* One required input that can never come is enough to skip a node.        *)
Skip(n) ==
  /\ n \notin graph.subNodes
  /\ fate[n] = "pending"
  /\ \E s \in Required(n) :
       /\ ~Fed(n, s)
       /\ Wired(graph, n, s) => fate[Incoming(graph, n, s).from] # "pending"
  /\ fate' = [fate EXCEPT ![n] = "skipped"]
  /\ UNCHANGED <<graph, fired>>

Next == \E n \in NodeIds : Run(n) \/ Skip(n)

Spec == Init /\ [][Next]_vars
=============================================================================
