------------------------------ MODULE MCScheduler ------------------------------
(***************************************************************************)
(* Graphs for TLC: all the small ones, and the shapes of the repository's  *)
(* control-flow nodes.                                                     *)
(***************************************************************************)
EXTENDS Scheduler, Validation

(* A graph from a list of edges.  opt: the wired slots that are optional;  *)
(* lits and unwired: slots with no edge, required ones filled by a literal *)
(* and optional ones left empty; subs: the nodes wired as sub-nodes.       *)
GraphOf(es, opt, lits, unwired, subs) ==
  [slots |-> [n \in NodeIds |-> [s \in InSlots |->
      IF \E i \in DOMAIN es : es[i].to = n /\ es[i].slot = s
      THEN IF <<n, s>> \in opt THEN "optional" ELSE "required"
      ELSE IF <<n, s>> \in lits THEN "required"
      ELSE IF <<n, s>> \in unwired THEN "optional" ELSE "undeclared"]],
   literals |-> lits, edges |-> es, subNodes |-> subs, sinks |-> {1}]

Edge(a, o, b, s) == [from |-> a, out |-> o, to |-> b, slot |-> s]

Ends(es) == {<<es[i].to, es[i].slot>> : i \in DOMAIN es}

-----------------------------------------------------------------------------
(* Every set of at most two data edges between three nodes, in both list   *)
(* orders, with every choice of optional slots; the fourth node is wired    *)
(* as a sub-node and takes no part.                                         *)
SmallEdges == {e \in EdgeSpec : e.from # e.to /\ e.out = "a" /\ {e.from, e.to} \subseteq 1..3}

EdgeLists == {SetToSeq(E) : E \in UNION {kSubset(k, SmallEdges) : k \in 0..2}}

SmallGraphs ==
  {g \in UNION {{GraphOf(es, opt, lits, {<<1, 1>>} \ Ends(es), subs) :
                   opt \in SUBSET Ends(es), lits \in {{}, {<<3, M>>} \ Ends(es)}, subs \in {{4}, {1, 4}}} :
                es \in EdgeLists \cup {Reverse(es) : es \in EdgeLists}} :
     ValidGraph(g)}

(* fan_out into merge, the same listed backwards, with an optional second  *)
(* input, a conditional_branch whose arms end in one slot, and a tool      *)
(* wired both as a sub-node and as a data source.                          *)
FanOutMerge == <<Edge(1, "a", 2, 1), Edge(1, "b", 3, 1), Edge(2, "a", 4, 1), Edge(3, "a", 4, 2)>>
MergeFirst  == <<Edge(4, "a", 3, 1), Edge(4, "b", 2, 1), Edge(3, "a", 1, 1), Edge(2, "a", 1, 2)>>
BranchJoin  == <<Edge(1, "a", 2, 1), Edge(1, "b", 3, 1), Edge(2, "a", 4, 1), Edge(3, "a", 4, 1)>>
Chain       == <<Edge(4, "a", 3, 1), Edge(3, "a", 2, 1), Edge(2, "a", 1, 1)>>

Shapes ==
  {g \in {GraphOf(es, opt, {}, {}, subs) :
            es \in {FanOutMerge, MergeFirst, BranchJoin, Chain},
            opt \in {{}, {<<4, 2>>}, {<<1, 1>>}, {<<1, 2>>, <<4, 1>>}},
            subs \in {{}, {1}, {4}}} : ValidGraph(g)}

AllGraphs == SmallGraphs \cup Shapes

-----------------------------------------------------------------------------
(* A registry for the rules of validate_graph: a type with a required and  *)
(* an optional input, one with two outputs, one whose slots are resolved   *)
(* from its config, a root with a slot for a model and one for tools, the  *)
(* model, and a root with the outputs of its sub-node.                     *)
Inputs(k1, k2) == 1 :> [kind |-> k1, type |-> "text"] @@ 2 :> [kind |-> k2, type |-> "json"]
Outputs(t1, t2) == "a" :> t1 @@ "b" :> t2
NoSubSlots == "model" :> None @@ "tools" :> None
SubSlot(cardinality, role) == [cardinality |-> cardinality, role |-> role]

Plain == [inputs |-> Inputs("required", "optional"), outputs |-> Outputs("text", None), resolves |-> FALSE,
          subSlots |-> NoSubSlots, role |-> None, mirrors |-> None, sink |-> FALSE]

SmallRegistry ==
  [t \in Types |->
     CASE t = "plain"   -> Plain
       [] t = "source"  -> [Plain EXCEPT !.inputs = Inputs("undeclared", "undeclared"), !.outputs = Outputs("text", "json")]
       [] t = "code"    -> [Plain EXCEPT !.resolves = TRUE, !.sink = TRUE]
       [] t = "agent"   -> [Plain EXCEPT !.inputs = Inputs("optional", "undeclared"),
                                         !.subSlots = "model" :> SubSlot("one", "model") @@ "tools" :> SubSlot("many", None)]
       [] t = "model"   -> [Plain EXCEPT !.inputs = Inputs("undeclared", "undeclared"), !.role = "model"]
       [] t = "trigger" -> [Plain EXCEPT !.inputs = Inputs("undeclared", "undeclared"), !.outputs = Outputs(None, None),
                                         !.subSlots = "model" :> SubSlot("zero_or_one", None) @@ "tools" :> None,
                                         !.mirrors = "model"]]

(* Two nodes of any types, with one edge or two, and two of a type without *)
(* required inputs.                                                        *)
Ends12 == {1, 2, Missing}
AnyEdges == [kind : {"data"}, from : Ends12, out : OutSlots, to : Ends12, slot : InSlots]
              \cup [kind : {"sub_node"}, from : Ends12, to : Ends12, slot : SubSlots]
TwoEdges == {e \in AnyEdges : ~Dangling(e) /\ (e.kind = "data" => e.out = "a")}
SentEdges == {<<>>} \cup {<<e>> : e \in AnyEdges} \cup {<<e, f>> : e, f \in TwoEdges}

SentGraphs ==
  {[type |-> <<t, u, "source", "source">>, edges |-> es, literals |-> lits, malformed |-> bad, unresolved |-> {}] :
     t, u \in Types \cup {Unregistered}, es \in SentEdges, lits \in {{}, {<<1, 1>>}}, bad \in {{}, {1}}}

ASSUME \A g \in SentGraphs : AcceptedAreValid(g)

(* Edges between three nodes, loops and repeated ones too, up to three.    *)
Arcs == {[from |-> a, to |-> b] : a, b \in 1..3} \cup {[from |-> 1, to |-> Missing]}
ASSUME \A n \in 0..3 : \A es \in [1..n -> Arcs] : KahnFindsCycles(es)

PlainGraphs == {g \in SmallGraphs : NoDataFromSubNodes(g)}
=============================================================================
