------------------------------ MODULE Contract ------------------------------
(***************************************************************************)
(* What a graph is called with from outside: its text_input and            *)
(* text_output nodes under their external names, which are labels or, for  *)
(* nodes without one, ids; so the label of one node may be the id of       *)
(* another.  POST .../invoke checks its inputs against the contract,       *)
(* writes them into the nodes and picks the outputs out of the result.     *)
(*                                                                         *)
(* Definitions are functions of a graph, here the list of its nodes.       *)
(***************************************************************************)
LOCAL INSTANCE Naturals
LOCAL INSTANCE SequencesExt
LOCAL INSTANCE TLC

CONSTANTS
  FieldNames,  \* node ids, labels, names a caller uses
  Texts,       \* values of inputs
  Empty,       \* the empty string, or no value or label
  Null         \* the output of a node that never ran

ASSUME ContractAssumption == Empty \notin FieldNames \cup Texts

Directions == {"text_input", "text_output"}
NodeSpec == [id : FieldNames, type : Directions \cup {"other"},
             label : FieldNames \cup {Empty}, value : Texts \cup {Empty}]

(* node.config.get("label") or node.id *)
FieldName(n) == IF n.label = Empty THEN n.id ELSE n.label

NoFields == [text_input |-> <<>>, text_output |-> <<>>, error |-> FALSE]

(* One turn of the loop over the nodes: a name that is taken in the same   *)
(* direction raises ContractError.                                         *)
AddField(c, n) ==
  IF c.error \/ n.type \notin Directions THEN c
  ELSE IF FieldName(n) \in DOMAIN c[n.type] THEN [c EXCEPT !.error = TRUE]
  ELSE [c EXCEPT ![n.type] = @ @@ FieldName(n) :> n.id]

BuildContract(nodes) == FoldLeft(AddField, NoFields, nodes)

RequiredFields(nodes) ==
  {FieldName(n) : n \in {m \in ToSet(nodes) : m.type = "text_input" /\ m.value = Empty}}

(* invoke_graph answers anything else with 422.                            *)
AcceptsInputs(nodes, inputs) ==
  LET c == BuildContract(nodes) IN
  /\ ~c.error
  /\ DOMAIN inputs \subseteq DOMAIN c.text_input
  /\ RequiredFields(nodes) \subseteq DOMAIN inputs

(* Names lead to ids, ids to nodes.                                        *)
ApplyInputs(nodes, inputs) ==
  LET nodeId == BuildContract(nodes).text_input
      Overridden(n) == {name \in DOMAIN inputs : nodeId[name] = n.id}
  IN [i \in DOMAIN nodes |->
        IF Overridden(nodes[i]) = {} THEN nodes[i]
        ELSE [nodes[i] EXCEPT !.value = inputs[CHOOSE name \in Overridden(nodes[i]) : TRUE]]]

(* result: of the text_output nodes that ran, by id.                       *)
InvokeOutputs(nodes, result) ==
  LET nodeId == BuildContract(nodes).text_output IN
  [name \in DOMAIN nodeId |-> IF nodeId[name] \in DOMAIN result THEN result[nodeId[name]] ELSE Null]

-----------------------------------------------------------------------------
(* app.py 2008, "an ambiguous contract must fail loudly, not silently run  *)
(* the wrong node": a contract is refused for that and for nothing else.   *)
RefusedIfAmbiguous(nodes) ==
  BuildContract(nodes).error <=>
    \E i, j \in DOMAIN nodes :
      /\ i < j /\ nodes[i].type = nodes[j].type /\ nodes[i].type \in Directions
      /\ FieldName(nodes[i]) = FieldName(nodes[j])

(* specs/029, "a non-empty saved config.value makes that field optional    *)
(* (the saved value is used if omitted)": inputs that are accepted reach   *)
(* the node of their name and no other, and none goes without a value that *)
(* the caller did not leave empty.                                         *)
InputsReachTheirNodes(nodes, inputs) ==
  AcceptsInputs(nodes, inputs) =>
    LET run == ApplyInputs(nodes, inputs)
        Given(n) == n.type = "text_input" /\ FieldName(n) \in DOMAIN inputs
    IN \A i \in DOMAIN nodes :
         /\ run[i] = [nodes[i] EXCEPT !.value = IF Given(nodes[i]) THEN inputs[FieldName(nodes[i])] ELSE @]
         /\ run[i].type = "text_input" /\ run[i].value = Empty => Given(nodes[i])

(* A name in the answer stands for the node that has it, null if that node *)
(* never ran.                                                              *)
OutputsComeFromTheirNodes(nodes, result) ==
  LET outputs == InvokeOutputs(nodes, result) IN
  ~BuildContract(nodes).error =>
    \A n \in ToSet(nodes) : n.type = "text_output" =>
      outputs[FieldName(n)] = IF n.id \in DOMAIN result THEN result[n.id] ELSE Null
=============================================================================
