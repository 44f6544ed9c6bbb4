------------------------------ MODULE MCAccounts ------------------------------
(***************************************************************************)
(* Two addresses, either of them the administrator's at one start or       *)
(* another, two callbacks to one browser, and one key for two graphs; and  *)
(* small graphs for the contract that an invocation goes by.               *)
(***************************************************************************)
EXTENDS Accounts, Contract, TLC

CONSTANTS p, q, i1, i2, c1, c2, b, g1, g2, k1

Interchangeable == Permutations(Callbacks) \cup Permutations(Ids) \cup Permutations(Graphs)

-----------------------------------------------------------------------------
(* Any two nodes, and three inputs or outputs whose labels may be each     *)
(* other's ids.                                                            *)
DistinctIds(nodes) == \A i, j \in DOMAIN nodes : i # j => nodes[i].id # nodes[j].id

FewNodes == {nodes \in UNION {[1..n -> NodeSpec] : n \in 0..2} : DistinctIds(nodes)}
ThreeNodes ==
  {nodes \in [1..3 -> {n \in NodeSpec : n.type \in Directions /\ n.value = Empty}] : DistinctIds(nodes)}

Inputs == UNION {[S -> Texts \cup {Empty}] : S \in SUBSET FieldNames}
Results == UNION {[S -> FieldNames] : S \in SUBSET FieldNames}

ASSUME \A nodes \in FewNodes \cup ThreeNodes : RefusedIfAmbiguous(nodes)
ASSUME \A nodes \in FewNodes, inputs \in Inputs : InputsReachTheirNodes(nodes, inputs)
ASSUME \A nodes \in FewNodes, result \in Results : OutputsComeFromTheirNodes(nodes, result)
=============================================================================
