-------------------------------- MODULE MCRuns --------------------------------
(***************************************************************************)
(* One run of two nodes that may use the same sub-nodes, watched by one     *)
(* client while POST .../invoke waits for it.                               *)
(***************************************************************************)
EXTENDS Runs, TLC

(* Nothing tells one sub-node from another. *)
Interchangeable == Permutations(Subs)
=============================================================================
