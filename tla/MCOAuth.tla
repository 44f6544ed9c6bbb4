------------------------------- MODULE MCOAuth -------------------------------
(***************************************************************************)
(* Two nodes that use the token at once, and an account that is connected  *)
(* up to twice.                                                            *)
(***************************************************************************)
EXTENDS OAuth, TLC

CONSTANTS c1, c2, g1, g2

Interchangeable == Permutations(Callers) \cup Permutations(Grants)
=============================================================================
