------------------------------- MODULE MCAgent -------------------------------
(***************************************************************************)
(* An agent with a memory, a plain tool and one that needs approval.       *)
(***************************************************************************)
EXTENDS Agent, TLC

CONSTANTS plain, mcp
=============================================================================
