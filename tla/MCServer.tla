------------------------------- MODULE MCServer -------------------------------
(***************************************************************************)
(* Two calls of one run to one tool, the first of them answered by two     *)
(* requests at once, a call of that run to another tool and a call of      *)
(* another run to the first tool, both declined for good.  The             *)
(* counterexample of MCServer_full.cfg has one answer for each call.       *)
(***************************************************************************)
EXTENDS Server, TLC

CONSTANTS c1, c2, c3, c4, r1, r2, t1, t2, v1, v2, v3, v4, v5

CallRuns  == [c \in Calls |-> IF c = c3 THEN r2 ELSE r1]
CallTools == [c \in Calls |-> IF c = c4 THEN t2 ELSE t1]

Says(c, verdict, remember) == [call |-> c, verdict |-> verdict, remember |-> remember]
Anything(c) == {q \in Request : q.call = c}
ForGood(c)  == {Says(c, "declined", TRUE)}
Either(c)   == {Says(c, "approved", FALSE), Says(c, "declined", TRUE)}

TwoKeysMore ==
  v1 :> Anything(c1) @@ v2 :> ForGood(c1) @@ v3 :> Either(c2) @@ v4 :> ForGood(c3) @@ v5 :> ForGood(c4)
TwiceAndOnce  == v1 :> Anything(c1) @@ v2 :> Anything(c1) @@ v3 :> Anything(c2)
OneAnswerEach == v1 :> Anything(c1) @@ v2 :> Anything(c2) @@ v3 :> Anything(c3)
=============================================================================
