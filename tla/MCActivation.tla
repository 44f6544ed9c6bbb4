----------------------------- MODULE MCActivation -----------------------------
(***************************************************************************)
(* Graphs of two nodes: a cron job and a webhook, two cron jobs, a cron    *)
(* that does not parse after a trigger that does, a webhook with a bot.    *)
(* Nested: the id of g2 begins with that of g1 and a colon.                *)
(***************************************************************************)
EXTENDS Activation, TLC

CONSTANTS g1, g2, b1, b2, w1, w2

SpecOf(a, b, bot) == [kind |-> <<a, b>>, bot |-> bot]

CronBad  == SpecOf("cron", "badcron", None)
HookBad  == SpecOf("hook", "badcron", None)
TwoCrons == SpecOf("cron", "cron", None)
CronBot1 == SpecOf("cron", "hook", b1)
HookBot1 == SpecOf("hook", "plain", b1)
HookBot2 == SpecOf("hook", "plain", b2)

RollBackSpecs == {CronBad, HookBad, CronBot1, HookBot1, HookBot2}
CronSpecs     == {TwoCrons}
BadSpecs      == {TwoCrons, CronBad}
BotSpecs      == {CronBot1, HookBot2}

OneGraphsBots == [g \in Graphs |-> IF g = g1 THEN Bots ELSE {}]
NoBots        == [g \in Graphs |-> {}]

Nested == [g \in Graphs |-> IF g = g1 THEN Graphs ELSE {g}]
Apart  == [g \in Graphs |-> {g}]

(* Workers can be swapped; graphs have ids of their own. *)
Interchangeable == Permutations(Workers)
=============================================================================
