------------------------------ MODULE Activation ------------------------------
(***************************************************************************)
(* Activating, deactivating, saving and deleting graphs: the routes of     *)
(* backend/api/app.py over the scheduler's jobs, the webhook routes, the   *)
(* registry of active graphs, the table graphs_store keeps across restarts *)
(* and the webhook URL an external service holds for each bot.             *)
(*                                                                         *)
(* Every route is a plain def served by a worker thread, and no lock spans *)
(* two of its steps: each step below is one access to one of those stores. *)
(* A request ends by going back to Idle, whatever its HTTP status.         *)
(***************************************************************************)
EXTENDS Integers, FiniteSets

CONSTANTS
  Graphs,   \* graph ids
  Under,    \* the graphs whose job ids begin with "<id>:", the graph itself and others
  K,        \* number of nodes of a graph, in the order of graph.nodes
  Bots,     \* bots with a telegram_adapter connection
  BotsOf,   \* the bots the specs of a graph may name: no two graphs share one
  Specs,    \* the specs the requests carry
  Workers,  \* threads that serve requests
  Kinds,    \* the requests that are made
  Faults,   \* what may go wrong: "store", "sync", "validate", "crash"
  None      \* no graph, spec, bot or row

Nodes == 1..K

(* What activation sees of a node; a "badcron" is a schedule_trigger whose *)
(* cron does not parse, which validate_graph does not notice.              *)
NodeKinds == {"cron", "badcron", "hook", "plain"}

(* bot: the bot of the telegram_adapter wired to the webhook_trigger, or   *)
(* None when the graph has no adapter with a sync handler.                  *)
SpecRecord == [kind : [Nodes -> NodeKinds], bot : Bots \cup {None}]

HooksOf(s) == {n \in Nodes : s.kind[n] = "hook"}
CronsOf(s) == {n \in Nodes : s.kind[n] = "cron"}

ASSUME SpecsAssumption ==
  /\ K \in Nat
  /\ Kinds \subseteq {"activate", "deactivate", "delete", "put", "post"}
  /\ None \notin Graphs /\ None \notin Specs /\ None \notin [spec : Specs, active : BOOLEAN]
  /\ Under \in [Graphs -> SUBSET Graphs] /\ \A g \in Graphs : g \in Under[g]
  /\ BotsOf \in [Graphs -> SUBSET Bots]
  /\ \A s \in Specs : s \in SpecRecord /\ (s.bot # None => HooksOf(s) # {})

VARIABLES
  up,          \* the server runs
  jobs,        \* cron jobs of the scheduler
  routes,      \* webhook routes of the router
  active,      \* trigger_registry: the spec of each active graph
  row,         \* graphs_store: spec and is_active
  ext,         \* the webhook URL each bot delivers to
  op,          \* the request each worker serves
  overlapped,  \* history: graphs two requests were about at once since the last start
  disturbed,   \* history: graphs with triggers that are not of their active spec, see below
  unsynced     \* history: active graphs whose bot no activation has called since, see below

memory == <<jobs, routes, active>>
vars == <<up, jobs, routes, active, row, ext, op, overlapped, disturbed, unsynced>>

Steps == {"idle", "check", "list", "remove", "copy", "swap", "clear", "register", "sync",
          "publish", "store", "unsync", "flag", "erase", "read", "write"}

(* disturbed: an exception ended a request about the graph, or its         *)
(* re-activation, in the middle, or another graph's request took one of    *)
(* its jobs, and since then it was not taken down from end to end.         *)
(* unsynced: the last start armed the graph, or an exception ended its     *)
(* deactivation, and since then it was not activated.                      *)

(* found: the jobs listed for removal; copy: the routes to keep; failed:   *)
(* the activation is being rolled back.                                    *)
Idle == [kind |-> "none", graph |-> None, spec |-> None, step |-> "idle",
         node |-> 1, found |-> {}, copy |-> {}, failed |-> FALSE]

Busy(g) == \E w \in Workers : op[w].graph = g

-----------------------------------------------------------------------------
Init ==
  /\ up = TRUE
  /\ jobs = {} /\ routes = {}
  /\ active = [g \in Graphs |-> None]
  /\ row = [g \in Graphs |-> None]
  /\ ext = [b \in Bots |-> None]
  /\ op = [w \in Workers |-> Idle]
  /\ overlapped = {} /\ disturbed = {} /\ unsynced = {}

SpecsFor(g) == {s \in Specs : s.bot \in BotsOf[g] \cup {None}}

(* A request about graph g arrives.  PUT may leave the spec as it is.      *)
Receive(w, kind, g, s) ==
  /\ up
  /\ op[w] = Idle
  /\ s \in CASE kind = "activate" -> SpecsFor(g)
              [] kind = "put" -> SpecsFor(g) \cup {None}
              [] OTHER -> {None}
  /\ op' = [op EXCEPT ![w] = [Idle EXCEPT !.kind = kind, !.graph = g, !.spec = s,
                                          !.step = IF kind = "put" THEN "read" ELSE "check"]]
  /\ overlapped' = IF Busy(g) THEN overlapped \cup {g} ELSE overlapped
  /\ UNCHANGED <<up, memory, row, ext, disturbed, unsynced>>

(* POST /graphs: one INSERT under a fresh uuid4, which has no colon.       *)
CreateGraph(g, s) ==
  /\ up
  /\ \A h \in Graphs : g \in Under[h] => h = g
  /\ s \in SpecsFor(g)
  /\ "post" \in Kinds
  /\ row[g] = None /\ active[g] = None /\ ~Busy(g)
  /\ row' = [row EXCEPT ![g] = [spec |-> s, active |-> FALSE]]
  /\ UNCHANGED <<up, memory, ext, op, overlapped, disturbed, unsynced>>

Goto(w, step) == op' = [op EXCEPT ![w].step = step]
Finish(w) == op' = [op EXCEPT ![w] = Idle]

(* An exception nobody catches ends the request where it is. *)
Raise(w) == Finish(w) /\ disturbed' = disturbed \cup {op[w].graph}

HISTORY == <<overlapped, disturbed, unsynced>>

(* Mutant: DELETE does not deactivate. *)
AfterCheckNoDeactivate(kind, isActive) ==
  CASE kind = "activate" -> IF isActive THEN "list" ELSE "register"
    [] kind = "deactivate" -> "unsync"
    [] kind = "delete" -> "erase"

(* get_active, at the head of the three routes. *)
AfterCheck(kind, isActive) ==
  CASE kind = "activate" -> IF isActive THEN "list" ELSE "register"
    [] kind = "deactivate" -> "unsync"
    [] kind = "delete" -> IF isActive THEN "list" ELSE "erase"

Check(w) ==
  LET q == op[w]  a == active[q.graph] IN
  /\ q.step = "check"
  /\ IF q.kind = "deactivate" /\ a = None
     THEN Finish(w)
     ELSE op' = [op EXCEPT ![w].step = AfterCheck(q.kind, a # None),
                           ![w].spec = IF q.kind = "deactivate" THEN a ELSE q.spec]
  /\ UNCHANGED <<up, memory, row, ext, HISTORY>>

-----------------------------------------------------------------------------
(* _deactivate *)

(* Mutant: one job is taken for a graph. *)
ListedFirst(g) == {t \in jobs : t[1] \in Under[g] /\ \A n \in 1..(t[2] - 1) : <<t[1], n>> \notin jobs}

(* job.id.startswith(f"{graph_id}:"): callers choose the ids, so that "a"  *)
(* lists the jobs of "a:b" too.                                            *)
Listed(g) == {t \in jobs : t[1] \in Under[g]}

ListJobs(w) ==
  /\ op[w].step = "list"
  /\ op' = [op EXCEPT ![w].step = "remove", ![w].found = Listed(op[w].graph)]
  /\ UNCHANGED <<up, memory, row, ext, HISTORY>>

(* In the order of their next run times.  remove_job raises for a job that *)
(* is gone.                                                                *)
RemoveJob(w) ==
  LET q == op[w] IN
  /\ q.step = "remove"
  /\ \/ q.found = {} /\ Goto(w, "copy") /\ UNCHANGED <<jobs, disturbed>>
     \/ \E t \in q.found \cap jobs :
          /\ jobs' = jobs \ {t}
          /\ op' = [op EXCEPT ![w].found = q.found \ {t}]
          /\ disturbed' = disturbed \cup ({t[1]} \ {q.graph})
     \/ q.found \ jobs # {} /\ Raise(w) /\ UNCHANGED jobs
  /\ UNCHANGED <<up, routes, active, row, ext, overlapped, unsynced>>

(* app.router.routes = [... for route in app.router.routes ...]            *)
CopyRoutes(w) ==
  /\ op[w].step = "copy"
  /\ op' = [op EXCEPT ![w].step = "swap", ![w].copy = {r \in routes : r[1] # op[w].graph}]
  /\ UNCHANGED <<up, memory, row, ext, HISTORY>>

SwapRoutes(w) ==
  /\ op[w].step = "swap"
  /\ routes' = op[w].copy
  /\ op' = [op EXCEPT ![w].step = "clear", ![w].copy = {}]
  /\ UNCHANGED <<up, jobs, active, row, ext, HISTORY>>

(* Where _deactivate returns to: an activation that failed ends.  Nothing  *)
(* is left of the graph.                                                   *)
ClearActive(w) ==
  LET q == op[w] IN
  /\ q.step = "clear"
  /\ active' = [active EXCEPT ![q.graph] = None]
  /\ CASE q.kind = "activate" -> IF q.failed THEN Finish(w) ELSE Goto(w, "register")
       [] q.kind = "deactivate" -> Goto(w, "flag")
       [] q.kind = "delete" -> Goto(w, "erase")
  /\ disturbed' = disturbed \ {q.graph}
  /\ UNCHANGED <<up, jobs, routes, row, ext, overlapped, unsynced>>

-----------------------------------------------------------------------------
(* activate_graph *)

(* Mutant: a failed activation just reports its error. *)
NoRollBack(w) == Finish(w)

(* except HTTPException: _deactivate(graph_id) *)
RollBack(w) == op' = [op EXCEPT ![w].step = "list", ![w].failed = TRUE]

NextNode(w) == op' = [op EXCEPT ![w].node = op[w].node + 1]

(* _register_triggers, node by node.  An id the scheduler has already is a *)
(* ConflictingIdError, which is no HTTPException: nothing is rolled back.  *)
RegisterNode(w) ==
  LET q == op[w]  t == <<q.graph, q.node>> IN
  /\ q.step = "register"
  /\ q.node \in Nodes
  /\ CASE q.spec.kind[q.node] = "cron" ->
            IF t \in jobs THEN Finish(w) /\ UNCHANGED <<jobs, routes>>
            ELSE NextNode(w) /\ jobs' = jobs \cup {t} /\ UNCHANGED routes
       [] q.spec.kind[q.node] = "badcron" -> RollBack(w) /\ UNCHANGED <<jobs, routes>>
       [] q.spec.kind[q.node] = "hook" ->
            NextNode(w) /\ routes' = routes \cup {t} /\ UNCHANGED jobs
       [] q.spec.kind[q.node] = "plain" -> NextNode(w) /\ UNCHANGED <<jobs, routes>>
  /\ UNCHANGED <<up, active, row, ext, HISTORY>>

Registered(w) ==
  /\ op[w].step = "register"
  /\ op[w].node \notin Nodes
  /\ Goto(w, "sync")
  /\ UNCHANGED <<up, memory, row, ext, HISTORY>>

HookOf(s) == CHOOSE n \in HooksOf(s) : TRUE

(* Mutant: a bot that has a URL already is left alone. *)
SetWebhookOnce(b, url) == ext' = IF ext[b] = None THEN [ext EXCEPT ![b] = url] ELSE ext

SetWebhook(b, url) == ext' = [ext EXCEPT ![b] = url]

(* No public base URL, an unresolved connection or a RuntimeError (URLError *)
(* of the call, a refusal) becomes an HTTPException and rolls back.  What  *)
(* is neither is not caught: a time-out, a broken connection or a body     *)
(* that is no JSON while the answer is read, a ValueError of the resolver. *)
(* The service may have taken the URL all the same.                        *)
SyncOnActivate(w) ==
  LET q == op[w]
      Fails == UNCHANGED ext \/ SetWebhook(q.spec.bot, <<q.graph, HookOf(q.spec)>>)
  IN
  /\ q.step = "sync"
  /\ \/ /\ q.spec.bot = None
        /\ Goto(w, "publish") /\ UNCHANGED <<ext, disturbed>>
     \/ /\ q.spec.bot # None
        /\ SetWebhook(q.spec.bot, <<q.graph, HookOf(q.spec)>>)
        /\ Goto(w, "publish") /\ UNCHANGED disturbed
     \/ /\ q.spec.bot # None /\ "sync" \in Faults
        /\ RollBack(w) /\ Fails /\ UNCHANGED disturbed
     \/ /\ q.spec.bot # None /\ "sync" \in Faults
        /\ Raise(w) /\ Fails
  /\ UNCHANGED <<up, memory, row, overlapped, unsynced>>

SetActive(w) ==
  LET q == op[w] IN
  /\ q.step = "publish"
  /\ active' = [active EXCEPT ![q.graph] = q.spec]
  /\ unsynced' = unsynced \ {q.graph}
  /\ Goto(w, "store")
  /\ UNCHANGED <<up, jobs, routes, row, ext, overlapped, disturbed>>

(* Mutant: only a graph that was saved is updated. *)
UpdateIfSaved(r, s) == IF r = None THEN None ELSE [r EXCEPT !.spec = s, !.active = TRUE]

(* INSERT ... ON CONFLICT DO UPDATE.                                       *)
Upserted(r, s) ==
  IF r = None THEN [spec |-> s, active |-> TRUE]
              ELSE [r EXCEPT !.spec = s, !.active = TRUE]

(* The store's writes are swallowed when they fail. *)
SetActiveState(w) ==
  LET q == op[w] IN
  /\ q.step = "store"
  /\ \/ row' = [row EXCEPT ![q.graph] = Upserted(@, q.spec)]
     \/ "store" \in Faults /\ UNCHANGED row
  /\ Finish(w)
  /\ UNCHANGED <<up, memory, ext, HISTORY>>

-----------------------------------------------------------------------------
(* deactivate_graph, delete_graph and update_graph *)

(* deleteWebhook names the bot only: whatever URL it has is dropped.       *)
(* A RuntimeError is logged; what is not one ends the request here, with   *)
(* the graph active as before.                                             *)
SyncOnDeactivate(w) ==
  LET b == op[w].spec.bot IN
  /\ op[w].step = "unsync"
  /\ \/ b = None /\ UNCHANGED ext
     \/ b # None /\ ext' = [ext EXCEPT ![b] = None]
     \/ b # None /\ "sync" \in Faults /\ UNCHANGED ext
  /\ \/ Goto(w, "list") /\ UNCHANGED unsynced
     \/ b # None /\ "sync" \in Faults /\ Finish(w) /\ unsynced' = unsynced \cup {op[w].graph}
  /\ UNCHANGED <<up, memory, row, overlapped, disturbed>>

SetIsActive(w) ==
  LET g == op[w].graph IN
  /\ op[w].step = "flag"
  /\ \/ row[g] = None /\ UNCHANGED row
     \/ row[g] # None /\ row' = [row EXCEPT ![g].active = FALSE]
     \/ row[g] # None /\ "store" \in Faults /\ UNCHANGED row
  /\ Finish(w)
  /\ UNCHANGED <<up, memory, ext, HISTORY>>

DeleteRow(w) ==
  /\ op[w].step = "erase"
  /\ row' = [row EXCEPT ![op[w].graph] = None]
  /\ Finish(w)
  /\ UNCHANGED <<up, memory, ext, HISTORY>>

(* Only fields that were provided replace what was read. *)
Provided(given, existing) == IF given = None THEN existing ELSE given

ReadRow(w) ==
  LET q == op[w] IN
  /\ q.step = "read"
  /\ IF row[q.graph] = None THEN Finish(w)
     ELSE op' = [op EXCEPT ![w].step = "write", ![w].spec = Provided(q.spec, row[q.graph].spec)]
  /\ UNCHANGED <<up, memory, row, ext, HISTORY>>

WriteRow(w) ==
  LET q == op[w] IN
  /\ q.step = "write"
  /\ row' = IF row[q.graph] = None THEN row ELSE [row EXCEPT ![q.graph].spec = q.spec]
  /\ Finish(w)
  /\ UNCHANGED <<up, memory, ext, HISTORY>>

-----------------------------------------------------------------------------
(* A crash takes everything in memory with it; the table and the service   *)
(* keep what they have.                                                    *)
Crash ==
  /\ up
  /\ "crash" \in Faults
  /\ up' = FALSE
  /\ jobs' = {} /\ routes' = {}
  /\ active' = [g \in Graphs |-> None]
  /\ op' = [w \in Workers |-> Idle]
  /\ UNCHANGED <<row, ext, HISTORY>>

(* The nodes _register_triggers gets to: those before the first bad cron.  *)
Reached(s) == {n \in Nodes : \A m \in 1..n : s.kind[m] # "badcron"}

(* _reactivate_persisted_graphs, before the first request is served: each  *)
(* graph that is flagged active on its own; no webhook is synced, and what *)
(* was registered before a failure stays.                                  *)
Restart ==
  \E invalid \in SUBSET (IF "validate" \in Faults THEN Graphs ELSE {}) :
    LET due == {g \in Graphs : row[g] # None /\ row[g].active}
        valid == due \ invalid
        fine == {g \in valid : Reached(row[g].spec) = Nodes}
    IN
    /\ ~up
    /\ up' = TRUE
    /\ jobs' = {t \in valid \X Nodes : t[2] \in CronsOf(row[t[1]].spec) \cap Reached(row[t[1]].spec)}
    /\ routes' = {t \in valid \X Nodes : t[2] \in HooksOf(row[t[1]].spec) \cap Reached(row[t[1]].spec)}
    /\ active' = [g \in Graphs |-> IF g \in fine
                                   THEN row[g].spec ELSE None]
    /\ disturbed' = due \ fine
    /\ unsynced' = fine
    /\ overlapped' = {}
    /\ UNCHANGED <<row, ext, op>>

-----------------------------------------------------------------------------
Step(w) ==
  \/ Check(w) \/ ListJobs(w) \/ RemoveJob(w) \/ CopyRoutes(w) \/ SwapRoutes(w) \/ ClearActive(w)
  \/ RegisterNode(w) \/ Registered(w) \/ SyncOnActivate(w) \/ SetActive(w) \/ SetActiveState(w)
  \/ SyncOnDeactivate(w) \/ SetIsActive(w) \/ DeleteRow(w) \/ ReadRow(w) \/ WriteRow(w)

Next ==
  \/ \E w \in Workers, kind \in Kinds \ {"post"}, g \in Graphs, s \in Specs \cup {None} :
       Receive(w, kind, g, s)
  \/ \E g \in Graphs, s \in Specs : CreateGraph(g, s)
  \/ \E w \in Workers : Step(w)
  \/ Crash
  \/ Restart

Spec == Init /\ [][Next]_vars

-----------------------------------------------------------------------------
(* Properties *)

Rows == [spec : Specs, active : BOOLEAN]
Ops  == [kind : Kinds \cup {"none"}, graph : Graphs \cup {None}, spec : Specs \cup {None},
            step : Steps, node : 1..(K + 1), found : SUBSET (Graphs \X Nodes),
            copy : SUBSET (Graphs \X Nodes), failed : BOOLEAN]

TypeOK ==
  /\ up \in BOOLEAN
  /\ jobs \in SUBSET (Graphs \X Nodes)
  /\ routes \in SUBSET (Graphs \X Nodes)
  /\ active \in [Graphs -> Specs \cup {None}]
  /\ row \in [Graphs -> Rows \cup {None}]
  /\ ext \in [Bots -> (Graphs \X Nodes) \cup {None}]
  /\ op \in [Workers -> Ops]
  /\ overlapped \in SUBSET Graphs
  /\ disturbed \in SUBSET Graphs
  /\ unsynced \in SUBSET Graphs

(* Nothing is under way for g, and since the last start no two requests    *)
(* about g overlapped.                                                     *)
Quiet(g) == up /\ ~Busy(g) /\ g \notin overlapped

Crons(g) == IF active[g] = None THEN {} ELSE CronsOf(active[g])
Hooks(g) == IF active[g] = None THEN {} ELSE HooksOf(active[g])

JobsOf(g)   == {n \in Nodes : <<g, n>> \in jobs}
RoutesOf(g) == {n \in Nodes : <<g, n>> \in routes}

JobsFollow(g)   == JobsOf(g) = Crons(g)
RoutesFollow(g) == RoutesOf(g) = Hooks(g)

(* Once a request about a graph is over, the scheduler has exactly the     *)
(* cron jobs of the spec that is active, whether the request succeeded,    *)
(* was rolled back half way (a bad cron after a good one, a refused        *)
(* webhook) or replaced another spec, and whatever requests about other    *)
(* graphs do at the same time, unless they take its jobs for theirs or an  *)
(* exception nobody catches cut one short; taking the graph down from end  *)
(* to end mends that.                                                      *)
JobsFollowActive == \A g \in Graphs : Quiet(g) /\ g \notin disturbed => JobsFollow(g)

(* The same of the webhook routes.  The list of routes is one object for   *)
(* all graphs, copied and swapped without a lock.                          *)
RoutesFollowActive == \A g \in Graphs : Quiet(g) /\ g \notin disturbed => RoutesFollow(g)

(* With one request at a time both hold: a graph is wired up for its       *)
(* active spec, or not at all, until an exception cuts an activation short *)
(* and again when the graph has been taken down after that.                *)
AllOrNothing == JobsFollowActive /\ RoutesFollowActive

(* app.py 1789, "don't leave a half-registered graph behind": a graph that *)
(* is not active has no trigger left, after a failed start or an exception *)
(* in the middle of an activation either.                                  *)
NoOrphans ==
  \A g \in Graphs : Quiet(g) /\ active[g] = None => \A n \in Nodes : <<g, n>> \notin jobs \cup routes

(* scheduler.py, remove_jobs_for_graph: an active graph keeps its jobs     *)
(* whatever ids other graphs have.                                         *)
KeepsItsJobs == \A g \in Graphs : Quiet(g) => Crons(g) \subseteq JobsOf(g)

(* The table says of each graph what the memory says, so that a restart    *)
(* brings back what was active and nothing else, wherever the crash fell   *)
(* (specs/015: "One graph is either currently activated or not").          *)
FlagFollows(g) == active[g] # None <=> row[g] # None /\ row[g].active

StoreMatchesMemory == \A g \in Graphs : Quiet(g) /\ g \notin disturbed => FlagFollows(g)

(* specs/018, "not report success while the actual external wiring         *)
(* silently didn't happen": a graph that a request has activated is the    *)
(* one its bot delivers to, at a route that exists, until a start arms it  *)
(* without the bot or an exception ends its deactivation.                  *)
Wired(g, s) == s.bot # None =>
  LET url == <<g, HookOf(s)>> IN ext[s.bot] = url /\ url \in routes

ActiveIsWired ==
  \A g \in Graphs : Quiet(g) /\ g \notin unsynced /\ active[g] # None => Wired(g, active[g])

-----------------------------------------------------------------------------
(* The inductive invariant behind the safety properties above.             *)

(* What each of them needs of the constants: one request at a time, bots   *)
(* of their own, and nothing that can fail after a graph was taken down.   *)
OneAtATime == \A v, w \in Workers : v = w
BotsApart  == \A g, h \in Graphs : g # h => BotsOf[g] \cap BotsOf[h] = {}
Reliable   == /\ "store" \notin Faults /\ "sync" \notin Faults
              /\ \A s \in Specs, n \in Nodes : s.kind[n] # "badcron"

TakingDown == {"list", "remove", "copy", "swap", "clear"}
PuttingUp  == {"register", "sync", "publish"}

(* Where a request can be, and with which spec.                            *)
Course(q) ==
  /\ q.step = "idle" <=> q.graph = None
  /\ q.graph = None => q = Idle
  /\ q.kind # "post" /\ (q.kind = "none" => q.step = "idle")
  /\ q.kind = "activate" => q.step \in {"check", "store"} \cup TakingDown \cup PuttingUp
  /\ q.kind = "activate" => q.spec \in SpecsFor(q.graph)
  /\ q.kind = "deactivate" => q.step \in {"check", "unsync", "flag"} \cup TakingDown
  /\ q.kind = "delete" => q.step \in {"check", "erase"} \cup TakingDown
  /\ q.kind = "put" => q.step \in {"read", "write"} /\ q.spec \in SpecsFor(q.graph) \cup {None}
  /\ q.step \in {"unsync", "write"} => q.spec \in SpecsFor(q.graph)
  /\ q.step \in {"check", "unsync"} \cup TakingDown /\ ~q.failed => q.node = 1
  /\ q.failed => ~Reliable /\ q.kind = "activate" /\ q.step \in TakingDown

(* A spec stays with the graph it was sent for.                            *)
Provenance ==
  \A g \in Graphs :
    /\ active[g] # None => active[g] \in SpecsFor(g)
    /\ row[g] # None => row[g].spec \in SpecsFor(g)

(* Two requests about a graph overlap only where that is on record.        *)
Alone ==
  \A v, w \in Workers :
    v # w /\ op[v].graph = op[w].graph /\ op[v].graph # None => op[v].graph \in overlapped

(* The triggers of g are those of its active spec.                         *)
Armed(g) ==
  /\ g \notin disturbed => JobsFollow(g) /\ (OneAtATime => RoutesFollow(g))
  /\ OneAtATime /\ BotsApart /\ g \notin unsynced /\ active[g] # None => Wired(g, active[g])

Settled(g) == Armed(g) /\ (Reliable /\ g \notin disturbed => FlagFollows(g))

(* How far a request about g that has g to itself has got.                 *)
Half(q) ==
  LET g == q.graph  upTo == 1..(q.node - 1) IN
  /\ q.step \in {"check", "unsync", "read", "write"} => Settled(g)
  /\ q.step = "remove" => JobsOf(g) \subseteq {n \in Nodes : <<g, n>> \in q.found}
  /\ q.step = "remove" /\ OneAtATime => q.found \subseteq jobs
  /\ q.step \in {"copy", "swap", "clear"} => JobsOf(g) = {}
  /\ q.step = "swap" /\ OneAtATime => q.copy = {r \in routes : r[1] # g}
  /\ q.step = "clear" /\ OneAtATime => RoutesOf(g) = {}
  /\ q.step \in PuttingUp =>
       /\ active[g] = None
       /\ g \notin disturbed => JobsOf(g) = CronsOf(q.spec) \cap upTo
       /\ OneAtATime => HooksOf(q.spec) \cap upTo \subseteq RoutesOf(g)
       /\ g \notin disturbed /\ OneAtATime => RoutesOf(g) = HooksOf(q.spec) \cap upTo
  /\ q.step \in {"sync", "publish"} => q.node = K + 1
  /\ q.step = "publish" /\ OneAtATime /\ BotsApart => Wired(g, q.spec)
  /\ q.step = "store" => active[g] = q.spec
  /\ q.step \in {"flag", "erase"} => active[g] = None
  /\ q.step \in {"store", "flag", "erase"} => Armed(g)

IInv ==
  /\ TypeOK /\ Provenance /\ Alone
  /\ OneAtATime => overlapped = {}
  /\ \A w \in Workers : Course(op[w])
  /\ ~up => \A w \in Workers : op[w] = Idle
  /\ \A g \in Graphs \ overlapped : up /\ ~Busy(g) => Settled(g)
  /\ \A w \in Workers : op[w].graph \in Graphs \ overlapped => Half(op[w])
=============================================================================
