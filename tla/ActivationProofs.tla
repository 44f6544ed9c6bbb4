--------------------------- MODULE ActivationProofs ---------------------------
(***************************************************************************)
(* What activating, deactivating and deleting graphs promises of their     *)
(* triggers, for any graphs and ids, specs, bots and threads: requests     *)
(* overlap, are rolled back, end by an exception or in a crash, and the    *)
(* graphs that were disturbed by that are known.                           *)
(***************************************************************************)
EXTENDS Activation, TLAPS

(* A request that is not idle is about a graph.                            *)
LEMMA IdleFits == Idle.graph = None /\ Idle.step = "idle" /\ Idle \in Ops /\ Course(Idle)
<1>1. /\ Idle.graph = None /\ Idle.step = "idle" /\ Idle.kind = "none" /\ Idle.failed = FALSE
      /\ Idle.spec = None /\ Idle.node = 1 /\ Idle.found = {} /\ Idle.copy = {}
  BY DEF Idle
<1>2. 1 \in 1..(K + 1)
  BY SpecsAssumption
<1>3. Idle \in Ops
  BY <1>2 DEF Idle, Ops, Steps
<1> QED BY <1>1, <1>3 DEF Course

(* The request of w goes on as op'[w], within its course, and the others   *)
(* where they are.                                                         *)
Moved(w) == op'[w] \in Ops /\ Course(op'[w]) /\ op' = [op EXCEPT ![w] = op'[w]]

LEMMA OthersStay ==
  ASSUME TypeOK, NEW w \in Workers, op' = [op EXCEPT ![w] = op'[w]]
  PROVE  \A v \in Workers : v # w => op'[v] = op[v]
  BY DEF TypeOK

LEMMA FinishMoves ==
  ASSUME TypeOK, NEW w \in Workers, Finish(w)
  PROVE  Moved(w) /\ op'[w] = Idle
<1>1. op'[w] = Idle /\ op' = [op EXCEPT ![w] = op'[w]]
  BY DEF Finish, TypeOK
<1> QED BY <1>1, IdleFits DEF Moved

(* Going on to another step, with the rest as it is.                       *)
LEMMA GotoMoves ==
  ASSUME TypeOK, NEW w \in Workers, NEW step \in Steps, Goto(w, step)
  PROVE  /\ op'[w] \in Ops /\ op' = [op EXCEPT ![w] = op'[w]] /\ op'[w].step = step
         /\ UNCHANGED <<op[w].kind, op[w].graph, op[w].spec, op[w].node, op[w].found, op[w].copy, op[w].failed>>
<1> DEFINE new == [op[w] EXCEPT !.step = step]
<1>1. op' = [op EXCEPT ![w] = new] /\ op'[w] = new /\ op[w] \in Ops
  BY DEF Goto, TypeOK
<1>2. /\ new.step = step /\ new.kind = op[w].kind /\ new.graph = op[w].graph /\ new.spec = op[w].spec
      /\ new.node = op[w].node /\ new.found = op[w].found /\ new.copy = op[w].copy /\ new.failed = op[w].failed
  BY <1>1 DEF Ops
<1>3. new \in Ops
  BY <1>1 DEF Ops
<1> HIDE DEF new
<1> QED BY <1>1, <1>2, <1>3

-----------------------------------------------------------------------------
(* The other graphs *)

(* Nothing that is said of h changes, except that a job of it may be taken *)
(* for another graph's, and then h is disturbed.                           *)
Same(h) ==
  /\ active'[h] = active[h] /\ row'[h] = row[h]
  /\ JobsOf(h)' \subseteq JobsOf(h)
  /\ h \notin disturbed' => h \notin disturbed /\ JobsOf(h)' = JobsOf(h)
  /\ OneAtATime => RoutesOf(h)' = RoutesOf(h)
  /\ BotsApart => \A b \in BotsOf[h] : ext'[b] = ext[b]
  /\ (h \in unsynced') = (h \in unsynced)

(* Where a webhook arrives depends on the bot and the routes of its graph. *)
LEMMA HookExists ==
  ASSUME NEW s \in Specs, s.bot # None
  PROVE  HookOf(s) \in HooksOf(s) /\ HookOf(s) \in Nodes
  BY SpecsAssumption DEF HookOf, HooksOf

LEMMA WiredStays ==
  ASSUME NEW h \in Graphs, NEW s \in SpecsFor(h), Wired(h, s), OneAtATime, BotsApart, Same(h)
  PROVE  Wired(h, s)'
<1> SUFFICES ASSUME s.bot # None
             PROVE  ext'[s.bot] = <<h, HookOf(s)>> /\ <<h, HookOf(s)>> \in routes'
  BY DEF Wired
<1>1. s \in Specs /\ s.bot \in BotsOf[h] /\ HookOf(s) \in Nodes
  BY HookExists DEF SpecsFor
<1>2. ext[s.bot] = <<h, HookOf(s)>> /\ HookOf(s) \in RoutesOf(h)
  BY <1>1 DEF Wired, RoutesOf
<1>3. HookOf(s) \in RoutesOf(h)'
  BY <1>2 DEF Same
<1> QED BY <1>1, <1>2, <1>3 DEF Same, RoutesOf

LEMMA SettledStays ==
  ASSUME Provenance, NEW h \in Graphs, Same(h)
  PROVE  /\ Settled(h) => Settled(h)'
         /\ Armed(h) => Armed(h)'
<1>1. Armed(h) => Armed(h)'
  <2> SUFFICES ASSUME Armed(h) PROVE Armed(h)'
    OBVIOUS
  <2>1. h \notin disturbed' => JobsFollow(h)' /\ (OneAtATime => RoutesFollow(h)')
    BY DEF Armed, Same, JobsFollow, RoutesFollow, Crons, Hooks
  <2>2. ASSUME OneAtATime, BotsApart, h \notin unsynced', active'[h] # None
        PROVE  Wired(h, active[h])'
    <3>1. active[h] # None /\ active'[h] = active[h] /\ active[h] \in SpecsFor(h) /\ Wired(h, active[h])
      BY <2>2 DEF Same, Provenance, Armed
    <3> QED BY <2>2, <3>1, WiredStays DEF Wired
  <2> QED BY <2>1, <2>2 DEF Armed, Wired
<1>2. Reliable /\ h \notin disturbed' /\ (Reliable /\ h \notin disturbed => FlagFollows(h)) => FlagFollows(h)'
  BY DEF Same, FlagFollows
<1> QED BY <1>1, <1>2 DEF Settled

-----------------------------------------------------------------------------
(* A step of a request *)

StoresFit ==
  /\ jobs \in SUBSET (Graphs \X Nodes) /\ routes \in SUBSET (Graphs \X Nodes)
  /\ active \in [Graphs -> Specs \cup {None}] /\ row \in [Graphs -> Rows \cup {None}]
  /\ ext \in [Bots -> (Graphs \X Nodes) \cup {None}]
  /\ disturbed \in SUBSET Graphs /\ unsynced \in SUBSET Graphs
  /\ Provenance

(* The request of w about g goes on or ends; nothing is lost of the other  *)
(* graphs, and g is settled or as far as the request has got with it.      *)
Kept(w, g) ==
  /\ Moved(w) /\ op'[w].graph \in {g, None}
  /\ UNCHANGED <<up, overlapped>>
  /\ StoresFit' /\ \A h \in Graphs \ {g} : Same(h)
  /\ g \notin overlapped => (op'[w].graph = None /\ Settled(g)') \/ (op'[w].graph = g /\ Half(op[w])')

(* What a step finds. *)
LEMMA Found ==
  ASSUME IInv, NEW w \in Workers, NEW g \in Graphs, op[w].graph = g
  PROVE  /\ TypeOK /\ StoresFit /\ op[w] \in Ops /\ Course(op[w])
         /\ g \notin overlapped => Half(op[w])
         /\ g # None /\ (OneAtATime => g \notin overlapped)
  BY SpecsAssumption DEF IInv, TypeOK, StoresFit

LEMMA NothingChanges ==
  ASSUME StoresFit, UNCHANGED <<memory, row, ext, disturbed, unsynced>>
  PROVE  StoresFit' /\ \A h \in Graphs : Same(h) /\ (Settled(h) => Settled(h)') /\ (Armed(h) => Armed(h)')
<1>1. \A h \in Graphs : Same(h)
  BY DEF Same, memory, JobsOf, RoutesOf
<1>2. StoresFit'
  BY DEF StoresFit, memory, Provenance
<1> QED BY <1>1, <1>2, SettledStays DEF StoresFit

(* AfterCheck: what get_active said decides which way a request goes.      *)
LEMMA CheckKeeps ==
  ASSUME IInv, NEW w \in Workers, NEW g \in Graphs, op[w].graph = g, Check(w)
  PROVE  Kept(w, g)
<1> DEFINE q == op[w]
           a == active[g]
<1>1. /\ TypeOK /\ StoresFit /\ q \in Ops /\ Course(q) /\ g # None
      /\ q.step = "check" /\ (g \notin overlapped => Settled(g))
  BY Found DEF Check, Half
<1>2. /\ UNCHANGED <<up, overlapped>> /\ UNCHANGED <<memory, row, ext, disturbed, unsynced>>
  BY DEF Check, HISTORY
<1>3. StoresFit' /\ \A h \in Graphs : Same(h) /\ (Settled(h) => Settled(h)') /\ (Armed(h) => Armed(h)')
  BY <1>1, <1>2, NothingChanges
<1>4. q.kind \in {"activate", "deactivate", "delete"} /\ q.node = 1 /\ ~q.failed
  BY <1>1, SpecsAssumption DEF Ops, Course, TakingDown
<1>5. CASE q.kind = "deactivate" /\ a = None
  <2>1. Finish(w)
    BY <1>5 DEF Check
  <2>2. Moved(w) /\ op'[w].graph = None
    BY <1>1, <2>1, FinishMoves, IdleFits
  <2> QED BY <1>1, <1>2, <1>3, <2>2 DEF Kept
<1>6. CASE ~(q.kind = "deactivate" /\ a = None)
  <2> DEFINE step == AfterCheck(q.kind, a # None)
             spec == IF q.kind = "deactivate" THEN a ELSE q.spec
             new  == [q EXCEPT !.step = step, !.spec = spec]
  <2>1. op' = [op EXCEPT ![w] = new] /\ op'[w] = new
    BY <1>1, <1>6 DEF Check, TypeOK
  <2>2. /\ new.step = step /\ new.spec = spec /\ new.kind = q.kind /\ new.graph = g
        /\ new.node = 1 /\ new.found = q.found /\ new.copy = q.copy /\ new.failed = q.failed
    BY <1>1, <1>4 DEF Ops
  <2>3. /\ step = "list" => q.kind \in {"activate", "delete"}
        /\ step = "register" => q.kind = "activate" /\ a = None
        /\ step = "unsync" => q.kind = "deactivate" /\ spec \in SpecsFor(g)
        /\ step = "erase" => q.kind = "delete" /\ a = None
        /\ step \in {"list", "register", "unsync", "erase"}
        /\ q.kind = "activate" => step \in {"list", "register"} /\ spec \in SpecsFor(g)
        /\ q.kind = "deactivate" => step = "unsync"
        /\ q.kind = "delete" => step \in {"list", "erase"}
    BY <1>1, <1>4, <1>6 DEF AfterCheck, StoresFit, Provenance, Course
  <2>4. spec \in Specs \cup {None}
    BY <1>1 DEF StoresFit, Ops
  <2>5. new \in Ops
    BY <1>1, <2>3, <2>4 DEF Ops, Steps
  <2> HIDE DEF new, step, spec
  <2>6. Course(new)
    BY <1>1, <1>4, <2>2, <2>3 DEF Course, TakingDown, PuttingUp
  <2>7. Moved(w) /\ op'[w].graph = g
    BY <2>1, <2>2, <2>5, <2>6 DEF Moved
  <2>8. ASSUME g \notin overlapped PROVE Half(op[w])'
    <3>1. Settled(g) /\ Settled(g)' /\ Armed(g)'
      BY <1>1, <1>3, <2>8 DEF Settled
    <3>2. CASE step \in {"list", "unsync"}
      BY <2>1, <2>2, <3>1, <3>2 DEF Half, PuttingUp
    <3>3. CASE step = "erase"
      BY <1>2, <2>1, <2>2, <2>3, <3>1, <3>3 DEF Half, PuttingUp, memory
    <3>4. CASE step = "register"
      <4>1. active'[g] = None /\ Crons(g)' = {} /\ Hooks(g)' = {} /\ 1..(new.node - 1) = {}
        BY <1>2, <2>2, <2>3, <3>4 DEF memory, Crons, Hooks
      <4>2. /\ g \notin disturbed' => JobsOf(g)' = {}
            /\ g \notin disturbed' /\ OneAtATime => RoutesOf(g)' = {}
        BY <3>1, <4>1 DEF Armed, JobsFollow, RoutesFollow
      <4> QED BY <2>1, <2>2, <3>4, <4>1, <4>2 DEF Half, PuttingUp
    <3> QED BY <2>3, <3>2, <3>3, <3>4
  <2> QED BY <1>2, <1>3, <2>7, <2>8 DEF Kept
<1> QED BY <1>5, <1>6

-----------------------------------------------------------------------------
(* _deactivate *)

(* All jobs of the graph are listed. *)
LEMMA ListJobsKeeps ==
  ASSUME IInv, NEW w \in Workers, NEW g \in Graphs, op[w].graph = g, ListJobs(w)
  PROVE  Kept(w, g)
<1> DEFINE q   == op[w]
           new == [q EXCEPT !.step = "remove", !.found = Listed(g)]
<1>1. /\ TypeOK /\ StoresFit /\ q \in Ops /\ Course(q) /\ g # None /\ q.step = "list"
  BY Found DEF ListJobs
<1>2. /\ UNCHANGED <<up, overlapped>> /\ UNCHANGED <<memory, row, ext, disturbed, unsynced>>
  BY DEF ListJobs, HISTORY
<1>3. StoresFit' /\ JobsOf(g)' = JobsOf(g) /\ \A h \in Graphs : Same(h)
  BY <1>1, <1>2, NothingChanges DEF memory, JobsOf
<1>4. op' = [op EXCEPT ![w] = new] /\ op'[w] = new
  BY <1>1 DEF ListJobs, TypeOK
<1>5. /\ new.step = "remove" /\ new.spec = q.spec /\ new.kind = q.kind /\ new.graph = g
      /\ new.node = q.node /\ new.found = Listed(g) /\ new.copy = q.copy /\ new.failed = q.failed
  BY <1>1 DEF Ops
<1>6. /\ Listed(g) \in SUBSET (Graphs \X Nodes) /\ Listed(g) \subseteq jobs'
      /\ JobsOf(g) \subseteq {n \in Nodes : <<g, n>> \in Listed(g)}
  BY <1>1, <1>2, SpecsAssumption DEF Listed, JobsOf, TypeOK, memory
<1>7. new \in Ops
  BY <1>1, <1>6 DEF Ops, Steps
<1> HIDE DEF new
<1>8. Course(new)
  BY <1>1, <1>5 DEF Course, TakingDown, PuttingUp
<1>9. Half(op[w])'
  BY <1>3, <1>4, <1>5, <1>6 DEF Half, PuttingUp
<1> QED BY <1>2, <1>3, <1>4, <1>5, <1>7, <1>8, <1>9 DEF Kept, Moved

(* An exception nobody catches leaves the graph to be mended.              *)
LEMMA RaiseKeeps ==
  ASSUME IInv, NEW w \in Workers, NEW g \in Graphs, op[w].graph = g, Raise(w), UNCHANGED <<up, overlapped>>,
         StoresFit', \A h \in Graphs \ {g} : Same(h),
         g \notin overlapped /\ OneAtATime => active'[g] = None
  PROVE  Kept(w, g)
<1>1. Moved(w) /\ op'[w].graph = None
  BY FinishMoves, IdleFits DEF Raise, IInv
<1>2. g \in disturbed'
  BY DEF Raise
<1>3. g \notin overlapped => Settled(g)'
  BY <1>2 DEF Settled, Armed
<1> QED BY <1>1, <1>3 DEF Kept

(* A request takes its own jobs as it found them, and those of graphs with *)
(* longer ids, which are disturbed then.  No job is missing when the       *)
(* server does one thing at a time.                                        *)
LEMMA RemoveJobKeeps ==
  ASSUME IInv, NEW w \in Workers, NEW g \in Graphs, op[w].graph = g, RemoveJob(w)
  PROVE  Kept(w, g)
<1> DEFINE q == op[w]
<1>1. /\ TypeOK /\ StoresFit /\ q \in Ops /\ Course(q) /\ g # None /\ q.step = "remove"
      /\ g \notin overlapped => JobsOf(g) \subseteq {n \in Nodes : <<g, n>> \in q.found}
      /\ OneAtATime => q.found \subseteq jobs
  BY Found DEF RemoveJob, Half
<1>2. UNCHANGED <<up, overlapped, unsynced>> /\ UNCHANGED <<routes, active, row, ext>>
  BY DEF RemoveJob
<1>3. CASE q.found = {} /\ Goto(w, "copy") /\ UNCHANGED <<jobs, disturbed>>
  <2>1. UNCHANGED <<memory, row, ext, disturbed, unsynced>>
    BY <1>2, <1>3 DEF memory
  <2>2. StoresFit' /\ JobsOf(g)' = JobsOf(g) /\ \A h \in Graphs : Same(h)
    BY <1>1, <2>1, NothingChanges DEF memory, JobsOf
  <2>3. /\ op'[w] \in Ops /\ op' = [op EXCEPT ![w] = op'[w]] /\ op'[w].step = "copy"
        /\ UNCHANGED <<op[w].kind, op[w].graph, op[w].spec, op[w].node, op[w].found, op[w].copy, op[w].failed>>
    BY <1>1, <1>3, GotoMoves DEF Steps
  <2>4. Course(op'[w])
    BY <1>1, <2>3 DEF Course, TakingDown, PuttingUp
  <2>5. g \notin overlapped => Half(op[w])'
    BY <1>1, <1>3, <2>2, <2>3 DEF Half, PuttingUp
  <2> QED BY <1>2, <2>2, <2>3, <2>4, <2>5 DEF Kept, Moved
<1>4. ASSUME NEW t \in q.found \cap jobs, jobs' = jobs \ {t},
             op' = [op EXCEPT ![w].found = q.found \ {t}], disturbed' = disturbed \cup ({t[1]} \ {g})
      PROVE  Kept(w, g)
  <2> DEFINE new == [q EXCEPT !.found = q.found \ {t}]
  <2>1. op' = [op EXCEPT ![w] = new] /\ op'[w] = new
    BY <1>1, <1>4 DEF TypeOK
  <2>2. /\ new.step = "remove" /\ new.spec = q.spec /\ new.kind = q.kind /\ new.graph = g
        /\ new.node = q.node /\ new.found = q.found \ {t} /\ new.copy = q.copy /\ new.failed = q.failed
    BY <1>1 DEF Ops
  <2>3. new \in Ops
    BY <1>1 DEF Ops
  <2> HIDE DEF new
  <2>4. Course(new)
    BY <1>1, <2>2 DEF Course, TakingDown, PuttingUp
  <2>5. t \in Graphs \X Nodes /\ t = <<t[1], t[2]>> /\ t[1] \in Graphs /\ t[2] \in Nodes
    BY <1>1, <1>4 DEF TypeOK
  <2>6. JobsOf(g)' \subseteq {n \in JobsOf(g) : <<g, n>> # t}
    BY <1>4 DEF JobsOf
  <2>7. ASSUME NEW h \in Graphs \ {g} PROVE Same(h)
    <3>1. JobsOf(h)' \subseteq JobsOf(h) /\ (t[1] # h => JobsOf(h)' = JobsOf(h))
      BY <1>4, <2>5 DEF JobsOf
    <3>2. h \notin disturbed' => h \notin disturbed /\ t[1] # h
      BY <1>4, <2>7
    <3> QED BY <1>2, <3>1, <3>2 DEF Same, RoutesOf
  <2>8. StoresFit'
    BY <1>1, <1>2, <1>4, <2>5 DEF StoresFit, Provenance
  <2>9. g \notin overlapped => JobsOf(g)' \subseteq {n \in Nodes : <<g, n>> \in new.found}
    BY <1>1, <2>2, <2>6
  <2>10. OneAtATime => new.found \subseteq jobs'
    BY <1>1, <1>4, <2>2
  <2>11. g \notin overlapped => Half(op[w])'
    BY <2>1, <2>2, <2>9, <2>10 DEF Half, PuttingUp
  <2> QED BY <1>2, <2>1, <2>2, <2>3, <2>4, <2>7, <2>8, <2>11 DEF Kept, Moved
<1>5. CASE q.found \ jobs # {} /\ Raise(w) /\ UNCHANGED jobs
  <2>1. StoresFit'
    BY <1>1, <1>2, <1>5 DEF StoresFit, Provenance, Raise
  <2>2. \A h \in Graphs \ {g} : Same(h)
    BY <1>2, <1>5 DEF Same, JobsOf, RoutesOf, Raise
  <2> QED BY <1>1, <1>2, <1>5, <2>1, <2>2, RaiseKeeps
<1> QED BY <1>1, <1>3, <1>4, <1>5 DEF RemoveJob

LEMMA CopyRoutesKeeps ==
  ASSUME IInv, NEW w \in Workers, NEW g \in Graphs, op[w].graph = g, CopyRoutes(w)
  PROVE  Kept(w, g)
<1> DEFINE q    == op[w]
           copy == {r \in routes : r[1] # g}
           new  == [q EXCEPT !.step = "swap", !.copy = copy]
<1>1. /\ TypeOK /\ StoresFit /\ q \in Ops /\ Course(q) /\ g # None /\ q.step = "copy"
      /\ g \notin overlapped => JobsOf(g) = {}
  BY Found DEF CopyRoutes, Half
<1>2. /\ UNCHANGED <<up, overlapped, routes>> /\ UNCHANGED <<memory, row, ext, disturbed, unsynced>>
  BY DEF CopyRoutes, HISTORY, memory
<1>3. StoresFit' /\ JobsOf(g)' = JobsOf(g) /\ \A h \in Graphs : Same(h)
  BY <1>1, <1>2, NothingChanges DEF memory, JobsOf
<1>4. op' = [op EXCEPT ![w] = new] /\ op'[w] = new
  BY <1>1 DEF CopyRoutes, TypeOK
<1>5. /\ new.step = "swap" /\ new.spec = q.spec /\ new.kind = q.kind /\ new.graph = g
      /\ new.node = q.node /\ new.found = q.found /\ new.copy = copy /\ new.failed = q.failed
  BY <1>1 DEF Ops
<1>6. new \in Ops
  BY <1>1 DEF Ops, Steps, TypeOK
<1> HIDE DEF new
<1>7. Course(new)
  BY <1>1, <1>5 DEF Course, TakingDown, PuttingUp
<1>8. g \notin overlapped => Half(op[w])'
  BY <1>1, <1>2, <1>3, <1>4, <1>5 DEF Half, PuttingUp
<1> QED BY <1>2, <1>3, <1>4, <1>5, <1>6, <1>7, <1>8 DEF Kept, Moved

(* The routes of the other graphs survive if nobody added one meanwhile.   *)
LEMMA SwapRoutesKeeps ==
  ASSUME IInv, NEW w \in Workers, NEW g \in Graphs, op[w].graph = g, SwapRoutes(w)
  PROVE  Kept(w, g)
<1> DEFINE q   == op[w]
           new == [q EXCEPT !.step = "clear", !.copy = {}]
<1>1. /\ TypeOK /\ StoresFit /\ q \in Ops /\ Course(q) /\ g # None /\ q.step = "swap"
      /\ g \notin overlapped => JobsOf(g) = {}
      /\ OneAtATime => g \notin overlapped /\ q.copy = {r \in routes : r[1] # g}
  BY Found DEF SwapRoutes, Half
<1>2. /\ UNCHANGED <<up, overlapped, disturbed, unsynced>> /\ UNCHANGED <<jobs, active, row, ext>>
      /\ routes' = q.copy
  BY DEF SwapRoutes, HISTORY
<1>3. op' = [op EXCEPT ![w] = new] /\ op'[w] = new
  BY <1>1 DEF SwapRoutes, TypeOK
<1>4. /\ new.step = "clear" /\ new.spec = q.spec /\ new.kind = q.kind /\ new.graph = g
      /\ new.node = q.node /\ new.found = q.found /\ new.copy = {} /\ new.failed = q.failed
  BY <1>1 DEF Ops
<1>5. new \in Ops
  BY <1>1 DEF Ops, Steps
<1> HIDE DEF new
<1>6. Course(new)
  BY <1>1, <1>4 DEF Course, TakingDown, PuttingUp
<1>7. OneAtATime => RoutesOf(g)' = {} /\ \A h \in Graphs \ {g} : RoutesOf(h)' = RoutesOf(h)
  BY <1>1, <1>2 DEF RoutesOf
<1>8. \A h \in Graphs : JobsOf(h)' = JobsOf(h)
  BY <1>2 DEF JobsOf
<1>9. StoresFit' /\ \A h \in Graphs \ {g} : Same(h)
  BY <1>1, <1>2, <1>7, <1>8 DEF StoresFit, Same, Provenance, Ops
<1>10. g \notin overlapped => Half(op[w])'
  BY <1>1, <1>3, <1>4, <1>7, <1>8 DEF Half, PuttingUp
<1> QED BY <1>2, <1>3, <1>4, <1>5, <1>6, <1>9, <1>10 DEF Kept, Moved

(* A graph that was taken down has nothing left.                           *)
LEMMA ClearActiveKeeps ==
  ASSUME IInv, NEW w \in Workers, NEW g \in Graphs, op[w].graph = g, ClearActive(w)
  PROVE  Kept(w, g)
<1> DEFINE q == op[w]
<1>1. /\ TypeOK /\ StoresFit /\ q \in Ops /\ Course(q) /\ g # None /\ q.step = "clear"
      /\ g \notin overlapped => JobsOf(g) = {} /\ (OneAtATime => RoutesOf(g) = {})
  BY Found DEF ClearActive, Half
<1>2. /\ UNCHANGED <<up, overlapped, unsynced>> /\ UNCHANGED <<jobs, routes, row, ext>>
      /\ active' = [active EXCEPT ![g] = None] /\ disturbed' = disturbed \ {g}
  BY DEF ClearActive
<1>3. active'[g] = None /\ JobsOf(g)' = JobsOf(g) /\ RoutesOf(g)' = RoutesOf(g)
  BY <1>1, <1>2 DEF StoresFit, JobsOf, RoutesOf
<1>4. StoresFit' /\ \A h \in Graphs \ {g} : Same(h)
  BY <1>1, <1>2 DEF StoresFit, Same, Provenance, JobsOf, RoutesOf
<1>5. g \notin overlapped => Armed(g)' /\ JobsOf(g)' = {} /\ (OneAtATime => RoutesOf(g)' = {})
  BY <1>1, <1>3 DEF Armed, JobsFollow, RoutesFollow, Crons, Hooks
<1>6. CASE q.kind = "activate" /\ q.failed
  <2>1. Finish(w) /\ ~Reliable
    BY <1>1, <1>6 DEF ClearActive, Course
  <2>2. Moved(w) /\ op'[w].graph = None
    BY <1>1, <2>1, FinishMoves, IdleFits
  <2>3. g \notin overlapped => Settled(g)'
    BY <1>5, <2>1 DEF Settled, Reliable
  <2> QED BY <1>2, <1>4, <2>2, <2>3 DEF Kept
<1>7. ASSUME NEW step \in {"register", "flag", "erase"}, Goto(w, step), ~q.failed,
             <<q.kind, step>> \in {<<"activate", "register">>, <<"deactivate", "flag">>, <<"delete", "erase">>}
      PROVE  Kept(w, g)
  <2>1. step \in Steps
    BY DEF Steps
  <2>2. /\ op'[w] \in Ops /\ op' = [op EXCEPT ![w] = op'[w]] /\ op'[w].step = step
        /\ UNCHANGED <<op[w].kind, op[w].graph, op[w].spec, op[w].node, op[w].found, op[w].copy, op[w].failed>>
    BY <1>1, <1>7, <2>1, GotoMoves
  <2>3. q.node = 1
    BY <1>1, <1>7 DEF Course, TakingDown
  <2>4. Course(op'[w])
    BY <1>1, <1>7, <2>2, <2>3 DEF Course, TakingDown, PuttingUp
  <2>5. ASSUME g \notin overlapped PROVE Half(op[w])'
    <3>1. 1..(op'[w].node - 1) = {} /\ op'[w].graph = g
      BY <2>2, <2>3
    <3>2. CASE step = "register"
      BY <1>3, <1>5, <2>2, <2>5, <3>1, <3>2 DEF Half, PuttingUp
    <3>3. CASE step \in {"flag", "erase"}
      BY <1>3, <1>5, <2>2, <2>5, <3>1, <3>3 DEF Half, PuttingUp
    <3> QED BY <3>2, <3>3
  <2> QED BY <1>2, <1>4, <2>2, <2>4, <2>5 DEF Kept, Moved
<1>8. CASE ~(q.kind = "activate" /\ q.failed)
  <2>1. q.kind \in {"activate", "deactivate", "delete"} /\ ~q.failed
    BY <1>1, <1>8, SpecsAssumption DEF Course, Ops, TakingDown
  <2> QED BY <1>7, <1>8, <2>1 DEF ClearActive
<1> QED BY <1>6, <1>8

-----------------------------------------------------------------------------
(* activate_graph *)

LEMMA RollBackMoves ==
  ASSUME TypeOK, NEW w \in Workers, Course(op[w]), op[w].step \in PuttingUp, RollBack(w), ~Reliable
  PROVE  Moved(w) /\ op'[w].graph = op[w].graph /\ op'[w].step = "list"
<1> DEFINE q   == op[w]
           new == [q EXCEPT !.step = "list", !.failed = TRUE]
<1>1. op' = [op EXCEPT ![w] = new] /\ op'[w] = new /\ q \in Ops
  BY DEF RollBack, TypeOK
<1>2. /\ new.step = "list" /\ new.spec = q.spec /\ new.kind = q.kind /\ new.graph = q.graph
      /\ new.node = q.node /\ new.found = q.found /\ new.copy = q.copy /\ new.failed = TRUE
  BY <1>1 DEF Ops
<1>3. new \in Ops
  BY <1>1 DEF Ops, Steps
<1>4. q.kind = "activate"
  BY <1>1, SpecsAssumption DEF Course, PuttingUp, TakingDown, Ops
<1> HIDE DEF new
<1>5. Course(new)
  BY <1>2, <1>4 DEF Course, TakingDown, PuttingUp
<1> QED BY <1>1, <1>2, <1>3, <1>5 DEF Moved

(* The triggers of a spec are those before the next node, and that one.    *)
LEMMA NextTrigger ==
  ASSUME NEW n \in Nodes, NEW S \in SUBSET Nodes
  PROVE  /\ n \in S => S \cap 1..(n + 1 - 1) = (S \cap 1..(n - 1)) \cup {n}
         /\ n \notin S => S \cap 1..(n + 1 - 1) = S \cap 1..(n - 1)
         /\ n \notin S \cap 1..(n - 1)
  BY SpecsAssumption DEF Nodes

(* No job has the id already when the graph was taken down before.         *)
LEMMA RegisterNodeKeeps ==
  ASSUME IInv, NEW w \in Workers, NEW g \in Graphs, op[w].graph = g, RegisterNode(w)
  PROVE  Kept(w, g)
<1> DEFINE q == op[w]
           n == q.node
           s == q.spec
<1>1. /\ TypeOK /\ StoresFit /\ q \in Ops /\ Course(q) /\ g # None /\ q.step = "register" /\ n \in Nodes
      /\ g \notin overlapped => Half(q)
  BY Found DEF RegisterNode
<1>2. /\ UNCHANGED <<up, overlapped, disturbed, unsynced>> /\ UNCHANGED <<active, row, ext>>
  BY DEF RegisterNode, HISTORY
<1>3. q.kind = "activate" /\ s \in Specs /\ s.kind \in [Nodes -> NodeKinds]
  BY <1>1, SpecsAssumption DEF Course, Ops, TakingDown, SpecsFor, SpecRecord
<1>4. s.kind[n] \in NodeKinds
  BY <1>1, <1>3
<1>5. CASE s.kind[n] = "badcron"
  <2>1. RollBack(w) /\ ~Reliable /\ UNCHANGED <<memory, row, ext, disturbed, unsynced>>
    BY <1>1, <1>2, <1>3, <1>5 DEF RegisterNode, Reliable, memory
  <2>2. Moved(w) /\ op'[w].graph = g /\ op'[w].step = "list"
    BY <1>1, <2>1, RollBackMoves DEF PuttingUp
  <2>3. Half(op[w])'
    BY <2>2 DEF Half, PuttingUp
  <2> QED BY <1>1, <1>2, <2>1, <2>2, <2>3, NothingChanges DEF Kept
<1>6. CASE s.kind[n] = "cron" /\ <<g, n>> \in jobs
  <2>1. Finish(w) /\ UNCHANGED <<memory, row, ext, disturbed, unsynced>>
    BY <1>2, <1>6 DEF RegisterNode, memory
  <2>2. Moved(w) /\ op'[w].graph = None
    BY <1>1, <2>1, FinishMoves, IdleFits
  <2>3. StoresFit' /\ \A h \in Graphs : Same(h)
    BY <1>1, <2>1, NothingChanges
  <2>4. ASSUME g \notin overlapped PROVE Settled(g)'
    <3>1. /\ active[g] = None
          /\ g \notin disturbed => JobsOf(g) = CronsOf(s) \cap 1..(n - 1)
      BY <1>1, <2>4 DEF Half, PuttingUp
    <3>2. n \in JobsOf(g) /\ n \notin CronsOf(s) \cap 1..(n - 1)
      BY <1>1, <1>6, NextTrigger DEF JobsOf, CronsOf
    <3>3. g \in disturbed' /\ active'[g] = None
      BY <1>2, <3>1, <3>2
    <3> QED BY <3>3 DEF Settled, Armed
  <2> QED BY <1>2, <2>2, <2>3, <2>4 DEF Kept
<1>7. CASE ~(s.kind[n] = "badcron") /\ ~(s.kind[n] = "cron" /\ <<g, n>> \in jobs)
  <2> DEFINE new == [q EXCEPT !.node = n + 1]
  <2>1. op' = [op EXCEPT ![w] = new] /\ op'[w] = new
    BY <1>1, <1>4, <1>7 DEF RegisterNode, NextNode, TypeOK, NodeKinds
  <2>2. /\ new.step = "register" /\ new.spec = s /\ new.kind = "activate" /\ new.graph = g
        /\ new.node = n + 1 /\ new.found = q.found /\ new.copy = q.copy /\ new.failed = q.failed
    BY <1>1, <1>3 DEF Ops
  <2>3. new \in Ops
    <3>1. n + 1 \in 1..(K + 1)
      BY <1>1, SpecsAssumption DEF Nodes
    <3> QED BY <1>1, <3>1 DEF Ops
  <2>4. /\ n \in CronsOf(s) => jobs' = jobs \cup {<<g, n>>}
        /\ n \notin CronsOf(s) => jobs' = jobs
        /\ n \in HooksOf(s) => routes' = routes \cup {<<g, n>>}
        /\ n \notin HooksOf(s) => routes' = routes
    BY <1>1, <1>4, <1>7 DEF RegisterNode, CronsOf, HooksOf, NodeKinds
  <2>5. /\ JobsOf(g)' = IF n \in CronsOf(s) THEN JobsOf(g) \cup {n} ELSE JobsOf(g)
        /\ RoutesOf(g)' = IF n \in HooksOf(s) THEN RoutesOf(g) \cup {n} ELSE RoutesOf(g)
        /\ \A h \in Graphs \ {g} : JobsOf(h)' = JobsOf(h) /\ RoutesOf(h)' = RoutesOf(h)
    BY <1>1, <2>4 DEF JobsOf, RoutesOf
  <2> HIDE DEF new
  <2>6. Course(new)
    BY <1>1, <1>3, <2>2 DEF Course, TakingDown, PuttingUp
  <2>7. StoresFit' /\ \A h \in Graphs \ {g} : Same(h)
    BY <1>1, <1>2, <2>4, <2>5 DEF StoresFit, Same, Provenance
  <2>8. ASSUME g \notin overlapped PROVE Half(op[w])'
    <3>1. CronsOf(s) \in SUBSET Nodes /\ HooksOf(s) \in SUBSET Nodes
      BY DEF CronsOf, HooksOf
    <3>2. /\ active[g] = None
          /\ g \notin disturbed => JobsOf(g) = CronsOf(s) \cap 1..(n - 1)
          /\ OneAtATime => HooksOf(s) \cap 1..(n - 1) \subseteq RoutesOf(g)
          /\ g \notin disturbed /\ OneAtATime => RoutesOf(g) = HooksOf(s) \cap 1..(n - 1)
      BY <1>1, <2>8 DEF Half, PuttingUp
    <3>3. /\ g \notin disturbed => JobsOf(g)' = CronsOf(s) \cap 1..(n + 1 - 1)
          /\ OneAtATime => HooksOf(s) \cap 1..(n + 1 - 1) \subseteq RoutesOf(g)'
          /\ g \notin disturbed /\ OneAtATime => RoutesOf(g)' = HooksOf(s) \cap 1..(n + 1 - 1)
      BY <1>1, <2>5, <3>1, <3>2, NextTrigger
    <3>4. /\ op'[w].step = "register" /\ op'[w].graph = g /\ op'[w].spec = s /\ op'[w].node = n + 1
          /\ active'[g] = None /\ disturbed' = disturbed
      BY <1>2, <2>1, <2>2, <3>2
    <3>5. 1..(op'[w].node - 1) = 1..(n + 1 - 1)
      BY <1>1, <3>4, SpecsAssumption DEF Nodes
    <3> HIDE DEF s, n
    <3> QED BY <3>3, <3>4, <3>5 DEF Half, PuttingUp
  <2> QED BY <1>2, <2>1, <2>2, <2>3, <2>6, <2>7, <2>8 DEF Kept, Moved
<1> QED BY <1>5, <1>6, <1>7

(* With all nodes passed, the triggers are those of the spec.              *)
LEMMA AllTriggers ==
  ASSUME NEW s, NEW n \in 1..(K + 1), n \notin Nodes
  PROVE  /\ n = K + 1
         /\ CronsOf(s) \cap 1..(n - 1) = CronsOf(s) /\ HooksOf(s) \cap 1..(n - 1) = HooksOf(s)
<1>1. n = K + 1 /\ 1..(n - 1) = Nodes
  BY SpecsAssumption DEF Nodes
<1> QED BY <1>1 DEF CronsOf, HooksOf

LEMMA RegisteredKeeps ==
  ASSUME IInv, NEW w \in Workers, NEW g \in Graphs, op[w].graph = g, Registered(w)
  PROVE  Kept(w, g)
<1> DEFINE q == op[w]
<1>1. /\ TypeOK /\ StoresFit /\ q \in Ops /\ Course(q) /\ g # None /\ q.step = "register" /\ q.node = K + 1
      /\ g \notin overlapped => Half(q)
  BY Found, AllTriggers DEF Registered, Ops
<1>2. Goto(w, "sync") /\ UNCHANGED <<up, overlapped>> /\ UNCHANGED <<memory, row, ext, disturbed, unsynced>>
  BY DEF Registered, HISTORY
<1>3. StoresFit' /\ \A h \in Graphs : Same(h)
  BY <1>1, <1>2, NothingChanges
<1>4. /\ op'[w] \in Ops /\ op' = [op EXCEPT ![w] = op'[w]] /\ op'[w].step = "sync"
      /\ UNCHANGED <<op[w].kind, op[w].graph, op[w].spec, op[w].node, op[w].found, op[w].copy, op[w].failed>>
  BY <1>1, <1>2, GotoMoves DEF Steps
<1>5. Course(op'[w])
  BY <1>1, <1>4 DEF Course, TakingDown, PuttingUp
<1>6. g \notin overlapped => Half(op[w])'
  BY <1>1, <1>2, <1>3, <1>4 DEF Half, PuttingUp, memory, Same
<1> QED BY <1>2, <1>3, <1>4, <1>5, <1>6 DEF Kept, Moved

(* A bot that is given its URL delivers to a route that is there.          *)
LEMMA SyncOnActivateKeeps ==
  ASSUME IInv, NEW w \in Workers, NEW g \in Graphs, op[w].graph = g, SyncOnActivate(w)
  PROVE  Kept(w, g)
<1> DEFINE q == op[w]
           s == q.spec
           url == <<g, HookOf(s)>>
<1>1. /\ TypeOK /\ StoresFit /\ q \in Ops /\ Course(q) /\ g # None /\ q.step = "sync"
      /\ g \notin overlapped => Half(q)
  BY Found DEF SyncOnActivate
<1>2. UNCHANGED <<up, overlapped, unsynced>> /\ UNCHANGED <<memory, row>>
  BY DEF SyncOnActivate
<1>3. s \in SpecsFor(g) /\ s \in Specs
  BY <1>1, SpecsAssumption DEF Course, Ops, TakingDown, SpecsFor
<1>4. s.bot # None => s.bot \in BotsOf[g] /\ s.bot \in Bots /\ HookOf(s) \in HooksOf(s) /\ url \in Graphs \X Nodes
  BY <1>3, SpecsAssumption, HookExists DEF SpecsFor
<1>5. UNCHANGED ext \/ (s.bot # None /\ ext' = [ext EXCEPT ![s.bot] = url])
  BY <1>1 DEF SyncOnActivate, SetWebhook
<1>6. ext' \in [Bots -> (Graphs \X Nodes) \cup {None}]
  BY <1>1, <1>4, <1>5 DEF StoresFit
<1>7. \A h \in Graphs \ {g} : BotsApart => \A b \in BotsOf[h] : ext'[b] = ext[b]
  <2> SUFFICES ASSUME NEW h \in Graphs \ {g}, BotsApart, NEW b \in BotsOf[h]
               PROVE  ext'[b] = ext[b]
    OBVIOUS
  <2>1. b \in Bots /\ b \notin BotsOf[g]
    BY SpecsAssumption DEF BotsApart
  <2> HIDE DEF s, url
  <2> QED BY <1>1, <1>4, <1>5, <2>1 DEF StoresFit
<1>8. ASSUME disturbed' \in {disturbed, disturbed \cup {g}}
      PROVE  StoresFit' /\ \A h \in Graphs \ {g} : Same(h)
  BY <1>1, <1>2, <1>6, <1>7, <1>8 DEF StoresFit, Same, Provenance, memory, JobsOf, RoutesOf
<1>9. CASE RollBack(w) /\ "sync" \in Faults /\ UNCHANGED disturbed
  <2>1. Moved(w) /\ op'[w].graph = g /\ op'[w].step = "list"
    BY <1>1, <1>9, RollBackMoves DEF PuttingUp, Reliable
  <2>2. Half(op[w])'
    BY <2>1 DEF Half, PuttingUp
  <2> QED BY <1>1, <1>2, <1>8, <1>9, <2>1, <2>2 DEF Kept
<1>10. CASE Raise(w)
  <2>1. StoresFit' /\ \A h \in Graphs \ {g} : Same(h)
    BY <1>8, <1>10 DEF Raise
  <2>2. g \notin overlapped => active'[g] = None
    BY <1>1, <1>2 DEF Half, PuttingUp, memory
  <2> QED BY <1>2, <1>10, <2>1, <2>2, RaiseKeeps
<1>11. ASSUME Goto(w, "publish"), UNCHANGED disturbed,
             (s.bot = None /\ UNCHANGED ext) \/ (s.bot # None /\ ext' = [ext EXCEPT ![s.bot] = url])
      PROVE  Kept(w, g)
  <2>1. StoresFit' /\ \A h \in Graphs \ {g} : Same(h)
    BY <1>8, <1>11
  <2>2. /\ op'[w] \in Ops /\ op' = [op EXCEPT ![w] = op'[w]] /\ op'[w].step = "publish"
        /\ UNCHANGED <<op[w].kind, op[w].graph, op[w].spec, op[w].node, op[w].found, op[w].copy, op[w].failed>>
    BY <1>1, <1>11, GotoMoves DEF Steps
  <2>3. Course(op'[w])
    BY <1>1, <2>2 DEF Course, TakingDown, PuttingUp
  <2>4. ASSUME g \notin overlapped PROVE Half(op[w])'
    <3>1. /\ active[g] = None /\ q.node = K + 1
          /\ g \notin disturbed => JobsOf(g) = CronsOf(s) \cap 1..(q.node - 1)
          /\ OneAtATime => HooksOf(s) \cap 1..(q.node - 1) \subseteq RoutesOf(g)
          /\ g \notin disturbed /\ OneAtATime => RoutesOf(g) = HooksOf(s) \cap 1..(q.node - 1)
      BY <1>1, <2>4 DEF Half, PuttingUp
    <3>2. /\ active'[g] = None /\ disturbed' = disturbed /\ JobsOf(g)' = JobsOf(g) /\ RoutesOf(g)' = RoutesOf(g) /\ routes' = routes
      BY <1>2, <1>11, <3>1 DEF memory, JobsOf, RoutesOf
    <3>3. OneAtATime => Wired(g, s)'
      <4> SUFFICES ASSUME OneAtATime, s.bot # None
                   PROVE  ext'[s.bot] = url /\ url \in routes
        BY <2>2, <3>2 DEF Wired
      <4>1. HooksOf(s) \cap 1..(q.node - 1) = HooksOf(s)
        BY <1>1, <3>1, SpecsAssumption DEF Nodes, HooksOf
      <4>2. HookOf(s) \in RoutesOf(g)
        BY <1>4, <3>1, <4>1
      <4>3. ext'[s.bot] = url
        BY <1>1, <1>4, <1>11 DEF StoresFit
      <4> QED BY <4>2, <4>3 DEF RoutesOf
    <3> QED BY <1>2, <2>2, <3>1, <3>2, <3>3 DEF Half, PuttingUp, Wired
  <2> QED BY <1>2, <2>1, <2>2, <2>3, <2>4 DEF Kept, Moved
<1>12. \/ RollBack(w) /\ "sync" \in Faults /\ UNCHANGED disturbed
       \/ Raise(w)
       \/ /\ Goto(w, "publish") /\ UNCHANGED disturbed
          /\ (s.bot = None /\ UNCHANGED ext) \/ (s.bot # None /\ ext' = [ext EXCEPT ![s.bot] = url])
  BY <1>1 DEF SyncOnActivate, SetWebhook
<1> HIDE DEF s, url
<1> QED BY <1>9, <1>10, <1>11, <1>12

LEMMA SetActiveKeeps ==
  ASSUME IInv, NEW w \in Workers, NEW g \in Graphs, op[w].graph = g, SetActive(w)
  PROVE  Kept(w, g)
<1> DEFINE q == op[w]
           s == q.spec
<1>1. /\ TypeOK /\ StoresFit /\ q \in Ops /\ Course(q) /\ g # None /\ q.step = "publish"
      /\ g \notin overlapped => Half(q)
  BY Found DEF SetActive
<1>2. /\ UNCHANGED <<up, overlapped, disturbed>> /\ UNCHANGED <<jobs, routes, row, ext>>
      /\ active' = [active EXCEPT ![g] = s] /\ unsynced' = unsynced \ {g} /\ Goto(w, "store")
  BY DEF SetActive
<1>3. s \in SpecsFor(g) /\ s \in Specs /\ s # None
  BY <1>1, SpecsAssumption DEF Course, Ops, TakingDown, SpecsFor
<1>4. active'[g] = s /\ \A h \in Graphs \ {g} : active'[h] = active[h]
  BY <1>1, <1>2 DEF StoresFit
<1>5. StoresFit'
  BY <1>1, <1>2, <1>3, <1>4 DEF StoresFit, Provenance
<1>6. \A h \in Graphs \ {g} : Same(h)
  BY <1>2, <1>4 DEF Same, JobsOf, RoutesOf
<1>7. /\ op'[w] \in Ops /\ op' = [op EXCEPT ![w] = op'[w]] /\ op'[w].step = "store"
      /\ UNCHANGED <<op[w].kind, op[w].graph, op[w].spec, op[w].node, op[w].found, op[w].copy, op[w].failed>>
  BY <1>1, <1>2, GotoMoves DEF Steps
<1>8. Course(op'[w])
  BY <1>1, <1>7 DEF Course, TakingDown, PuttingUp
<1>9. ASSUME g \notin overlapped PROVE Half(op[w])'
  <2>1. /\ q.node = K + 1
        /\ g \notin disturbed => JobsOf(g) = CronsOf(s) \cap 1..(q.node - 1)
        /\ g \notin disturbed /\ OneAtATime => RoutesOf(g) = HooksOf(s) \cap 1..(q.node - 1)
        /\ OneAtATime /\ BotsApart => Wired(g, s)
    BY <1>1, <1>9 DEF Half, PuttingUp
  <2>2. CronsOf(s) \cap 1..(q.node - 1) = CronsOf(s) /\ HooksOf(s) \cap 1..(q.node - 1) = HooksOf(s)
    BY <1>1, <2>1, SpecsAssumption DEF Nodes, CronsOf, HooksOf
  <2>3. Crons(g)' = CronsOf(s) /\ Hooks(g)' = HooksOf(s)
    BY <1>3, <1>4 DEF Crons, Hooks, CronsOf, HooksOf
  <2>4. JobsOf(g)' = JobsOf(g) /\ RoutesOf(g)' = RoutesOf(g)
    BY <1>2 DEF JobsOf, RoutesOf
  <2>5. OneAtATime /\ BotsApart => Wired(g, active[g])'
    BY <1>2, <1>4, <2>1 DEF Wired
  <2>6. Armed(g)'
    BY <1>2, <2>1, <2>2, <2>3, <2>4, <2>5 DEF Armed, JobsFollow, RoutesFollow
  <2> QED BY <1>4, <1>7, <2>6 DEF Half, PuttingUp
<1> QED BY <1>2, <1>5, <1>6, <1>7, <1>8, <1>9 DEF Kept, Moved

LEMMA SetActiveStateKeeps ==
  ASSUME IInv, NEW w \in Workers, NEW g \in Graphs, op[w].graph = g, SetActiveState(w)
  PROVE  Kept(w, g)
<1> DEFINE q == op[w]
<1>1. /\ TypeOK /\ StoresFit /\ q \in Ops /\ Course(q) /\ g # None /\ q.step = "store"
      /\ g \notin overlapped => Armed(g) /\ active[g] = q.spec
  BY Found DEF SetActiveState, Half
<1>2. Finish(w) /\ UNCHANGED <<up, overlapped, disturbed, unsynced>> /\ UNCHANGED <<memory, ext>>
  BY DEF SetActiveState, HISTORY
<1>3. q.spec \in SpecsFor(g) /\ q.spec \in Specs /\ q.spec # None
  BY <1>1, SpecsAssumption DEF Course, Ops, TakingDown, SpecsFor
<1>4. Moved(w) /\ op'[w].graph = None
  BY <1>1, <1>2, FinishMoves, IdleFits
<1>5. CASE row' = [row EXCEPT ![g] = Upserted(row[g], q.spec)]
  <2>1. /\ Upserted(row[g], q.spec) \in Rows /\ Upserted(row[g], q.spec).active = TRUE
        /\ Upserted(row[g], q.spec).spec = q.spec
    BY <1>1, <1>3 DEF StoresFit, Upserted, Rows
  <2>2. /\ row'[g] \in Rows /\ row'[g].active = TRUE /\ row'[g].spec = q.spec
        /\ \A h \in Graphs \ {g} : row'[h] = row[h]
    BY <1>1, <1>5, <2>1 DEF StoresFit
  <2>3. row' \in [Graphs -> Rows \cup {None}]
    BY <1>1, <1>5, <2>1 DEF StoresFit
  <2>4. StoresFit' /\ \A h \in Graphs \ {g} : Same(h)
    BY <1>1, <1>2, <1>3, <2>2, <2>3 DEF StoresFit, Same, Provenance, memory, JobsOf, RoutesOf
  <2>5. ASSUME g \notin overlapped PROVE Settled(g)'
    <3>1. Armed(g)'
      BY <1>1, <1>2, <2>5 DEF Armed, memory, JobsFollow, RoutesFollow, JobsOf, RoutesOf, Crons, Hooks, Wired
    <3>2. FlagFollows(g)'
      BY <1>1, <1>2, <1>3, <2>2, <2>5, SpecsAssumption DEF FlagFollows, memory, Rows
    <3> QED BY <3>1, <3>2 DEF Settled
  <2> QED BY <1>2, <1>4, <2>4, <2>5 DEF Kept
<1>6. CASE "store" \in Faults /\ UNCHANGED row
  <2>1. StoresFit' /\ \A h \in Graphs : Same(h) /\ (Armed(h) => Armed(h)')
    BY <1>1, <1>2, <1>6, NothingChanges
  <2>2. g \notin overlapped => Settled(g)'
    BY <1>1, <1>6, <2>1 DEF Settled, Reliable
  <2> QED BY <1>2, <1>4, <2>1, <2>2 DEF Kept
<1> QED BY <1>1, <1>5, <1>6 DEF SetActiveState

-----------------------------------------------------------------------------
(* deactivate_graph, delete_graph and update_graph *)

LEMMA SyncOnDeactivateKeeps ==
  ASSUME IInv, NEW w \in Workers, NEW g \in Graphs, op[w].graph = g, SyncOnDeactivate(w)
  PROVE  Kept(w, g)
<1> DEFINE q == op[w]
           b == q.spec.bot
<1>1. /\ TypeOK /\ StoresFit /\ q \in Ops /\ Course(q) /\ g # None /\ q.step = "unsync"
      /\ g \notin overlapped => Settled(g)
  BY Found DEF SyncOnDeactivate, Half
<1>2. UNCHANGED <<up, overlapped, disturbed>> /\ UNCHANGED <<memory, row>>
  BY DEF SyncOnDeactivate
<1>3. b # None => b \in BotsOf[g] /\ b \in Bots
  BY <1>1, SpecsAssumption DEF Course, SpecsFor
<1>4. ext' = ext \/ (b # None /\ ext' = [ext EXCEPT ![b] = None])
  BY DEF SyncOnDeactivate
<1>5. ext' \in [Bots -> (Graphs \X Nodes) \cup {None}]
  BY <1>1, <1>4 DEF StoresFit
<1> HIDE DEF b
<1>6. ASSUME NEW h \in Graphs \ {g}, BotsApart, NEW c \in BotsOf[h]
      PROVE  ext'[c] = ext[c]
  <2>1. c \in Bots /\ c \notin BotsOf[g]
    BY <1>6, SpecsAssumption DEF BotsApart
  <2> QED BY <1>1, <1>3, <1>4, <2>1 DEF StoresFit
<1>7. ASSUME unsynced' \in {unsynced, unsynced \cup {g}}
      PROVE  StoresFit' /\ \A h \in Graphs \ {g} : Same(h)
  BY <1>1, <1>2, <1>5, <1>6, <1>7 DEF StoresFit, Same, Provenance, memory, JobsOf, RoutesOf
<1>8. CASE Goto(w, "list") /\ UNCHANGED unsynced
  <2>1. /\ op'[w] \in Ops /\ op' = [op EXCEPT ![w] = op'[w]] /\ op'[w].step = "list"
        /\ UNCHANGED <<op[w].kind, op[w].graph, op[w].spec, op[w].node, op[w].found, op[w].copy, op[w].failed>>
    BY <1>1, <1>8, GotoMoves DEF Steps
  <2>2. q.kind = "deactivate" /\ ~q.failed /\ q.node = 1
    BY <1>1, SpecsAssumption DEF Course, Ops, TakingDown, PuttingUp
  <2>3. Course(op'[w])
    BY <1>1, <2>1, <2>2 DEF Course, TakingDown, PuttingUp
  <2>4. Half(op[w])'
    BY <2>1 DEF Half, PuttingUp
  <2> QED BY <1>2, <1>7, <1>8, <2>1, <2>3, <2>4 DEF Kept, Moved
<1>9. CASE Finish(w) /\ "sync" \in Faults /\ unsynced' = unsynced \cup {g}
  <2>1. Moved(w) /\ op'[w].graph = None
    BY <1>1, <1>9, FinishMoves, IdleFits
  <2>2. g \notin overlapped => Settled(g)'
    <3>1. g \notin overlapped => (g \notin disturbed => JobsFollow(g) /\ (OneAtATime => RoutesFollow(g)))
      BY <1>1 DEF Settled, Armed
    <3>2. g \in unsynced' /\ ~Reliable
      BY <1>9 DEF Reliable
    <3> QED BY <1>2, <3>1, <3>2 DEF Settled, Armed, memory, JobsFollow, RoutesFollow, JobsOf, RoutesOf, Crons, Hooks
  <2> QED BY <1>2, <1>7, <1>9, <2>1, <2>2 DEF Kept
<1> QED BY <1>1, <1>8, <1>9 DEF SyncOnDeactivate

(* A row that changes only in whether it is active, or in its spec.        *)
LEMMA RowStays ==
  ASSUME StoresFit, NEW g \in Graphs, NEW r \in Rows \cup {None}, row' = [row EXCEPT ![g] = r],
         r # None => r.spec \in SpecsFor(g), UNCHANGED <<memory, ext, disturbed, unsynced>>
  PROVE  /\ row'[g] = r /\ StoresFit' /\ \A h \in Graphs \ {g} : Same(h)
         /\ active'[g] = active[g] /\ (Armed(g) => Armed(g)')
<1>1. row'[g] = r /\ (\A h \in Graphs \ {g} : row'[h] = row[h]) /\ row' \in [Graphs -> Rows \cup {None}]
  BY DEF StoresFit
<1>2. StoresFit' /\ \A h \in Graphs \ {g} : Same(h)
  BY <1>1 DEF StoresFit, Provenance, Same, memory, JobsOf, RoutesOf
<1>3. Armed(g) => Armed(g)'
  BY DEF Armed, memory, JobsFollow, RoutesFollow, JobsOf, RoutesOf, Crons, Hooks, Wired
<1> QED BY <1>1, <1>2, <1>3 DEF memory

LEMMA SetIsActiveKeeps ==
  ASSUME IInv, NEW w \in Workers, NEW g \in Graphs, op[w].graph = g, SetIsActive(w)
  PROVE  Kept(w, g)
<1>1. /\ TypeOK /\ StoresFit /\ g # None /\ op[w].step = "flag"
      /\ g \notin overlapped => Armed(g) /\ active[g] = None
  BY Found DEF SetIsActive, Half
<1>2. Finish(w) /\ UNCHANGED <<up, overlapped, disturbed, unsynced>> /\ UNCHANGED <<memory, ext>>
  BY DEF SetIsActive, HISTORY
<1>3. Moved(w) /\ op'[w].graph = None
  BY <1>1, <1>2, FinishMoves, IdleFits
<1>4. CASE row[g] # None /\ row' = [row EXCEPT ![g].active = FALSE]
  <2> DEFINE r == [row[g] EXCEPT !.active = FALSE]
  <2>1. row[g] \in Rows /\ row[g].spec \in SpecsFor(g)
    BY <1>1, <1>4 DEF StoresFit, Provenance
  <2>2. r \in Rows /\ r.active = FALSE /\ r.spec = row[g].spec /\ row' = [row EXCEPT ![g] = r]
    BY <1>4, <2>1 DEF Rows
  <2> HIDE DEF r
  <2>3. /\ row'[g] = r /\ StoresFit' /\ \A h \in Graphs \ {g} : Same(h)
        /\ active'[g] = active[g] /\ (Armed(g) => Armed(g)')
    BY <1>1, <1>2, <2>1, <2>2, RowStays
  <2>4. g \notin overlapped => Settled(g)'
    BY <1>1, <2>2, <2>3 DEF Settled, FlagFollows
  <2> QED BY <1>2, <1>3, <2>3, <2>4 DEF Kept
<1>5. CASE UNCHANGED row /\ (row[g] = None \/ "store" \in Faults)
  <2>1. StoresFit' /\ \A h \in Graphs : Same(h) /\ (Armed(h) => Armed(h)')
    BY <1>1, <1>2, <1>5, NothingChanges
  <2>2. g \notin overlapped => Settled(g)'
    BY <1>1, <1>2, <1>5, <2>1 DEF Settled, Reliable, FlagFollows, memory
  <2> QED BY <1>2, <1>3, <2>1, <2>2 DEF Kept
<1> QED BY <1>1, <1>4, <1>5 DEF SetIsActive

LEMMA DeleteRowKeeps ==
  ASSUME IInv, NEW w \in Workers, NEW g \in Graphs, op[w].graph = g, DeleteRow(w)
  PROVE  Kept(w, g)
<1>1. /\ TypeOK /\ StoresFit /\ g # None /\ op[w].step = "erase"
      /\ g \notin overlapped => Armed(g) /\ active[g] = None
  BY Found DEF DeleteRow, Half
<1>2. /\ Finish(w) /\ UNCHANGED <<up, overlapped, disturbed, unsynced>> /\ UNCHANGED <<memory, ext>>
      /\ row' = [row EXCEPT ![g] = None]
  BY DEF DeleteRow, HISTORY
<1>3. Moved(w) /\ op'[w].graph = None
  BY <1>1, <1>2, FinishMoves, IdleFits
<1>4. /\ row'[g] = None /\ StoresFit' /\ \A h \in Graphs \ {g} : Same(h)
      /\ active'[g] = active[g] /\ (Armed(g) => Armed(g)')
  BY <1>1, <1>2, RowStays
<1>5. g \notin overlapped => Settled(g)'
  BY <1>1, <1>4 DEF Settled, FlagFollows
<1> QED BY <1>2, <1>3, <1>4, <1>5 DEF Kept

LEMMA ReadRowKeeps ==
  ASSUME IInv, NEW w \in Workers, NEW g \in Graphs, op[w].graph = g, ReadRow(w)
  PROVE  Kept(w, g)
<1> DEFINE q == op[w]
<1>1. /\ TypeOK /\ StoresFit /\ q \in Ops /\ Course(q) /\ g # None /\ q.step = "read"
      /\ g \notin overlapped => Settled(g)
  BY Found DEF ReadRow, Half
<1>2. UNCHANGED <<up, overlapped>> /\ UNCHANGED <<memory, row, ext, disturbed, unsynced>>
  BY DEF ReadRow, HISTORY
<1>3. StoresFit' /\ \A h \in Graphs : Same(h) /\ (Settled(h) => Settled(h)')
  BY <1>1, <1>2, NothingChanges
<1>4. CASE row[g] = None
  <2>1. Moved(w) /\ op'[w].graph = None
    BY <1>1, <1>4, FinishMoves, IdleFits DEF ReadRow
  <2> QED BY <1>1, <1>2, <1>3, <2>1 DEF Kept
<1>5. CASE row[g] # None
  <2> DEFINE spec == Provided(q.spec, row[g].spec)
             new  == [q EXCEPT !.step = "write", !.spec = spec]
  <2>1. op' = [op EXCEPT ![w] = new] /\ op'[w] = new
    BY <1>1, <1>5 DEF ReadRow, TypeOK
  <2>2. q.kind = "put" /\ q.spec \in SpecsFor(g) \cup {None} /\ ~q.failed
    BY <1>1, SpecsAssumption DEF Course, Ops, TakingDown, PuttingUp
  <2>3. spec \in SpecsFor(g) /\ spec \in Specs
    BY <1>1, <1>5, <2>2 DEF StoresFit, Provenance, Provided, SpecsFor
  <2>4. /\ new.step = "write" /\ new.spec = spec /\ new.kind = q.kind /\ new.graph = g
        /\ new.node = q.node /\ new.found = q.found /\ new.copy = q.copy /\ new.failed = q.failed
    BY <1>1 DEF Ops
  <2>5. new \in Ops
    BY <1>1, <2>3 DEF Ops, Steps
  <2> HIDE DEF new, spec
  <2>6. Course(new)
    BY <1>1, <2>2, <2>3, <2>4 DEF Course, TakingDown, PuttingUp
  <2>7. g \notin overlapped => Half(op[w])'
    BY <1>1, <1>3, <2>1, <2>4 DEF Half, PuttingUp
  <2> QED BY <1>2, <1>3, <2>1, <2>4, <2>5, <2>6, <2>7 DEF Kept, Moved
<1> QED BY <1>4, <1>5

(* Saving a spec leaves the flag as it is in the row.                      *)
LEMMA WriteRowKeeps ==
  ASSUME IInv, NEW w \in Workers, NEW g \in Graphs, op[w].graph = g, WriteRow(w)
  PROVE  Kept(w, g)
<1> DEFINE q == op[w]
<1>1. /\ TypeOK /\ StoresFit /\ q \in Ops /\ g # None /\ q.step = "write" /\ q.spec \in SpecsFor(g)
      /\ g \notin overlapped => Settled(g)
  BY Found DEF WriteRow, Half, Course
<1>2. Finish(w) /\ UNCHANGED <<up, overlapped, disturbed, unsynced>> /\ UNCHANGED <<memory, ext>>
  BY DEF WriteRow, HISTORY
<1>3. Moved(w) /\ op'[w].graph = None
  BY <1>1, <1>2, FinishMoves, IdleFits
<1>4. CASE row[g] = None
  <2>1. row' = row
    BY <1>1, <1>4 DEF WriteRow
  <2>2. StoresFit' /\ \A h \in Graphs : Same(h) /\ (Settled(h) => Settled(h)')
    BY <1>1, <1>2, <2>1, NothingChanges
  <2> QED BY <1>1, <1>2, <1>3, <2>2 DEF Kept
<1>5. CASE row[g] # None
  <2> DEFINE r == [row[g] EXCEPT !.spec = q.spec]
  <2>1. row[g] \in Rows /\ q.spec \in Specs
    BY <1>1, <1>5 DEF StoresFit, SpecsFor
  <2>2. r \in Rows /\ r.active = row[g].active /\ r.spec = q.spec /\ row' = [row EXCEPT ![g] = r]
    BY <1>1, <1>5, <2>1 DEF WriteRow, Rows
  <2>3. r # None
    BY <2>2, SpecsAssumption DEF Rows
  <2> HIDE DEF r
  <2>4. /\ row'[g] = r /\ StoresFit' /\ \A h \in Graphs \ {g} : Same(h)
        /\ active'[g] = active[g] /\ (Armed(g) => Armed(g)')
    BY <1>1, <1>2, <2>2, RowStays
  <2>5. g \notin overlapped => Settled(g)'
    BY <1>1, <1>2, <1>5, <2>2, <2>3, <2>4 DEF Settled, FlagFollows
  <2> QED BY <1>2, <1>3, <2>4, <2>5 DEF Kept
<1> QED BY <1>4, <1>5

-----------------------------------------------------------------------------
(* The invariant *)

LEMMA StepKept ==
  ASSUME IInv, NEW w \in Workers, Step(w)
  PROVE  \E g \in Graphs : op[w].graph = g /\ Kept(w, g)
<1>1. op[w].graph \in Graphs
  <2>1. op[w] \in Ops /\ Course(op[w])
    BY DEF IInv, TypeOK
  <2>2. op[w].step # "idle"
    BY DEF Step, Check, ListJobs, RemoveJob, CopyRoutes, SwapRoutes, ClearActive, RegisterNode, Registered,
           SyncOnActivate, SetActive, SetActiveState, SyncOnDeactivate, SetIsActive, DeleteRow, ReadRow, WriteRow
  <2> QED BY <2>1, <2>2 DEF Course, Ops
<1>2. ASSUME NEW g \in Graphs, op[w].graph = g
      PROVE  Kept(w, g)
  BY <1>2, CheckKeeps, ListJobsKeeps, RemoveJobKeeps, CopyRoutesKeeps, SwapRoutesKeeps, ClearActiveKeeps,
     RegisterNodeKeeps, RegisteredKeeps, SyncOnActivateKeeps, SetActiveKeeps, SetActiveStateKeeps,
     SyncOnDeactivateKeeps, SetIsActiveKeeps, DeleteRowKeeps, ReadRowKeeps, WriteRowKeeps DEF Step
<1> QED BY <1>1, <1>2

(* A request keeps what it has got while others are about other graphs.    *)
LEMMA HalfStays ==
  ASSUME Provenance, NEW v \in Workers, NEW h \in Graphs, op[v].graph = h, op'[v] = op[v], Half(op[v]), Same(h),
         ~OneAtATime
  PROVE  Half(op[v])'
<1>1. (Settled(h) => Settled(h)') /\ (Armed(h) => Armed(h)')
  BY SettledStays
<1>2. /\ active'[h] = active[h] /\ JobsOf(h)' \subseteq JobsOf(h)
      /\ h \notin disturbed' => h \notin disturbed /\ JobsOf(h)' = JobsOf(h)
  BY DEF Same
<1> QED BY <1>1, <1>2 DEF Half

LEMMA StepKeeps ==
  ASSUME IInv, NEW w \in Workers, Step(w)
  PROVE  IInv'
<1>1. PICK g \in Graphs : op[w].graph = g /\ Kept(w, g)
  BY StepKept
<1>2. /\ Moved(w) /\ op'[w].graph \in {g, None} /\ UNCHANGED <<up, overlapped>>
      /\ StoresFit' /\ \A h \in Graphs \ {g} : Same(h)
      /\ g \notin overlapped => (op'[w].graph = None /\ Settled(g)') \/ (op'[w].graph = g /\ Half(op[w])')
      /\ g # None
  BY <1>1, SpecsAssumption DEF Kept
<1>3. TypeOK /\ Provenance /\ Alone /\ (\A v \in Workers : Course(op[v])) /\ up
  BY <1>1, <1>2, IdleFits DEF IInv
<1>4. \A v \in Workers : v # w => op'[v] = op[v]
  BY <1>2, <1>3, OthersStay DEF Moved
<1>5. TypeOK' /\ Provenance' /\ (\A v \in Workers : Course(op[v])')
  <2>1. op' \in [Workers -> Ops]
    BY <1>2, <1>3 DEF TypeOK, Moved
  <2>2. TypeOK' /\ Provenance'
    BY <1>2, <1>3, <2>1 DEF TypeOK, StoresFit
  <2>3. \A v \in Workers : Course(op'[v])
    BY <1>2, <1>3, <1>4 DEF Moved
  <2> QED BY <2>2, <2>3 DEF Course, Reliable, SpecsFor, Idle, TakingDown, PuttingUp
<1>6. Alone' /\ (OneAtATime => overlapped' = {}) /\ up'
  BY <1>1, <1>2, <1>3, <1>4 DEF Alone, IInv
<1>7. ASSUME NEW h \in Graphs \ overlapped, ~Busy(h)'
      PROVE  Settled(h)'
  <2>1. CASE h = g
    BY <1>2, <1>7, <2>1 DEF Busy
  <2>2. CASE h # g
    <3>1. ~Busy(h)
      BY <1>1, <1>4, <1>7, <2>2 DEF Busy
    <3> QED BY <1>2, <1>3, <2>2, <3>1, SettledStays DEF IInv
  <2> QED BY <2>1, <2>2
<1>8. ASSUME NEW v \in Workers, op'[v].graph \in Graphs \ overlapped
      PROVE  Half(op[v])'
  <2>1. CASE v = w
    BY <1>2, <1>8, <2>1, SpecsAssumption
  <2>2. CASE v # w
    <3> DEFINE h == op[v].graph
    <3>1. op'[v] = op[v] /\ h \in Graphs \ overlapped /\ ~OneAtATime
      BY <1>4, <1>8, <2>2 DEF OneAtATime
    <3>2. h # g
      BY <1>1, <1>2, <1>3, <2>2, <3>1 DEF Alone
    <3>3. Same(h) /\ Half(op[v])
      BY <1>2, <3>1, <3>2 DEF IInv
    <3> QED BY <1>3, <3>1, <3>3, HalfStays
  <2> QED BY <2>1, <2>2
<1> QED BY <1>2, <1>5, <1>6, <1>7, <1>8 DEF IInv

(* A request that arrives finds its graph settled, or the overlap is on    *)
(* record.                                                                 *)
LEMMA ReceiveKeeps ==
  ASSUME IInv, NEW w \in Workers, NEW kind \in Kinds \ {"post"}, NEW g \in Graphs, NEW s \in Specs \cup {None},
         Receive(w, kind, g, s)
  PROVE  IInv'
<1> DEFINE step == IF kind = "put" THEN "read" ELSE "check"
           new  == [Idle EXCEPT !.kind = kind, !.graph = g, !.spec = s, !.step = step]
<1>1. /\ TypeOK /\ StoresFit /\ Provenance /\ Alone /\ (\A v \in Workers : Course(op[v])) /\ up
      /\ g # None /\ op[w].graph = None
  BY SpecsAssumption, IdleFits DEF IInv, Receive, TypeOK, StoresFit
<1>2. /\ op' = [op EXCEPT ![w] = new] /\ op'[w] = new /\ UNCHANGED up
      /\ UNCHANGED <<memory, row, ext, disturbed, unsynced>>
      /\ overlapped' = IF Busy(g) THEN overlapped \cup {g} ELSE overlapped
  BY <1>1 DEF Receive, TypeOK
<1>3. /\ new.kind = kind /\ new.graph = g /\ new.spec = s /\ new.step = step
      /\ new.node = 1 /\ new.found = {} /\ new.copy = {} /\ new.failed = FALSE
  BY DEF Idle
<1>4. new \in Ops
  BY IdleFits DEF Ops, Steps
<1>5. /\ kind = "activate" => s \in SpecsFor(g)
      /\ kind = "put" => s \in SpecsFor(g) \cup {None}
  BY DEF Receive
<1> HIDE DEF new
<1>6. Course(new)
  BY <1>1, <1>3, <1>5, SpecsAssumption DEF Course, TakingDown, PuttingUp
<1>7. \A v \in Workers : v # w => op'[v] = op[v]
  BY <1>1, <1>2 DEF TypeOK
<1>8. StoresFit' /\ \A h \in Graphs : Same(h) /\ (Settled(h) => Settled(h)')
  BY <1>1, <1>2, NothingChanges
<1>9. TypeOK' /\ Provenance' /\ (\A v \in Workers : Course(op[v])')
  <2>1. op' \in [Workers -> Ops] /\ overlapped' \in SUBSET Graphs
    BY <1>1, <1>2, <1>4 DEF TypeOK
  <2>2. TypeOK' /\ Provenance'
    BY <1>1, <1>2, <1>8, <2>1 DEF TypeOK, StoresFit
  <2>3. \A v \in Workers : Course(op'[v])
    BY <1>1, <1>2, <1>6, <1>7
  <2> QED BY <2>2, <2>3 DEF Course, Reliable, SpecsFor, Idle, TakingDown, PuttingUp
<1>10. Alone' /\ (OneAtATime => overlapped' = {})
  <2>1. OneAtATime => ~Busy(g)
    BY <1>1 DEF OneAtATime, Busy
  <2>2. Alone'
    BY <1>1, <1>2, <1>3, <1>7 DEF Alone, Busy
  <2> QED BY <1>2, <2>1, <2>2 DEF IInv
<1>11. ASSUME NEW h \in Graphs \ overlapped', ~Busy(h)'
       PROVE  Settled(h)'
  <2>1. h # g /\ ~Busy(h)
    <3>1. \A v \in Workers : op'[v].graph # h
      BY <1>11 DEF Busy
    <3>2. h # g /\ h # None
      BY <1>2, <1>3, <3>1, SpecsAssumption
    <3> QED BY <1>1, <1>7, <3>1, <3>2 DEF Busy
  <2>2. h \notin overlapped
    BY <1>2
  <2> QED BY <1>1, <1>8, <2>1, <2>2 DEF IInv
<1>12. ASSUME NEW v \in Workers, op'[v].graph \in Graphs \ overlapped'
       PROVE  Half(op[v])'
  <2>1. CASE v = w
    <3>1. g \notin overlapped /\ ~Busy(g)
      BY <1>2, <1>3, <1>12, <2>1
    <3>2. Settled(g)'
      BY <1>1, <1>8, <3>1 DEF IInv
    <3> QED BY <1>2, <1>3, <2>1, <3>2 DEF Half, PuttingUp
  <2>2. CASE v # w
    <3> DEFINE h == op[v].graph
    <3>1. op'[v] = op[v] /\ h \in Graphs \ overlapped /\ ~OneAtATime
      BY <1>2, <1>7, <1>12, <2>2 DEF OneAtATime
    <3>2. Same(h) /\ Half(op[v])
      BY <1>8, <3>1 DEF IInv
    <3> QED BY <1>1, <3>1, <3>2, HalfStays
  <2> QED BY <2>1, <2>2
<1> QED BY <1>1, <1>2, <1>9, <1>10, <1>11, <1>12 DEF IInv

LEMMA CreateGraphKeeps ==
  ASSUME IInv, NEW g \in Graphs, NEW s \in Specs, CreateGraph(g, s)
  PROVE  IInv'
<1> DEFINE r == [spec |-> s, active |-> FALSE]
<1>1. /\ StoresFit /\ row[g] = None /\ active[g] = None /\ ~Busy(g) /\ s \in SpecsFor(g) /\ up
      /\ row' = [row EXCEPT ![g] = r] /\ UNCHANGED <<up, op, overlapped, disturbed, unsynced>>
      /\ UNCHANGED <<memory, ext>>
  BY DEF IInv, TypeOK, StoresFit, CreateGraph
<1>2. r \in Rows /\ r.spec = s /\ r.active = FALSE
  BY DEF Rows
<1> HIDE DEF r
<1>3. /\ row'[g] = r /\ StoresFit' /\ \A h \in Graphs \ {g} : Same(h)
      /\ active'[g] = active[g] /\ (Armed(g) => Armed(g)')
  BY <1>1, <1>2, RowStays
<1>4. ASSUME NEW h \in Graphs, Settled(h) PROVE Settled(h)'
  <2>1. CASE h = g
    <3>1. FlagFollows(g)'
      BY <1>1, <1>2, <1>3 DEF FlagFollows
    <3> QED BY <1>3, <1>4, <2>1, <3>1 DEF Settled
  <2>2. CASE h # g
    BY <1>1, <1>3, <1>4, <2>2, SettledStays DEF StoresFit
  <2> QED BY <2>1, <2>2
<1>5. TypeOK' /\ Provenance' /\ Alone' /\ (OneAtATime => overlapped' = {}) /\ up'
  BY <1>1, <1>3 DEF IInv, TypeOK, StoresFit, Alone
<1>6. \A v \in Workers : Course(op[v])'
  BY <1>1 DEF IInv, Course, Reliable, SpecsFor, Idle, TakingDown, PuttingUp
<1>7. \A h \in Graphs \ overlapped' : ~Busy(h)' => Settled(h)'
  BY <1>1, <1>4 DEF IInv, Busy
<1>8. ASSUME NEW v \in Workers, op'[v].graph \in Graphs \ overlapped' PROVE Half(op[v])'
  <2> DEFINE h == op[v].graph
  <2>1. Half(op[v]) /\ h \in Graphs /\ h # g /\ op'[v] = op[v]
    BY <1>1, <1>8 DEF IInv, Busy
  <2>2. Settled(h) => Settled(h)'
    BY <1>4, <2>1
  <2>3. UNCHANGED <<jobs, routes, active, ext, disturbed, unsynced>>
    BY <1>1 DEF memory
  <2> QED BY <2>1, <2>2, <2>3 DEF Half, JobsOf, RoutesOf, Armed, JobsFollow, RoutesFollow, Crons, Hooks, Wired,
             PuttingUp
<1> QED BY <1>5, <1>6, <1>7, <1>8 DEF IInv

LEMMA CrashKeeps ==
  ASSUME IInv, Crash
  PROVE  IInv'
<1>1. /\ up' = FALSE /\ jobs' = {} /\ routes' = {} /\ active' = [g \in Graphs |-> None]
      /\ op' = [w \in Workers |-> Idle] /\ UNCHANGED <<row, ext, overlapped, disturbed, unsynced>>
  BY DEF Crash, HISTORY
<1>2. \A w \in Workers : op'[w] = Idle /\ op'[w].graph = None /\ op'[w] \in Ops /\ Course(op'[w])
  BY <1>1, IdleFits
<1>3. TypeOK' /\ Provenance' /\ Alone' /\ (OneAtATime => overlapped' = {})
  BY <1>1, <1>2 DEF IInv, TypeOK, Provenance, Alone
<1>4. \A w \in Workers : Course(op[w])'
  BY <1>2 DEF Course, Reliable, SpecsFor, Idle, TakingDown, PuttingUp
<1>5. (\A w \in Workers : op[w] = Idle)'
  BY <1>2 DEF Idle
<1> QED BY <1>1, <1>2, <1>3, <1>4, <1>5, SpecsAssumption DEF IInv

(* A start arms the graphs whose row says so, or records that it did not.  *)
LEMMA RestartKeeps ==
  ASSUME IInv, Restart
  PROVE  IInv'
<1> DEFINE due == {g \in Graphs : row[g] # None /\ row[g].active}
<1>1. PICK invalid \in SUBSET (IF "validate" \in Faults THEN Graphs ELSE {}) :
        LET valid == due \ invalid
            fine  == {g \in valid : Reached(row[g].spec) = Nodes}
        IN /\ jobs' = {t \in valid \X Nodes : t[2] \in CronsOf(row[t[1]].spec) \cap Reached(row[t[1]].spec)}
           /\ routes' = {t \in valid \X Nodes : t[2] \in HooksOf(row[t[1]].spec) \cap Reached(row[t[1]].spec)}
           /\ active' = [g \in Graphs |-> IF g \in fine THEN row[g].spec ELSE None]
           /\ disturbed' = due \ fine /\ unsynced' = fine
  BY DEF Restart
<1> DEFINE valid == due \ invalid
           fine  == {g \in valid : Reached(row[g].spec) = Nodes}
<1>2. /\ jobs' = {t \in valid \X Nodes : t[2] \in CronsOf(row[t[1]].spec) \cap Reached(row[t[1]].spec)}
      /\ routes' = {t \in valid \X Nodes : t[2] \in HooksOf(row[t[1]].spec) \cap Reached(row[t[1]].spec)}
      /\ active' = [g \in Graphs |-> IF g \in fine THEN row[g].spec ELSE None]
      /\ disturbed' = due \ fine /\ unsynced' = fine
  BY <1>1
<1>3. TypeOK /\ Provenance /\ up' = TRUE /\ overlapped' = {} /\ UNCHANGED <<row, ext, op>> /\ ~up
  BY DEF IInv, Restart
<1>4. \A w \in Workers : op[w] = Idle /\ op'[w] = Idle /\ op'[w].graph = None
  BY <1>3, IdleFits DEF IInv
<1>5. due \subseteq Graphs /\ \A g \in due : row[g] \in Rows /\ row[g].spec \in Specs /\ row[g].spec # None
  BY <1>3, SpecsAssumption DEF TypeOK, Rows
<1>6. valid \subseteq due /\ fine \subseteq valid /\ \A g \in fine : Reached(row[g].spec) = Nodes
  OBVIOUS
<1>7. \A g \in Graphs : (g \in due) <=> (row[g] # None /\ row[g].active)
  OBVIOUS
<1> HIDE DEF due, valid, fine
<1>8. TypeOK' /\ Provenance' /\ Alone'
  <2>1. jobs' \in SUBSET (Graphs \X Nodes) /\ routes' \in SUBSET (Graphs \X Nodes)
    BY <1>2, <1>5, <1>6
  <2>2. active' \in [Graphs -> Specs \cup {None}] /\ disturbed' \in SUBSET Graphs /\ unsynced' \in SUBSET Graphs
    BY <1>2, <1>5, <1>6
  <2>3. Provenance'
    <3>1. \A g \in Graphs : active'[g] # None => active'[g] = row[g].spec /\ row[g] # None
      BY <1>2, <1>6, <1>7
    <3> QED BY <1>3, <3>1 DEF Provenance
  <2> QED BY <1>3, <1>4, <2>1, <2>2, <2>3 DEF TypeOK, Alone
<1>9. \A w \in Workers : Course(op[w])'
  BY <1>3 DEF IInv, Course, Reliable, SpecsFor, Idle, TakingDown, PuttingUp
<1>10. ASSUME NEW g \in Graphs PROVE Settled(g)'
  <2>1. CASE g \in fine
    <3>1. /\ active'[g] = row[g].spec /\ row[g].spec # None /\ g \in valid /\ g \in due
          /\ Reached(row[g].spec) = Nodes /\ g \in unsynced'
      BY <1>2, <1>5, <1>6, <2>1
    <3>2. JobsOf(g)' = CronsOf(row[g].spec) /\ RoutesOf(g)' = HooksOf(row[g].spec)
      BY <1>2, <3>1 DEF JobsOf, RoutesOf, CronsOf, HooksOf
    <3>3. JobsFollow(g)' /\ RoutesFollow(g)'
      BY <3>1, <3>2 DEF JobsFollow, RoutesFollow, Crons, Hooks, CronsOf, HooksOf
    <3>4. FlagFollows(g)'
      BY <1>3, <1>7, <3>1 DEF FlagFollows
    <3> QED BY <3>1, <3>3, <3>4 DEF Settled, Armed
  <2>2. CASE g \in due \ fine
    <3>1. g \in disturbed' /\ active'[g] = None
      BY <1>2, <2>2
    <3> QED BY <3>1 DEF Settled, Armed
  <2>3. CASE g \notin due
    <3>1. active'[g] = None /\ JobsOf(g)' = {} /\ RoutesOf(g)' = {}
      BY <1>2, <1>6, <2>3 DEF JobsOf, RoutesOf
    <3>2. JobsFollow(g)' /\ RoutesFollow(g)'
      BY <3>1 DEF JobsFollow, RoutesFollow, Crons, Hooks
    <3>3. FlagFollows(g)'
      BY <1>3, <1>7, <2>3, <3>1 DEF FlagFollows
    <3> QED BY <3>1, <3>2, <3>3 DEF Settled, Armed
  <2> QED BY <2>1, <2>2, <2>3
<1> QED BY <1>3, <1>4, <1>8, <1>9, <1>10, SpecsAssumption DEF IInv

LEMMA InitFits == Init => IInv
<1> SUFFICES ASSUME Init PROVE IInv
  OBVIOUS
<1>1. \A w \in Workers : op[w] = Idle /\ op[w].graph = None /\ op[w] \in Ops /\ Course(op[w])
  BY IdleFits DEF Init
<1>2. TypeOK /\ Provenance /\ Alone
  BY <1>1 DEF Init, TypeOK, Provenance, Alone
<1>3. \A g \in Graphs : Settled(g)
  BY DEF Init, Settled, Armed, JobsFollow, RoutesFollow, JobsOf, RoutesOf, Crons, Hooks, FlagFollows
<1> QED BY <1>1, <1>2, <1>3, SpecsAssumption DEF IInv, Init

LEMMA StutterKeeps ==
  ASSUME IInv, UNCHANGED vars
  PROVE  IInv'
<1>1. UNCHANGED <<up, jobs, routes, active, row, ext, op, overlapped, disturbed, unsynced>>
  BY DEF vars
<1>2. TypeOK' /\ Provenance' /\ Alone' /\ (OneAtATime => overlapped' = {})
  BY <1>1 DEF IInv, TypeOK, Provenance, Alone
<1>3. (\A w \in Workers : Course(op[w]))' /\ (~up => \A w \in Workers : op[w] = Idle)'
  BY <1>1 DEF IInv, Course, Reliable, SpecsFor, Idle, TakingDown, PuttingUp
<1>4. \A g \in Graphs : (Settled(g) <=> Settled(g)') /\ (Busy(g) <=> Busy(g)')
  BY <1>1 DEF Settled, Armed, JobsFollow, RoutesFollow, JobsOf, RoutesOf, Crons, Hooks, FlagFollows, Wired, Busy
<1>5. ASSUME NEW w \in Workers, op[w].graph \in Graphs, Half(op[w]) PROVE Half(op[w])'
  BY <1>1, <1>4, <1>5 DEF Half, Armed, JobsFollow, RoutesFollow, JobsOf, RoutesOf, Crons, Hooks, Wired, PuttingUp
<1> QED BY <1>1, <1>2, <1>3, <1>4, <1>5 DEF IInv

LEMMA NextKeeps == IInv /\ [Next]_vars => IInv'
  BY StepKeeps, ReceiveKeeps, CreateGraphKeeps, CrashKeeps, RestartKeeps, StutterKeeps DEF Next

-----------------------------------------------------------------------------
(* Activation.tla, IInv: of every graph that no two requests were about at *)
(* once it is known how far the request about it has got, and it is        *)
(* settled when there is none.  A graph that a stray exception or a longer *)
(* id left half wired is in disturbed until it is taken down.              *)
THEOREM ActivationInvariant == Spec => []IInv
<1>1. Init => IInv
  BY InitFits
<1>2. IInv /\ [Next]_vars => IInv'
  BY NextKeeps
<1> QED BY <1>1, <1>2, PTL DEF Spec

(* app.py, activate_graph and _deactivate: between requests the scheduler  *)
(* has the cron jobs of the active spec and no others, after a success, a  *)
(* rollback and a replacement, whatever happens to other graphs; not so    *)
(* after an exception nobody catches or when another graph's request took  *)
(* jobs of this one, until the graph is next taken down from end to end.   *)
THEOREM ActivationJobs == Spec => []JobsFollowActive
<1>1. IInv => JobsFollowActive
  BY DEF IInv, JobsFollowActive, Quiet, Settled, Armed
<1> QED BY <1>1, ActivationInvariant, PTL

(* The same of jobs and webhook routes together, when the server is asked  *)
(* one thing at a time: the list of routes is one object that every        *)
(* deactivation copies and swaps.                                          *)
THEOREM ActivationWhole ==
  ASSUME \A v, w \in Workers : v = w
  PROVE  Spec => []AllOrNothing
<1>1. IInv => AllOrNothing
  BY DEF IInv, AllOrNothing, JobsFollowActive, RoutesFollowActive, Quiet, Settled, Armed, OneAtATime
<1> QED BY <1>1, ActivationInvariant, PTL

(* specs/015: the table says of each graph what the memory says, so that a *)
(* restart brings back what was active, when the store's writes succeed    *)
(* and nothing makes an activation fail after the graph was taken down.    *)
THEOREM ActivationStored ==
  ASSUME "store" \notin Faults, "sync" \notin Faults, \A s \in Specs, n \in Nodes : s.kind[n] # "badcron"
  PROVE  Spec => []StoreMatchesMemory
<1>1. Reliable
  BY DEF Reliable
<1>2. IInv => StoreMatchesMemory
  BY <1>1 DEF IInv, StoreMatchesMemory, Quiet, Settled
<1> QED BY <1>2, ActivationInvariant, PTL

(* specs/018: the bot of a graph that was activated delivers to a route of *)
(* that graph, one request at a time and where no two graphs share a bot,  *)
(* until a start arms the graph without calling its bot or an exception    *)
(* ends its deactivation after the bot was called.                         *)
THEOREM ActivationWired ==
  ASSUME \A v, w \in Workers : v = w,
         \A g, h \in Graphs : g # h => BotsOf[g] \cap BotsOf[h] = {}
  PROVE  Spec => []ActiveIsWired
<1>1. OneAtATime /\ BotsApart
  BY DEF OneAtATime, BotsApart
<1>2. IInv => ActiveIsWired
  BY <1>1 DEF IInv, ActiveIsWired, Quiet, Settled, Armed
<1> QED BY <1>2, ActivationInvariant, PTL
=============================================================================
