------------------------------ MODULE RunsProofs ------------------------------
(***************************************************************************)
(* What the record of a run promises to those who read it while it is      *)
(* written, for any number of runs, nodes, sub-nodes and clients.          *)
(***************************************************************************)
EXTENDS Runs, FiniteSetTheorems, TLAPS

(* The state of one run, and what the invariant says of it. *)
Shown(r) == records[r] # None =>
  records[r].sub = {s \in Subs : \E n \in NodeIds : <<n, s>> \in task[r].calls}

Recorded(r) ==
  /\ At(r, "over") =>
       /\ rows[r] # None /\ Terminal(rows[r].status)
       /\ rows[r].status = "completed" <=> rows[r].json # None
       /\ rows[r].status = "failed" <=> rows[r].error
       /\ records[r] # None =>
            /\ rows[r].status = records[r].status
            /\ rows[r].json # None => rows[r].json = records[r].trace
  /\ rows[r] # None /\ rows[r].status = "running" => UnderWay(r)

Truth(r) == records[r] # None =>
  /\ answer[r] = "outputs" => At(r, "over") /\ records[r].status = "completed" /\ ~SomeFailed(r)
  /\ answer[r] = "node failed" => records[r].status = "completed" /\ SomeFailed(r)
  /\ answer[r] = "failed" => records[r].status = "failed"

RunInv(r) ==
  /\ CallsAreCounted(r) /\ RecordFits(r) /\ Shown(r)
  /\ RowFits(r) /\ (r \notin lost => Recorded(r))
  /\ AnswerFits(r) /\ (r \in Invoked => Truth(r))

LEMMA IInvByRun ==
  IInv <=> /\ TypeOK
           /\ \A r \in RunIds : RunInv(r)
           /\ \A c \in Clients : PollFits(c) /\ ToldFits(c)
<1>1. SubNodesShown <=> \A r \in RunIds : Shown(r)
  BY DEF SubNodesShown, Shown
<1>2. RecordedWhenOver <=> \A r \in RunIds : r \notin lost => Recorded(r)
  BY DEF RecordedWhenOver, Recorded
<1>3. InvokeTellsTruth <=> \A r \in RunIds : r \in Invoked => Truth(r)
  BY RunsAssumption DEF InvokeTellsTruth, Truth
<1> QED BY <1>1, <1>2, <1>3 DEF IInv, RunInv

(* What a step leaves alone keeps its part of the invariant. *)
LEMMA RunFrame ==
  ASSUME NEW r \in RunIds, RunInv(r), UNCHANGED <<records[r], task[r], rows[r], answer[r]>>,
         r \in lost' <=> r \in lost
  PROVE  RunInv(r)'
<1>1. CallsAreCounted(r)'
  BY DEF RunInv, CallsAreCounted, Users, At
<1>2. RecordFits(r)'
  BY DEF RunInv, RecordFits, IsNext, UnderWay
<1>3. Shown(r)'
  BY DEF RunInv, Shown
<1>4. RowFits(r)' /\ (r \notin lost' => Recorded(r)')
  BY DEF RunInv, RowFits, Recorded, At, UnderWay
<1>5. AnswerFits(r)' /\ (r \in Invoked => Truth(r)')
  BY DEF RunInv, AnswerFits, Truth, At, SomeFailed
<1> QED BY <1>1, <1>2, <1>3, <1>4, <1>5 DEF RunInv

-----------------------------------------------------------------------------
LEMMA RunTypes ==
  ASSUME TypeOK, NEW r \in RunIds, RunInv(r)
  PROVE  /\ task[r] \in Tasks
         /\ records[r] \in RunRecord \cup {None} /\ rows[r] \in Row \cup {None}
         /\ UnderWay(r) => records[r] \in RunRecord /\ records[r] # None
         /\ DOMAIN task[r].counts \subseteq Subs
         /\ \A s \in DOMAIN task[r].counts : task[r].counts[s] \in NodeIds
<1>1. task[r] \in Tasks /\ records[r] \in RunRecord \cup {None} /\ rows[r] \in Row \cup {None}
  BY DEF TypeOK
<1>2. UnderWay(r) => records[r] \in RunRecord /\ records[r] # None
  BY <1>1 DEF RunInv, RecordFits
<1>3. PICK S \in SUBSET Subs : task[r].counts \in [S -> NodeIds]
  BY <1>1 DEF Tasks, Counts
<1> QED BY <1>1, <1>2, <1>3

LEMMA UsersFinite ==
  ASSUME NEW r, NEW s
  PROVE  /\ IsFiniteSet(Users(r, s)) /\ Cardinality(Users(r, s)) \in Nat /\ Cardinality(Users(r, s)) <= N
         /\ Cardinality(Users(r, s)) = 0 <=> Users(r, s) = {}
<1>1. IsFiniteSet(NodeIds) /\ Cardinality(NodeIds) = N
  BY FS_Interval, RunsAssumption DEF NodeIds
<1>2. Users(r, s) \subseteq NodeIds
  BY DEF Users
<1>3. IsFiniteSet(Users(r, s)) /\ Cardinality(Users(r, s)) <= Cardinality(NodeIds)
  BY <1>1, <1>2, FS_Subset
<1> QED BY <1>1, <1>3, FS_CardinalityType, FS_EmptySet

LEMMA NewTaskType ==
  /\ NewTask \in Tasks /\ NewRecord \in RunRecord
  /\ DOMAIN NewTask.counts = {} /\ NewTask.calls = {} /\ NewTask.threads = {}
<1>1. <<>> \in Counts
  <2>1. <<>> \in [{} -> NodeIds]
    OBVIOUS
  <2> QED BY <2>1 DEF Counts
<1>2. <<>> \in Seq(TraceRecord)
  OBVIOUS
<1> QED BY <1>1, <1>2 DEF NewTask, Tasks, NewRecord, RunRecord, TaskSteps, Statuses

LEMMA IInvInit == Init => IInv
<1> SUFFICES ASSUME Init PROVE IInv
  OBVIOUS
<1>1. TypeOK
  <2>1. NewTask \in Tasks /\ Idle \in [run : RunIds \cup {None}, next : 1..(Len(Fields) + 1), got : RunRecord]
    BY NewTaskType DEF Idle, Fields
  <2> QED BY <2>1 DEF Init, TypeOK
<1>2. ASSUME NEW r \in RunIds PROVE RunInv(r)
  <2>1. /\ records[r] = None /\ rows[r] = None /\ task[r] = NewTask /\ answer[r] = "none" /\ r \notin lost
        /\ task[r].step = "none" /\ task[r].json = None /\ ~task[r].error
        /\ task[r].calls = {} /\ task[r].threads = {} /\ DOMAIN task[r].counts = {}
    BY NewTaskType DEF Init, NewTask
  <2>2. \A s : Users(r, s) = {}
    BY <2>1 DEF Users
  <2>3. CallsAreCounted(r)
    BY <2>1, <2>2 DEF CallsAreCounted, At
  <2> QED BY <2>1, <2>3 DEF RunInv, RecordFits, Shown, RowFits, Recorded, AnswerFits, Truth, UnderWay, At, Ending
<1>3. ASSUME NEW c \in Clients PROVE PollFits(c) /\ ToldFits(c)
  BY DEF Init, PollFits, ToldFits, Idle
<1> QED BY <1>1, <1>2, <1>3, IInvByRun

-----------------------------------------------------------------------------
(* The counts of sub-node calls *)

LEMMA BeginCounts ==
  ASSUME TypeOK, NEW r \in RunIds, RunInv(r), NEW n \in NodeIds, NEW s \in Subs, BeginCall(r, n, s)
  PROVE  /\ CallsAreCounted(r)' /\ Shown(r)'
         /\ task'[r] \in Tasks /\ records'[r] \in RunRecord /\ records'[r] # None
<1> DEFINE k == CountOf(task[r].counts, s) + 1
           counts == WithCount(task[r].counts, s, k)
           calls == task[r].calls \cup {<<n, s>>}
<1>1. /\ task[r] \in Tasks /\ records[r] \in RunRecord /\ records[r] # None
      /\ n \in task[r].threads /\ <<n, s>> \notin task[r].calls
      /\ DOMAIN task[r].counts \subseteq Subs /\ \A x \in DOMAIN task[r].counts : task[r].counts[x] \in NodeIds
  BY RunTypes DEF BeginCall, At, UnderWay
<1>2. task'[r] = [task[r] EXCEPT !.calls = calls, !.counts = counts]
      /\ records'[r] = [records[r] EXCEPT !.sub = DOMAIN counts]
  BY DEF BeginCall, OnSubNodeActivity, TypeOK
<1>3. Users(r, s)' = Users(r, s) \cup {n} /\ n \notin Users(r, s)
      /\ \A x \in Subs \ {s} : Users(r, x)' = Users(r, x)
  <2>1. task'[r].calls = calls
    BY <1>1, <1>2 DEF Tasks
  <2> QED BY <1>1, <2>1 DEF Users
<1>4. k = Cardinality(Users(r, s)) + 1
  <2>1. CallsAreCounted(r)
    BY DEF RunInv
  <2>2. CASE s \in DOMAIN task[r].counts
    BY <2>1, <2>2 DEF CallsAreCounted, CountOf
  <2>3. CASE s \notin DOMAIN task[r].counts
    <3>1. Users(r, s) = {}
      BY <2>1, <2>3 DEF CallsAreCounted
    <3>2. Cardinality(Users(r, s)) = 0
      BY <3>1, UsersFinite
    <3> QED BY <2>3, <3>2 DEF CountOf
  <2> QED BY <2>2, <2>3
<1>5. k = Cardinality(Users(r, s)') /\ k \in NodeIds /\ k > 0
  <2>1. Cardinality(Users(r, s) \cup {n}) = Cardinality(Users(r, s)) + 1
    BY <1>3, UsersFinite, FS_AddElement
  <2>2. IsFiniteSet(NodeIds) /\ Cardinality(NodeIds) = N
    BY FS_Interval, RunsAssumption DEF NodeIds
  <2>3. Cardinality(Users(r, s) \cup {n}) <= N
    <3>1. Users(r, s) \cup {n} \subseteq NodeIds
      BY DEF Users
    <3> QED BY <2>2, <3>1, FS_Subset
  <2> QED BY <1>3, <1>4, <2>1, <2>3, UsersFinite, RunsAssumption DEF NodeIds
<1> HIDE DEF k
<1>6. /\ DOMAIN counts = DOMAIN task[r].counts \cup {s}
      /\ counts[s] = k /\ \A x \in DOMAIN task[r].counts \ {s} : counts[x] = task[r].counts[x]
  BY <1>5 DEF WithCount
<1>7. counts \in Counts
  <2>1. counts \in [DOMAIN counts -> NodeIds]
    BY <1>1, <1>5 DEF WithCount
  <2>2. DOMAIN counts \in SUBSET Subs
    BY <1>1, <1>6
  <2> QED BY <2>1, <2>2 DEF Counts
<1> HIDE DEF counts
<1>8. task'[r] \in Tasks /\ task'[r].calls = calls /\ task'[r].counts = counts /\ task'[r].threads = task[r].threads
      /\ task'[r].step = task[r].step
  <2>1. calls \in SUBSET (NodeIds \X Subs)
    BY <1>1 DEF Tasks
  <2> HIDE DEF calls
  <2> QED BY <1>1, <1>2, <1>7, <2>1 DEF Tasks
<1>9. records'[r] \in RunRecord /\ records'[r].sub = DOMAIN counts
  <2>1. DOMAIN counts \in SUBSET Subs
    BY <1>1, <1>6
  <2> QED BY <1>1, <1>2, <2>1 DEF RunRecord
<1>10. CallsAreCounted(r)'
  <2>1. CallsAreCounted(r)
    BY DEF RunInv
  <2>2. ASSUME NEW x \in Subs
        PROVE  /\ x \in DOMAIN counts <=> Users(r, x)' # {}
               /\ x \in DOMAIN counts => counts[x] = Cardinality(Users(r, x)')
    <3>1. CASE x = s
      BY <1>3, <1>5, <1>6, <3>1
    <3>2. CASE x # s
      <4>1. Users(r, x)' = Users(r, x) /\ (x \in DOMAIN counts <=> x \in DOMAIN task[r].counts)
            /\ (x \in DOMAIN counts => counts[x] = task[r].counts[x])
        BY <1>3, <1>6, <3>2
      <4> QED BY <2>1, <4>1 DEF CallsAreCounted
    <3> QED BY <3>1, <3>2
  <2>3. task'[r].calls \subseteq task'[r].threads \X Subs /\ (task'[r].threads # {} => At(r, "nodes")')
    BY <1>1, <1>8, <2>1 DEF CallsAreCounted, At
  <2> QED BY <1>8, <2>2, <2>3 DEF CallsAreCounted
<1>11. Shown(r)'
  <2>1. \A x \in Subs : x \in DOMAIN counts <=> Users(r, x)' # {}
    BY <1>8, <1>10 DEF CallsAreCounted
  <2>2. \A x \in Subs : x \in DOMAIN counts <=> \E m \in NodeIds : <<m, x>> \in task'[r].calls
    BY <2>1 DEF Users
  <2>3. DOMAIN counts = {x \in Subs : \E m \in NodeIds : <<m, x>> \in task'[r].calls}
    BY <1>1, <1>6, <2>2
  <2> QED BY <1>9, <2>3 DEF Shown
<1> QED BY <1>8, <1>9, <1>10, <1>11, NoneAssumption

LEMMA EndCounts ==
  ASSUME TypeOK, NEW r \in RunIds, RunInv(r), NEW n \in NodeIds, NEW s \in Subs, EndCall(r, n, s)
  PROVE  /\ CallsAreCounted(r)' /\ Shown(r)'
         /\ task'[r] \in Tasks /\ records'[r] \in RunRecord /\ records'[r] # None
<1> DEFINE k == CountOf(task[r].counts, s) + -1
           counts == WithCount(task[r].counts, s, k)
           calls == task[r].calls \ {<<n, s>>}
<1>0. CallsAreCounted(r)
  BY DEF RunInv
<1>1. /\ task[r] \in Tasks /\ records[r] \in RunRecord /\ records[r] # None
      /\ <<n, s>> \in task[r].calls
      /\ DOMAIN task[r].counts \subseteq Subs /\ \A x \in DOMAIN task[r].counts : task[r].counts[x] \in NodeIds
  BY RunTypes DEF EndCall, At, UnderWay
<1>2. task'[r] = [task[r] EXCEPT !.calls = calls, !.counts = counts]
      /\ records'[r] = [records[r] EXCEPT !.sub = DOMAIN counts]
  BY DEF EndCall, OnSubNodeActivity, TypeOK
<1>3. Users(r, s)' = Users(r, s) \ {n} /\ n \in Users(r, s)
      /\ \A x \in Subs \ {s} : Users(r, x)' = Users(r, x)
  <2>1. task'[r].calls = calls
    BY <1>1, <1>2 DEF Tasks
  <2> QED BY <1>1, <2>1 DEF Users
<1>4. k = Cardinality(Users(r, s)) - 1 /\ s \in DOMAIN task[r].counts
  <2>1. s \in DOMAIN task[r].counts
    BY <1>0, <1>3 DEF CallsAreCounted
  <2>2. task[r].counts[s] = Cardinality(Users(r, s))
    BY <1>0, <2>1 DEF CallsAreCounted
  <2> QED BY <2>1, <2>2, UsersFinite DEF CountOf
<1>5. /\ k = Cardinality(Users(r, s)') /\ k \in Nat /\ k <= N
      /\ Users(r, s)' = {} <=> k = 0
  <2>1. Cardinality(Users(r, s) \ {n}) = Cardinality(Users(r, s)) - 1
    BY <1>3, UsersFinite, FS_RemoveElement
  <2>2. IsFiniteSet(Users(r, s) \ {n})
    BY UsersFinite, FS_Subset
  <2>3. Cardinality(Users(r, s) \ {n}) \in Nat /\ (Cardinality(Users(r, s) \ {n}) = 0 <=> Users(r, s) \ {n} = {})
    BY <2>2, FS_CardinalityType, FS_EmptySet
  <2> QED BY <1>3, <1>4, <2>1, <2>3, UsersFinite, RunsAssumption
<1>k. k > 0 => k \in NodeIds
  BY <1>5, RunsAssumption DEF NodeIds
<1> HIDE DEF k
<1>6. /\ DOMAIN counts = IF k > 0 THEN DOMAIN task[r].counts ELSE DOMAIN task[r].counts \ {s}
      /\ k > 0 => counts[s] = k
      /\ \A x \in DOMAIN task[r].counts \ {s} : counts[x] = task[r].counts[x]
  BY <1>4, <1>5 DEF WithCount
<1>7. counts \in Counts
  <2>1. counts \in [DOMAIN counts -> NodeIds]
    BY <1>1, <1>k DEF WithCount
  <2>2. DOMAIN counts \in SUBSET Subs
    BY <1>1, <1>6
  <2> QED BY <2>1, <2>2 DEF Counts
<1> HIDE DEF counts
<1>8. task'[r] \in Tasks /\ task'[r].calls = calls /\ task'[r].counts = counts /\ task'[r].threads = task[r].threads
      /\ task'[r].step = task[r].step
  <2>1. calls \in SUBSET (NodeIds \X Subs)
    BY <1>1 DEF Tasks
  <2> HIDE DEF calls
  <2> QED BY <1>1, <1>2, <1>7, <2>1 DEF Tasks
<1>9. records'[r] \in RunRecord /\ records'[r].sub = DOMAIN counts
  <2>1. DOMAIN counts \in SUBSET Subs
    BY <1>1, <1>6
  <2> QED BY <1>1, <1>2, <2>1 DEF RunRecord
<1>10. CallsAreCounted(r)'
  <2>2. ASSUME NEW x \in Subs
        PROVE  /\ x \in DOMAIN counts <=> Users(r, x)' # {}
               /\ x \in DOMAIN counts => counts[x] = Cardinality(Users(r, x)')
    <3>1. CASE x = s
      <4>1. CASE k > 0
        BY <1>4, <1>5, <1>6, <3>1, <4>1
      <4>2. CASE k = 0
        <5>1. Users(r, s)' = {}
          BY <1>5, <4>2
        <5>2. s \notin DOMAIN counts
          BY <1>6, <4>2
        <5> QED BY <3>1, <5>1, <5>2
      <4> QED BY <1>5, <4>1, <4>2
    <3>2. CASE x # s
      <4>1. Users(r, x)' = Users(r, x) /\ (x \in DOMAIN counts <=> x \in DOMAIN task[r].counts)
            /\ (x \in DOMAIN counts => counts[x] = task[r].counts[x])
        BY <1>3, <1>6, <3>2
      <4> QED BY <1>0, <4>1 DEF CallsAreCounted
    <3> QED BY <3>1, <3>2
  <2>3. task'[r].calls \subseteq task'[r].threads \X Subs /\ (task'[r].threads # {} => At(r, "nodes")')
    BY <1>0, <1>1, <1>8 DEF CallsAreCounted, At
  <2> QED BY <1>8, <2>2, <2>3 DEF CallsAreCounted
<1>11. Shown(r)'
  <2>1. \A x \in Subs : x \in DOMAIN counts <=> Users(r, x)' # {}
    BY <1>8, <1>10 DEF CallsAreCounted
  <2>2. \A x \in Subs : x \in DOMAIN counts <=> \E m \in NodeIds : <<m, x>> \in task'[r].calls
    BY <2>1 DEF Users
  <2>3. DOMAIN counts = {x \in Subs : \E m \in NodeIds : <<m, x>> \in task'[r].calls}
    BY <1>1, <1>6, <2>2
  <2> QED BY <1>9, <2>3 DEF Shown
<1> QED BY <1>8, <1>9, <1>10, <1>11, NoneAssumption

(* With the counts and the calls as they were, or with no calls left and   *)
(* nothing counted, the rest of a step is plain.                           *)
LEMMA CountsStay ==
  ASSUME NEW r \in RunIds, RunInv(r),
         task'[r].calls = task[r].calls, task'[r].counts = task[r].counts,
         task[r].calls \subseteq task'[r].threads \X Subs, task'[r].threads # {} => task'[r].step = "nodes"
  PROVE  CallsAreCounted(r)'
BY DEF RunInv, CallsAreCounted, Users, At

LEMMA ShownStays ==
  ASSUME NEW r \in RunIds, RunInv(r), records[r] # None,
         task'[r].calls = task[r].calls, records'[r].sub = records[r].sub
  PROVE  Shown(r)'
BY DEF RunInv, Shown

LEMMA NoCallsShown ==
  ASSUME NEW r \in RunIds, RunInv(r), ~At(r, "nodes")
  PROVE  task[r].calls = {} /\ task[r].threads = {} /\ (records[r] # None => records[r].sub = {})
<1>1. task[r].threads = {} /\ task[r].calls = {}
  BY DEF RunInv, CallsAreCounted
<1> QED BY <1>1 DEF RunInv, Shown

-----------------------------------------------------------------------------
(* execute_run, from its start until it writes the row *)

(* Before the row is written, and after it was inserted, rows and answers  *)
(* have nothing to lose.                                                   *)
LEMMA RowsStay ==
  ASSUME NEW r \in RunIds, RunInv(r), UNCHANGED <<rows, answer, lost>>, UnderWay(r), ~At(r, "insert"),
         records'[r] # None, UnderWay(r)', ~At(r, "insert")'
  PROVE  RowFits(r)' /\ (r \notin lost' => Recorded(r)') /\ AnswerFits(r)' /\ (r \in Invoked => Truth(r)')
<1>1. ~At(r, "over") /\ ~At(r, "over")' /\ task'[r].step \notin {"none", "insert", "dead"}
  BY DEF UnderWay, At
<1>2. answer'[r] \notin {"failed", "node failed", "outputs"}
  BY <1>1 DEF RunInv, AnswerFits
<1>3. RowFits(r)'
  BY <1>1 DEF RunInv, RowFits, UnderWay
<1>4. Recorded(r)'
  BY <1>1 DEF Recorded
<1>5. AnswerFits(r)' /\ Truth(r)'
  BY <1>2 DEF RunInv, AnswerFits, Truth
<1> QED BY <1>3, <1>4, <1>5

(* What each of these steps makes of the task and the record.              *)
Wrote(r) ==
  /\ task'[r] \in Tasks /\ records'[r] \in RunRecord /\ records'[r] # None
  /\ CallsAreCounted(r)' /\ RecordFits(r)' /\ Shown(r)'
  /\ UnderWay(r)' /\ ~At(r, "insert")'

LEMMA StartWrote ==
  ASSUME TypeOK, NEW r \in RunIds, RunInv(r), StartGraph(r)
  PROVE  Wrote(r)
<1>1. /\ task[r] \in Tasks /\ records[r] \in RunRecord /\ records[r] # None /\ task[r].step = "start"
      /\ task[r].threads = {} /\ records'[r] = records[r]
  BY RunTypes, NoCallsShown DEF StartGraph, At, UnderWay
<1>2. \E step \in {"loop", "failed"} : task'[r] = [task[r] EXCEPT !.step = step]
  BY DEF StartGraph, Goto, TypeOK
<1>3. task'[r] \in Tasks /\ task'[r].step \in {"loop", "failed"}
      /\ UNCHANGED <<task[r].threads, task[r].calls, task[r].counts, task[r].commit, task[r].json, task[r].error>>
  BY <1>1, <1>2 DEF Tasks, TaskSteps
<1>4. RecordFits(r)'
  BY <1>1, <1>3 DEF RunInv, RecordFits, Ending
<1>5. CallsAreCounted(r)' /\ Shown(r)'
  BY <1>1, <1>3, CountsStay, ShownStays DEF RunInv, CallsAreCounted
<1> QED BY <1>1, <1>3, <1>4, <1>5 DEF Wrote, UnderWay, At

LEMMA RoundWrote ==
  ASSUME TypeOK, NEW r \in RunIds, RunInv(r), NEW S \in SUBSET NodeIds, OnRoundStart(r, S)
  PROVE  Wrote(r)
<1>1. /\ task[r] \in Tasks /\ records[r] \in RunRecord /\ records[r] # None /\ task[r].step = "loop"
      /\ task[r].calls = {}
  BY RunTypes, NoCallsShown DEF OnRoundStart, At, UnderWay
<1>2. /\ task'[r] = [task[r] EXCEPT !.step = "nodes", !.threads = S, !.commit = S]
      /\ records'[r] = [records[r] EXCEPT !.running = S]
  BY DEF OnRoundStart, AnnounceRound, TypeOK
<1>3. /\ task'[r] \in Tasks /\ task'[r].step = "nodes" /\ task'[r].threads = S /\ task'[r].commit = S
      /\ UNCHANGED <<task[r].calls, task[r].counts, task[r].json, task[r].error>>
      /\ records'[r] \in RunRecord /\ records'[r].running = S
      /\ UNCHANGED <<records[r].status, records[r].sub, records[r].trace, records[r].result>>
  BY <1>1, <1>2 DEF Tasks, TaskSteps, RunRecord
<1>4. RecordFits(r)'
  BY <1>1, <1>3, NoneAssumption DEF RunInv, RecordFits, Ending
<1>5. CallsAreCounted(r)' /\ Shown(r)'
  BY <1>1, <1>3, CountsStay, ShownStays
<1> QED BY <1>1, <1>3, <1>4, <1>5, NoneAssumption DEF Wrote, UnderWay, At

LEMMA CallWrote ==
  ASSUME TypeOK, NEW r \in RunIds, RunInv(r), NEW n \in NodeIds, NEW s \in Subs,
         BeginCall(r, n, s) \/ EndCall(r, n, s)
  PROVE  Wrote(r)
<1>1. /\ task[r] \in Tasks /\ records[r] \in RunRecord /\ records[r] # None /\ task[r].step = "nodes"
  BY RunTypes DEF BeginCall, EndCall, At, UnderWay
<1>2. ASSUME NEW calls, NEW k, OnSubNodeActivity(r, calls, s, k)
      PROVE  /\ UNCHANGED <<task[r].step, task[r].threads, task[r].commit, task[r].json, task[r].error>>
             /\ UNCHANGED <<records[r].status, records[r].running, records[r].trace, records[r].result>>
  <2> DEFINE counts == WithCount(task[r].counts, s, CountOf(task[r].counts, s) + k)
  <2>1. /\ task'[r] = [task[r] EXCEPT !.calls = calls, !.counts = counts]
        /\ records'[r] = [records[r] EXCEPT !.sub = DOMAIN counts]
    BY <1>2 DEF OnSubNodeActivity, TypeOK
  <2> HIDE DEF counts
  <2> QED BY <1>1, <2>1 DEF Tasks, RunRecord
<1>3. /\ UNCHANGED <<task[r].step, task[r].threads, task[r].commit, task[r].json, task[r].error>>
      /\ UNCHANGED <<records[r].status, records[r].running, records[r].trace, records[r].result>>
  BY <1>2 DEF BeginCall, EndCall
<1>4. /\ CallsAreCounted(r)' /\ Shown(r)'
      /\ task'[r] \in Tasks /\ records'[r] \in RunRecord /\ records'[r] # None
  BY BeginCounts, EndCounts
<1>5. RecordFits(r)'
  BY <1>1, <1>3, <1>4 DEF RunInv, RecordFits, Ending
<1> QED BY <1>1, <1>3, <1>4, <1>5 DEF Wrote, UnderWay, At

LEMMA NodeWrote ==
  ASSUME TypeOK, NEW r \in RunIds, RunInv(r), NEW n \in NodeIds, EndNode(r, n)
  PROVE  Wrote(r)
<1> DEFINE rest == task[r].threads \ {n}
<1>1. /\ task[r] \in Tasks /\ records[r] \in RunRecord /\ records[r] # None /\ task[r].step = "nodes"
      /\ records'[r] = records[r] /\ \A s \in Subs : <<n, s>> \notin task[r].calls
  BY RunTypes DEF EndNode, At, UnderWay
<1>2. task'[r] = [task[r] EXCEPT !.threads = rest, !.step = IF rest = {} THEN "remove" ELSE "nodes"]
  BY DEF EndNode, TypeOK
<1>3. /\ task'[r] \in Tasks /\ task'[r].threads = rest /\ task'[r].step = (IF rest = {} THEN "remove" ELSE "nodes")
      /\ UNCHANGED <<task[r].calls, task[r].counts, task[r].commit, task[r].json, task[r].error>>
  BY <1>1, <1>2 DEF Tasks, TaskSteps
<1>4. RecordFits(r)'
  BY <1>1, <1>3 DEF RunInv, RecordFits, Ending
<1>5. task[r].calls \subseteq rest \X Subs
  BY <1>1 DEF RunInv, CallsAreCounted
<1>6. CallsAreCounted(r)' /\ Shown(r)'
  BY <1>1, <1>3, <1>5, CountsStay, ShownStays
<1> QED BY <1>1, <1>3, <1>4, <1>6 DEF Wrote, UnderWay, At

LEMMA RemoveWrote ==
  ASSUME TypeOK, NEW r \in RunIds, RunInv(r), NEW n \in NodeIds, RemoveRunning(r, n)
  PROVE  Wrote(r)
<1>1. /\ task[r] \in Tasks /\ records[r] \in RunRecord /\ records[r] # None /\ task[r].step = "remove"
      /\ task[r].threads = {} /\ task[r].calls = {}
  BY RunTypes, NoCallsShown DEF RemoveRunning, At, UnderWay
<1>2. /\ task'[r] = [task[r] EXCEPT !.step = "append"]
      /\ records'[r] = [records[r] EXCEPT !.running = @ \ {n}]
  BY DEF RemoveRunning, Goto, TypeOK
<1>3. /\ task'[r] \in Tasks /\ task'[r].step = "append"
      /\ UNCHANGED <<task[r].threads, task[r].commit, task[r].calls, task[r].counts, task[r].json, task[r].error>>
      /\ records'[r] \in RunRecord /\ records'[r].running = records[r].running \ {n}
      /\ UNCHANGED <<records[r].status, records[r].sub, records[r].trace, records[r].result>>
  BY <1>1, <1>2 DEF Tasks, TaskSteps, RunRecord
<1>4. ASSUME NEW m \in NodeIds, IsNext(r, m)' PROVE m \notin records'[r].running
  <2>1. m \in task[r].commit /\ n \in task[r].commit /\ m <= n /\ n <= m
    BY <1>3, <1>4 DEF IsNext, RemoveRunning
  <2>2. m = n
    BY <2>1, RunsAssumption DEF NodeIds
  <2> QED BY <1>3, <2>2
<1>5. RecordFits(r)'
  BY <1>1, <1>3, <1>4, NoneAssumption DEF RunInv, RecordFits, Ending
<1>6. CallsAreCounted(r)' /\ Shown(r)'
  BY <1>1, <1>3, CountsStay, ShownStays
<1> QED BY <1>1, <1>3, <1>5, <1>6, NoneAssumption DEF Wrote, UnderWay, At

LEMMA AppendWrote ==
  ASSUME TypeOK, NEW r \in RunIds, RunInv(r), NEW n \in NodeIds, NEW failed \in BOOLEAN, AppendTrace(r, n, failed)
  PROVE  Wrote(r)
<1> DEFINE rest == task[r].commit \ {n}
           e == [node |-> n, error |-> failed]
<1>1. /\ task[r] \in Tasks /\ records[r] \in RunRecord /\ records[r] # None /\ task[r].step = "append"
      /\ task[r].threads = {} /\ task[r].calls = {} /\ IsNext(r, n)
  BY RunTypes, NoCallsShown DEF AppendTrace, At, UnderWay
<1>2. /\ \/ task'[r] = [task[r] EXCEPT !.commit = rest, !.step = IF rest = {} THEN "loop" ELSE "remove"]
         \/ task'[r] = [task[r] EXCEPT !.commit = {}, !.step = "failed"]
      /\ records'[r] = [records[r] EXCEPT !.trace = Append(@, e)]
  BY DEF AppendTrace, TypeOK
<1>3. /\ task'[r] \in Tasks
      /\ \/ task'[r].commit = rest /\ task'[r].step = (IF rest = {} THEN "loop" ELSE "remove")
         \/ task'[r].step = "failed"
      /\ UNCHANGED <<task[r].threads, task[r].calls, task[r].counts, task[r].json, task[r].error>>
  <2>1. CASE task'[r] = [task[r] EXCEPT !.commit = rest, !.step = IF rest = {} THEN "loop" ELSE "remove"]
    <3>1. rest \in SUBSET NodeIds /\ (IF rest = {} THEN "loop" ELSE "remove") \in TaskSteps
      BY <1>1 DEF Tasks, TaskSteps
    <3> QED BY <1>1, <2>1, <3>1 DEF Tasks
  <2>2. CASE task'[r] = [task[r] EXCEPT !.commit = {}, !.step = "failed"]
    BY <1>1, <2>2 DEF Tasks, TaskSteps
  <2> QED BY <1>2, <2>1, <2>2
<1>4. e \in TraceRecord /\ Append(records[r].trace, e) \in Seq(TraceRecord)
  <2>1. e \in TraceRecord
    BY DEF TraceRecord
  <2> QED BY <1>1, <2>1 DEF RunRecord
<1>5. /\ records'[r] \in RunRecord
      /\ UNCHANGED <<records[r].status, records[r].sub, records[r].running, records[r].result>>
  BY <1>1, <1>2, <1>4 DEF RunRecord
<1>6. records[r].running \subseteq rest
  BY <1>1 DEF RunInv, RecordFits
<1>7. RecordFits(r)'
  BY <1>1, <1>3, <1>5, <1>6, NoneAssumption DEF RunInv, RecordFits, Ending
<1>8. CallsAreCounted(r)' /\ Shown(r)'
  BY <1>1, <1>3, <1>5, CountsStay, ShownStays
<1> QED BY <1>1, <1>3, <1>5, <1>7, <1>8, NoneAssumption DEF Wrote, UnderWay, At

LEMMA EndWrote ==
  ASSUME TypeOK, NEW r \in RunIds, RunInv(r),
         SetResult(r) \/ SetCompleted(r) \/ DumpResult(r) \/ SetFailed(r) \/ SetError(r)
           \/ ClearRunning(r) \/ ClearSub(r)
  PROVE  Wrote(r)
<1>1. /\ task[r] \in Tasks /\ records[r] \in RunRecord /\ records[r] # None /\ UnderWay(r)
      /\ task[r].threads = {} /\ task[r].calls = {} /\ records[r].sub = {}
  <2>1. UnderWay(r) /\ ~At(r, "nodes")
    BY DEF SetResult, SetCompleted, DumpResult, SetFailed, SetError, ClearRunning, ClearSub, At, UnderWay
  <2> QED BY <2>1, RunTypes, NoCallsShown
<1> DEFINE Same == UNCHANGED <<task[r].threads, task[r].calls, task[r].counts>>
<1>2. CASE SetResult(r)
  <2>1. /\ task[r].step = "loop" /\ task'[r] = [task[r] EXCEPT !.step = "status"]
        /\ records'[r] = [records[r] EXCEPT !.result = TRUE]
    BY <1>2 DEF SetResult, Goto, At, TypeOK
  <2>2. /\ task'[r] \in Tasks /\ task'[r].step = "status" /\ Same
        /\ UNCHANGED <<task[r].json, task[r].error>>
        /\ records'[r] \in RunRecord /\ records'[r].result
        /\ UNCHANGED <<records[r].status, records[r].running, records[r].sub, records[r].trace>>
    BY <1>1, <2>1 DEF Tasks, TaskSteps, RunRecord
  <2>3. RecordFits(r)'
    BY <1>1, <2>1, <2>2, NoneAssumption DEF RunInv, RecordFits, Ending
  <2> QED BY <1>1, <2>2, <2>3, CountsStay, ShownStays, NoneAssumption DEF Wrote, UnderWay, At
<1>3. CASE SetCompleted(r)
  <2>1. /\ task[r].step = "status" /\ task'[r] = [task[r] EXCEPT !.step = "dump"]
        /\ records'[r] = [records[r] EXCEPT !.status = "completed"]
    BY <1>3 DEF SetCompleted, Goto, At, TypeOK
  <2>2. /\ task'[r] \in Tasks /\ task'[r].step = "dump" /\ Same
        /\ UNCHANGED <<task[r].json, task[r].error>>
        /\ records'[r] \in RunRecord /\ records'[r].status = "completed"
        /\ UNCHANGED <<records[r].result, records[r].running, records[r].sub, records[r].trace>>
    BY <1>1, <2>1 DEF Tasks, TaskSteps, RunRecord, Statuses
  <2>3. RecordFits(r)'
    BY <1>1, <2>1, <2>2, NoneAssumption DEF RunInv, RecordFits, Ending
  <2> QED BY <1>1, <2>2, <2>3, CountsStay, ShownStays, NoneAssumption DEF Wrote, UnderWay, At
<1>4. CASE DumpResult(r)
  <2>1. /\ task[r].step = "dump" /\ records'[r] = records[r]
        /\ \/ task'[r] = [task[r] EXCEPT !.json = records[r].trace, !.step = "finally"]
           \/ task'[r] = [task[r] EXCEPT !.step = "failed"]
    BY <1>4 DEF DumpResult, Goto, At, TypeOK
  <2>2. /\ task'[r] \in Tasks /\ Same /\ UNCHANGED <<task[r].error>>
        /\ \/ task'[r].step = "finally" /\ task'[r].json = records[r].trace
           \/ task'[r].step = "failed" /\ task'[r].json = task[r].json
    BY <1>1, <2>1 DEF Tasks, TaskSteps, RunRecord
  <2>3. RecordFits(r)'
    BY <1>1, <2>1, <2>2, NoneAssumption DEF RunInv, RecordFits, Ending
  <2> QED BY <1>1, <2>1, <2>2, <2>3, CountsStay, ShownStays, NoneAssumption DEF Wrote, UnderWay, At
<1>5. CASE SetFailed(r)
  <2>1. /\ task[r].step = "failed" /\ task'[r] = [task[r] EXCEPT !.step = "error"]
        /\ records'[r] = [records[r] EXCEPT !.status = "failed"]
    BY <1>5 DEF SetFailed, Goto, At, TypeOK
  <2>2. /\ task'[r] \in Tasks /\ task'[r].step = "error" /\ Same
        /\ UNCHANGED <<task[r].json, task[r].error>>
        /\ records'[r] \in RunRecord /\ records'[r].status = "failed"
        /\ UNCHANGED <<records[r].result, records[r].running, records[r].sub, records[r].trace>>
    BY <1>1, <2>1 DEF Tasks, TaskSteps, RunRecord, Statuses
  <2>3. RecordFits(r)'
    BY <1>1, <2>1, <2>2, NoneAssumption DEF RunInv, RecordFits, Ending
  <2> QED BY <1>1, <2>2, <2>3, CountsStay, ShownStays, NoneAssumption DEF Wrote, UnderWay, At
<1>6. CASE SetError(r)
  <2>1. /\ task[r].step = "error" /\ task'[r] = [task[r] EXCEPT !.error = TRUE, !.step = "finally"]
        /\ records'[r] = [records[r] EXCEPT !.error = TRUE]
    BY <1>6 DEF SetError, At, TypeOK
  <2>2. /\ task'[r] \in Tasks /\ task'[r].step = "finally" /\ Same /\ task'[r].error
        /\ UNCHANGED <<task[r].json>>
        /\ records'[r] \in RunRecord
        /\ UNCHANGED <<records[r].status, records[r].result, records[r].running, records[r].sub, records[r].trace>>
    BY <1>1, <2>1 DEF Tasks, TaskSteps, RunRecord
  <2>3. RecordFits(r)'
    BY <1>1, <2>1, <2>2, NoneAssumption DEF RunInv, RecordFits, Ending
  <2> QED BY <1>1, <2>2, <2>3, CountsStay, ShownStays, NoneAssumption DEF Wrote, UnderWay, At
<1>7. CASE ClearRunning(r)
  <2>1. /\ task[r].step = "finally" /\ task'[r] = [task[r] EXCEPT !.step = "sub"]
        /\ records'[r] = [records[r] EXCEPT !.running = {}]
    BY <1>7 DEF ClearRunning, Goto, At, TypeOK
  <2>2. /\ task'[r] \in Tasks /\ task'[r].step = "sub" /\ Same
        /\ UNCHANGED <<task[r].json, task[r].error>>
        /\ records'[r] \in RunRecord /\ records'[r].running = {}
        /\ UNCHANGED <<records[r].status, records[r].result, records[r].sub, records[r].trace>>
    BY <1>1, <2>1 DEF Tasks, TaskSteps, RunRecord
  <2>3. RecordFits(r)'
    BY <1>1, <2>1, <2>2, NoneAssumption DEF RunInv, RecordFits, Ending
  <2> QED BY <1>1, <2>2, <2>3, CountsStay, ShownStays, NoneAssumption DEF Wrote, UnderWay, At
<1>8. CASE ClearSub(r)
  <2>1. /\ task[r].step = "sub" /\ task'[r] = [task[r] EXCEPT !.step = "update"]
        /\ records'[r] = [records[r] EXCEPT !.sub = {}]
    BY <1>8 DEF ClearSub, Goto, At, TypeOK
  <2>2. /\ task'[r] \in Tasks /\ task'[r].step = "update" /\ Same
        /\ UNCHANGED <<task[r].json, task[r].error>>
        /\ records'[r] \in RunRecord /\ records'[r].sub = {}
        /\ UNCHANGED <<records[r].status, records[r].result, records[r].running, records[r].trace>>
    BY <1>1, <2>1 DEF Tasks, TaskSteps, RunRecord
  <2>3. RecordFits(r)'
    BY <1>1, <2>1, <2>2, NoneAssumption DEF RunInv, RecordFits, Ending
  <2> QED BY <1>1, <2>2, <2>3, CountsStay, ShownStays, NoneAssumption DEF Wrote, UnderWay, At
<1> QED BY <1>2, <1>3, <1>4, <1>5, <1>6, <1>7, <1>8

(* The steps of a run between the two writes of its row. *)
Working(r) ==
  \/ StartGraph(r)
  \/ \E S \in SUBSET NodeIds : OnRoundStart(r, S)
  \/ \E n \in NodeIds, s \in Subs : BeginCall(r, n, s) \/ EndCall(r, n, s)
  \/ \E n \in NodeIds : EndNode(r, n) \/ RemoveRunning(r, n)
  \/ \E n \in NodeIds, failed \in BOOLEAN : AppendTrace(r, n, failed)
  \/ SetResult(r) \/ SetCompleted(r) \/ DumpResult(r) \/ SetFailed(r) \/ SetError(r)
  \/ ClearRunning(r) \/ ClearSub(r)

(* No step of a run touches another run, or what clients have.             *)
OnlyOf(r) ==
  /\ \A q \in RunIds \ {r} : UNCHANGED <<records[q], rows[q], task[q], answer[q]>> /\ (q \in lost' <=> q \in lost)
  /\ records' \in [RunIds -> RunRecord \cup {None}] /\ rows' \in [RunIds -> Row \cup {None}]
  /\ task' \in [RunIds -> Tasks] /\ lost' \in SUBSET RunIds
  /\ answer' \in [RunIds -> {"none", "joining", "checking", "timeout", "failed", "node failed", "outputs", "gone"}]

LEMMA WorkingStep ==
  ASSUME TypeOK, NEW r \in RunIds, RunInv(r), Working(r)
  PROVE  RunInv(r)' /\ OnlyOf(r) /\ UNCHANGED <<poll, told>>
<1>1. Wrote(r)
  BY StartWrote, RoundWrote, CallWrote, NodeWrote, RemoveWrote, AppendWrote, EndWrote DEF Working
<1>2. UnderWay(r) /\ ~At(r, "insert") /\ UNCHANGED <<rows, answer, lost, poll, told>>
  BY DEF Working, StartGraph, OnRoundStart, BeginCall, EndCall, OnSubNodeActivity, EndNode, RemoveRunning, AppendTrace,
     SetResult, SetCompleted, DumpResult, SetFailed, SetError, ClearRunning, ClearSub, At, UnderWay
<1>3. (\E t : task' = [task EXCEPT ![r] = t]) /\ (\E record : records' = [records EXCEPT ![r] = record])
  <2>1. task' = [task EXCEPT ![r] = task'[r]] /\ records' = [records EXCEPT ![r] = records'[r]]
    BY DEF Working, StartGraph, OnRoundStart, BeginCall, EndCall, OnSubNodeActivity, EndNode, RemoveRunning, AppendTrace,
       SetResult, SetCompleted, DumpResult, SetFailed, SetError, ClearRunning, ClearSub, Goto, TypeOK
  <2> QED BY <2>1
<1>4. OnlyOf(r)
  BY <1>1, <1>2, <1>3 DEF OnlyOf, Wrote, TypeOK
<1>5. RowFits(r)' /\ (r \notin lost' => Recorded(r)') /\ AnswerFits(r)' /\ (r \in Invoked => Truth(r)')
  BY <1>1, <1>2, RowsStay DEF Wrote
<1> QED BY <1>1, <1>2, <1>4, <1>5 DEF RunInv, Wrote

-----------------------------------------------------------------------------
(* The two writes of the row, and POST .../invoke *)

LEMMA CreateStep ==
  ASSUME TypeOK, NEW r \in RunIds, RunInv(r), CreateRun(r)
  PROVE  RunInv(r)' /\ OnlyOf(r)
<1>1. /\ task[r] \in Tasks /\ task[r].step = "none" /\ task[r].json = None /\ ~task[r].error
      /\ task[r].threads = {} /\ task[r].calls = {}
  BY RunTypes, NoCallsShown DEF CreateRun, At, RunInv, RecordFits, Ending
<1>2. /\ task' = [task EXCEPT ![r] = [task[r] EXCEPT !.step = "insert"]]
      /\ records' = [records EXCEPT ![r] = NewRecord]
      /\ task'[r] = [task[r] EXCEPT !.step = "insert"] /\ records'[r] = NewRecord
      /\ UNCHANGED <<rows, answer, lost>>
  BY DEF CreateRun, Goto, TypeOK
<1>3. /\ task'[r] \in Tasks /\ task'[r].step = "insert" /\ task'[r].json = None /\ ~task'[r].error
      /\ UNCHANGED <<task[r].threads, task[r].calls, task[r].counts>>
  BY <1>1, <1>2 DEF Tasks, TaskSteps
<1>4. /\ records'[r] \in RunRecord /\ records'[r] # None
      /\ records'[r].status = "running" /\ records'[r].running = {} /\ records'[r].sub = {}
  <2>1. NewRecord \in RunRecord /\ NewRecord # None
    BY NewTaskType, NoneAssumption
  <2>2. NewRecord.status = "running" /\ NewRecord.running = {} /\ NewRecord.sub = {}
    BY DEF NewRecord
  <2> QED BY <1>2, <2>1, <2>2
<1>5. OnlyOf(r)
  BY <1>2, <1>3, <1>4 DEF OnlyOf, TypeOK
<1>6. CallsAreCounted(r)'
  BY <1>1, <1>3, CountsStay
<1>7. RecordFits(r)' /\ Shown(r)'
  BY <1>1, <1>3, <1>4 DEF RecordFits, Shown, Ending
<1>8. answer'[r] \notin {"failed", "node failed", "outputs"}
  BY <1>1, <1>2 DEF RunInv, AnswerFits, At
<1>9. RowFits(r)' /\ (r \notin lost' => Recorded(r)')
  BY <1>1, <1>2, <1>3 DEF RunInv, RowFits, Recorded, UnderWay, At
<1> QED BY <1>4, <1>5, <1>6, <1>7, <1>8, <1>9 DEF RunInv, AnswerFits, Truth

LEMMA InsertedRow ==
  LET row == [status |-> "running", json |-> None, error |-> FALSE] IN
  row \in Row /\ row # None /\ row.status = "running"
<1> DEFINE row == [status |-> "running", json |-> None, error |-> FALSE]
<1>1. row \in Row
  BY DEF Row, Statuses
<1>2. row # None
  BY <1>1, NoneAssumption
<1> QED BY <1>1, <1>2

LEMMA InsertStep ==
  ASSUME TypeOK, NEW r \in RunIds, RunInv(r), CreateRunRecord(r)
  PROVE  RunInv(r)' /\ OnlyOf(r)
<1> DEFINE row == [status |-> "running", json |-> None, error |-> FALSE]
<1>1. /\ task[r] \in Tasks /\ records[r] \in RunRecord /\ records[r] # None /\ task[r].step = "insert"
      /\ task[r].threads = {} /\ task[r].calls = {}
  BY RunTypes, NoCallsShown DEF CreateRunRecord, At, UnderWay
<1>2. /\ task' = [task EXCEPT ![r] = [task[r] EXCEPT !.step = "start"]]
      /\ task'[r] = [task[r] EXCEPT !.step = "start"] /\ records' = records
      /\ answer' = IF r \in Invoked THEN [answer EXCEPT ![r] = "joining"] ELSE answer
      /\ \/ rows' = [rows EXCEPT ![r] = row] /\ lost' = lost
         \/ lost' = lost \cup {r} /\ rows' = rows
  BY DEF CreateRunRecord, Goto, TypeOK
<1>3. /\ task'[r] \in Tasks /\ task'[r].step = "start"
      /\ UNCHANGED <<task[r].json, task[r].error, task[r].threads, task[r].calls, task[r].counts>>
  BY <1>1, <1>2 DEF Tasks, TaskSteps
<1>4. row \in Row /\ row # None /\ row.status = "running"
  BY InsertedRow
<1> HIDE DEF row
<1>5. rows' \in [RunIds -> Row \cup {None}] /\ (rows'[r] = row \/ (rows'[r] = rows[r] /\ r \in lost'))
      /\ lost' \in SUBSET RunIds /\ (r \notin lost' => r \notin lost)
  BY <1>2, <1>4 DEF TypeOK
<1>6. OnlyOf(r)
  <2>1. \A q \in RunIds \ {r} : UNCHANGED <<records[q], rows[q], task[q], answer[q]>> /\ (q \in lost' <=> q \in lost)
    BY <1>2 DEF TypeOK
  <2>2. task' \in [RunIds -> Tasks] /\ records' \in [RunIds -> RunRecord \cup {None}]
    BY <1>2, <1>3 DEF TypeOK
  <2>3. answer' \in [RunIds -> {"none", "joining", "checking", "timeout", "failed", "node failed", "outputs", "gone"}]
    BY <1>2 DEF TypeOK
  <2> QED BY <1>5, <2>1, <2>2, <2>3 DEF OnlyOf
<1>7. CallsAreCounted(r)' /\ Shown(r)'
  BY <1>1, <1>2, <1>3, CountsStay, ShownStays
<1>8. RecordFits(r)'
  BY <1>1, <1>2, <1>3 DEF RunInv, RecordFits, Ending
<1>9. answer'[r] \notin {"failed", "node failed", "outputs"}
  BY <1>1, <1>2 DEF RunInv, AnswerFits, At, TypeOK
<1>10. RowFits(r)' /\ (r \notin lost' => Recorded(r)')
  <2>1. rows'[r] # None /\ rows'[r].status = "completed" => rows'[r].json # None
    BY <1>4, <1>5 DEF RunInv, RowFits
  <2>2. r \notin lost' => rows'[r] = [status |-> "running", json |-> None, error |-> FALSE]
    BY <1>5 DEF row
  <2>3. r \notin lost' => rows'[r] # None /\ rows'[r].status = "running"
    BY <1>4, <1>5
  <2> QED BY <1>3, <2>1, <2>2, <2>3 DEF RowFits, Recorded, UnderWay, At
<1> QED BY <1>1, <1>2, <1>6, <1>7, <1>8, <1>9, <1>10 DEF RunInv, AnswerFits, Truth

LEMMA CompleteStep ==
  ASSUME TypeOK, NEW r \in RunIds, RunInv(r), CompleteRunRecord(r)
  PROVE  RunInv(r)' /\ OnlyOf(r)
<1> DEFINE row == [status |-> records[r].status, json |-> task[r].json, error |-> task[r].error]
<1>1. /\ task[r] \in Tasks /\ records[r] \in RunRecord /\ records[r] # None /\ task[r].step = "update"
      /\ task[r].threads = {} /\ task[r].calls = {}
      /\ records[r].status = IF task[r].error THEN "failed" ELSE "completed"
      /\ task[r].json = IF task[r].error THEN None ELSE records[r].trace
  BY RunTypes, NoCallsShown DEF CompleteRunRecord, At, UnderWay, RunInv, RecordFits, Ending
<1>2. /\ task' = [task EXCEPT ![r] = [task[r] EXCEPT !.step = "over"]]
      /\ task'[r] = [task[r] EXCEPT !.step = "over"] /\ records' = records /\ answer' = answer
      /\ \/ rows' = (IF rows[r] = None THEN rows ELSE [rows EXCEPT ![r] = row]) /\ lost' = lost
         \/ lost' = lost \cup {r} /\ rows' = rows
  BY DEF CompleteRunRecord, Updated, Goto, TypeOK
<1>3. /\ task'[r] \in Tasks /\ task'[r].step = "over"
      /\ UNCHANGED <<task[r].json, task[r].error, task[r].threads, task[r].calls, task[r].counts>>
  BY <1>1, <1>2 DEF Tasks, TaskSteps
<1>4. /\ records[r].trace # None /\ records[r].trace \in Seq(TraceRecord)
  BY <1>1, NoneAssumption DEF RunRecord
<1>5. /\ row \in Row /\ row # None /\ Terminal(row.status)
      /\ row.status = "completed" <=> row.json # None
      /\ row.status = "failed" <=> row.error
      /\ row.status = records[r].status
      /\ row.json # None => row.json = records[r].trace
  <2>1. row \in Row
    BY <1>1 DEF Row, Tasks, RunRecord
  <2> QED BY <1>1, <1>4, <2>1, NoneAssumption DEF Terminal
<1> HIDE DEF row
<1>6. /\ rows' \in [RunIds -> Row \cup {None}] /\ lost' \in SUBSET RunIds
      /\ r \notin lost' => r \notin lost /\ rows'[r] = row
      /\ rows'[r] = row \/ rows'[r] = rows[r]
  <2>1. r \notin lost => rows[r] # None
    BY <1>1, InsertedRow DEF RunInv, RowFits, UnderWay, At
  <2> QED BY <1>2, <1>5, <2>1 DEF TypeOK
<1>7. OnlyOf(r)
  <2>1. \A q \in RunIds \ {r} : UNCHANGED <<records[q], rows[q], task[q], answer[q]>> /\ (q \in lost' <=> q \in lost)
    BY <1>2 DEF TypeOK
  <2>2. task' \in [RunIds -> Tasks] /\ records' \in [RunIds -> RunRecord \cup {None}]
    BY <1>2, <1>3 DEF TypeOK
  <2> QED BY <1>2, <1>6, <2>1, <2>2 DEF OnlyOf, TypeOK
<1>8. CallsAreCounted(r)' /\ Shown(r)'
  BY <1>1, <1>2, <1>3, CountsStay, ShownStays
<1>9. RecordFits(r)'
  BY <1>1, <1>2, <1>3 DEF RunInv, RecordFits, Ending, UnderWay
<1>10. answer'[r] \notin {"failed", "node failed", "outputs"}
  BY <1>1, <1>2 DEF RunInv, AnswerFits, At
<1>11. RowFits(r)' /\ (r \notin lost' => Recorded(r)')
  <2>1. rows'[r] # None /\ rows'[r].status = "completed" => rows'[r].json # None
    BY <1>5, <1>6 DEF RunInv, RowFits
  <2>2. RowFits(r)'
    BY <1>3, <2>1 DEF RowFits, UnderWay, At
  <2>3. r \notin lost' => Recorded(r)'
    BY <1>2, <1>3, <1>5, <1>6 DEF Recorded, UnderWay, At, Terminal
  <2> QED BY <2>2, <2>3
<1> QED BY <1>1, <1>2, <1>3, <1>7, <1>8, <1>9, <1>10, <1>11 DEF RunInv, AnswerFits, Truth

LEMMA InvokeStep ==
  ASSUME TypeOK, NEW r \in RunIds, RunInv(r), JoinReturns(r) \/ Answer(r)
  PROVE  RunInv(r)' /\ OnlyOf(r)
<1>1. UNCHANGED <<records, rows, task, lost>> /\ records[r] # None
  BY DEF JoinReturns, Answer, RunInv, AnswerFits
<1>2. \/ answer' = [answer EXCEPT ![r] = "checking"]
      \/ answer' = [answer EXCEPT ![r] = AnswerFor(r)]
  BY DEF JoinReturns, Answer
<1>3. AnswerFor(r) \in {"timeout", "failed", "node failed", "outputs"}
  BY DEF AnswerFor
<1>4. OnlyOf(r) /\ (answer'[r] = "checking" \/ answer'[r] = AnswerFor(r))
  BY <1>1, <1>2, <1>3 DEF OnlyOf, TypeOK
<1>5. CallsAreCounted(r)' /\ RecordFits(r)' /\ Shown(r)'
  BY <1>1 DEF RunInv, CallsAreCounted, Users, RecordFits, Shown, At, UnderWay, IsNext
<1>6. RowFits(r)' /\ (r \notin lost' => Recorded(r)')
  BY <1>1 DEF RunInv, RowFits, Recorded, At, UnderWay
<1>7. At(r, "over") => records[r].status \in {"failed", "completed"}
  BY <1>1 DEF RunInv, RecordFits, At, Ending
<1>8. AnswerFits(r)'
  BY <1>1, <1>4 DEF AnswerFits, AnswerFor, At
<1>9. Truth(r)'
  BY <1>1, <1>4, <1>7 DEF Truth, AnswerFor, At, SomeFailed
<1> QED BY <1>4, <1>5, <1>6, <1>8, <1>9 DEF RunInv

LEMMA RunStepKeeps ==
  ASSUME TypeOK, NEW r \in RunIds, RunInv(r), RunStep(r) \/ JoinReturns(r) \/ Answer(r)
  PROVE  RunInv(r)' /\ OnlyOf(r) /\ UNCHANGED <<poll, told>>
<1>1. CASE Working(r)
  BY <1>1, WorkingStep
<1>2. CASE CreateRun(r)
  BY <1>2, CreateStep DEF CreateRun
<1>3. CASE CreateRunRecord(r)
  BY <1>3, InsertStep DEF CreateRunRecord
<1>4. CASE CompleteRunRecord(r)
  BY <1>4, CompleteStep DEF CompleteRunRecord
<1>5. CASE JoinReturns(r) \/ Answer(r)
  BY <1>5, InvokeStep DEF JoinReturns, Answer
<1> QED BY <1>1, <1>2, <1>3, <1>4, <1>5 DEF RunStep, Working

LEMMA CrashKeeps ==
  ASSUME TypeOK, NEW r \in RunIds, RunInv(r), Crash
  PROVE  RunInv(r)' /\ task'[r] \in Tasks
<1>1. /\ records'[r] = None /\ rows'[r] = rows[r]
      /\ task'[r] = IF UnderWay(r) THEN [NewTask EXCEPT !.step = "dead"] ELSE task[r]
      /\ r \in lost' <=> r \in lost \/ UnderWay(r)
      /\ answer'[r] = IF answer[r] \in {"joining", "checking"} THEN "gone" ELSE answer[r]
  BY DEF Crash
<1>2. Shown(r)' /\ Truth(r)'
  BY <1>1 DEF Shown, Truth
<1>3. CASE UnderWay(r)
  <2>1. /\ task'[r].step = "dead" /\ task'[r].json = None /\ ~task'[r].error
        /\ task'[r].calls = {} /\ task'[r].threads = {} /\ DOMAIN task'[r].counts = {} /\ task'[r] \in Tasks
    <3>1. task'[r] = [NewTask EXCEPT !.step = "dead"] /\ NewTask \in Tasks
      BY <1>1, <1>3, NewTaskType
    <3>2. /\ task'[r] \in Tasks /\ task'[r].step = "dead" /\ task'[r].json = NewTask.json /\ task'[r].error = NewTask.error
          /\ task'[r].calls = NewTask.calls /\ task'[r].threads = NewTask.threads /\ task'[r].counts = NewTask.counts
      BY <3>1 DEF Tasks, TaskSteps
    <3>3. NewTask.json = None /\ ~NewTask.error
      BY DEF NewTask
    <3> QED BY <3>2, <3>3, NewTaskType
  <2>2. \A s : Users(r, s)' = {}
    BY <2>1 DEF Users
  <2>3. CallsAreCounted(r)'
    BY <2>1, <2>2 DEF CallsAreCounted
  <2>4. RecordFits(r)'
    BY <1>1, <2>1 DEF RecordFits, UnderWay
  <2>5. RowFits(r)' /\ r \in lost'
    BY <1>1, <1>3, <2>1 DEF RunInv, RowFits
  <2>6. AnswerFits(r)'
    BY <1>1, <1>3 DEF RunInv, AnswerFits, At, UnderWay
  <2> QED BY <1>2, <2>1, <2>3, <2>4, <2>5, <2>6 DEF RunInv
<1>4. CASE ~UnderWay(r)
  <2>1. task'[r] = task[r] /\ task[r] \in Tasks
    BY <1>1, <1>4 DEF TypeOK
  <2>2. CallsAreCounted(r)'
    BY <2>1 DEF RunInv, CallsAreCounted, Users, At
  <2>3. RecordFits(r)'
    BY <1>1, <1>4, <2>1 DEF RunInv, RecordFits, UnderWay
  <2>4. RowFits(r)' /\ (r \notin lost' => Recorded(r)')
    BY <1>1, <1>4, <2>1 DEF RunInv, RowFits, Recorded, UnderWay, At
  <2>5. AnswerFits(r)'
    BY <1>1, <2>1 DEF RunInv, AnswerFits, At
  <2> QED BY <1>2, <2>1, <2>2, <2>3, <2>4, <2>5 DEF RunInv
<1> QED BY <1>3, <1>4

(* Every step keeps every run's part. *)
LEMMA RunsKept ==
  ASSUME TypeOK, \A r \in RunIds : RunInv(r), [Next]_vars
  PROVE  \A r \in RunIds : RunInv(r)'
<1>1. ASSUME NEW r \in RunIds, RunStep(r) \/ JoinReturns(r) \/ Answer(r), NEW q \in RunIds
      PROVE  RunInv(q)'
  <2>1. RunInv(r)' /\ OnlyOf(r)
    BY <1>1, RunStepKeeps
  <2>2. CASE q # r
    BY <2>1, <2>2, RunFrame DEF OnlyOf
  <2> QED BY <2>1, <2>2
<1>2. ASSUME UNCHANGED <<records, rows, task, answer, lost>>, NEW q \in RunIds
      PROVE  RunInv(q)'
  BY <1>2, RunFrame
<1>3. CASE Crash
  BY <1>3, CrashKeeps
<1> QED BY <1>1, <1>2, <1>3 DEF Next, GetRun, ReadField, Reply, vars

-----------------------------------------------------------------------------
(* What readers rely on *)

LEMMA PrefixSelf ==
  ASSUME NEW s \in Seq(TraceRecord)
  PROVE  IsPrefixOf(s, s)
<1>1. Len(s) \in Nat
  OBVIOUS
<1> QED BY <1>1 DEF IsPrefixOf

LEMMA PrefixThen ==
  ASSUME NEW s \in Seq(TraceRecord), NEW t \in Seq(TraceRecord), NEW u \in Seq(TraceRecord),
         IsPrefixOf(s, t), IsPrefixOf(t, u)
  PROVE  IsPrefixOf(s, u)
<1>1. Len(s) \in Nat /\ Len(t) \in Nat /\ Len(u) \in Nat /\ Len(s) <= Len(t) /\ Len(t) <= Len(u)
  BY DEF IsPrefixOf
<1>2. DOMAIN s \subseteq DOMAIN t
  BY <1>1
<1> QED BY <1>1, <1>2 DEF IsPrefixOf

LEMMA PrefixAppend ==
  ASSUME NEW s \in Seq(TraceRecord), NEW e \in TraceRecord
  PROVE  IsPrefixOf(s, Append(s, e))
<1>1. Len(Append(s, e)) = Len(s) + 1 /\ Len(s) \in Nat
  OBVIOUS
<1>2. \A i \in DOMAIN s : Append(s, e)[i] = s[i]
  OBVIOUS
<1> QED BY <1>1, <1>2 DEF IsPrefixOf

(* A run that a client knows of only goes forward.                         *)
Advances(r) == ~At(r, "none") /\ ~At(r, "insert") =>
  /\ ~At(r, "none")' /\ ~At(r, "insert")'
  /\ records[r] = None => records'[r] = None /\ rows'[r] = rows[r]
  /\ records[r] # None =>
       /\ records'[r] # None /\ IsPrefixOf(records[r].trace, records'[r].trace)
       /\ Terminal(records[r].status) => Terminal(records'[r].status)
       /\ Settled(r) => Settled(r)' /\ records'[r].trace = records[r].trace

LEMMA StillAdvances ==
  ASSUME TypeOK, NEW r \in RunIds, UNCHANGED <<records[r], rows[r], task[r]>>
  PROVE  Advances(r)
<1>1. records[r] # None => records[r].trace \in Seq(TraceRecord)
  BY DEF TypeOK, RunRecord
<1>2. records[r] # None => IsPrefixOf(records[r].trace, records[r].trace)
  BY <1>1, PrefixSelf
<1> QED BY <1>2 DEF Advances, At, Settled

(* Before the trace is settled: it only grows, and no status is taken      *)
(* back.                                                                   *)
LEMMA OpenAdvances ==
  ASSUME TypeOK, NEW r \in RunIds, RunInv(r), UnderWay(r), UnderWay(r)', ~At(r, "insert")', ~Settled(r),
         \/ records' = records
         \/ \E S \in SUBSET NodeIds : records' = [records EXCEPT ![r].running = S]
         \/ \E S \in SUBSET Subs : records' = [records EXCEPT ![r].sub = S]
         \/ \E e \in TraceRecord : records' = [records EXCEPT ![r].trace = Append(@, e)]
         \/ records' = [records EXCEPT ![r].result = TRUE]
         \/ \E status \in {"completed", "failed"} : records' = [records EXCEPT ![r].status = status]
         \/ records' = [records EXCEPT ![r].error = TRUE]
  PROVE  Advances(r)
<1>1. records[r] \in RunRecord /\ records[r] # None /\ records[r].trace \in Seq(TraceRecord)
  BY RunTypes DEF RunRecord
<1>2. \/ records'[r] = records[r]
      \/ \E S \in SUBSET NodeIds : records'[r] = [records[r] EXCEPT !.running = S]
      \/ \E S \in SUBSET Subs : records'[r] = [records[r] EXCEPT !.sub = S]
      \/ \E e \in TraceRecord : records'[r] = [records[r] EXCEPT !.trace = Append(@, e)]
      \/ records'[r] = [records[r] EXCEPT !.result = TRUE]
      \/ \E status \in {"completed", "failed"} : records'[r] = [records[r] EXCEPT !.status = status]
      \/ records'[r] = [records[r] EXCEPT !.error = TRUE]
  BY DEF TypeOK
<1>3. \/ records'[r].trace = records[r].trace
      \/ \E e \in TraceRecord : records'[r].trace = Append(records[r].trace, e)
  BY <1>1, <1>2 DEF RunRecord
<1>4. IsPrefixOf(records[r].trace, records'[r].trace)
  BY <1>1, <1>3, PrefixSelf, PrefixAppend
<1>5. Terminal(records[r].status) => Terminal(records'[r].status)
  BY <1>1, <1>2 DEF RunRecord, Terminal
<1>6. records'[r] \in RunRecord
  <2>1. \A e \in TraceRecord : Append(records[r].trace, e) \in Seq(TraceRecord)
    BY <1>1
  <2> QED BY <1>1, <1>2, <2>1 DEF RunRecord, Statuses
<1> QED BY <1>1, <1>4, <1>5, <1>6, NoneAssumption DEF Advances, UnderWay, At

LEMMA WorkingAdvances ==
  ASSUME TypeOK, NEW r \in RunIds, RunInv(r), Working(r)
  PROVE  Advances(r)
<1>1. UnderWay(r) /\ ~At(r, "insert")
  BY DEF Working, StartGraph, OnRoundStart, BeginCall, EndCall, EndNode, RemoveRunning, AppendTrace,
     SetResult, SetCompleted, DumpResult, SetFailed, SetError, ClearRunning, ClearSub, At, UnderWay
<1>2. /\ task[r] \in Tasks /\ records[r] \in RunRecord /\ records[r] # None /\ records[r].trace \in Seq(TraceRecord)
      /\ UnderWay(r)' /\ ~At(r, "insert")' /\ records'[r] # None
  BY <1>1, RunTypes, StartWrote, RoundWrote, CallWrote, NodeWrote, RemoveWrote, AppendWrote, EndWrote DEF Working, Wrote, RunRecord
<1>3. CASE \/ StartGraph(r) \/ SetResult(r) \/ SetCompleted(r)
           \/ \E S \in SUBSET NodeIds : OnRoundStart(r, S)
           \/ \E n \in NodeIds : EndNode(r, n) \/ RemoveRunning(r, n)
           \/ \E n \in NodeIds, failed \in BOOLEAN : AppendTrace(r, n, failed)
  <2>1. task[r].step \in {"start", "loop", "nodes", "remove", "append", "status"}
    BY <1>3 DEF StartGraph, OnRoundStart, EndNode, RemoveRunning, AppendTrace, SetResult, SetCompleted, At
  <2>2. ~Settled(r)
    BY <2>1 DEF Settled, Ending
  <2>3. \A n \in NodeIds, failed \in BOOLEAN : [node |-> n, error |-> failed] \in TraceRecord
    BY DEF TraceRecord
  <2>4. \A n \in NodeIds : records[r].running \ {n} \in SUBSET NodeIds
    BY <1>2 DEF RunRecord
  <2>5. \/ records' = records
        \/ \E S \in SUBSET NodeIds : records' = [records EXCEPT ![r].running = S]
        \/ \E e \in TraceRecord : records' = [records EXCEPT ![r].trace = Append(@, e)]
        \/ records' = [records EXCEPT ![r].result = TRUE]
        \/ records' = [records EXCEPT ![r].status = "completed"]
    BY <1>3, <2>3, <2>4 DEF StartGraph, OnRoundStart, AnnounceRound, EndNode, RemoveRunning, AppendTrace, SetResult, SetCompleted
  <2> QED BY <1>1, <1>2, <2>2, <2>5, OpenAdvances
<1>4. CASE \E n \in NodeIds, s \in Subs : BeginCall(r, n, s) \/ EndCall(r, n, s)
  <2>1. ~Settled(r)
    BY <1>4 DEF BeginCall, EndCall, Settled, Ending, At
  <2>2. PICK S : records' = [records EXCEPT ![r].sub = S]
    BY <1>4 DEF BeginCall, EndCall, OnSubNodeActivity
  <2>3. S \in SUBSET Subs
    <3>1. records'[r] \in RunRecord
      BY <1>4, CallWrote DEF Wrote
    <3>2. records'[r].sub = S
      BY <1>2, <2>2 DEF TypeOK, RunRecord
    <3> QED BY <3>1, <3>2 DEF RunRecord
  <2> QED BY <1>1, <1>2, <2>1, <2>2, <2>3, OpenAdvances
<1>5. CASE DumpResult(r) \/ SetFailed(r) \/ SetError(r) \/ ClearRunning(r) \/ ClearSub(r)
  <2>1. /\ \/ records'[r] = records[r]
           \/ records'[r] = [records[r] EXCEPT !.status = "failed"]
           \/ records'[r] = [records[r] EXCEPT !.error = TRUE]
           \/ records'[r] = [records[r] EXCEPT !.running = {}]
           \/ records'[r] = [records[r] EXCEPT !.sub = {}]
        /\ \/ task'[r] = [task[r] EXCEPT !.json = records[r].trace, !.step = "finally"]
           \/ \E step \in {"failed", "error", "sub", "update"} : task'[r] = [task[r] EXCEPT !.step = step]
           \/ task'[r] = [task[r] EXCEPT !.error = TRUE, !.step = "finally"]
    BY <1>5 DEF DumpResult, SetFailed, SetError, ClearRunning, ClearSub, Goto, TypeOK
  <2>2. task'[r].step \in Ending \cup {"dump", "failed", "error"}
    BY <1>2, <2>1 DEF Tasks, Ending
  <2>3. /\ records'[r].trace = records[r].trace /\ records'[r].result = records[r].result
        /\ records'[r].running = {} \/ records'[r].running = records[r].running
        /\ records'[r].sub = {} \/ records'[r].sub = records[r].sub
        /\ Terminal(records[r].status) => Terminal(records'[r].status)
    BY <1>2, <2>1 DEF RunRecord, Terminal
  <2>4. IsPrefixOf(records[r].trace, records'[r].trace)
    BY <1>2, <2>3, PrefixSelf
  <2> QED BY <1>2, <2>2, <2>3, <2>4 DEF Advances, Settled, UnderWay, At
<1> QED BY <1>3, <1>4, <1>5 DEF Working

LEMMA RunsAdvance ==
  ASSUME TypeOK, \A r \in RunIds : RunInv(r), NEW r \in RunIds, RunStep(r) \/ JoinReturns(r) \/ Answer(r)
  PROVE  \A q \in RunIds : Advances(q)
<1>1. OnlyOf(r)
  BY RunStepKeeps
<1>2. ASSUME NEW q \in RunIds \ {r} PROVE Advances(q)
  BY <1>1, StillAdvances DEF OnlyOf
<1>3. Advances(r)
  <2>1. CASE Working(r)
    BY <2>1, WorkingAdvances
  <2>2. CASE CreateRun(r) \/ CreateRunRecord(r)
    BY <2>2 DEF CreateRun, CreateRunRecord, Advances
  <2>3. CASE CompleteRunRecord(r)
    <3>1. /\ task[r] \in Tasks /\ task[r].step = "update" /\ records[r] # None /\ records' = records
          /\ task'[r] = [task[r] EXCEPT !.step = "over"] /\ records[r].trace \in Seq(TraceRecord)
      BY <2>3, RunTypes DEF CompleteRunRecord, Goto, At, UnderWay, TypeOK, RunRecord
    <3>2. task'[r].step = "over" /\ IsPrefixOf(records[r].trace, records[r].trace)
      BY <3>1, PrefixSelf DEF Tasks
    <3> QED BY <3>1, <3>2 DEF Advances, Settled, Ending, At
  <2>4. CASE JoinReturns(r) \/ Answer(r)
    BY <2>4, StillAdvances DEF JoinReturns, Answer
  <2> QED BY <2>1, <2>2, <2>3, <2>4 DEF RunStep, Working
<1> QED BY <1>2, <1>3

-----------------------------------------------------------------------------
(* GET /runs/{run_id} *)

PollType == [run : RunIds \cup {None}, next : 1..(Len(Fields) + 1), got : RunRecord]

LEMMA ReaderTypes ==
  ASSUME TypeOK, \A r \in RunIds : RunInv(r), NEW c \in Clients, PollFits(c), ToldFits(c)
  PROVE  /\ poll[c].run \in RunIds \cup {None} /\ poll[c].next \in 1..7 /\ poll[c].got \in RunRecord
         /\ poll[c].got.trace \in Seq(TraceRecord)
         /\ poll[c].run # None => records[poll[c].run] \in RunRecord /\ records[poll[c].run].trace \in Seq(TraceRecord)
         /\ told[c] # None => /\ told[c].run \in RunIds /\ told[c].reply \in RunRecord \cup {None}
                              /\ told[c].reply # None => told[c].reply.trace \in Seq(TraceRecord)
<1>1. poll[c] \in PollType /\ told[c] \in Told \cup {None}
  BY DEF TypeOK, PollType
<1>2. poll[c].run \in RunIds \cup {None} /\ poll[c].next \in 1..7 /\ poll[c].got \in RunRecord
  BY <1>1 DEF PollType, Fields
<1>3. poll[c].run # None => records[poll[c].run] \in RunRecord
  BY <1>2 DEF PollFits, TypeOK
<1>4. told[c] # None => told[c].run \in RunIds /\ told[c].reply \in RunRecord \cup {None}
  BY <1>1 DEF Told
<1> QED BY <1>2, <1>3, <1>4 DEF RunRecord

(* What a client has read, and was told, is not overtaken by a run.        *)
LEMMA PollStays ==
  ASSUME TypeOK, \A r \in RunIds : RunInv(r) /\ Advances(r), TypeOK',
         NEW c \in Clients, PollFits(c), ToldFits(c), UNCHANGED poll[c]
  PROVE  PollFits(c)'
<1> DEFINE p == poll[c]
           r == poll[c].run
<1>1. CASE r = None
  BY <1>1 DEF PollFits
<1>2. CASE r # None
  <2>1. /\ r \in RunIds /\ records[r] # None /\ ~At(r, "none") /\ ~At(r, "insert")
        /\ records[r].trace \in Seq(TraceRecord) /\ p.got.trace \in Seq(TraceRecord)
    BY <1>2, ReaderTypes DEF PollFits
  <2>2. /\ ~At(r, "none")' /\ ~At(r, "insert")'
        /\ records'[r] # None /\ IsPrefixOf(records[r].trace, records'[r].trace)
        /\ Terminal(records[r].status) => Terminal(records'[r].status)
        /\ Settled(r) => Settled(r)' /\ records'[r].trace = records[r].trace
    BY <2>1 DEF Advances, At
  <2>3. records'[r].trace \in Seq(TraceRecord)
    BY <2>1, <2>2 DEF TypeOK, RunRecord
  <2>4. p.next > 4 => IsPrefixOf(p.got.trace, records'[r].trace)
    BY <1>2, <2>1, <2>2, <2>3, PrefixThen DEF PollFits
  <2>5. /\ p.next = 1 => p.got.status = "running"
        /\ p.next <= 2 => p.got.running = {}
        /\ p.next <= 3 => p.got.sub = {}
        /\ Terminal(p.got.status) => Terminal(records'[r].status)
        /\ p.got.status = "completed" =>
             /\ Settled(r) /\ Settled(r)'
             /\ p.got.running = {} /\ p.got.sub = {}
             /\ p.next > 4 => p.got.trace = records'[r].trace
             /\ p.next > 5 => p.got.result
    BY <1>2, <2>2 DEF PollFits
  <2>6. poll'[c] = poll[c] /\ poll'[c].run = r
    OBVIOUS
  <2> QED BY <1>2, <2>2, <2>4, <2>5, <2>6 DEF PollFits, Settled, At
<1> QED BY <1>1, <1>2

LEMMA ToldStays ==
  ASSUME TypeOK, \A r \in RunIds : RunInv(r) /\ Advances(r), TypeOK',
         NEW c \in Clients, PollFits(c), ToldFits(c), UNCHANGED <<poll[c], told[c]>>
  PROVE  ToldFits(c)'
<1> DEFINE t == told[c]
           r == told[c].run
<1>1. CASE t = None
  BY <1>1 DEF ToldFits
<1>2. CASE t # None
  <2>1. /\ r \in RunIds /\ ~At(r, "none") /\ ~At(r, "insert")
        /\ records[r] # None => records[r].trace \in Seq(TraceRecord)
        /\ t.reply # None => t.reply.trace \in Seq(TraceRecord)
    BY <1>2, ReaderTypes DEF ToldFits, TypeOK, RunRecord
  <2>2. /\ ~At(r, "none")' /\ ~At(r, "insert")'
        /\ records[r] = None => records'[r] = None /\ rows'[r] = rows[r]
        /\ records[r] # None =>
             /\ records'[r] # None /\ IsPrefixOf(records[r].trace, records'[r].trace)
             /\ Terminal(records[r].status) => Terminal(records'[r].status)
             /\ Settled(r) => Settled(r)' /\ records'[r].trace = records[r].trace
    BY <2>1 DEF Advances, At
  <2>3. records'[r] # None => records'[r].trace \in Seq(TraceRecord)
    BY <2>1 DEF TypeOK, RunRecord
  <2>4. records'[r] = None => t.reply = ReplyFromRow(rows'[r])
    BY <1>2, <2>2 DEF ToldFits
  <2>5. records'[r] # None =>
          /\ t.reply # None /\ IsPrefixOf(t.reply.trace, records'[r].trace)
          /\ Terminal(t.reply.status) => Terminal(records'[r].status)
          /\ t.reply.status = "completed" =>
               /\ Settled(r)'
               /\ t.reply.result /\ t.reply.running = {} /\ t.reply.sub = {}
               /\ t.reply.trace = records'[r].trace
    <3>1. ASSUME records'[r] # None
          PROVE  /\ records[r] # None /\ t.reply # None /\ IsPrefixOf(t.reply.trace, records[r].trace)
                 /\ Terminal(t.reply.status) => Terminal(records[r].status)
                 /\ t.reply.status = "completed" =>
                      /\ Settled(r)
                      /\ t.reply.result /\ t.reply.running = {} /\ t.reply.sub = {}
                      /\ t.reply.trace = records[r].trace
      BY <1>2, <2>2, <3>1 DEF ToldFits
    <3>2. records'[r] # None => IsPrefixOf(t.reply.trace, records'[r].trace)
      BY <2>1, <2>2, <2>3, <3>1, PrefixThen
    <3> QED BY <2>2, <3>1, <3>2
  <2>6. poll[c].run = r =>
          /\ poll[c].next > 1 /\ Terminal(t.reply.status) => Terminal(poll[c].got.status)
          /\ poll[c].next > 4 => IsPrefixOf(t.reply.trace, poll[c].got.trace)
    BY <1>2 DEF ToldFits
  <2>7. told'[c] = t /\ told'[c].run = r /\ poll'[c] = poll[c]
    OBVIOUS
  <2> QED BY <1>2, <2>2, <2>4, <2>5, <2>6, <2>7 DEF ToldFits, Settled, At
<1> QED BY <1>1, <1>2

LEMMA IdleType == Idle \in PollType /\ Idle.run = None /\ Idle.next = 1 /\ Idle.got = NewRecord
  BY NewTaskType DEF Idle, PollType, Fields

LEMMA GetKeeps ==
  ASSUME TypeOK, \A r \in RunIds : RunInv(r), NEW c \in Clients, PollFits(c), ToldFits(c),
         NEW r \in RunIds, GetRun(c, r)
  PROVE  /\ poll' \in [Clients -> PollType] /\ told' \in [Clients -> Told \cup {None}]
         /\ \A d \in Clients \ {c} : UNCHANGED <<poll[d], told[d]>>
         /\ PollFits(c)' /\ ToldFits(c)' /\ Forward(told[c], told'[c])
<1>1. /\ poll[c] = Idle /\ ~At(r, "none") /\ ~At(r, "insert") /\ r # None
      /\ UNCHANGED <<records, rows, task>>
  BY RunsAssumption DEF GetRun
<1>2. CASE records[r] # None
  <2> DEFINE p == [Idle EXCEPT !.run = r]
  <2>1. poll' = [poll EXCEPT ![c] = p] /\ told' = told
    BY <1>2 DEF GetRun
  <2>2. p \in PollType /\ p.run = r /\ p.next = 1 /\ p.got = NewRecord
    BY IdleType DEF PollType
  <2> HIDE DEF p
  <2>3. poll'[c] = p /\ poll' \in [Clients -> PollType] /\ \A d \in Clients \ {c} : UNCHANGED poll[d]
    BY <2>1, <2>2 DEF TypeOK, PollType
  <2>4. NewRecord.status = "running" /\ NewRecord.running = {} /\ NewRecord.sub = {}
    BY DEF NewRecord
  <2>5. PollFits(c)'
    BY <1>1, <1>2, <2>2, <2>3, <2>4 DEF PollFits, At, Terminal
  <2>6. ToldFits(c)'
    BY <1>1, <2>1, <2>2, <2>3 DEF ToldFits, At, Settled
  <2>7. Forward(told[c], told'[c])
    <3>1. told[c] # None /\ told[c].reply # None => IsPrefixOf(told[c].reply.trace, told[c].reply.trace)
      BY ReaderTypes, PrefixSelf
    <3> QED BY <2>1, <3>1 DEF Forward
  <2> QED BY <2>1, <2>3, <2>5, <2>6, <2>7 DEF TypeOK
<1>3. CASE records[r] = None
  <2> DEFINE t == [run |-> r, reply |-> ReplyFromRow(rows[r])]
  <2>1. told' = [told EXCEPT ![c] = t] /\ poll' = poll
    BY <1>3 DEF GetRun
  <2>2. ReplyFromRow(rows[r]) \in RunRecord \cup {None}
    <3>1. CASE rows[r] = None
      BY <3>1 DEF ReplyFromRow
    <3>2. CASE rows[r] # None
      <4>1. rows[r] \in Row
        BY <3>2 DEF TypeOK
      <4>2. /\ rows[r].status \in Statuses /\ rows[r].error \in BOOLEAN
            /\ (IF rows[r].json = None THEN <<>> ELSE rows[r].json) \in Seq(TraceRecord)
        BY <4>1 DEF Row
      <4>3. (rows[r].json # None) \in BOOLEAN
        OBVIOUS
      <4> QED BY <3>2, <4>2, <4>3, NewTaskType DEF ReplyFromRow, RunRecord
    <3> QED BY <3>1, <3>2
  <2>3. t \in Told /\ t.run = r /\ t.reply = ReplyFromRow(rows[r])
    BY <2>2 DEF Told
  <2> HIDE DEF t
  <2>4. told'[c] = t /\ told' \in [Clients -> Told \cup {None}] /\ \A d \in Clients \ {c} : UNCHANGED told[d]
    BY <2>1, <2>3 DEF TypeOK
  <2>5. PollFits(c)'
    BY <1>1, <2>1, IdleType DEF PollFits
  <2>6. ToldFits(c)'
    BY <1>1, <1>3, <2>1, <2>3, <2>4, IdleType DEF ToldFits, At
  <2>7. Forward(told[c], told'[c])
    <3>1. told[c] # None /\ told[c].run = r => told[c].reply = t.reply
      BY <1>3, <2>3 DEF ToldFits
    <3>2. told[c] # None /\ told[c].reply # None => IsPrefixOf(told[c].reply.trace, told[c].reply.trace)
      BY ReaderTypes, PrefixSelf
    <3> QED BY <2>3, <2>4, <3>1, <3>2 DEF Forward
  <2> QED BY <2>1, <2>4, <2>5, <2>6, <2>7 DEF TypeOK, PollType
<1> QED BY <1>2, <1>3

LEMMA ReplyKeeps ==
  ASSUME TypeOK, \A r \in RunIds : RunInv(r), NEW c \in Clients, PollFits(c), ToldFits(c), Reply(c)
  PROVE  /\ poll' \in [Clients -> PollType] /\ told' \in [Clients -> Told \cup {None}]
         /\ \A d \in Clients \ {c} : UNCHANGED <<poll[d], told[d]>>
         /\ PollFits(c)' /\ ToldFits(c)' /\ Forward(told[c], told'[c])
<1> DEFINE p == poll[c]
           r == poll[c].run
           t == [run |-> r, reply |-> p.got]
<1>1. /\ p # Idle /\ UNCHANGED <<records, rows, task>>
      /\ told' = [told EXCEPT ![c] = t] /\ poll' = [poll EXCEPT ![c] = Idle]
  BY DEF Reply
<1>2. r # None /\ r \in RunIds /\ p.next = 7 /\ p.got \in RunRecord /\ p.got # None
  <2>1. p.next \notin 1..6
    BY DEF Reply, Fields
  <2> QED BY <1>1, <2>1, ReaderTypes, NoneAssumption DEF PollFits
<1>3. t \in Told /\ t.run = r /\ t.reply = p.got /\ t # None
  <2>1. t \in Told
    BY <1>2 DEF Told
  <2> QED BY <2>1, NoneAssumption
<1> HIDE DEF t
<1>4. /\ told'[c] = t /\ told' \in [Clients -> Told \cup {None}]
      /\ poll'[c] = Idle /\ poll' \in [Clients -> PollType]
      /\ \A d \in Clients \ {c} : UNCHANGED <<poll[d], told[d]>>
  BY <1>1, <1>3, IdleType DEF TypeOK, PollType
<1>5. PollFits(c)'
  BY <1>4, IdleType DEF PollFits
<1>6. /\ records[r] # None /\ ~At(r, "none") /\ ~At(r, "insert")
      /\ Terminal(p.got.status) => Terminal(records[r].status)
      /\ IsPrefixOf(p.got.trace, records[r].trace)
      /\ p.got.status = "completed" =>
           /\ Settled(r)
           /\ p.got.running = {} /\ p.got.sub = {}
           /\ p.got.trace = records[r].trace /\ p.got.result
  BY <1>2 DEF PollFits
<1>7. ToldFits(c)'
  <2>1. r # poll'[c].run
    BY <1>2, <1>4, IdleType
  <2> QED BY <1>1, <1>3, <1>4, <1>6, <2>1, <1>2 DEF ToldFits, At, Settled
<1>8. Forward(told[c], told'[c])
  BY <1>2, <1>3, <1>4 DEF ToldFits, Forward
<1> QED BY <1>4, <1>5, <1>7, <1>8

LEMMA ReadKeeps ==
  ASSUME TypeOK, \A r \in RunIds : RunInv(r), NEW c \in Clients, PollFits(c), ToldFits(c), ReadField(c)
  PROVE  /\ poll' \in [Clients -> PollType] /\ told' = told
         /\ \A d \in Clients \ {c} : UNCHANGED <<poll[d], told[d]>>
         /\ PollFits(c)' /\ ToldFits(c)'
<1> DEFINE p == poll[c]
           r == poll[c].run
           record == records[r]
           q == NextField(c)
<1>1. /\ p # Idle /\ UNCHANGED <<records, rows, task, told>>
      /\ poll' = [poll EXCEPT ![c] = q]
  BY DEF ReadField
<1>2. /\ r # None /\ r \in RunIds /\ p.next \in 1..6 /\ p.got \in RunRecord
      /\ record \in RunRecord /\ record # None /\ ~At(r, "none") /\ ~At(r, "insert")
      /\ record.trace \in Seq(TraceRecord) /\ p \in PollType
  <2>1. p.next \in 1..6
    BY DEF ReadField, Fields
  <2> QED BY <1>1, <2>1, ReaderTypes DEF PollFits, TypeOK, PollType
<1>3. /\ q.run = r /\ q.next = p.next + 1
      /\ q.got = [p.got EXCEPT ![Fields[p.next]] = record[Fields[p.next]]]
  BY <1>2 DEF NextField, ReadAs, PollType
<1>4. q \in PollType
  <2>1. Fields[p.next] \in {"status", "running", "sub", "trace", "result", "error"}
    BY <1>2 DEF Fields
  <2>2. q.got \in RunRecord
    BY <1>2, <1>3, <2>1 DEF RunRecord
  <2>3. q = [p EXCEPT !.got = q.got, !.next = q.next]
    BY <1>2, <1>3 DEF NextField, ReadAs, PollType
  <2>4. q.next \in 1..(Len(Fields) + 1)
    BY <1>2, <1>3 DEF Fields
  <2> QED BY <1>2, <2>2, <2>3, <2>4 DEF PollType
<1>5. /\ q.got.status = IF p.next = 1 THEN record.status ELSE p.got.status
      /\ q.got.running = IF p.next = 2 THEN record.running ELSE p.got.running
      /\ q.got.sub = IF p.next = 3 THEN record.sub ELSE p.got.sub
      /\ q.got.trace = IF p.next = 4 THEN record.trace ELSE p.got.trace
      /\ q.got.result = IF p.next = 5 THEN record.result ELSE p.got.result
  <2>1. /\ Fields[1] = "status" /\ Fields[2] = "running" /\ Fields[3] = "sub"
        /\ Fields[4] = "trace" /\ Fields[5] = "result" /\ Fields[6] = "error"
    BY DEF Fields
  <2>2. p.next = 1 \/ p.next = 2 \/ p.next = 3 \/ p.next = 4 \/ p.next = 5 \/ p.next = 6
    BY <1>2
  <2> HIDE DEF q
  <2> QED BY <1>2, <1>3, <2>1, <2>2 DEF RunRecord
<1> HIDE DEF q
<1>6. poll'[c] = q /\ poll' \in [Clients -> PollType] /\ \A d \in Clients \ {c} : UNCHANGED <<poll[d], told[d]>>
  BY <1>1, <1>4 DEF TypeOK, PollType
<1>7. record.status = "completed" => Settled(r)
  <2>1. record.status = "completed" =>
             /\ task[r].step \in Ending \cup {"dump", "failed", "error"} /\ records[r].result /\ records[r].running = {}
    BY <1>2, RunTypes DEF RunInv, RecordFits, Tasks, TaskSteps, Ending, At
  <2>2. record.status = "completed" => record.sub = {}
    BY <1>2, <2>1, NoCallsShown DEF At, Ending
  <2> QED BY <2>1, <2>2 DEF Settled
<1>8. IsPrefixOf(record.trace, record.trace)
  BY <1>2, PrefixSelf
<1>9. /\ p.next = 1 => p.got.status = "running"
      /\ p.next <= 2 => p.got.running = {}
      /\ p.next <= 3 => p.got.sub = {}
      /\ Terminal(p.got.status) => Terminal(record.status)
      /\ p.next > 4 => IsPrefixOf(p.got.trace, record.trace)
      /\ p.got.status = "completed" =>
           /\ Settled(r)
           /\ p.got.running = {} /\ p.got.sub = {}
           /\ p.next > 4 => p.got.trace = record.trace
           /\ p.next > 5 => p.got.result
  BY <1>2 DEF PollFits
<1>10. PollFits(c)'
  <2>1. /\ q.next # 1
        /\ q.next <= 2 => q.got.running = {}
        /\ q.next <= 3 => q.got.sub = {}
        /\ Terminal(q.got.status) => Terminal(record.status)
        /\ q.next > 4 => IsPrefixOf(q.got.trace, record.trace)
    <3>1. q.next # 1 /\ (q.next <= 2 => p.next = 1) /\ (q.next <= 3 => p.next <= 2) /\ (q.next > 4 => p.next >= 4)
      BY <1>2, <1>3
    <3>2. Terminal(q.got.status) => Terminal(record.status)
      BY <1>5, <1>9
    <3>3. /\ q.next <= 2 => q.got.running = {}
          /\ q.next <= 3 => q.got.sub = {}
      BY <1>2, <1>5, <1>9, <3>1
    <3>4. q.next > 4 => IsPrefixOf(q.got.trace, record.trace)
      BY <1>2, <1>5, <1>8, <1>9, <3>1
    <3> QED BY <3>1, <3>2, <3>3, <3>4
  <2>2. ASSUME q.got.status = "completed"
        PROVE  /\ Settled(r)
               /\ q.got.running = {} /\ q.got.sub = {}
               /\ q.next > 4 => q.got.trace = record.trace
               /\ q.next > 5 => q.got.result
    <3>1. Settled(r)
      BY <1>5, <1>7, <1>9, <2>2
    <3>2. record.running = {} /\ record.sub = {} /\ record.result
      BY <3>1 DEF Settled
    <3>3. p.next = 1 \/ p.got.status = "completed"
      BY <1>5, <2>2
    <3>4. q.next > 4 => p.next = 4 \/ p.next > 4
      BY <1>2, <1>3
    <3>5. q.next > 5 => p.next = 5 \/ p.next > 5
      BY <1>2, <1>3
    <3>6. q.got.running = {} /\ q.got.sub = {}
      BY <1>2, <1>5, <1>9, <3>2, <3>3
    <3>7. q.next > 4 => q.got.trace = record.trace
      BY <1>2, <1>5, <1>9, <3>3, <3>4
    <3>8. q.next > 5 => q.got.result
      BY <1>2, <1>5, <1>9, <3>2, <3>3, <3>5
    <3> QED BY <3>1, <3>6, <3>7, <3>8
  <2> QED BY <1>1, <1>2, <1>3, <1>6, <2>1, <2>2 DEF PollFits, Settled, At
<1>11. ToldFits(c)'
  <2>1. CASE told[c] = None \/ told[c].run # r
    BY <1>1, <1>3, <1>6, <2>1 DEF ToldFits, Settled, At
  <2>2. CASE told[c] # None /\ told[c].run = r
    <3>1. /\ told[c].reply # None
          /\ Terminal(told[c].reply.status) => Terminal(record.status)
          /\ IsPrefixOf(told[c].reply.trace, record.trace)
          /\ p.next > 1 /\ Terminal(told[c].reply.status) => Terminal(p.got.status)
          /\ p.next > 4 => IsPrefixOf(told[c].reply.trace, p.got.trace)
      BY <1>2, <2>2 DEF ToldFits
    <3>2. /\ Terminal(told[c].reply.status) => Terminal(q.got.status)
          /\ q.next > 4 => IsPrefixOf(told[c].reply.trace, q.got.trace)
      BY <1>2, <1>3, <1>5, <3>1
    <3> QED BY <1>1, <1>3, <1>6, <2>2, <3>1, <3>2 DEF ToldFits, Settled, At
  <2> QED BY <2>1, <2>2
<1> QED BY <1>1, <1>6, <1>10, <1>11

-----------------------------------------------------------------------------
(* The invariant, and what follows from it *)

LEMMA IInvStep == IInv /\ [Next]_vars => IInv' /\ [\A c \in Clients : Forward(told[c], told'[c])]_vars
<1> SUFFICES ASSUME IInv, [Next]_vars
             PROVE  IInv' /\ (vars' = vars \/ \A c \in Clients : Forward(told[c], told'[c]))
  OBVIOUS
<1>1. TypeOK /\ (\A r \in RunIds : RunInv(r)) /\ (\A c \in Clients : PollFits(c) /\ ToldFits(c))
  BY IInvByRun
<1>2. \A r \in RunIds : RunInv(r)'
  BY <1>1, RunsKept
<1>3. ASSUME NEW c \in Clients PROVE Forward(told[c], told[c])
  <2>1. told[c] # None /\ told[c].reply # None => IsPrefixOf(told[c].reply.trace, told[c].reply.trace)
    BY <1>1, ReaderTypes, PrefixSelf
  <2> QED BY <2>1 DEF Forward
<1>4. ASSUME NEW r \in RunIds, RunStep(r) \/ JoinReturns(r) \/ Answer(r)
      PROVE  TypeOK' /\ (\A c \in Clients : PollFits(c)' /\ ToldFits(c)' /\ Forward(told[c], told'[c]))
  <2>1. OnlyOf(r) /\ UNCHANGED <<poll, told>>
    BY <1>1, <1>4, RunStepKeeps
  <2>2. TypeOK'
    BY <1>1, <2>1 DEF TypeOK, OnlyOf
  <2>3. \A q \in RunIds : Advances(q)
    BY <1>1, <1>4, RunsAdvance
  <2>4. ASSUME NEW c \in Clients PROVE PollFits(c)' /\ ToldFits(c)'
    BY <1>1, <2>1, <2>2, <2>3, PollStays, ToldStays
  <2> QED BY <1>3, <2>1, <2>2, <2>4
<1>5. ASSUME NEW c \in Clients, (\E r \in RunIds : GetRun(c, r)) \/ ReadField(c) \/ Reply(c)
      PROVE  TypeOK' /\ (\A d \in Clients : PollFits(d)' /\ ToldFits(d)' /\ Forward(told[d], told'[d]))
  <2>1. /\ poll' \in [Clients -> PollType] /\ told' \in [Clients -> Told \cup {None}]
        /\ \A d \in Clients \ {c} : UNCHANGED <<poll[d], told[d]>>
        /\ PollFits(c)' /\ ToldFits(c)' /\ Forward(told[c], told'[c])
    <3>1. CASE \E r \in RunIds : GetRun(c, r)
      BY <1>1, <3>1, GetKeeps
    <3>2. CASE ReadField(c)
      BY <1>1, <1>3, <3>2, ReadKeeps DEF TypeOK
    <3>3. CASE Reply(c)
      BY <1>1, <3>3, ReplyKeeps
    <3> QED BY <1>5, <3>1, <3>2, <3>3
  <2>2. UNCHANGED <<records, rows, task, answer, lost>>
    BY <1>5 DEF GetRun, ReadField, Reply
  <2>3. TypeOK'
    BY <1>1, <2>1, <2>2 DEF TypeOK, PollType
  <2>4. \A q \in RunIds : Advances(q)
    BY <1>1, <2>2, StillAdvances
  <2>5. ASSUME NEW d \in Clients \ {c} PROVE PollFits(d)' /\ ToldFits(d)' /\ Forward(told[d], told'[d])
    BY <1>1, <1>3, <2>1, <2>3, <2>4, PollStays, ToldStays
  <2> QED BY <2>1, <2>3, <2>5
<1>6. ASSUME Crash
      PROVE  TypeOK' /\ (\A c \in Clients : PollFits(c)' /\ ToldFits(c)' /\ Forward(told[c], told'[c]))
  <2>1. poll' = [c \in Clients |-> Idle] /\ told' = [c \in Clients |-> None]
    BY <1>6 DEF Crash
  <2>2. TypeOK'
    <3>1. poll' \in [Clients -> PollType] /\ told' \in [Clients -> Told \cup {None}]
      BY <2>1, IdleType
    <3>2. task' \in [RunIds -> Tasks]
      <4>1. \A r \in RunIds : task'[r] \in Tasks
        BY <1>1, <1>6, CrashKeeps
      <4> QED BY <1>6, <4>1 DEF Crash
    <3>3. answer' \in [RunIds -> {"none", "joining", "checking", "timeout", "failed", "node failed", "outputs", "gone"}]
      BY <1>1, <1>6 DEF Crash, TypeOK
    <3>4. records' \in [RunIds -> RunRecord \cup {None}] /\ rows' \in [RunIds -> Row \cup {None}] /\ lost' \in SUBSET RunIds
      BY <1>1, <1>6 DEF Crash, TypeOK
    <3> QED BY <3>1, <3>2, <3>3, <3>4 DEF TypeOK, PollType
  <2>3. ASSUME NEW c \in Clients PROVE PollFits(c)' /\ ToldFits(c)' /\ Forward(told[c], told'[c])
    BY <2>1, IdleType DEF PollFits, ToldFits, Forward
  <2> QED BY <2>2, <2>3
<1>7. ASSUME UNCHANGED vars
      PROVE  TypeOK' /\ (\A c \in Clients : PollFits(c)' /\ ToldFits(c)' /\ Forward(told[c], told'[c]))
  <2>1. UNCHANGED <<records, rows, task, poll, told, answer, lost>>
    BY <1>7 DEF vars
  <2>2. TypeOK'
    BY <1>1, <2>1 DEF TypeOK
  <2>3. \A q \in RunIds : Advances(q)
    BY <1>1, <2>1, StillAdvances
  <2>4. ASSUME NEW c \in Clients PROVE PollFits(c)' /\ ToldFits(c)'
    BY <1>1, <2>1, <2>2, <2>3, PollStays, ToldStays
  <2> QED BY <1>3, <2>1, <2>2, <2>4
<1>8. TypeOK' /\ (\A c \in Clients : PollFits(c)' /\ ToldFits(c)' /\ Forward(told[c], told'[c]))
  BY <1>4, <1>5, <1>6, <1>7 DEF Next
<1>9. IInv'
  <2>1. (IInv <=> TypeOK /\ (\A r \in RunIds : RunInv(r)) /\ (\A c \in Clients : PollFits(c) /\ ToldFits(c)))'
    BY IInvByRun, PTL
  <2> QED BY <1>2, <1>8, <2>1
<1> QED BY <1>8, <1>9

(* The order in which execute_run writes a record, and the order in which  *)
(* get_run_snapshot reads it, hold every reply together, at every moment   *)
(* of every run.                                                           *)
THEOREM RunsInvariant == Spec => []IInv
BY IInvInit, IInvStep, PTL DEF Spec

(* A client that reads "completed" has the whole result with it.           *)
THEOREM RunsWhole == Spec => []CompletedIsWhole
<1>1. IInv => CompletedIsWhole
  <2> SUFFICES ASSUME IInv, NEW c \in Clients, told[c] # None,
                      told[c].reply # None, told[c].reply.status = "completed"
               PROVE  /\ told[c].reply.result
                      /\ told[c].reply.running = {} /\ told[c].reply.sub = {}
                      /\ records[told[c].run] # None => told[c].reply.trace = records[told[c].run].trace
                      /\ records[told[c].run] = None => told[c].reply.trace = rows[told[c].run].json
    BY DEF CompletedIsWhole, Replies
  <2> DEFINE r == told[c].run
  <2>1. TypeOK /\ (\A q \in RunIds : RunInv(q)) /\ PollFits(c) /\ ToldFits(c)
    BY IInvByRun
  <2>2. r \in RunIds
    BY <2>1, ReaderTypes
  <2>3. CASE records[r] # None
    BY <2>1, <2>3 DEF ToldFits
  <2>4. CASE records[r] = None
    <3>1. told[c].reply = ReplyFromRow(rows[r]) /\ rows[r] # None
      BY <2>1, <2>4 DEF ToldFits, ReplyFromRow
    <3>2. /\ told[c].reply.status = rows[r].status /\ told[c].reply.result = (rows[r].json # None)
          /\ told[c].reply.running = {} /\ told[c].reply.sub = {}
          /\ told[c].reply.trace = IF rows[r].json = None THEN <<>> ELSE rows[r].json
      BY <3>1 DEF ReplyFromRow, NewRecord
    <3>3. rows[r].json # None
      BY <2>1, <2>2, <3>1, <3>2 DEF RunInv, RowFits
    <3> QED BY <2>4, <3>2, <3>3
  <2> QED BY <2>3, <2>4
<1> QED BY <1>1, RunsInvariant, PTL

(* From one poll to the next a run only goes forward, however the reads of *)
(* a poll fall between the writes of the worker.                           *)
THEOREM RunsForward == Spec => PollsGoForward
BY RunsInvariant, IInvStep, PTL DEF Spec, PollsGoForward

(* The sub-nodes shown as active are those some node is using, however     *)
(* many nodes share one.                                                   *)
THEOREM RunsShown == Spec => []SubNodesShown
<1>1. IInv => SubNodesShown
  BY DEF IInv
<1> QED BY <1>1, RunsInvariant, PTL

(* A run that is over is in the table as it ended.                         *)
THEOREM RunsRecorded == Spec => []RecordedWhenOver
<1>1. IInv => RecordedWhenOver
  BY DEF IInv
<1> QED BY <1>1, RunsInvariant, PTL

(* Outputs are returned only for a run that is over, completed and without *)
(* a failed node.                                                          *)
THEOREM RunsAnswered == Spec => []InvokeTellsTruth
<1>1. IInv => InvokeTellsTruth
  BY DEF IInv
<1> QED BY <1>1, RunsInvariant, PTL
=============================================================================
