------------------------------- MODULE Approvals -------------------------------
(***************************************************************************)
(* The pending-approval registry of backend/execution/approvals.py.        *)
(*                                                                         *)
(* A call is one request_approval(): a node's thread that wants to use a   *)
(* tool and blocks until a person answers.  A resolver is the thread that  *)
(* serves one POST /runs/{run_id}/approvals/{approval_id}.  A run is one   *)
(* execute_run(), which forgets the run's remembered answers when it ends. *)
(* Every step below is one access to the shared dicts, the PendingApproval *)
(* or its Event: the lock is held for single accesses only.                *)
(***************************************************************************)
EXTENDS Integers, FiniteSets

CONSTANTS Calls,      \* calls of request_approval; its approval_id names a call
          Runs, Tools,
          RunOf,      \* the run a call belongs to
          ToolOf,     \* the tool it wants to use
          Resolvers   \* the requests to the approvals endpoint

ASSUME CallsAssumption == RunOf \in [Calls -> Runs] /\ ToolOf \in [Calls -> Tools]

VARIABLES
  pc,          \* where each call is
  answer,      \* what request_approval returned
  pending,     \* the keys of _pending
  remembered,  \* _remembered: a verdict or "none" for each run and tool
  event,       \* the calls whose Event is set
  decision,    \* PendingApproval.decision
  live,        \* each run: "queued" | "live" | "over"
  at,          \* the next step of each resolver, "idle" before and "done" after
  request,     \* what it was asked to do
  told,        \* history: the keys whose remembered answer woke its call
  bound        \* history: the calls made when their key was in told

vars == <<pc, answer, pending, remembered, event, decision, live, at, request, told, bound>>

Verdicts == {"approved", "declined"}
Request  == [call : Calls, verdict : Verdicts, remember : BOOLEAN]
NoRequest == [call |-> "none", verdict |-> "none", remember |-> FALSE]

Key(c) == <<RunOf[c], ToolOf[c]>>
Keys   == Runs \X Tools

(* The places in request_approval, in order. *)
Asking == {"check", "enroll", "enrolled", "waiting", "read", "leave"}

-----------------------------------------------------------------------------
Init ==
  /\ pc = [c \in Calls |-> "idle"]
  /\ answer = [c \in Calls |-> "none"]
  /\ pending = {}
  /\ remembered = [k \in Keys |-> "none"]
  /\ event = {}
  /\ decision = [c \in Calls |-> "none"]
  /\ live = [r \in Runs |-> "queued"]
  /\ at = [v \in Resolvers |-> "idle"]
  /\ request = [v \in Resolvers |-> NoRequest]
  /\ told = {}
  /\ bound = {}

-----------------------------------------------------------------------------
(* request_approval *)

UNCHANGED_BY_CALLS == UNCHANGED <<remembered, live, at, request, told>>

Begin(c) ==
  /\ pc[c] = "idle"
  /\ live[RunOf[c]] = "live"
  /\ pc' = [pc EXCEPT ![c] = "check"]
  /\ bound' = IF Key(c) \in told THEN bound \cup {c} ELSE bound
  /\ UNCHANGED <<answer, pending, event, decision>>
  /\ UNCHANGED_BY_CALLS

CheckRemembered(c) ==
  /\ pc[c] = "check"
  /\ IF remembered[Key(c)] # "none"
     THEN /\ answer' = [answer EXCEPT ![c] = remembered[Key(c)]]
          /\ pc' = [pc EXCEPT ![c] = "done"]
     ELSE /\ pc' = [pc EXCEPT ![c] = "enroll"]
          /\ UNCHANGED answer
  /\ UNCHANGED <<pending, event, decision, bound>>
  /\ UNCHANGED_BY_CALLS

(* Mutant: one entry for each run and tool. *)
RegisterByKey(c) == pending' = {d \in pending : Key(d) # Key(c)} \cup {c}

Register(c) == pending' = pending \cup {c}

Enroll(c) ==
  /\ pc[c] = "enroll"
  /\ Register(c)
  /\ pc' = [pc EXCEPT ![c] = "enrolled"]
  /\ UNCHANGED <<answer, event, decision, bound>>
  /\ UNCHANGED_BY_CALLS

(* event.wait() finds the Event set, or blocks. *)
BeginWait(c) ==
  /\ pc[c] = "enrolled"
  /\ pc' = [pc EXCEPT ![c] = "waiting"]
  /\ UNCHANGED <<answer, pending, event, decision, bound>>
  /\ UNCHANGED_BY_CALLS

Awake(c) == c \in event

EndWait(c) ==
  /\ pc[c] = "waiting"
  /\ Awake(c)
  /\ pc' = [pc EXCEPT ![c] = "read"]
  /\ UNCHANGED <<answer, pending, event, decision, bound>>
  /\ UNCHANGED_BY_CALLS

(* bool(pending.decision): no decision is a decline. *)
ReadDecision(c) ==
  /\ pc[c] = "read"
  /\ answer' = [answer EXCEPT ![c] = IF decision[c] = "approved" THEN "approved" ELSE "declined"]
  /\ pc' = [pc EXCEPT ![c] = "leave"]
  /\ UNCHANGED <<pending, event, decision, bound>>
  /\ UNCHANGED_BY_CALLS

Leave(c) ==
  /\ pc[c] = "leave"
  /\ pending' = pending \ {c}
  /\ pc' = [pc EXCEPT ![c] = "done"]
  /\ UNCHANGED <<answer, event, decision, bound>>
  /\ UNCHANGED_BY_CALLS

-----------------------------------------------------------------------------
(* resolve_approval *)

UNCHANGED_BY_RESOLVERS == UNCHANGED <<pc, answer, pending, live, bound>>

(* Mutant: the waiting call is woken before its answer is remembered. *)
StepAfterEventFirst(step, remember) ==
  CASE step = "decide" -> "set"
    [] step = "set" /\ remember -> "remember"
    [] OTHER -> "done"

StepAfter(step, remember) ==
  CASE step = "decide" /\ remember -> "remember"
    [] step = "decide" /\ ~remember -> "set"
    [] step = "remember" -> "set"
    [] OTHER -> "done"

(* Mutant: an id that is not pending goes on without its PendingApproval.  *)
LookUpUnchecked(v, q) ==
  /\ at[v] = "idle"
  /\ request' = [request EXCEPT ![v] = IF q.call \in pending THEN q ELSE NoRequest]
  /\ at' = [at EXCEPT ![v] = "decide"]
  /\ UNCHANGED <<remembered, event, decision, told>>
  /\ UNCHANGED_BY_RESOLVERS

(* An id that is not pending gets a 404 and changes nothing.               *)
LookUp(v, q) ==
  /\ at[v] = "idle"
  /\ q.call \in pending
  /\ request' = [request EXCEPT ![v] = q]
  /\ at' = [at EXCEPT ![v] = "decide"]
  /\ UNCHANGED <<remembered, event, decision, told>>
  /\ UNCHANGED_BY_RESOLVERS

Advance(v) ==
  /\ at' = [at EXCEPT ![v] = StepAfter(at[v], request[v].remember)]
  /\ UNCHANGED request

Decide(v) ==
  /\ at[v] = "decide"
  /\ decision' = [decision EXCEPT ![request[v].call] = request[v].verdict]
  /\ Advance(v)
  /\ UNCHANGED <<remembered, event, told>>
  /\ UNCHANGED_BY_RESOLVERS

(* Mutant: the answer is remembered for the tool in every run. *)
StoreForTool(q) ==
  remembered' = [k \in Keys |-> IF k[2] = ToolOf[q.call] THEN q.verdict ELSE remembered[k]]

Store(q) == remembered' = [remembered EXCEPT ![Key(q.call)] = q.verdict]

Remember(v) ==
  /\ at[v] = "remember"
  /\ Store(request[v])
  /\ Advance(v)
  /\ UNCHANGED <<event, decision, told>>
  /\ UNCHANGED_BY_RESOLVERS

(* Mutant: the answer only reaches a thread that waits already. *)
NotifyWaiting(c) == event' = IF pc[c] = "waiting" THEN event \cup {c} ELSE event

Set(c) == event' = event \cup {c}

Wake(v) ==
  /\ at[v] = "set"
  /\ Set(request[v].call)
  /\ told' = IF request[v].remember THEN told \cup {Key(request[v].call)} ELSE told
  /\ Advance(v)
  /\ UNCHANGED <<remembered, decision>>
  /\ UNCHANGED_BY_RESOLVERS

-----------------------------------------------------------------------------
(* execute_run, as far as approvals go *)

BeginRun(r) ==
  /\ live[r] = "queued"
  /\ live' = [live EXCEPT ![r] = "live"]
  /\ UNCHANGED <<pc, answer, pending, remembered, event, decision, at, request, told,
                 bound>>

(* Mutant: the remembered answers stay. *)
KeepRemembered(r) == remembered' = remembered

ClearRemembered(r) ==
  remembered' = [k \in Keys |-> IF k[1] = r THEN "none" ELSE remembered[k]]

(* run_graph returns when no node of the run is executing any more.        *)
EndRun(r) ==
  /\ live[r] = "live"
  /\ \A c \in Calls : RunOf[c] = r => pc[c] \in {"idle", "done"}
  /\ live' = [live EXCEPT ![r] = "over"]
  /\ ClearRemembered(r)
  /\ UNCHANGED <<pc, answer, pending, event, decision, at, request, told, bound>>

-----------------------------------------------------------------------------
CallStep(c) ==
  CheckRemembered(c) \/ Enroll(c) \/ BeginWait(c) \/ EndWait(c) \/ ReadDecision(c) \/ Leave(c)

ResolverStep(v) == Decide(v) \/ Remember(v) \/ Wake(v)

Next ==
  \/ \E c \in Calls : Begin(c) \/ CallStep(c)
  \/ \E v \in Resolvers : ResolverStep(v) \/ \E q \in Request : LookUp(v, q)
  \/ \E r \in Runs : BeginRun(r) \/ EndRun(r)

Spec == Init /\ [][Next]_vars

-----------------------------------------------------------------------------
(* Properties *)

TypeOK ==
  /\ pc \in [Calls -> Asking \cup {"idle", "done"}]
  /\ answer \in [Calls -> Verdicts \cup {"none"}]
  /\ pending \in SUBSET Calls
  /\ remembered \in [Keys -> Verdicts \cup {"none"}]
  /\ event \in SUBSET Calls
  /\ decision \in [Calls -> Verdicts \cup {"none"}]
  /\ live \in [Runs -> {"queued", "live", "over"}]
  /\ at \in [Resolvers -> {"idle", "decide", "remember", "set", "done"}]
  /\ request \in [Resolvers -> Request \cup {NoRequest}]
  /\ \A v \in Resolvers : at[v] # "idle" => request[v] \in Request
  /\ told \in SUBSET Keys
  /\ bound \in SUBSET Calls

(* Requests whose verdict was written; the verdicts given on a call, and   *)
(* those given with "remember" on calls of one run to one tool.            *)
Decided(v) == at[v] \notin {"idle", "decide"}

Said(c, verdict) ==
  \E v \in Resolvers : Decided(v) /\ request[v].call = c /\ request[v].verdict = verdict

SaidForRun(k, verdict) ==
  \E v \in Resolvers : /\ Decided(v) /\ request[v].remember
                       /\ Key(request[v].call) = k /\ request[v].verdict = verdict

(* A tool is used, or refused, only on a person's word for this run and    *)
(* this tool (ARCHITECTURE.md 6, "only on explicit approval"), whatever    *)
(* the threads of other runs and other answers do meanwhile.               *)
AnswerWasGiven == \A c \in Calls : 
  answer[c] # "none" => Said(c, answer[c]) \/ SaidForRun(Key(c), answer[c])

(* Once a remembered answer has been delivered, later calls to that tool   *)
(* in that run never show up as pending (approvals.py 84: "every           *)
(* subsequent call ... auto-resolves without asking again").               *)
NeverAsksAgain == \A c \in bound : pc[c] \in {"check", "done"}

(* Every blocked thread can be seen and answered, however many calls of    *)
(* one run wait for the same tool: the registry holds it until it wakes.   *)
BlockedIsListed == \A c \in Calls : pc[c] = "waiting" => c \in pending

(* A run that is over leaves no approval to answer, and no remembered      *)
(* answer (approvals.py 100, "scoped to one run's lifetime, not persisted  *)
(* beyond it").                                                            *)
NothingOutlivesRun ==
  \A r \in Runs : live[r] = "over" =>
    /\ \A c \in pending : RunOf[c] # r
    /\ \A k \in Keys : k[1] = r => remembered[k] = "none"

(* It holds as long as no approval is answered by two requests at once.    *)
AnsweredOnce ==
  \A v, w \in Resolvers :
    at[v] # "idle" /\ at[w] # "idle" /\ request[v].call = request[w].call => v = w

TidyAfterRun == AnsweredOnce => NothingOutlivesRun

-----------------------------------------------------------------------------
(* The inductive invariant behind the safety properties above. *)

(* What the registry holds was put there by a request. *)
RegistryInv ==
  /\ \A c \in Calls : decision[c] # "none" => Said(c, decision[c])
  /\ \A k \in Keys : remembered[k] # "none" => SaidForRun(k, remembered[k])
  /\ \A v \in Resolvers : at[v] = "remember" => request[v].remember
  /\ \A v \in Resolvers : Decided(v) => decision[request[v].call] # "none"
  /\ \A c \in event : decision[c] # "none"

(* Only calls of live runs are under way, and only they can be answered. *)
CallInv ==
  /\ \A c \in Calls : pc[c] \in Asking => live[RunOf[c]] = "live"
  /\ \A c \in Calls : c \in pending <=> pc[c] \in {"enrolled", "waiting", "read", "leave"}
  /\ \A c \in Calls : pc[c] \in {"read", "leave"} => c \in event
  /\ \A c \in event : \E v \in Resolvers : at[v] = "done" /\ request[v].call = c
  /\ \A v \in Resolvers : at[v] # "idle" => live[RunOf[request[v].call]] # "queued"

(* An answer is remembered before it wakes its call, and as long as the    *)
(* run is live.                                                            *)
MemoryInv ==
  /\ \A k \in told : live[k[1]] # "queued" /\ (live[k[1]] = "live" => remembered[k] # "none")
  /\ \A v \in Resolvers :
       at[v] = "set" /\ request[v].remember /\ live[RunOf[request[v].call]] = "live" =>
         remembered[Key(request[v].call)] # "none"
  /\ \A c \in bound : Key(c) \in told

(* While a call is answered by one request only, it cannot go on before    *)
(* that request has woken it.                                              *)
SingleInv ==
  AnsweredOnce =>
    \A v \in Resolvers : at[v] \in {"decide", "remember", "set"} =>
      request[v].call \notin event /\ pc[request[v].call] \in {"enrolled", "waiting"}

IInv ==
  /\ TypeOK
  /\ RegistryInv
  /\ CallInv
  /\ MemoryInv
  /\ SingleInv
  /\ AnswerWasGiven
  /\ NeverAsksAgain
  /\ TidyAfterRun

-----------------------------------------------------------------------------
(* What RunsEnd (Server) rests on: a request that is through has set the   *)
(* Event of its call (approvals.py, resolve_approval).                     *)
AnswersAreDelivered == \A v \in Resolvers : at[v] = "done" => request[v].call \in event

(* No step of the registry clears an Event that is set.                    *)
WokenStaysWoken == [][event \subseteq event']_vars
=============================================================================
