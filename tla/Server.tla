-------------------------------- MODULE Server --------------------------------
(***************************************************************************)
(* Runs and the requests that answer their approvals share the threads of  *)
(* one pool: POST /runs hands execute_run to BackgroundTasks, which runs   *)
(* plain functions through Starlette's run_in_threadpool, and every route  *)
(* is a plain def, which FastAPI calls through run_in_threadpool too       *)
(* (docs/adr/006).  The limiter of that pool has a fixed number of tokens, *)
(* and a run keeps its token for as long as it lasts.                      *)
(*                                                                         *)
(* Only runs submitted through POST /runs count: fire() and invoke_graph() *)
(* start a thread of their own.                                            *)
(***************************************************************************)
EXTENDS Approvals

CONSTANTS Tokens,   \* total_tokens of the thread pool's limiter
          Answers   \* what each request to the approvals endpoint may say, and of which call

ASSUME TokensAssumption == Tokens \in Nat \ {0} /\ Answers \in [Resolvers -> SUBSET Request]

LiveRuns == {r \in Runs : live[r] = "live"}
Serving  == {v \in Resolvers : at[v] \notin {"idle", "done"}}

TokensHeld == Cardinality(LiveRuns) + Cardinality(Serving)

HasToken == TokensHeld < Tokens

StartRun(r) == HasToken /\ BeginRun(r)

TakeUp(v, q) == HasToken /\ LookUp(v, q)

ServerNext ==
  \/ \E c \in Calls : Begin(c) \/ CallStep(c)
  \/ \E v \in Resolvers : ResolverStep(v) \/ \E q \in Answers[v] : TakeUp(v, q)
  \/ \E r \in Runs : StartRun(r) \/ EndRun(r)

ServerSpec == Init /\ [][ServerNext]_vars

(* Threads make progress, the pool hands a free token to a run that waits  *)
(* for one (it serves its waiters in order), and each request to answer an *)
(* approval is made once the canvas shows it.  Calls, runs and requests    *)
(* take finitely many steps, so that this one condition is fair to each:   *)
(* nothing stops while one of them can go on.  A node need not make a call.*)
Progress ==
  \/ \E c \in Calls : CallStep(c)
  \/ \E v \in Resolvers : ResolverStep(v) \/ \E q \in Answers[v] : TakeUp(v, q)
  \/ \E r \in Runs : StartRun(r) \/ EndRun(r)

FairServerSpec == ServerSpec /\ WF_vars(Progress)

-----------------------------------------------------------------------------
(* Properties *)

(* app.py 655, "the HTTP request must not be held open for the duration":  *)
(* the API goes on serving requests while runs are under way.  The pool is *)
(* never full of runs that all wait for an answer, with no thread left to  *)
(* bring it.                                                               *)
AnswersGetThrough ==
  ~ /\ Cardinality(LiveRuns) = Tokens
    /\ \A r \in LiveRuns : \E c \in Calls : RunOf[c] = r /\ pc[c] = "waiting" /\ c \notin event

(* Every run that waits for approvals ends once people answer them.        *)
RunsEnd == \A r \in Runs : <>(live[r] = "over")
=============================================================================
