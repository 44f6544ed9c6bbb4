--------------------------- MODULE ApprovalsProofs ---------------------------
(***************************************************************************)
(* Theorems about the approval registry, for any number of runs, tools,    *)
(* calls and requests, with threads to spare and with those of a pool.     *)
(***************************************************************************)
EXTENDS Server, TLAPS

LEMMA KeyType == \A c \in Calls : Key(c) \in Keys /\ Key(c)[1] = RunOf[c]
  BY CallsAssumption DEF Key, Keys

LEMMA StepType ==
  ASSUME NEW step \in {"decide", "remember", "set"}, NEW remember \in BOOLEAN
  PROVE  /\ StepAfter(step, remember) \in {"remember", "set", "done"}
         /\ StepAfter(step, remember) = "remember" <=> step = "decide" /\ remember
         /\ StepAfter(step, remember) = "set" <=> step = "remember" \/ (step = "decide" /\ ~remember)
  BY DEF StepAfter

LEMMA TypeInit == Init => TypeOK
  BY DEF Init, TypeOK

(* What one step of a resolver's thread does, whichever it is.             *)
LEMMA Advances ==
  ASSUME TypeOK, NEW v \in Resolvers, at[v] \in {"decide", "remember", "set"}, Advance(v)
  PROVE  /\ request' = request
         /\ at' \in [Resolvers -> {"idle", "decide", "remember", "set", "done"}]
         /\ at'[v] = StepAfter(at[v], request[v].remember)
         /\ \A w \in Resolvers : w # v => at'[w] = at[w]
         /\ request[v] \in Request
         /\ at'[v] \in {"remember", "set", "done"}
<1>1. request[v] \in Request /\ request[v].remember \in BOOLEAN
  BY DEF TypeOK, Request
<1>2. StepAfter(at[v], request[v].remember) \in {"remember", "set", "done"}
  BY <1>1, StepType
<1> QED BY <1>1, <1>2 DEF Advance, TypeOK

LEMMA TypeStep == TypeOK /\ [Next]_vars => TypeOK'
<1> SUFFICES ASSUME TypeOK, [Next]_vars PROVE TypeOK'
  OBVIOUS
<1> USE DEF TypeOK
<1>1. ASSUME NEW c \in Calls, Begin(c) \/ CallStep(c) PROVE TypeOK'
  <2>1. UNCHANGED <<remembered, live, at, request, told>>
    BY <1>1 DEF Begin, CallStep, CheckRemembered, Enroll, BeginWait, EndWait, ReadDecision, Leave,
                UNCHANGED_BY_CALLS
  <2>2. /\ pc' \in [Calls -> Asking \cup {"idle", "done"}]
        /\ bound' \in SUBSET Calls /\ event' \in SUBSET Calls /\ pending' \in SUBSET Calls
        /\ decision' \in [Calls -> Verdicts \cup {"none"}]
    BY <1>1 DEF Begin, CallStep, CheckRemembered, Enroll, Register, BeginWait, EndWait,
                ReadDecision, Leave, Asking
  <2>3. answer' \in [Calls -> Verdicts \cup {"none"}]
    BY <1>1, KeyType DEF Begin, CallStep, CheckRemembered, Enroll, BeginWait, EndWait,
                         ReadDecision, Leave, Verdicts
  <2> QED BY <2>1, <2>2, <2>3
<1>2. ASSUME NEW v \in Resolvers, NEW q \in Request, LookUp(v, q) PROVE TypeOK'
  BY <1>2 DEF LookUp, UNCHANGED_BY_RESOLVERS
<1>3. ASSUME NEW v \in Resolvers, ResolverStep(v) PROVE TypeOK'
  <2>1. at[v] \in {"decide", "remember", "set"} /\ Advance(v) /\ UNCHANGED <<pc, answer, pending, live, bound>>
    BY <1>3 DEF ResolverStep, Decide, Remember, Wake, UNCHANGED_BY_RESOLVERS
  <2>2. request' = request /\ at' \in [Resolvers -> {"idle", "decide", "remember", "set", "done"}]
    BY <2>1, Advances
  <2>3. \A w \in Resolvers : at'[w] # "idle" => request'[w] \in Request
    BY <2>1, Advances
  <2>4. request[v].call \in Calls /\ request[v].verdict \in Verdicts
    BY <2>1 DEF Request
  <2>5. remembered' \in [Keys -> Verdicts \cup {"none"}]
    BY <1>3, <2>4, KeyType DEF ResolverStep, Decide, Remember, Store, Wake
  <2>6. /\ decision' \in [Calls -> Verdicts \cup {"none"}]
        /\ event' \in SUBSET Calls
    BY <1>3, <2>4 DEF ResolverStep, Decide, Remember, Set, Wake
  <2>7. told' \in SUBSET Keys
    BY <1>3, <2>4, KeyType DEF ResolverStep, Decide, Remember, Wake
  <2> QED BY <2>1, <2>2, <2>3, <2>5, <2>6, <2>7
<1>4. ASSUME NEW r \in Runs, BeginRun(r) \/ EndRun(r) PROVE TypeOK'
  BY <1>4 DEF BeginRun, EndRun, ClearRemembered
<1>5. CASE UNCHANGED vars
  BY <1>5 DEF vars
<1> QED BY <1>1, <1>2, <1>3, <1>4, <1>5 DEF Next

(* Calls, requests and runs keep to the places listed for them.            *)
THEOREM ApprovalsTyped == Spec => []TypeOK
<1> QED BY TypeInit, TypeStep, PTL DEF Spec

-----------------------------------------------------------------------------
(* What has been said stays said. *)

LEMMA SaidStays ==
  ASSUME TypeOK, [Next]_vars
  PROVE  /\ \A v \in Resolvers : Decided(v) => Decided(v)' /\ request'[v] = request[v]
         /\ \A c, x : Said(c, x) => Said(c, x)'
         /\ \A k, x : SaidForRun(k, x) => SaidForRun(k, x)'
<1>1. \A v \in Resolvers : Decided(v) => Decided(v)' /\ request'[v] = request[v]
  <2>1. ASSUME NEW c \in Calls, Begin(c) \/ CallStep(c) PROVE UNCHANGED <<at, request>>
    BY <2>1 DEF Begin, CallStep, CheckRemembered, Enroll, BeginWait, EndWait, ReadDecision, Leave,
                UNCHANGED_BY_CALLS
  <2>2. ASSUME NEW w \in Resolvers, NEW q \in Request, LookUp(w, q), NEW v \in Resolvers, Decided(v)
        PROVE  Decided(v)' /\ request'[v] = request[v]
    BY <2>2 DEF LookUp, Decided, TypeOK
  <2>3. ASSUME NEW w \in Resolvers, ResolverStep(w), NEW v \in Resolvers, Decided(v)
        PROVE  Decided(v)' /\ request'[v] = request[v]
    <3>1. at[w] \in {"decide", "remember", "set"} /\ Advance(w)
      BY <2>3 DEF ResolverStep, Decide, Remember, Wake
    <3>2. request' = request /\ at'[w] \in {"remember", "set", "done"} /\ (v # w => at'[v] = at[v])
      BY <3>1, Advances
    <3> QED BY <2>3, <3>2 DEF Decided
  <2>4. ASSUME NEW r \in Runs, BeginRun(r) \/ EndRun(r) PROVE UNCHANGED <<at, request>>
    BY <2>4 DEF BeginRun, EndRun
  <2>5. CASE UNCHANGED vars
    BY <2>5 DEF vars, Decided
  <2>6. UNCHANGED <<at, request>> => \A v \in Resolvers : Decided(v) => Decided(v)' /\ request'[v] = request[v]
    BY DEF Decided
  <2> QED BY <2>1, <2>2, <2>3, <2>4, <2>5, <2>6 DEF Next
<1> QED BY <1>1 DEF Said, SaidForRun, Key

LEMMA RegistryStep ==
  ASSUME TypeOK, TypeOK', RegistryInv, [Next]_vars
  PROVE  RegistryInv'
<1> USE DEF RegistryInv
<1>1. CASE UNCHANGED <<decision, remembered, at, request, event>>
  BY <1>1, SaidStays DEF Decided
<1>2. ASSUME NEW c \in Calls, Begin(c) \/ CallStep(c) PROVE RegistryInv'
  BY <1>1, <1>2 DEF Begin, CallStep, CheckRemembered, Enroll, BeginWait, EndWait, ReadDecision, Leave,
                    UNCHANGED_BY_CALLS
<1>3. ASSUME NEW v \in Resolvers, NEW q \in Request, LookUp(v, q) PROVE RegistryInv'
  <2>1. /\ UNCHANGED <<decision, remembered, event>>
        /\ \A w \in Resolvers : w # v => at'[w] = at[w] /\ request'[w] = request[w]
        /\ at'[v] = "decide"
    BY <1>3 DEF LookUp, TypeOK
  <2> QED BY <2>1, SaidStays DEF Decided
<1>4. ASSUME NEW v \in Resolvers, ResolverStep(v) PROVE RegistryInv'
  <2>1. at[v] \in {"decide", "remember", "set"} /\ Advance(v)
    BY <1>4 DEF ResolverStep, Decide, Remember, Wake
  <2>2. /\ request' = request
        /\ at'[v] = StepAfter(at[v], request[v].remember) /\ at'[v] \in {"remember", "set", "done"}
        /\ \A w \in Resolvers : w # v => at'[w] = at[w]
        /\ request[v] \in Request
    BY <2>1, Advances
  <2>c. PICK c \in Calls, x \in Verdicts : c = request[v].call /\ x = request[v].verdict
    BY <2>2 DEF Request
  <2>3. x # "none" /\ request[v].remember \in BOOLEAN
    BY <2>2 DEF Request, Verdicts
  <2>4. at'[v] = "remember" => request[v].remember
    BY <2>1, <2>2, <2>3, StepType
  <2>5. Decided(v)'
    BY <2>2 DEF Decided
  <2>6. Said(c, x)' /\ (request[v].remember => SaidForRun(Key(c), x)')
    BY <2>2, <2>5, <2>c DEF Said, SaidForRun, Key
  <2>7. \A w \in Resolvers : at'[w] = "remember" => request'[w].remember
    BY <2>2, <2>4
  <2>8. CASE Decide(v)
    <3>1. decision' = [decision EXCEPT ![c] = x] /\ UNCHANGED <<remembered, event>>
      BY <2>8, <2>c DEF Decide
    <3>2. decision'[c] = x /\ \A d \in Calls : d # c => decision'[d] = decision[d]
      BY <3>1, <2>3 DEF TypeOK
    <3>3. \A d \in Calls : (decision[d] # "none" => Said(d, decision[d]))'
      BY <3>2, <2>6, SaidStays
    <3>4. \A w \in Resolvers : Decided(w)' => decision'[request'[w].call] # "none"
      <4> SUFFICES ASSUME NEW w \in Resolvers, Decided(w)' PROVE decision'[request[w].call] # "none"
        BY <2>2
      <4>1. CASE w = v
        BY <4>1, <3>2, <2>3, <2>c
      <4>2. CASE w # v
        <5>1. Decided(w) /\ request[w] \in Request
          BY <4>2, <2>2 DEF Decided, TypeOK
        <5> QED BY <5>1, <3>2, <2>3 DEF Request
      <4> QED BY <4>1, <4>2
    <3>5. \A d \in event' : decision'[d] # "none"
      BY <3>1, <3>2, <2>3 DEF TypeOK
    <3>6. \A k \in Keys : (remembered[k] # "none" => SaidForRun(k, remembered[k]))'
      BY <3>1, SaidStays
    <3> QED BY <3>3, <3>4, <3>5, <3>6, <2>7
  <2>9. CASE Remember(v)
    <3>1. remembered' = [remembered EXCEPT ![Key(c)] = x] /\ UNCHANGED <<decision, event>>
      BY <2>9, <2>c DEF Remember, Store
    <3>2. request[v].remember
      BY <2>9 DEF Remember
    <3>3. \A k \in Keys : (remembered[k] # "none" => SaidForRun(k, remembered[k]))'
      BY <3>1, <3>2, <2>3, <2>6, KeyType, SaidStays DEF TypeOK
    <3>4. \A w \in Resolvers : Decided(w)' => Decided(w)
      BY <2>2, <2>9 DEF Decided, Remember
    <3> QED BY <3>1, <3>3, <3>4, <2>2, <2>7, SaidStays
  <2>10. CASE Wake(v)
    <3>1. event' = event \cup {c} /\ UNCHANGED <<decision, remembered>>
      BY <2>10, <2>c DEF Wake, Set
    <3>2. \A w \in Resolvers : Decided(w)' => Decided(w)
      BY <2>2, <2>10 DEF Decided, Wake
    <3>3. decision[c] # "none"
      BY <2>10, <2>c DEF Wake, Decided
    <3> QED BY <3>1, <3>2, <3>3, <2>2, <2>7, SaidStays
  <2> QED BY <1>4, <2>8, <2>9, <2>10 DEF ResolverStep
<1>5. ASSUME NEW r \in Runs, BeginRun(r) \/ EndRun(r) PROVE RegistryInv'
  <2>1. /\ UNCHANGED <<decision, at, request, event>>
        /\ \A k \in Keys : remembered'[k] = remembered[k] \/ remembered'[k] = "none"
    BY <1>5 DEF BeginRun, EndRun, ClearRemembered
  <2> QED BY <2>1, SaidStays DEF Decided
<1> QED BY <1>1, <1>2, <1>3, <1>4, <1>5 DEF Next, vars

LEMMA AnswerStep ==
  ASSUME TypeOK, TypeOK', RegistryInv, CallInv, AnswerWasGiven, [Next]_vars
  PROVE  AnswerWasGiven'
<1> USE DEF AnswerWasGiven
<1>1. ASSUME NEW c \in Calls,
             answer'[c] = answer[c] \/ answer'[c] = decision[c] \/ answer'[c] = remembered[Key(c)]
      PROVE  (answer[c] # "none" => Said(c, answer[c]) \/ SaidForRun(Key(c), answer[c]))'
  BY <1>1, KeyType, SaidStays DEF RegistryInv
<1>2. \A c \in Calls :
        answer'[c] = answer[c] \/ answer'[c] = decision[c] \/ answer'[c] = remembered[Key(c)]
  <2>1. ASSUME NEW c \in Calls, CheckRemembered(c), NEW d \in Calls
        PROVE  answer'[d] = answer[d] \/ answer'[d] = remembered[Key(d)]
    BY <2>1 DEF CheckRemembered, TypeOK
  <2>2. ASSUME NEW c \in Calls, ReadDecision(c), NEW d \in Calls
        PROVE  answer'[d] = answer[d] \/ answer'[d] = decision[d]
    <3>1. decision[c] # "none" /\ decision[c] \in Verdicts
      BY <2>2 DEF ReadDecision, CallInv, RegistryInv, TypeOK
    <3> QED BY <2>2, <3>1 DEF ReadDecision, TypeOK, Verdicts
  <2>3. \/ answer' = answer
        \/ \E c \in Calls : CheckRemembered(c) \/ ReadDecision(c)
    BY DEF Next, vars, Begin, CallStep, Enroll, BeginWait, EndWait, Leave, ResolverStep, LookUp,
           Decide, Remember, Wake, UNCHANGED_BY_RESOLVERS, BeginRun, EndRun
  <2> QED BY <2>1, <2>2, <2>3
<1> QED BY <1>1, <1>2 DEF Key

-----------------------------------------------------------------------------
(* Calls, requests and runs. *)

(* Requests are about calls.                                               *)
LEMMA RequestType ==
  ASSUME TypeOK, NEW v \in Resolvers, at[v] # "idle"
  PROVE  /\ request[v].call \in Calls /\ RunOf[request[v].call] \in Runs
         /\ Key(request[v].call) \in Keys /\ Key(request[v].call)[1] = RunOf[request[v].call]
         /\ request[v].verdict \in Verdicts /\ request[v].remember \in BOOLEAN
<1>1. request[v] \in Request
  BY DEF TypeOK
<1> QED BY <1>1, KeyType, CallsAssumption DEF Request

LEMMA CallInvStep ==
  ASSUME TypeOK, CallInv, [Next]_vars
  PROVE  CallInv'
<1> USE CallsAssumption DEF CallInv
<1>1. CASE UNCHANGED <<pc, pending, event, at, request, live>>
  BY <1>1
<1>2. ASSUME NEW c \in Calls, Begin(c) \/ CallStep(c) PROVE CallInv'
  <2>1. UNCHANGED <<live, at, request>>
    BY <1>2 DEF Begin, CallStep, CheckRemembered, Enroll, BeginWait, EndWait, ReadDecision, Leave,
                UNCHANGED_BY_CALLS
  <2>2. pc' = [pc EXCEPT ![c] = pc'[c]] /\ event' = event
    BY <1>2 DEF Begin, CallStep, CheckRemembered, Enroll, BeginWait, EndWait, ReadDecision, Leave, TypeOK
  <2>3. \A d \in Calls : d # c => pc'[d] = pc[d] /\ (d \in pending' <=> d \in pending)
    BY <1>2, <2>2 DEF Begin, CallStep, CheckRemembered, Enroll, Register, BeginWait, EndWait,
                      ReadDecision, Leave, TypeOK
  <2>4. pc'[c] \in Asking => live[RunOf[c]] = "live"
    BY <1>2 DEF Begin, CallStep, CheckRemembered, Enroll, BeginWait, EndWait, ReadDecision, Leave,
                Asking, TypeOK
  <2>5. c \in pending' <=> pc'[c] \in {"enrolled", "waiting", "read", "leave"}
    BY <1>2 DEF Begin, CallStep, CheckRemembered, Enroll, Register, BeginWait, EndWait, ReadDecision,
                Leave, TypeOK
  <2>6. pc'[c] \in {"read", "leave"} => c \in event
    BY <1>2 DEF Begin, CallStep, CheckRemembered, Enroll, BeginWait, EndWait, Awake, ReadDecision,
                Leave, TypeOK
  <2> QED BY <2>1, <2>2, <2>3, <2>4, <2>5, <2>6
<1>3. ASSUME NEW v \in Resolvers, NEW q \in Request, LookUp(v, q) PROVE CallInv'
  <2>1. /\ UNCHANGED <<pc, pending, event, live>>
        /\ \A w \in Resolvers : w # v => at'[w] = at[w] /\ request'[w] = request[w]
        /\ request'[v] = q /\ q.call \in pending /\ q.call \in Calls /\ at[v] = "idle"
    BY <1>3 DEF LookUp, UNCHANGED_BY_RESOLVERS, TypeOK
  <2>2. live[RunOf[q.call]] = "live"
    BY <2>1 DEF Asking
  <2> QED BY <2>1, <2>2
<1>4. ASSUME NEW v \in Resolvers, ResolverStep(v) PROVE CallInv'
  <2>1. at[v] \in {"decide", "remember", "set"} /\ Advance(v) /\ UNCHANGED <<pc, pending, live>>
    BY <1>4 DEF ResolverStep, Decide, Remember, Wake, UNCHANGED_BY_RESOLVERS
  <2>2. /\ request' = request /\ \A w \in Resolvers : w # v => at'[w] = at[w]
        /\ at'[v] = StepAfter(at[v], request[v].remember)
    BY <2>1, Advances
  <2>3. event' = event \/ (event' = event \cup {request[v].call} /\ at[v] = "set")
    BY <1>4 DEF ResolverStep, Decide, Remember, Wake, Set
  <2>4. at[v] = "set" => at'[v] = "done"
    BY <2>2 DEF StepAfter
  <2>5. \A c \in event' : \E w \in Resolvers : at'[w] = "done" /\ request[w].call = c
    BY <2>1, <2>2, <2>3, <2>4
  <2> QED BY <2>1, <2>2, <2>3, <2>5
<1>5. ASSUME NEW r \in Runs, BeginRun(r) \/ EndRun(r) PROVE CallInv'
  <2>1. UNCHANGED <<pc, pending, event, at, request>>
    BY <1>5 DEF BeginRun, EndRun
  <2>2. /\ \A t \in Runs : live[t] = "live" => live'[t] = "live" \/ (EndRun(r) /\ t = r)
        /\ \A t \in Runs : live'[t] = "queued" => live[t] = "queued"
    BY <1>5 DEF BeginRun, EndRun, TypeOK
  <2>3. \A c \in Calls : EndRun(r) /\ RunOf[c] = r => pc[c] \notin Asking
    BY DEF EndRun, Asking
  <2>4. \A v \in Resolvers : at[v] # "idle" => RunOf[request[v].call] \in Runs
    BY RequestType
  <2> QED BY <2>1, <2>2, <2>3, <2>4
<1> QED BY <1>1, <1>2, <1>3, <1>4, <1>5 DEF Next, vars

LEMMA MemoryStep ==
  ASSUME TypeOK, TypeOK', RegistryInv, CallInv, MemoryInv, [Next]_vars
  PROVE  MemoryInv'
<1> USE DEF MemoryInv
<1>1. CASE UNCHANGED <<told, live, remembered, at, request, bound>>
  BY <1>1 DEF Key
<1>2. ASSUME NEW c \in Calls, Begin(c) \/ CallStep(c) PROVE MemoryInv'
  <2>1. UNCHANGED <<remembered, live, at, request, told>>
    BY <1>2 DEF Begin, CallStep, CheckRemembered, Enroll, BeginWait, EndWait, ReadDecision, Leave,
                UNCHANGED_BY_CALLS
  <2>2. \A d \in bound' : Key(d) \in told
    BY <1>2 DEF Begin, CallStep, CheckRemembered, Enroll, BeginWait, EndWait, ReadDecision, Leave
  <2> QED BY <2>1, <2>2 DEF Key
<1>3. ASSUME NEW v \in Resolvers, NEW q \in Request, LookUp(v, q) PROVE MemoryInv'
  <2>1. /\ UNCHANGED <<remembered, live, told, bound>>
        /\ \A w \in Resolvers : w # v => at'[w] = at[w] /\ request'[w] = request[w]
        /\ at'[v] = "decide"
    BY <1>3 DEF LookUp, UNCHANGED_BY_RESOLVERS, TypeOK
  <2> QED BY <2>1 DEF Key
<1>4. ASSUME NEW v \in Resolvers, ResolverStep(v) PROVE MemoryInv'
  <2>1. at[v] \in {"decide", "remember", "set"} /\ Advance(v) /\ UNCHANGED <<live, bound>>
    BY <1>4 DEF ResolverStep, Decide, Remember, Wake, UNCHANGED_BY_RESOLVERS
  <2>2. /\ request' = request
        /\ at'[v] = StepAfter(at[v], request[v].remember)
        /\ \A w \in Resolvers : w # v => at'[w] = at[w]
    BY <2>1, Advances
  <2>3. PICK c \in Calls, x \in Verdicts : c = request[v].call /\ x = request[v].verdict
    BY <2>1, RequestType
  <2>4. x # "none" /\ Key(c) \in Keys /\ request[v].remember \in BOOLEAN
    BY <2>1, <2>3, RequestType DEF Verdicts
  <2>5. at'[v] = "set" => at[v] = "remember" \/ ~request[v].remember
    BY <2>1, <2>2, <2>4, StepType
  <2>6. \A k \in Keys : remembered[k] # "none" => remembered'[k] # "none"
    BY <1>4, <2>3, <2>4 DEF ResolverStep, Decide, Remember, Store, Wake, TypeOK
  <2>7. at[v] = "remember" => remembered'[Key(c)] # "none"
    BY <1>4, <2>3, <2>4 DEF ResolverStep, Decide, Remember, Store, Wake, TypeOK
  <2>8. \A k \in told' : k \in told \/ (at[v] = "set" /\ request[v].remember /\ k = Key(c))
    BY <1>4, <2>3 DEF ResolverStep, Decide, Remember, Wake
  <2>9. told' \in SUBSET Keys
    BY DEF TypeOK
  <2>10. live[Key(c)[1]] # "queued" /\ Key(c)[1] = RunOf[c]
    BY <2>1, <2>3, RequestType DEF CallInv
  <2>11. \A k \in told' : live[k[1]] # "queued" /\ (live[k[1]] = "live" => remembered'[k] # "none")
    BY <2>3, <2>6, <2>8, <2>9, <2>10
  <2>12. ASSUME NEW w \in Resolvers, at'[w] = "set", request[w].remember,
                live[RunOf[request[w].call]] = "live"
         PROVE  remembered'[Key(request[w].call)] # "none"
    <3>1. CASE w = v
      BY <3>1, <2>12, <2>3, <2>5, <2>7
    <3>2. CASE w # v
      <4>1. at[w] = "set" /\ Key(request[w].call) \in Keys
        BY <3>2, <2>2, <2>12, RequestType
      <4> QED BY <4>1, <2>6, <2>12
    <3> QED BY <3>1, <3>2
  <2>13. told \subseteq told'
    BY <1>4 DEF ResolverStep, Decide, Remember, Wake
  <2> QED BY <2>1, <2>2, <2>11, <2>12, <2>13 DEF Key
<1>5. ASSUME NEW r \in Runs, BeginRun(r) \/ EndRun(r) PROVE MemoryInv'
  <2>1. UNCHANGED <<at, request, told, bound>>
    BY <1>5 DEF BeginRun, EndRun
  <2>2. \A t \in Runs : /\ live'[t] = "queued" => live[t] = "queued"
                        /\ live'[t] = "live" => live[t] = "live" \/ (live[t] = "queued" /\ t = r)
    BY <1>5 DEF BeginRun, EndRun, TypeOK
  <2>3. \A k \in Keys : live'[k[1]] = "live" => remembered'[k] = remembered[k]
    BY <1>5 DEF BeginRun, EndRun, ClearRemembered, TypeOK
  <2>4. \A k \in told : k \in Keys /\ k[1] \in Runs
    BY DEF TypeOK, Keys
  <2>5. \A v \in Resolvers : at[v] # "idle" =>
          /\ RunOf[request[v].call] \in Runs /\ live[RunOf[request[v].call]] # "queued"
          /\ Key(request[v].call) \in Keys /\ Key(request[v].call)[1] = RunOf[request[v].call]
    BY RequestType DEF CallInv
  <2> QED BY <2>1, <2>2, <2>3, <2>4, <2>5 DEF Key
<1> QED BY <1>1, <1>2, <1>3, <1>4, <1>5 DEF Next, vars

(* A call made when its key is in told finds the remembered answer.        *)
LEMMA NeverAsksStep ==
  ASSUME TypeOK, CallInv, MemoryInv, NeverAsksAgain, [Next]_vars
  PROVE  NeverAsksAgain'
<1> USE DEF NeverAsksAgain
<1>1. CASE UNCHANGED <<pc, bound>>
  BY <1>1
<1>2. ASSUME NEW c \in Calls, Begin(c) \/ CallStep(c) PROVE NeverAsksAgain'
  <2>1. /\ \A d \in Calls : d # c => pc'[d] = pc[d] /\ (d \in bound' => d \in bound)
        /\ bound' \in SUBSET Calls
    BY <1>2 DEF Begin, CallStep, CheckRemembered, Enroll, BeginWait, EndWait, ReadDecision, Leave, TypeOK
  <2>2. CASE Begin(c)
    BY <2>1, <2>2 DEF Begin, TypeOK
  <2>3. CASE CheckRemembered(c)
    <3>1. c \in bound => remembered[Key(c)] # "none"
      BY <2>3, KeyType DEF CheckRemembered, MemoryInv, CallInv, Asking
    <3> QED BY <3>1, <2>1, <2>3 DEF CheckRemembered, TypeOK
  <2>4. CASE pc[c] \in {"enroll", "enrolled", "waiting", "read", "leave"} /\ bound' = bound
    BY <2>1, <2>4
  <2> QED BY <1>2, <2>2, <2>3, <2>4
          DEF CallStep, Enroll, BeginWait, EndWait, ReadDecision, Leave
<1>3. ASSUME NEW v \in Resolvers, ResolverStep(v) \/ \E q \in Request : LookUp(v, q)
      PROVE  UNCHANGED <<pc, bound>>
  BY <1>3 DEF ResolverStep, Decide, Remember, Wake, LookUp, UNCHANGED_BY_RESOLVERS
<1>4. ASSUME NEW r \in Runs, BeginRun(r) \/ EndRun(r) PROVE UNCHANGED <<pc, bound>>
  BY <1>4 DEF BeginRun, EndRun
<1> QED BY <1>1, <1>2, <1>3, <1>4 DEF Next, vars

-----------------------------------------------------------------------------
(* One answer for each approval. *)

LEMMA RequestsStay ==
  ASSUME TypeOK, [Next]_vars
  PROVE  /\ \A v \in Resolvers : at[v] # "idle" => at'[v] # "idle" /\ request'[v] = request[v]
         /\ AnsweredOnce' => AnsweredOnce
<1>1. \A v \in Resolvers : at[v] # "idle" => at'[v] # "idle" /\ request'[v] = request[v]
  <2>1. ASSUME NEW w \in Resolvers, ResolverStep(w), NEW v \in Resolvers, at[v] # "idle"
        PROVE  at'[v] # "idle" /\ request'[v] = request[v]
    <3>1. at[w] \in {"decide", "remember", "set"} /\ Advance(w)
      BY <2>1 DEF ResolverStep, Decide, Remember, Wake
    <3> QED BY <2>1, <3>1, Advances
  <2>2. ASSUME NEW w \in Resolvers, NEW q \in Request, LookUp(w, q), NEW v \in Resolvers, at[v] # "idle"
        PROVE  at'[v] # "idle" /\ request'[v] = request[v]
    BY <2>2 DEF LookUp, TypeOK
  <2>3. \/ UNCHANGED <<at, request>>
        \/ \E w \in Resolvers : ResolverStep(w) \/ \E q \in Request : LookUp(w, q)
    BY DEF Next, vars, Begin, CallStep, CheckRemembered, Enroll, BeginWait, EndWait, ReadDecision,
           Leave, UNCHANGED_BY_CALLS, BeginRun, EndRun
  <2> QED BY <2>1, <2>2, <2>3
<1> QED BY <1>1 DEF AnsweredOnce

LEMMA SingleStep ==
  ASSUME TypeOK, CallInv, SingleInv, [Next]_vars
  PROVE  SingleInv'
<1> SUFFICES ASSUME AnsweredOnce'
             PROVE  \A v \in Resolvers : at'[v] \in {"decide", "remember", "set"} =>
                      request'[v].call \notin event' /\ pc'[request'[v].call] \in {"enrolled", "waiting"}
  BY DEF SingleInv
<1>1. AnsweredOnce
  BY RequestsStay
<1>2. \A v \in Resolvers : at[v] \in {"decide", "remember", "set"} =>
        /\ request[v].call \notin event /\ pc[request[v].call] \in {"enrolled", "waiting"}
        /\ request[v].call \in Calls
  BY <1>1, RequestType DEF SingleInv
<1>3. CASE UNCHANGED <<pc, event, at, request>>
  BY <1>2, <1>3
<1>4. ASSUME NEW c \in Calls, Begin(c) \/ CallStep(c)
      PROVE  \A v \in Resolvers : at'[v] \in {"decide", "remember", "set"} =>
               request'[v].call \notin event' /\ pc'[request'[v].call] \in {"enrolled", "waiting"}
  <2>1. UNCHANGED <<event, at, request>>
    BY <1>4 DEF Begin, CallStep, CheckRemembered, Enroll, BeginWait, EndWait, ReadDecision, Leave,
                UNCHANGED_BY_CALLS
  <2>2. \A d \in Calls : d \notin event /\ pc[d] \in {"enrolled", "waiting"} =>
          pc'[d] \in {"enrolled", "waiting"}
    BY <1>4 DEF Begin, CallStep, CheckRemembered, Enroll, BeginWait, EndWait, Awake, ReadDecision,
                Leave, TypeOK
  <2> QED BY <1>2, <2>1, <2>2
<1>5. ASSUME NEW v \in Resolvers, NEW q \in Request, LookUp(v, q)
      PROVE  \A w \in Resolvers : at'[w] \in {"decide", "remember", "set"} =>
               request'[w].call \notin event' /\ pc'[request'[w].call] \in {"enrolled", "waiting"}
  <2>1. /\ UNCHANGED <<pc, event>>
        /\ \A w \in Resolvers : w # v => at'[w] = at[w] /\ request'[w] = request[w]
        /\ at[v] = "idle" /\ at'[v] = "decide" /\ request'[v] = q /\ q.call \in pending
    BY <1>5 DEF LookUp, UNCHANGED_BY_RESOLVERS, TypeOK
  <2>2. \A w \in Resolvers : at[w] = "done" => request[w].call # q.call
    BY <2>1 DEF AnsweredOnce
  <2>3. q.call \notin event
    BY <2>2 DEF CallInv
  <2>4. pc[q.call] \in {"enrolled", "waiting"}
    BY <2>1, <2>3 DEF CallInv, Request
  <2> QED BY <1>2, <2>1, <2>3, <2>4
<1>6. ASSUME NEW v \in Resolvers, ResolverStep(v)
      PROVE  \A w \in Resolvers : at'[w] \in {"decide", "remember", "set"} =>
               request'[w].call \notin event' /\ pc'[request'[w].call] \in {"enrolled", "waiting"}
  <2>1. at[v] \in {"decide", "remember", "set"} /\ Advance(v) /\ pc' = pc
    BY <1>6 DEF ResolverStep, Decide, Remember, Wake, UNCHANGED_BY_RESOLVERS
  <2>2. /\ request' = request /\ \A w \in Resolvers : w # v => at'[w] = at[w]
        /\ at'[v] = StepAfter(at[v], request[v].remember)
    BY <2>1, Advances
  <2>3. event' = event \/ (event' = event \cup {request[v].call} /\ at[v] = "set")
    BY <1>6 DEF ResolverStep, Decide, Remember, Wake, Set
  <2>4. at[v] = "set" => at'[v] = "done"
    BY <2>2 DEF StepAfter
  <2>5. \A w \in Resolvers : w # v /\ at[w] # "idle" => request[w].call # request[v].call
    BY <1>1, <2>1 DEF AnsweredOnce
  <2> QED BY <1>2, <2>1, <2>2, <2>3, <2>4, <2>5
<1>7. ASSUME NEW r \in Runs, BeginRun(r) \/ EndRun(r) PROVE UNCHANGED <<pc, event, at, request>>
  BY <1>7 DEF BeginRun, EndRun
<1> QED BY <1>3, <1>4, <1>5, <1>6, <1>7 DEF Next, vars

LEMMA TidyStep ==
  ASSUME TypeOK, TypeOK', CallInv, CallInv', SingleInv, TidyAfterRun, [Next]_vars
  PROVE  TidyAfterRun'
<1> SUFFICES ASSUME AnsweredOnce', NEW r \in Runs, live'[r] = "over"
             PROVE  /\ \A c \in pending' : RunOf[c] # r
                    /\ \A k \in Keys : k[1] = r => remembered'[k] = "none"
  BY DEF TidyAfterRun, NothingOutlivesRun
<1>1. \A c \in pending' : RunOf[c] # r
  BY DEF CallInv, Asking, TypeOK
<1>2. AnsweredOnce /\ NothingOutlivesRun
  BY RequestsStay DEF TidyAfterRun
<1>3. ASSUME NEW k \in Keys, k[1] = r PROVE remembered'[k] = "none"
  <2>1. CASE UNCHANGED <<live, remembered>>
    BY <1>2, <1>3, <2>1 DEF NothingOutlivesRun
  <2>2. ASSUME NEW v \in Resolvers, Remember(v) PROVE remembered'[k] = "none"
    <3>1. /\ live' = live
          /\ remembered' = [remembered EXCEPT ![Key(request[v].call)] = request[v].verdict]
      BY <2>2 DEF Remember, Store, UNCHANGED_BY_RESOLVERS
    <3>2. pc[request[v].call] \in Asking /\ request[v].call \in Calls
      BY <1>2, <2>2, RequestType DEF SingleInv, Remember, Asking
    <3>3. live[RunOf[request[v].call]] = "live" /\ Key(request[v].call)[1] = RunOf[request[v].call]
      BY <3>2, KeyType DEF CallInv
    <3>4. Key(request[v].call) # k
      BY <3>1, <3>3, <1>3
    <3> QED BY <1>2, <1>3, <3>1, <3>4 DEF NothingOutlivesRun, TypeOK
  <2>3. ASSUME NEW t \in Runs, BeginRun(t) \/ EndRun(t) PROVE remembered'[k] = "none"
    <3>1. live[r] = "over" \/ (EndRun(t) /\ t = r)
      BY <2>3 DEF BeginRun, EndRun, TypeOK
    <3>2. remembered'[k] = remembered[k] \/ remembered'[k] = "none"
      BY <2>3 DEF BeginRun, EndRun, ClearRemembered
    <3>3. CASE live[r] = "over"
      BY <3>2, <3>3, <1>2, <1>3 DEF NothingOutlivesRun
    <3>4. CASE EndRun(t) /\ t = r
      BY <3>4, <1>3 DEF EndRun, ClearRemembered
    <3> QED BY <3>1, <3>3, <3>4
  <2>4. \/ UNCHANGED <<live, remembered>>
        \/ \E v \in Resolvers : Remember(v)
        \/ \E t \in Runs : BeginRun(t) \/ EndRun(t)
    BY DEF Next, vars, Begin, CallStep, CheckRemembered, Enroll, BeginWait, EndWait, ReadDecision,
           Leave, UNCHANGED_BY_CALLS, LookUp, ResolverStep, Decide, Wake, UNCHANGED_BY_RESOLVERS
  <2> QED BY <2>1, <2>2, <2>3, <2>4
<1> QED BY <1>1, <1>3

-----------------------------------------------------------------------------
LEMMA InvInit == Init => IInv
<1> SUFFICES ASSUME Init PROVE IInv
  OBVIOUS
<1>1. RegistryInv /\ AnswerWasGiven
  BY CallsAssumption DEF Init, RegistryInv, AnswerWasGiven, Decided
<1>2. CallInv /\ MemoryInv /\ NeverAsksAgain
  BY CallsAssumption DEF Init, CallInv, MemoryInv, NeverAsksAgain, Asking
<1>3. SingleInv /\ TidyAfterRun
  BY DEF Init, SingleInv, TidyAfterRun, NothingOutlivesRun
<1> QED BY <1>1, <1>2, <1>3, TypeInit DEF IInv

LEMMA InvHolds == Spec => []IInv
<1>1. IInv /\ [Next]_vars => IInv'
  <2> SUFFICES ASSUME IInv, [Next]_vars PROVE IInv'
    OBVIOUS
  <2> USE DEF IInv
  <2>1. TypeOK'
    BY TypeStep
  <2>2. RegistryInv' /\ CallInv'
    BY <2>1, RegistryStep, CallInvStep
  <2>3. MemoryInv' /\ SingleInv'
    BY <2>1, MemoryStep, SingleStep
  <2>4. AnswerWasGiven' /\ NeverAsksAgain'
    BY <2>1, AnswerStep, NeverAsksStep
  <2>5. TidyAfterRun'
    BY <2>1, <2>2, TidyStep
  <2> QED BY <2>1, <2>2, <2>3, <2>4, <2>5
<1> QED BY <1>1, InvInit, PTL DEF Spec

(* No interleaving of callers, resolvers and ending runs lets a tool call  *)
(* go ahead, or be refused, without a person's word for that run and tool. *)
THEOREM AnswersAreGiven == Spec => []AnswerWasGiven
<1>1. IInv => AnswerWasGiven
  BY DEF IInv
<1> QED BY <1>1, InvHolds, PTL

(* Once a remembered answer was delivered, the run never asks about that   *)
(* tool again.                                                             *)
THEOREM RememberedIsFinal == Spec => []NeverAsksAgain
<1>1. IInv => NeverAsksAgain
  BY DEF IInv
<1> QED BY <1>1, InvHolds, PTL

(* A blocked call can always be found and answered.                        *)
THEOREM BlockedIsAnswerable == Spec => []BlockedIsListed
<1>1. IInv => BlockedIsListed
  BY DEF IInv, CallInv, BlockedIsListed
<1> QED BY <1>1, InvHolds, PTL

(* The registry forgets a run that is over, provided no approval was       *)
(* answered by two requests.                                               *)
THEOREM RunsAreTidy == Spec => []TidyAfterRun
<1>1. IInv => TidyAfterRun
  BY DEF IInv
<1> QED BY <1>1, InvHolds, PTL

LEMMA DeliveredStep ==
  ASSUME TypeOK, AnswersAreDelivered, [Next]_vars
  PROVE  AnswersAreDelivered' /\ event \subseteq event'
<1> USE DEF AnswersAreDelivered
<1>1. ASSUME NEW v \in Resolvers, ResolverStep(v) PROVE AnswersAreDelivered' /\ event \subseteq event'
  <2>1. at[v] \in {"decide", "remember", "set"} /\ Advance(v) /\ event \subseteq event'
    BY <1>1 DEF ResolverStep, Decide, Remember, Wake, Set
  <2>2. request[v].remember \in BOOLEAN
    BY <2>1, Advances DEF Request
  <2>3. at'[v] = "done" => at[v] = "set"
    BY <2>1, <2>2, Advances, StepType
  <2>4. at[v] = "set" => request[v].call \in event'
    BY <1>1 DEF ResolverStep, Decide, Remember, Wake, Set
  <2> QED BY <2>1, <2>3, <2>4, Advances
<1>2. ASSUME NEW v \in Resolvers, NEW q \in Request, LookUp(v, q)
      PROVE  AnswersAreDelivered' /\ event \subseteq event'
  BY <1>2 DEF LookUp, TypeOK
<1>3. ASSUME NEW c \in Calls, Begin(c) \/ CallStep(c)
      PROVE  AnswersAreDelivered' /\ event \subseteq event'
  BY <1>3 DEF Begin, CallStep, CheckRemembered, Enroll, BeginWait, EndWait, ReadDecision, Leave,
              UNCHANGED_BY_CALLS
<1>4. ASSUME NEW r \in Runs, BeginRun(r) \/ EndRun(r)
      PROVE  AnswersAreDelivered' /\ event \subseteq event'
  BY <1>4 DEF BeginRun, EndRun
<1>5. CASE UNCHANGED vars
  BY <1>5 DEF vars
<1> QED BY <1>1, <1>2, <1>3, <1>4, <1>5 DEF Next

(* No wake-up is lost: event.set() of an answer that was accepted comes    *)
(* before or after event.wait(), and is found by it either way.            *)
THEOREM AnswersAreNotLost == Spec => []AnswersAreDelivered /\ WokenStaysWoken
<1>1. Init => AnswersAreDelivered
  BY DEF Init, AnswersAreDelivered
<1>2. TypeOK /\ AnswersAreDelivered /\ [Next]_vars => AnswersAreDelivered' /\ [event \subseteq event']_vars
  BY DeliveredStep
<1> QED BY <1>1, <1>2, ApprovalsTyped, PTL DEF Spec, WokenStaysWoken

-----------------------------------------------------------------------------
(* Server.tla: the thread pool only delays what the registry may do, so    *)
(* that whatever is true of the registry with threads to spare is true of  *)
(* it when runs and answers compete for them.                              *)
THEOREM ServerIsRegistry == ServerSpec => Spec
<1>1. \A v \in Resolvers : Answers[v] \subseteq Request
  BY TokensAssumption
<1>2. [ServerNext]_vars => [Next]_vars
  BY <1>1 DEF ServerNext, Next, StartRun, TakeUp
<1> QED BY <1>2, PTL DEF ServerSpec, Spec

(* The registry answers as it should, and forgets what it should, when     *)
(* runs and the requests that answer them share the threads of one pool.   *)
THEOREM ServerIsSafe ==
  ServerSpec => [](AnswerWasGiven /\ NeverAsksAgain /\ BlockedIsListed /\ TidyAfterRun)
BY ServerIsRegistry, AnswersAreGiven, RememberedIsFinal, BlockedIsAnswerable, RunsAreTidy, PTL
=============================================================================
