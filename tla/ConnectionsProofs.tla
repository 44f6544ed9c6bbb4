--------------------------- MODULE ConnectionsProofs ---------------------------
(***************************************************************************)
(* What the stores of connections and generated node types promise while   *)
(* requests overlap in them, for any names, users, tools and workers.      *)
(***************************************************************************)
EXTENDS Connections, WellFoundedInduction, TLAPS

(* A non-empty set of numbers has a least element.                         *)
LEMMA MinExists ==
  ASSUME NEW S \in SUBSET Nat, S # {}
  PROVE  \E x \in S : \A y \in S : x <= y
<1>1. PICK x \in S : \A y \in S : ~(<<y, x>> \in OpToRel(<, Nat))
  BY NatLessThanWellFounded, WFMin, Zenon
<1>2. \A y \in S : ~(y < x)
  BY <1>1 DEF OpToRel
<1> QED BY <1>2

LEMMA MinIsIn ==
  ASSUME NEW S \in SUBSET Nat, S # {}
  PROVE  Min(S) \in S
  BY MinExists DEF Min

(* The type that Unregister takes first is one of those to take down.      *)
LEMMA FirstIsIn ==
  ASSUME NEW k, NEW drop, drop # {}, drop \subseteq {k} \X Tools
  PROVE  (CHOOSE x \in drop : \A y \in drop : x[2] <= y[2]) \in drop
<1> DEFINE S == {x[2] : x \in drop}
<1>1. Tools \subseteq Nat
  BY ConnectionsAssumption DEF Tools
<1>2. S \in SUBSET Nat /\ S # {}
  BY <1>1
<1>3. PICK t \in S : \A y \in S : t <= y
  BY <1>2, MinExists
<1>4. \E x \in drop : \A y \in drop : x[2] <= y[2]
  BY <1>3
<1> QED BY <1>4

-----------------------------------------------------------------------------
(* Where a step can leave a request *)

LEMMA IdleFits == Idle \in Request /\ RequestFits(Idle) /\ Idle.step = "idle" /\ Idle.call = "none"
<1>1. PICK n \in Names : TRUE
  BY ConnectionsAssumption
<1>2. <<None, n>> \in Keys
  BY DEF Keys, Owners
<1>3. (CHOOSE k \in Keys : TRUE) \in Keys
  BY <1>2
<1>4. Idle \in Request
  BY <1>3 DEF Idle, Request, Ops, Endpoints, Steps, Owners, Auths
<1>5. /\ Idle.op = "none" /\ Idle.step = "idle" /\ Idle.call = "none" /\ Idle.loaded = {}
      /\ Idle.made = {} /\ Idle.drop = {}
  BY DEF Idle
<1> QED BY <1>4, <1>5 DEF RequestFits, Course, Allowed, Ended, Unique, Undone, Types

(* The request of w goes on as q does, within its course.                  *)
Moved(w) == work'[w] \in Request /\ RequestFits(work'[w]) /\ work' = [work EXCEPT ![w] = work'[w]]

LEMMA DoneMoves ==
  ASSUME TypeOK, NEW w \in Workers, Done(w)
  PROVE  Moved(w) /\ At(w, "idle")' /\ Held(w)' = {}
<1>1. work' = [work EXCEPT ![w] = Idle] /\ work'[w] = Idle
  BY DEF Done, TypeOK
<1> QED BY <1>1, IdleFits DEF Moved, At, Held

LEMMA EndMoves ==
  ASSUME TypeOK, NEW w \in Workers, NEW how \in Ended, End(w, how)
  PROVE  /\ Moved(w) /\ At(w, how)' /\ Held(w)' = {}
         /\ work'[w].op = work[w].op /\ work'[w].key = work[w].key
<1> DEFINE q == work[w]
           new == [Idle EXCEPT !.step = how, !.op = q.op, !.key = q.key, !.took = q.took]
<1>1. work' = [work EXCEPT ![w] = new] /\ work'[w] = new /\ q \in Request
  BY DEF End, TypeOK, Op, Key
<1>2. /\ new \in Request /\ new.op = q.op /\ new.step = how /\ new.key = q.key
      /\ new.call = Idle.call /\ new.loaded = Idle.loaded /\ new.made = Idle.made
  BY <1>1, IdleFits DEF Request, Steps, Ended
<1>3. Idle.call = "none" /\ Idle.loaded = {} /\ Idle.made = {}
  BY DEF Idle
<1> HIDE DEF new
<1>4. RequestFits(new)
  BY <1>2, <1>3 DEF RequestFits, Course, Allowed, Ended, Unique, Undone, Types
<1> QED BY <1>1, <1>2, <1>4 DEF Moved, At, Held, Ended

LEMMA FailMoves ==
  ASSUME TypeOK, NEW w \in Workers, Fail(w)
  PROVE  /\ Moved(w) /\ At(w, "error")' /\ Held(w)' = {}
         /\ work'[w].op = work[w].op /\ work'[w].key = work[w].key
BY EndMoves DEF Fail, Ended

LEMMA RaiseMoves ==
  ASSUME TypeOK, NEW w \in Workers, Raise(w)
  PROVE  Moved(w) /\ Held(w)' = {} /\ work'[w].step # "error"
<1>1. Moved(w) /\ At(w, "raised")' /\ Held(w)' = {}
  BY EndMoves DEF Raise, Ended
<1> QED BY <1>1 DEF At

(* Going on to another step, with the rest as it is.                       *)
LEMMA GoMoves ==
  ASSUME TypeOK, NEW w \in Workers, NEW step \in Steps, Go(w, step)
  PROVE  /\ work'[w] \in Request /\ work' = [work EXCEPT ![w] = work'[w]]
         /\ work'[w].step = step
         /\ UNCHANGED <<work[w].op, work[w].caller, work[w].key, work[w].auth, work[w].call, work[w].loaded,
                        work[w].took, work[w].drop, work[w].put, work[w].made>>
<1> DEFINE new == [work[w] EXCEPT !.step = step]
<1>1. work' = [work EXCEPT ![w] = new] /\ work'[w] = new /\ work[w] \in Request
  BY DEF Go, TypeOK
<1>2. /\ new.step = step /\ new.op = work[w].op /\ new.caller = work[w].caller /\ new.key = work[w].key
      /\ new.auth = work[w].auth /\ new.call = work[w].call /\ new.loaded = work[w].loaded
      /\ new.took = work[w].took /\ new.drop = work[w].drop /\ new.put = work[w].put /\ new.made = work[w].made
  BY <1>1 DEF Request
<1>3. new \in Request
  BY <1>1 DEF Request
<1> HIDE DEF new
<1> QED BY <1>1, <1>2, <1>3

LEMMA GoesMoves ==
  ASSUME TypeOK, NEW w \in Workers, NEW step \in Steps, NEW k \in Keys, Goes(w, step, k)
  PROVE  /\ work'[w] \in Request /\ work' = [work EXCEPT ![w] = work'[w]]
         /\ work'[w].step = step /\ work'[w].key = k /\ work'[w].call = "none" /\ work'[w].loaded = {}
         /\ UNCHANGED <<work[w].op, work[w].caller, work[w].auth, work[w].took, work[w].drop, work[w].put, work[w].made>>
<1> DEFINE new == [work[w] EXCEPT !.step = step, !.key = k, !.call = "none", !.loaded = {}]
<1>1. work' = [work EXCEPT ![w] = new] /\ work'[w] = new /\ work[w] \in Request
  BY DEF Goes, TypeOK
<1>2. /\ new.step = step /\ new.key = k /\ new.call = "none" /\ new.loaded = {}
      /\ new.op = work[w].op /\ new.caller = work[w].caller /\ new.auth = work[w].auth
      /\ new.took = work[w].took /\ new.drop = work[w].drop /\ new.put = work[w].put /\ new.made = work[w].made
  BY <1>1 DEF Request
<1>3. new \in Request
  BY <1>1 DEF Request
<1> HIDE DEF new
<1> QED BY <1>1, <1>2, <1>3

LEMMA CallMoves ==
  ASSUME TypeOK, NEW w \in Workers, NEW f \in {"add", "delete", "config", "owner"}, NEW k \in Keys, Call(w, f, k)
  PROVE  /\ work'[w] \in Request /\ work' = [work EXCEPT ![w] = work'[w]]
         /\ work'[w].step = "load" /\ work'[w].key = k /\ work'[w].call = f
         /\ UNCHANGED <<work[w].op, work[w].caller, work[w].auth, work[w].loaded, work[w].took,
                        work[w].drop, work[w].put, work[w].made>>
<1> DEFINE new == [work[w] EXCEPT !.step = "load", !.call = f, !.key = k]
<1>1. work' = [work EXCEPT ![w] = new] /\ work'[w] = new /\ work[w] \in Request
  BY DEF Call, TypeOK
<1>2. /\ new.step = "load" /\ new.key = k /\ new.call = f /\ new.loaded = work[w].loaded
      /\ new.op = work[w].op /\ new.caller = work[w].caller /\ new.auth = work[w].auth
      /\ new.took = work[w].took /\ new.drop = work[w].drop /\ new.put = work[w].put /\ new.made = work[w].made
  BY <1>1 DEF Request
<1>3. new \in Request
  BY <1>1 DEF Request, Steps
<1> HIDE DEF new
<1> QED BY <1>1, <1>2, <1>3

-----------------------------------------------------------------------------
(* The requests keep their course. *)

(* What a request does with the profile it found: a call, the next step or *)
(* an error.                                                               *)
LEMMA FoundMoves ==
  ASSUME TypeOK, NEW w \in Workers, RequestFits(work[w]), work[w].step \in {"own", "global"},
         NEW p \in Profile, Found(w, p)
  PROVE  Moved(w) /\ Held(w)' = {} /\ work'[w].op # "create"
<1> DEFINE q == work[w]
<1>1. /\ q \in Request /\ q.op \in Ops /\ q.op # "create" /\ q.made = {} /\ q.call = "none"
      /\ Key(w) \in Keys /\ p.key \in Keys
  BY DEF TypeOK, Request, RequestFits, Course, Types, Key, Profile
<1>2. CASE Op(w) = "delete" /\ MayTouch(w, p)
  <2>1. Call(w, "delete", p.key)
    BY <1>2 DEF Found
  <2>2. work'[w].op = "delete" /\ RequestFits(work'[w])
    BY <1>1, <1>2, <2>1, CallMoves DEF MayTouch, RequestFits, Course, Allowed, Ended, Unique, Undone, Types, Op, Caller
  <2> QED BY <1>1, <2>1, <2>2, CallMoves DEF Moved, Held, At
<1>3. CASE Op(w) = "update" /\ MayTouch(w, p)
  <2>1. Call(w, "config", p.key)
    BY <1>3 DEF Found
  <2>2. work'[w].op = "update" /\ RequestFits(work'[w])
    BY <1>1, <1>3, <2>1, CallMoves DEF MayTouch, RequestFits, Course, Allowed, Ended, Unique, Undone, Types, Op, Caller
  <2> QED BY <1>1, <2>1, <2>2, CallMoves DEF Moved, Held, At
<1>4. CASE Op(w) = "promote"
  <2>1. Call(w, "owner", p.key)
    BY <1>4 DEF Found
  <2>2. work'[w].op = "promote" /\ RequestFits(work'[w])
    BY <1>1, <1>4, <2>1, CallMoves DEF RequestFits, Course, Allowed, Ended, Unique, Undone, Types, Op, Caller
  <2> QED BY <1>1, <2>1, <2>2, CallMoves DEF Moved, Held, At
<1>5. ASSUME NEW step \in {"profile", "store", "consent"}, NEW k \in Keys, Goes(w, step, k),
             step = "store" => Op(w) \in {"api_key", "oauth_callback"},
             step = "consent" => Op(w) = "oauth_start"
      PROVE  Moved(w) /\ Held(w)' = {} /\ work'[w].op # "create"
  <2>1. step \in Steps
    BY DEF Steps
  <2>2. /\ work'[w] \in Request /\ work' = [work EXCEPT ![w] = work'[w]]
        /\ work'[w].step = step /\ work'[w].key = k /\ work'[w].call = "none" /\ work'[w].loaded = {}
        /\ UNCHANGED <<work[w].op, work[w].caller, work[w].made>>
    BY <1>5, <2>1, GoesMoves
  <2>3. RequestFits(work'[w])
    BY <1>1, <1>5, <2>2 DEF RequestFits, Course, Allowed, Ended, Unique, Undone, Types, Op
  <2> QED BY <1>1, <2>2, <2>3 DEF Moved, Held, At
<1>6. CASE Goes(w, "profile", p.key)
  BY <1>1, <1>5, <1>6
<1>7. CASE Op(w) \in {"api_key", "oauth_callback"} /\ Goes(w, "store", p.key)
  BY <1>1, <1>5, <1>7
<1>8. CASE Op(w) = "oauth_start" /\ Goes(w, "consent", Key(w))
  BY <1>1, <1>5, <1>8
<1>9. CASE Fail(w)
  BY <1>1, <1>9, FailMoves
<1> QED BY <1>2, <1>3, <1>4, <1>6, <1>7, <1>8, <1>9 DEF Found

(* A creation that ends in an error leaves no connection.                  *)
NothingLeft(w) ==
  work'[w].op = "create" /\ work'[w].step = "error" => Lookup(file', work'[w].key) = {}

(* A request that arrives fits what its endpoint asks for.                 *)
LEMMA BeginMoves ==
  ASSUME TypeOK, NEW w \in Workers, NEW a \in Requests[w], NEW k \in Keys, Begin(w, a, k)
  PROVE  Moved(w) /\ Held(w)' = {} /\ work'[w].step # "error"
<1> DEFINE call == IF a.op = "create" THEN "add" ELSE "none"
           step == CASE a.op = "create" -> "load" [] a.op = "bootstrap" -> "global" [] OTHER -> "own"
           new  == [Idle EXCEPT !.op = a.op, !.caller = a.caller, !.key = k, !.auth = a.auth,
                                !.call = call, !.step = step]
<1>1. a \in [op : Endpoints, caller : Owners, auth : Auths]
  BY ConnectionsAssumption
<1>2. work' = [work EXCEPT ![w] = new] /\ work'[w] = new
  BY DEF Begin, TypeOK
<1>3. /\ new.op = a.op /\ new.caller = a.caller /\ new.key = k /\ new.auth = a.auth
      /\ new.call = call /\ new.step = step
      /\ new.loaded = {} /\ new.drop = {} /\ new.put = {} /\ new.made = {}
  BY DEF Idle
<1>4. step \in {"load", "global", "own"} /\ call \in {"add", "none"} /\ a.op \in Ops
  BY <1>1 DEF Ops
<1>5. new \in Request
  BY <1>1, <1>4, IdleFits DEF Request, Steps
<1>6. /\ call = "add" <=> a.op = "create"
      /\ step = "load" <=> a.op = "create"
      /\ a.op \in {"oauth_start", "api_key", "bootstrap"} => a.caller # None
      /\ a.op = "promote" => MayManageGlobal(a.caller)
      /\ a.op = "create" /\ k[1] = None => MayManageGlobal(a.caller)
      /\ a.op # "oauth_callback"
  BY <1>1 DEF Begin, Endpoints, MayManageGlobal
<1> HIDE DEF new, call, step
<1>7. RequestFits(new)
  BY <1>3, <1>4, <1>6 DEF RequestFits, Course, Allowed, Ended, Unique, Undone, Types
<1> QED BY <1>2, <1>3, <1>4, <1>5, <1>7 DEF Moved, Held, At

(* Resolving the name ends with a profile, at the global one or in error.  *)
LEMMA ResolveMoves ==
  ASSUME TypeOK, NEW w \in Workers, RequestFits(work[w]), ResolveOwn(w) \/ ResolveGlobal(w)
  PROVE  Moved(w) /\ Held(w)' = {} /\ work'[w].op # "create"
<1>1. /\ work[w].step \in {"own", "global"} /\ work[w] \in Request
      /\ work[w].op # "create" /\ work[w].call = "none" /\ work[w].made = {}
  BY DEF ResolveOwn, ResolveGlobal, At, TypeOK, RequestFits, Course, Types
<1>2. \/ \E p \in file : Found(w, p)
      \/ Fail(w)
      \/ Go(w, "global")
  BY DEF ResolveOwn, ResolveGlobal, Lookup
<1>3. CASE \E p \in file : Found(w, p)
  BY <1>1, <1>3, FoundMoves DEF TypeOK
<1>4. CASE Fail(w)
  BY <1>1, <1>4, FailMoves
<1>5. CASE Go(w, "global")
  <2>1. /\ work'[w] \in Request /\ work' = [work EXCEPT ![w] = work'[w]] /\ work'[w].step = "global"
        /\ UNCHANGED <<work[w].op, work[w].caller, work[w].key, work[w].call, work[w].loaded, work[w].made>>
    BY <1>5, GoMoves DEF Steps
  <2>2. RequestFits(work'[w])
    BY <1>1, <2>1 DEF RequestFits, Course, Allowed, Ended, Unique, Undone, Types
  <2> QED BY <1>1, <2>1, <2>2 DEF Moved, Held, At
<1> QED BY <1>2, <1>3, <1>4, <1>5

(* A user who comes back is asked for the connection again.                *)
LEMMA ConsentMoves ==
  ASSUME TypeOK, NEW w \in Workers, RequestFits(work[w]), Consent(w)
  PROVE  Moved(w) /\ Held(w)' = {} /\ work'[w].op # "create"
<1> DEFINE new == [work[w] EXCEPT !.op = "oauth_callback", !.step = "own"]
<1>1. /\ work[w].step = "consent" /\ work[w].op = "oauth_start" /\ work[w] \in Request
      /\ work[w].call = "none" /\ work[w].made = {}
  BY DEF Consent, At, TypeOK, RequestFits, Course, Types
<1>2. CASE Fail(w)
  BY <1>1, <1>2, FailMoves
<1>3. CASE work' = [work EXCEPT ![w].op = "oauth_callback", ![w].step = "own"]
  <2>1. work' = [work EXCEPT ![w] = new] /\ work'[w] = new
    BY <1>3 DEF TypeOK
  <2>2. /\ new.op = "oauth_callback" /\ new.step = "own" /\ new.caller = work[w].caller
        /\ new.key = work[w].key /\ new.call = work[w].call /\ new.loaded = work[w].loaded
        /\ new.made = work[w].made
    BY <1>1 DEF Request
  <2>3. new \in Request
    BY <1>1 DEF Request, Ops, Steps
  <2> HIDE DEF new
  <2>4. RequestFits(new)
    BY <1>1, <2>2 DEF RequestFits, Course, Allowed, Ended, Unique, Undone, Types
  <2> QED BY <2>1, <2>2, <2>3, <2>4 DEF Moved, Held, At
<1> QED BY <1>2, <1>3 DEF Consent

-----------------------------------------------------------------------------
(* The functions of store.py *)

(* What a function is about to write has one profile for each key, and a   *)
(* deletion leaves none for its own.                                       *)
LEMMA ChangedFits ==
  ASSUME TypeOK, NamesUnique, NEW w \in Workers, RequestFits(work[w]), At(w, "load"), MayChange(w)
  PROVE  /\ Changed(w) \in SUBSET Profile /\ Unique(Changed(w))
         /\ work[w].call = "delete" => Lookup(Changed(w), Key(w)) = {}
<1> DEFINE call == work[w].call
           k    == Key(w)
           made == [key |-> k, auth |-> work[w].auth]
<1>1. call \in {"add", "delete", "config", "owner"} /\ k \in Keys /\ made \in Profile /\ made.key = k
  BY DEF TypeOK, Request, RequestFits, Course, At, Key, Profile
<1>2. file \in SUBSET Profile /\ Unique(file)
  BY DEF TypeOK, NamesUnique, Unique
<1>3. CASE call = "add"
  <2>1. Changed(w) = file \cup {made} /\ Lookup(file, k) = {}
    BY <1>3 DEF Changed, MayChange
  <2>2. \A p \in file : p.key # k
    BY <2>1 DEF Lookup
  <2> HIDE DEF made, k
  <2>3. Unique(file \cup {made})
    BY <1>1, <1>2, <2>2 DEF Unique
  <2> QED BY <1>1, <1>2, <1>3, <2>1, <2>3
<1>4. CASE call = "delete"
  <2>1. Changed(w) = file \ Lookup(file, k)
    BY <1>4 DEF Changed, Without
  <2> QED BY <1>2, <2>1 DEF Unique, Lookup
<1>5. CASE call = "config"
  <2>1. Changed(w) = (file \ Lookup(file, k)) \cup {made}
    BY <1>5 DEF Changed
  <2>2. \A p \in file \ Lookup(file, k) : p.key # k
    BY DEF Lookup
  <2> HIDE DEF made, k
  <2>3. Unique((file \ Lookup(file, k)) \cup {made})
    BY <1>1, <1>2, <2>2 DEF Unique
  <2> QED BY <1>1, <1>2, <1>5, <2>1, <2>3
<1>6. CASE call = "owner"
  <2> DEFINE g == Global(w)
             moved == {[p EXCEPT !.key = g] : p \in Lookup(file, k)}
  <2>1. Changed(w) = (file \ Lookup(file, k)) \cup moved /\ Lookup(file, g) = {}
    BY <1>6 DEF Changed, MayChange
  <2>2. g \in Keys
    BY <1>1 DEF Global, Name, Key, Keys, Owners
  <2>3. \A p \in moved : p \in Profile /\ p.key = g
    BY <1>2, <2>2 DEF Lookup, Profile
  <2>4. \A p, q \in moved : p = q
    BY <1>2 DEF Lookup, Unique
  <2>5. \A p \in file : p.key # g
    BY <2>1 DEF Lookup
  <2> HIDE DEF moved, g
  <2>6. Unique((file \ Lookup(file, k)) \cup moved)
    BY <1>2, <2>3, <2>4, <2>5 DEF Unique
  <2> QED BY <1>2, <1>6, <2>1, <2>3, <2>6
<1> QED BY <1>1, <1>3, <1>4, <1>5, <1>6

(* A deletion goes on to the types, that of a creation ends it.            *)
LEMMA AfterDeleteMoves ==
  ASSUME TypeOK, NEW w \in Workers, RequestFits(work[w]), work[w].call = "delete", AfterDelete(w)
  PROVE  /\ Moved(w) /\ Held(w)' = {} /\ work'[w].op = work[w].op
         /\ work'[w].key = work[w].key
<1>1. work[w] \in Request /\ work[w].op \in {"create", "delete"} /\ Key(w) \in Keys
  BY DEF TypeOK, Request, RequestFits, Course, Key
<1>2. CASE Op(w) = "create"
  BY <1>2, FailMoves DEF AfterDelete
<1>3. CASE Op(w) # "create"
  <2>1. Goes(w, "pop", Key(w)) /\ work[w].op = "delete" /\ work[w].made = {}
    BY <1>1, <1>3 DEF AfterDelete, Op, RequestFits, Types, Course
  <2>2. /\ work'[w] \in Request /\ work' = [work EXCEPT ![w] = work'[w]]
        /\ work'[w].step = "pop" /\ work'[w].key = work[w].key /\ work'[w].call = "none" /\ work'[w].loaded = {}
        /\ UNCHANGED <<work[w].op, work[w].caller, work[w].made>>
    BY <1>1, <2>1, GoesMoves DEF Steps, Key
  <2>3. RequestFits(work'[w])
    BY <2>1, <2>2 DEF RequestFits, Course, Allowed, Ended, Unique, Undone, Types
  <2> QED BY <2>2, <2>3 DEF Moved, Held, At
<1> QED BY <1>2, <1>3

LEMMA LoadMoves ==
  ASSUME TypeOK, NamesUnique, NEW w \in Workers, RequestFits(work[w]), Load(w)
  PROVE  Moved(w) /\ Held(w)' = {} /\ NothingLeft(w)
<1>1. /\ work[w] \in Request /\ At(w, "load") /\ work[w].step = "load" /\ UNCHANGED file
      /\ work[w].call \in {"add", "delete", "config", "owner"}
  BY DEF Load, At, TypeOK, Request, RequestFits, Course, Stores
<1>2. CASE MayChange(w)
  <2> DEFINE new == [work[w] EXCEPT !.step = "truncate", !.loaded = Changed(w)]
  <2>1. work' = [work EXCEPT ![w] = new] /\ work'[w] = new
    BY <1>2 DEF Load, TypeOK
  <2>2. Changed(w) \in SUBSET Profile /\ Unique(Changed(w))
        /\ (work[w].call = "delete" => Lookup(Changed(w), Key(w)) = {})
    BY <1>1, <1>2, ChangedFits
  <2>3. /\ new.step = "truncate" /\ new.loaded = Changed(w)
        /\ new.op = work[w].op /\ new.caller = work[w].caller /\ new.key = work[w].key
        /\ new.call = work[w].call /\ new.made = work[w].made
    BY <1>1 DEF Request
  <2>4. new \in Request
    BY <1>1, <2>2 DEF Request, Steps
  <2> HIDE DEF new
  <2>5. RequestFits(new)
    BY <1>1, <2>2, <2>3 DEF RequestFits, Course, Allowed, Ended, Undone, Types, Key
  <2> QED BY <2>1, <2>3, <2>4, <2>5 DEF Moved, Held, At, NothingLeft
<1>3. CASE ~MayChange(w) /\ work[w].call = "add"
  BY <1>3, DoneMoves DEF Load, NothingLeft, At
<1>4. CASE ~MayChange(w) /\ work[w].call = "delete"
  <2>1. AfterDelete(w) /\ Lookup(file', work[w].key) = {}
    BY <1>1, <1>4 DEF Load, MayChange, Key
  <2> QED BY <1>4, <2>1, AfterDeleteMoves DEF NothingLeft
<1>5. CASE ~MayChange(w) /\ work[w].call = "config"
  <2>1. Raise(w)
    BY <1>5 DEF Load
  <2> QED BY <2>1, RaiseMoves DEF NothingLeft
<1>6. CASE ~MayChange(w) /\ work[w].call = "owner"
  <2>1. Fail(w) /\ (work[w].op = "create" => Lookup(file', work[w].key) = {})
    BY <1>1, <1>6 DEF Load, RequestFits, Course
  <2> QED BY <2>1, FailMoves DEF NothingLeft
<1> QED BY <1>1, <1>2, <1>3, <1>4, <1>5, <1>6

LEMMA TruncateMoves ==
  ASSUME TypeOK, NEW w \in Workers, RequestFits(work[w]), Truncate(w)
  PROVE  Moved(w) /\ Held(w)' = {} /\ work'[w].step # "error"
<1>1. /\ work[w] \in Request /\ work[w].step = "truncate" /\ Go(w, "write")
  BY DEF Truncate, At, TypeOK
<1>2. /\ work'[w] \in Request /\ work' = [work EXCEPT ![w] = work'[w]] /\ work'[w].step = "write"
      /\ UNCHANGED <<work[w].op, work[w].caller, work[w].key, work[w].call, work[w].loaded, work[w].made>>
  BY <1>1, GoMoves DEF Steps
<1>3. RequestFits(work'[w])
  BY <1>1, <1>2 DEF RequestFits, Course, Allowed, Ended, Unique, Undone, Types
<1> QED BY <1>2, <1>3 DEF Moved, Held, At

LEMMA WriteMoves ==
  ASSUME TypeOK, NEW w \in Workers, RequestFits(work[w]), Write(w)
  PROVE  Moved(w) /\ Held(w)' = {} /\ NothingLeft(w)
<1> DEFINE call == work[w].call
<1>1. /\ work[w] \in Request /\ work[w].step = "write" /\ file' = work[w].loaded
      /\ call \in {"add", "delete", "config", "owner"}
      /\ Key(w) \in Keys /\ Global(w) \in Keys
  BY DEF Write, At, TypeOK, Request, RequestFits, Course, Key, Global, Name, Keys, Owners
<1>2. CASE call = "config" \/ (call = "add" /\ work[w].auth = "key")
  <2>1. Done(w)
    BY <1>2 DEF Write
  <2> QED BY <2>1, DoneMoves DEF NothingLeft, At
<1>3. ASSUME NEW step \in {"probe", "profile"}, NEW k \in Keys, Goes(w, step, k),
             step = "probe" => work[w].op = "create", work[w].op = "create" => k = Key(w), call # "delete"
      PROVE  Moved(w) /\ Held(w)' = {} /\ NothingLeft(w)
  <2>1. step \in Steps
    BY DEF Steps
  <2>2. /\ work'[w] \in Request /\ work' = [work EXCEPT ![w] = work'[w]]
        /\ work'[w].step = step /\ work'[w].key = k /\ work'[w].call = "none" /\ work'[w].loaded = {}
        /\ UNCHANGED <<work[w].op, work[w].caller, work[w].made>>
    BY <1>3, <2>1, GoesMoves
  <2>3. RequestFits(work'[w])
    BY <1>1, <1>3, <2>2 DEF RequestFits, Course, Allowed, Ended, Unique, Undone, Types, Key
  <2> QED BY <2>2, <2>3 DEF Moved, Held, At, NothingLeft
<1>4. CASE call = "add" /\ work[w].auth # "key"
  <2>1. work[w].op = "create"
    BY <1>4 DEF RequestFits, Course
  <2>2. \E step \in {"probe", "profile"} : Goes(w, step, Key(w))
    BY <1>4 DEF Write
  <2> QED BY <1>1, <1>3, <1>4, <2>1, <2>2
<1>5. CASE call = "owner"
  <2>1. work[w].op = "promote" /\ Goes(w, "profile", Global(w))
    BY <1>5 DEF Write, RequestFits, Course
  <2> QED BY <1>1, <1>3, <1>5, <2>1
<1>6. CASE call = "delete"
  <2>1. AfterDelete(w)
    BY <1>6 DEF Write
  <2>2. work[w].op = "create" => Lookup(file', work[w].key) = {}
    BY <1>1, <1>6 DEF RequestFits, Undone
  <2> QED BY <1>6, <2>1, <2>2, AfterDeleteMoves DEF NothingLeft
<1> QED BY <1>1, <1>2, <1>4, <1>5, <1>6

(* A creation whose types could not be generated takes its connection back.*)
LEMMA GenerationFailsMoves ==
  ASSUME TypeOK, NEW w \in Workers, RequestFits(work[w]), work[w].step \in {"profile", "register"},
         GenerationFails(w)
  PROVE  /\ Moved(w) /\ Held(w)' = {} /\ work'[w].op = work[w].op
         /\ work'[w].op = "create" => work'[w].step # "error"
<1>1. /\ work[w] \in Request /\ Key(w) \in Keys /\ work[w].call = "none"
  BY DEF TypeOK, Request, Key, RequestFits, Course
<1>2. CASE Op(w) = "create"
  <2>1. Call(w, "delete", Key(w)) /\ work[w].op = "create"
    BY <1>2 DEF GenerationFails, Op
  <2>2. /\ work'[w] \in Request /\ work' = [work EXCEPT ![w] = work'[w]]
        /\ work'[w].step = "load" /\ work'[w].key = work[w].key /\ work'[w].call = "delete"
        /\ UNCHANGED <<work[w].op, work[w].caller, work[w].loaded, work[w].made>>
    BY <1>1, <2>1, CallMoves DEF Key
  <2>3. RequestFits(work'[w])
    BY <1>1, <2>1, <2>2 DEF RequestFits, Course, Allowed, Ended, Unique, Undone, Types
  <2> QED BY <2>2, <2>3 DEF Moved, Held, At
<1>3. CASE Op(w) = "api_key"
  <2>1. Go(w, "forget") /\ work[w].op = "api_key"
    BY <1>3 DEF GenerationFails, Op
  <2>2. /\ work'[w] \in Request /\ work' = [work EXCEPT ![w] = work'[w]] /\ work'[w].step = "forget"
        /\ UNCHANGED <<work[w].op, work[w].caller, work[w].key, work[w].call, work[w].loaded, work[w].made>>
    BY <2>1, GoMoves DEF Steps
  <2>3. RequestFits(work'[w])
    BY <1>1, <2>1, <2>2 DEF RequestFits, Course, Allowed, Ended, Unique, Undone, Types
  <2> QED BY <2>1, <2>2, <2>3 DEF Moved, Held, At
<1>4. CASE Op(w) \notin {"create", "api_key"}
  <2>1. Fail(w) /\ work[w].op # "create"
    BY <1>4 DEF GenerationFails, Op
  <2> QED BY <2>1, FailMoves
<1> QED BY <1>2, <1>3, <1>4

(* A server that answers may turn out to ask for OAuth.                    *)
LEMMA ProbeMoves ==
  ASSUME TypeOK, NEW w \in Workers, RequestFits(work[w]), Probe(w)
  PROVE  Moved(w) /\ Held(w)' = {} /\ work'[w].step # "error"
<1>1. /\ work[w] \in Request /\ Key(w) \in Keys /\ work[w].step = "probe" /\ work[w].op = "create"
      /\ work[w].call = "none"
  BY DEF Probe, At, TypeOK, Request, Key, RequestFits, Course
<1>2. CASE Go(w, "profile")
  <2>1. /\ work'[w] \in Request /\ work' = [work EXCEPT ![w] = work'[w]] /\ work'[w].step = "profile"
        /\ UNCHANGED <<work[w].op, work[w].caller, work[w].key, work[w].call, work[w].loaded, work[w].made>>
    BY <1>2, GoMoves DEF Steps
  <2>2. RequestFits(work'[w])
    BY <1>1, <2>1 DEF RequestFits, Course, Allowed, Ended, Unique, Undone, Types
  <2> QED BY <2>1, <2>2 DEF Moved, Held, At
<1>3. CASE work' = [work EXCEPT ![w].step = "load", ![w].call = "config", ![w].auth = "oauth"]
  <2> DEFINE new == [work[w] EXCEPT !.step = "load", !.call = "config", !.auth = "oauth"]
  <2>1. work' = [work EXCEPT ![w] = new] /\ work'[w] = new
    BY <1>3 DEF TypeOK
  <2>2. /\ new.step = "load" /\ new.call = "config" /\ new.loaded = work[w].loaded
        /\ new.op = work[w].op /\ new.caller = work[w].caller /\ new.key = work[w].key
        /\ new.made = work[w].made
    BY <1>1 DEF Request
  <2>3. new \in Request
    BY <1>1 DEF Request, Steps, Auths
  <2> HIDE DEF new
  <2>4. RequestFits(new)
    BY <1>1, <2>2 DEF RequestFits, Course, Allowed, Ended, Unique, Undone, Types
  <2> QED BY <2>1, <2>2, <2>3, <2>4 DEF Moved, Held, At
<1>4. CASE Call(w, "delete", Key(w))
  <2>1. /\ work'[w] \in Request /\ work' = [work EXCEPT ![w] = work'[w]]
        /\ work'[w].step = "load" /\ work'[w].key = work[w].key /\ work'[w].call = "delete"
        /\ UNCHANGED <<work[w].op, work[w].caller, work[w].loaded, work[w].made>>
    BY <1>1, <1>4, CallMoves DEF Key
  <2>2. RequestFits(work'[w])
    BY <1>1, <2>1 DEF RequestFits, Course, Allowed, Ended, Unique, Undone, Types
  <2> QED BY <2>1, <2>2 DEF Moved, Held, At
<1>5. CASE Raise(w)
  BY <1>5, RaiseMoves
<1> QED BY <1>2, <1>3, <1>4, <1>5 DEF Probe

-----------------------------------------------------------------------------
(* Credentials and discovery *)

LEMMA StoreCredentialMoves ==
  ASSUME TypeOK, NEW w \in Workers, RequestFits(work[w]), StoreCredential(w)
  PROVE  Moved(w) /\ Held(w)' = {} /\ work'[w].op # "create"
<1>1. /\ work[w] \in Request /\ work[w].step = "store" /\ work[w].op # "create" /\ work[w].call = "none"
  BY DEF StoreCredential, At, TypeOK, RequestFits, Course
<1>2. CASE Go(w, "profile")
  <2>1. /\ work'[w] \in Request /\ work' = [work EXCEPT ![w] = work'[w]] /\ work'[w].step = "profile"
        /\ UNCHANGED <<work[w].op, work[w].caller, work[w].key, work[w].call, work[w].loaded, work[w].made>>
    BY <1>2, GoMoves DEF Steps
  <2>2. RequestFits(work'[w])
    BY <1>1, <2>1 DEF RequestFits, Course, Allowed, Ended, Unique, Undone, Types
  <2> QED BY <1>1, <2>1, <2>2 DEF Moved, Held, At
<1>3. CASE Fail(w)
  BY <1>1, <1>3, FailMoves
<1> QED BY <1>2, <1>3 DEF StoreCredential

LEMMA DeleteCredentialMoves ==
  ASSUME TypeOK, NEW w \in Workers, RequestFits(work[w]), DeleteCredential(w)
  PROVE  Moved(w) /\ Held(w)' = {} /\ work'[w].op # "create"
<1>1. work[w].step = "forget" /\ work[w].op # "create"
  BY DEF DeleteCredential, At, RequestFits, Course
<1>2. CASE Fail(w)
  BY <1>1, <1>2, FailMoves
<1>3. CASE Done(w)
  <2>1. work'[w].op = "none"
    BY <1>3 DEF Done, TypeOK, Idle
  <2> QED BY <1>3, <2>1, DoneMoves
<1> QED BY <1>2, <1>3 DEF DeleteCredential

LEMMA DiscoverMoves ==
  ASSUME TypeOK, NEW w \in Workers, RequestFits(work[w]), Discover(w)
  PROVE  /\ Moved(w) /\ Held(w)' = {}
         /\ work'[w].op = "create" => work'[w].step # "error"
<1>1. /\ work[w] \in Request /\ work[w].step = "profile" /\ work[w].call = "none"
      /\ work[w].made = {}
  BY DEF Discover, At, TypeOK, RequestFits, Course, Types
<1>2. CASE GenerationFails(w)
  BY <1>1, <1>2, GenerationFailsMoves
<1>3. ASSUME NEW T \in ToolLists, work' = [work EXCEPT ![w].step = "pop", ![w].put = T, ![w].auth = "open"]
      PROVE  Moved(w) /\ Held(w)' = {} /\ work'[w].step # "error"
  <2> DEFINE new == [work[w] EXCEPT !.step = "pop", !.put = T, !.auth = "open"]
  <2>1. work' = [work EXCEPT ![w] = new] /\ work'[w] = new
    BY <1>3 DEF TypeOK
  <2>2. /\ new.step = "pop" /\ new.put = T /\ new.call = work[w].call /\ new.loaded = work[w].loaded
        /\ new.op = work[w].op /\ new.caller = work[w].caller /\ new.key = work[w].key
        /\ new.made = work[w].made
    BY <1>1 DEF Request
  <2>3. T \in SUBSET Tools /\ T # {}
    BY ConnectionsAssumption DEF Tools
  <2>4. new \in Request
    BY <1>1, <2>3 DEF Request, Steps, Auths
  <2> HIDE DEF new
  <2>5. RequestFits(new)
    BY <1>1, <2>2, <2>3 DEF RequestFits, Course, Allowed, Ended, Unique, Undone, Types
  <2> QED BY <2>1, <2>2, <2>4, <2>5 DEF Moved, Held, At
<1> QED BY <1>2, <1>3 DEF Discover

-----------------------------------------------------------------------------
(* Taking types down and putting them in *)

(* What is still to be taken down decides where the request goes.          *)
LEMMA TakeDownMoves ==
  ASSUME TypeOK, NEW w \in Workers, RequestFits(work[w]), work[w].step \in {"pop", "unregister"},
         NEW types \in SUBSET ({Key(w)} \X Tools), TakeDown(w, types)
  PROVE  /\ Moved(w) /\ work'[w].step \in {"unregister", "register", "forget"} /\ Held(w)' = types
<1> DEFINE step == CASE types # {} -> "unregister"
                     [] types = {} /\ Op(w) # "delete" -> "register"
                     [] types = {} /\ Op(w) = "delete" -> "forget"
           took == IF At(w, "pop") THEN types ELSE work[w].took
           new  == [work[w] EXCEPT !.step = step, !.drop = types, !.took = took]
<1>1. /\ work[w] \in Request /\ work[w].call = "none" /\ work[w].made = {} /\ Key(w) \in Keys
      /\ work[w].op # "delete" => work[w].put # {}
  BY DEF TypeOK, Request, RequestFits, Course, Types, Key
<1>2. work' = [work EXCEPT ![w] = new] /\ work'[w] = new
  BY DEF TakeDown, TypeOK
<1>3. /\ types # {} => step = "unregister"
      /\ types = {} /\ work[w].op # "delete" => step = "register"
      /\ types = {} /\ work[w].op = "delete" => step = "forget"
  BY DEF Op
<1>4. /\ new.step = step /\ new.drop = types /\ new.call = work[w].call /\ new.loaded = work[w].loaded
      /\ new.op = work[w].op /\ new.caller = work[w].caller /\ new.key = work[w].key
      /\ new.made = work[w].made /\ new.put = work[w].put
  BY <1>1 DEF Request
<1>5. types \in SUBSET (Keys \X Tools) /\ took \in SUBSET (Keys \X Tools)
  BY <1>1 DEF Request
<1>6. step \in Steps
  BY <1>3 DEF Steps
<1> HIDE DEF took, step
<1>7. new \in Request
  BY <1>1, <1>5, <1>6 DEF Request
<1> HIDE DEF new
<1>8. RequestFits(new)
  BY <1>1, <1>3, <1>4 DEF RequestFits, Course, Allowed, Ended, Unique, Undone, Types, Key
<1> QED BY <1>1, <1>2, <1>3, <1>4, <1>7, <1>8 DEF Moved, Held, At, Key

LEMMA OthersHold ==
  ASSUME TypeOK, NEW w \in Workers, Moved(w), NEW v \in Workers, v # w
  PROVE  work'[v] = work[v] /\ Held(v)' = Held(v)
<1>1. work'[v] = work[v]
  BY DEF Moved, TypeOK
<1> QED BY <1>1 DEF Held, At, Key

(* A request that holds nothing afterwards disturbs nobody's types.        *)
LEMMA QuietKeeps ==
  ASSUME TypeOK, Ownership, TrackedAreRegistered, NEW w \in Workers, Moved(w), Held(w)' = {},
         UNCHANGED <<registered, tracked>>
  PROVE  Ownership' /\ TrackedAreRegistered'
<1>1. \A v \in Workers : Held(v)' = {} \/ Held(v)' = Held(v)
  BY OthersHold
<1>2. Ownership'
  BY <1>1 DEF Ownership
<1> QED BY <1>2 DEF TrackedAreRegistered

(* What was tracked passes to the request that popped it.                  *)
LEMMA PopKeeps ==
  ASSUME TypeOK, Ownership, TrackedAreRegistered, NEW w \in Workers, RequestFits(work[w]), Pop(w)
  PROVE  Moved(w) /\ Ownership' /\ TrackedAreRegistered' /\ work'[w].step # "error"
<1> DEFINE k == Key(w)
<1>1. k \in Keys /\ work[w].step = "pop"
  BY DEF TypeOK, Request, Key, Pop, At
<1>2. Popped(w) = {k} \X tracked[k] /\ Popped(w) \in SUBSET ({k} \X Tools)
  BY <1>1 DEF Popped, TypeOK
<1>3. Moved(w) /\ Held(w)' = {k} \X tracked[k] /\ work'[w].step # "error"
  BY <1>1, <1>2, TakeDownMoves DEF Pop
<1>4. /\ tracked'[k] = {} /\ \A j \in Keys : j # k => tracked'[j] = tracked[j]
      /\ UNCHANGED registered
  BY <1>1 DEF Pop, TypeOK
<1> HIDE DEF k
<1>5. TrackedAreRegistered'
  BY <1>1, <1>4 DEF TrackedAreRegistered
<1>6. ASSUME NEW v \in Workers
      PROVE  Held(v)' \subseteq registered'
  <2>1. CASE v = w
    BY <1>1, <1>3, <1>4, <2>1 DEF TrackedAreRegistered
  <2>2. CASE v # w
    BY <1>3, <1>4, <2>2, OthersHold DEF Ownership
  <2> QED BY <2>1, <2>2
<1>7. ASSUME NEW u \in Workers, NEW v \in Workers, u # v
      PROVE  Held(u)' \cap Held(v)' = {}
  <2>1. CASE u = w
    BY <1>1, <1>3, <1>7, <2>1, OthersHold DEF Ownership
  <2>2. CASE v = w
    BY <1>1, <1>3, <1>7, <2>2, OthersHold DEF Ownership
  <2>3. CASE u # w /\ v # w
    BY <1>3, <1>7, <2>3, OthersHold DEF Ownership
  <2> QED BY <2>1, <2>2, <2>3
<1>8. ASSUME NEW v \in Workers, NEW j \in Keys
      PROVE  Held(v)' \cap ({j} \X tracked'[j]) = {}
  <2>1. CASE j = k
    BY <1>4, <2>1
  <2>2. CASE j # k /\ v = w
    BY <1>3, <1>4, <2>2
  <2>3. CASE j # k /\ v # w
    <3>1. Held(v)' = Held(v) /\ tracked'[j] = tracked[j]
      BY <1>3, <1>4, <2>3, OthersHold
    <3> QED BY <3>1 DEF Ownership
  <2> QED BY <2>1, <2>2, <2>3
<1>9. Ownership'
  BY <1>6, <1>7, <1>8 DEF Ownership
<1> QED BY <1>3, <1>5, <1>9

(* Only a type that the request holds is taken out of the registry.        *)
LEMMA UnregisterKeeps ==
  ASSUME TypeOK, Ownership, TrackedAreRegistered, NEW w \in Workers, RequestFits(work[w]), Unregister(w)
  PROVE  Moved(w) /\ Ownership' /\ TrackedAreRegistered' /\ work'[w].step # "error"
<1> DEFINE drop == work[w].drop
           type == CHOOSE x \in drop : \A y \in drop : x[2] <= y[2]
<1>1. /\ work[w].step = "unregister" /\ drop # {} /\ drop \subseteq {Key(w)} \X Tools
      /\ Held(w) = drop
  BY DEF Unregister, At, RequestFits, Types, Key, Held
<1>2. type \in drop
  BY <1>1, FirstIsIn
<1>3. registered' = registered \ {type} /\ TakeDown(w, drop \ {type}) /\ UNCHANGED tracked
  BY DEF Unregister
<1> HIDE DEF type
<1>4. drop \ {type} \in SUBSET ({Key(w)} \X Tools)
  BY <1>1
<1>5. Moved(w) /\ Held(w)' = drop \ {type} /\ work'[w].step # "error"
  BY <1>1, <1>3, <1>4, TakeDownMoves
<1> HIDE DEF drop
<1>6. \A v \in Workers : v # w => Held(v)' = Held(v) /\ type \notin Held(v)
  BY <1>1, <1>2, <1>5, OthersHold DEF Ownership
<1>7. \A v \in Workers : Held(v)' \subseteq Held(v) /\ type \notin Held(v)'
  BY <1>1, <1>5, <1>6
<1>8. Ownership'
  BY <1>3, <1>7 DEF Ownership
<1>9. \A j \in Keys : \A t \in tracked[j] : <<j, t>> # type
  BY <1>1, <1>2 DEF Ownership
<1> QED BY <1>3, <1>5, <1>8, <1>9 DEF TrackedAreRegistered

(* A type is put in only when nobody has it.                               *)
LEMMA RegisterKeeps ==
  ASSUME TypeOK, Ownership, TrackedAreRegistered, NEW w \in Workers, RequestFits(work[w]), Register(w)
  PROVE  /\ Moved(w) /\ Ownership' /\ TrackedAreRegistered'
         /\ work'[w].op = "create" => work'[w].step # "error"
<1> DEFINE q == work[w]
           k == Key(w)
           t == Min(q.put)
<1>1. /\ q \in Request /\ q.step = "register" /\ q.put # {} /\ q.call = "none" /\ k \in Keys
      /\ Held(w) = {k} \X q.made
  BY DEF TypeOK, Request, Register, At, RequestFits, Course, Types, Key, Held
<1>2. q.put \in SUBSET Tools /\ q.put \in SUBSET Nat
  BY <1>1, ConnectionsAssumption DEF Request, Tools
<1>3. t \in q.put
  BY <1>1, <1>2, MinIsIn
<1>4. CASE IsDuplicate(k, t)
  <2>1. GenerationFails(w) /\ UNCHANGED <<registered, tracked>>
    BY <1>4 DEF Register
  <2> QED BY <1>1, <2>1, GenerationFailsMoves, QuietKeeps
<1>5. CASE ~IsDuplicate(k, t)
  <2> DEFINE step == IF q.put = {t} THEN "track" ELSE "register"
             new  == [q EXCEPT !.put = @ \ {t}, !.made = @ \cup {t}, !.step = step]
  <2>1. registered' = registered \cup {<<k, t>>} /\ <<k, t>> \notin registered /\ UNCHANGED tracked
    BY <1>5 DEF Register, IsDuplicate
  <2>2. work' = [work EXCEPT ![w] = new] /\ work'[w] = new
    BY <1>5 DEF Register, TypeOK
  <2>3. /\ new.step = step /\ new.put = q.put \ {t} /\ new.made = q.made \cup {t}
        /\ new.call = q.call /\ new.loaded = q.loaded
        /\ new.op = q.op /\ new.caller = q.caller /\ new.key = q.key
    BY <1>1 DEF Request
  <2>4. new \in Request
    BY <1>1, <1>2, <1>3 DEF Request, Steps
  <2>5. step = "register" => q.put \ {t} # {}
    BY <1>3
  <2>6. step \in {"register", "track"}
    OBVIOUS
  <2> HIDE DEF new, step
  <2>7. RequestFits(new)
    BY <1>1, <2>3, <2>5, <2>6 DEF RequestFits, Course, Allowed, Ended, Unique, Undone, Types
  <2>8. Moved(w) /\ work'[w].step # "error"
    BY <2>2, <2>3, <2>4, <2>6, <2>7 DEF Moved
  <2>9. Held(w)' = Held(w) \cup {<<k, t>>}
    <3>1. Held(w)' = {k} \X (q.made \cup {t})
      BY <2>2, <2>3, <2>6 DEF Held, At, Key
    <3> QED BY <1>1, <3>1
  <2> HIDE DEF k, t, q
  <2>10. \A v \in Workers : v # w => Held(v)' = Held(v) /\ <<k, t>> \notin Held(v)
    BY <2>1, <2>8, OthersHold DEF Ownership
  <2>11. \A v \in Workers : Held(v)' \subseteq registered'
    BY <2>1, <2>9, <2>10 DEF Ownership
  <2>12. \A u, v \in Workers : u # v => Held(u)' \cap Held(v)' = {}
    BY <2>9, <2>10 DEF Ownership
  <2>13. \A j \in Keys : <<k, t>> \notin {j} \X tracked[j]
    BY <2>1 DEF TrackedAreRegistered
  <2>14. ASSUME NEW v \in Workers, NEW j \in Keys
         PROVE  Held(v)' \cap ({j} \X tracked'[j]) = {}
    <3>1. Held(v)' \subseteq Held(v) \cup {<<k, t>>}
      BY <2>9, <2>10
    <3>2. Held(v) \cap ({j} \X tracked[j]) = {}
      BY DEF Ownership
    <3> QED BY <2>1, <2>13, <3>1, <3>2
  <2>15. Ownership'
    BY <2>11, <2>12, <2>14 DEF Ownership
  <2>16. TrackedAreRegistered'
    BY <2>1 DEF TrackedAreRegistered
  <2> QED BY <2>8, <2>15, <2>16
<1> QED BY <1>4, <1>5

(* What a generation has put in is tracked from then on.                   *)
LEMMA TrackKeeps ==
  ASSUME TypeOK, Ownership, TrackedAreRegistered, NEW w \in Workers, RequestFits(work[w]), Track(w)
  PROVE  Moved(w) /\ Ownership' /\ TrackedAreRegistered' /\ work'[w].step # "error"
<1> DEFINE k    == Key(w)
           made == work[w].made
<1>1. k \in Keys /\ Held(w) = {k} \X made
  BY DEF TypeOK, Request, Track, At, Key, Held
<1>2. Moved(w) /\ Held(w)' = {} /\ work'[w].step # "error"
  BY DoneMoves DEF Track, At
<1>3. /\ tracked'[k] = made /\ \A j \in Keys : j # k => tracked'[j] = tracked[j]
      /\ UNCHANGED registered
  BY <1>1 DEF Track, TypeOK
<1> HIDE DEF k, made
<1>4. \A v \in Workers : Held(v)' \subseteq Held(v) /\ (v # w => Held(v)' = Held(v))
  BY <1>2, OthersHold
<1>5. TrackedAreRegistered'
  BY <1>1, <1>3 DEF TrackedAreRegistered, Ownership
<1>6. ASSUME NEW v \in Workers, NEW j \in Keys
      PROVE  Held(v)' \cap ({j} \X tracked'[j]) = {}
  <2>1. CASE v = w
    BY <1>2, <2>1
  <2>2. CASE v # w /\ j = k
    BY <1>1, <1>3, <1>4, <2>2 DEF Ownership
  <2>3. CASE v # w /\ j # k
    <3>1. Held(v)' = Held(v) /\ tracked'[j] = tracked[j]
      BY <1>3, <1>4, <2>3
    <3> QED BY <3>1 DEF Ownership
  <2> QED BY <2>1, <2>2, <2>3
<1>7. /\ \A v \in Workers : Held(v)' \subseteq registered'
      /\ \A u, v \in Workers : u # v => Held(u)' \cap Held(v)' = {}
  BY <1>3, <1>4 DEF Ownership
<1>8. Ownership'
  BY <1>6, <1>7 DEF Ownership
<1> QED BY <1>2, <1>5, <1>8

-----------------------------------------------------------------------------
(* The invariant *)

StoresFit ==
  /\ file \in SUBSET Profile /\ registered \in SUBSET (Keys \X Tools)
  /\ tracked \in [Keys -> SUBSET Tools] /\ creds \in SUBSET (Users \X Names \X {"oauth", "key"})
  /\ NamesUnique /\ Ownership /\ TrackedAreRegistered

(* The stores after a step that leaves the node types alone.               *)
LEMMA QuietFits ==
  ASSUME IInv, NEW w \in Workers, Moved(w), Held(w)' = {}, UNCHANGED <<registered, tracked>>,
         file' \in SUBSET Profile, NamesUnique', creds' \in SUBSET (Users \X Names \X {"oauth", "key"})
  PROVE  StoresFit'
  BY QuietKeeps DEF IInv, StoresFit, TypeOK

LEMMA MovesFit ==
  ASSUME IInv, NEW w \in Workers, Step(w)
  PROVE  Moved(w) /\ StoresFit' /\ NothingLeft(w)
<1> DEFINE C == Users \X Names \X {"oauth", "key"}
<1>1. /\ TypeOK /\ NamesUnique /\ Ownership /\ TrackedAreRegistered
      /\ RequestFits(work[w]) /\ work[w] \in Request
  BY DEF IInv, TypeOK
<1>2. ASSUME Moved(w), Held(w)' = {}, UNCHANGED <<file, registered, tracked, creds>>
      PROVE  StoresFit'
  BY <1>1, <1>2, QuietFits DEF TypeOK, NamesUnique
<1>3. CASE \E q \in Requests[w], k \in Keys : Begin(w, q, k)
  <2>1. Moved(w) /\ Held(w)' = {} /\ work'[w].step # "error"
    BY <1>1, <1>3, BeginMoves
  <2>2. UNCHANGED <<file, registered, tracked, creds>>
    BY <1>3 DEF Begin, Stores
  <2> QED BY <1>2, <2>1, <2>2 DEF NothingLeft
<1>4. CASE ResolveOwn(w) \/ ResolveGlobal(w)
  <2>1. UNCHANGED <<file, registered, tracked, creds>>
    BY <1>4 DEF ResolveOwn, ResolveGlobal, Stores
  <2> QED BY <1>1, <1>2, <1>4, <2>1, ResolveMoves DEF NothingLeft
<1>5. CASE Consent(w)
  <2>1. UNCHANGED <<file, registered, tracked, creds>>
    BY <1>5 DEF Consent, Stores
  <2> QED BY <1>1, <1>2, <1>5, <2>1, ConsentMoves DEF NothingLeft
<1>6. CASE Load(w)
  <2>1. UNCHANGED <<file, registered, tracked, creds>>
    BY <1>6 DEF Load, Stores
  <2> QED BY <1>1, <1>2, <1>6, <2>1, LoadMoves
<1>7. CASE Truncate(w)
  <2>1. file' = {} /\ UNCHANGED <<registered, tracked, creds>>
    BY <1>7 DEF Truncate
  <2>2. file' \in SUBSET Profile /\ NamesUnique' /\ creds' \in SUBSET C
    BY <1>1, <2>1 DEF NamesUnique, TypeOK
  <2> QED BY <1>1, <1>7, <2>1, <2>2, TruncateMoves, QuietFits DEF NothingLeft
<1>8. CASE Write(w)
  <2>1. file' = work[w].loaded /\ UNCHANGED <<registered, tracked, creds>>
    BY <1>8 DEF Write
  <2>2. file' \in SUBSET Profile /\ NamesUnique' /\ creds' \in SUBSET C
    BY <1>1, <2>1 DEF NamesUnique, TypeOK, RequestFits, Unique, Request
  <2> QED BY <1>1, <1>8, <2>1, <2>2, WriteMoves, QuietFits
<1>9. CASE Probe(w)
  <2>1. UNCHANGED <<file, registered, tracked, creds>>
    BY <1>9 DEF Probe, Stores
  <2> QED BY <1>1, <1>2, <1>9, <2>1, ProbeMoves DEF NothingLeft
<1>10. CASE StoreCredential(w)
  <2>1. UNCHANGED <<file, registered, tracked>>
    BY <1>10 DEF StoreCredential
  <2>2. <<Caller(w), Name(w), Kind(w)>> \in C
    <3>1. Caller(w) \in Users
      BY <1>1, <1>10 DEF StoreCredential, At, RequestFits, Course, Ended, Caller, Request, Owners
    <3>2. Name(w) \in Names /\ Kind(w) \in {"oauth", "key"}
      BY <1>1 DEF Name, Kind, Request, Keys
    <3> QED BY <3>1, <3>2
  <2>3. file' \in SUBSET Profile /\ NamesUnique' /\ creds' \in SUBSET C
    BY <1>1, <1>10, <2>1, <2>2 DEF NamesUnique, TypeOK, StoreCredential, CredentialOwner
  <2> QED BY <1>1, <1>10, <2>1, <2>3, StoreCredentialMoves, QuietFits DEF NothingLeft
<1>11. CASE DeleteCredential(w)
  <2>1. UNCHANGED <<file, registered, tracked>> /\ creds' \subseteq creds
    BY <1>11 DEF DeleteCredential
  <2>2. file' \in SUBSET Profile /\ NamesUnique' /\ creds' \in SUBSET C
    BY <1>1, <2>1 DEF NamesUnique, TypeOK
  <2> QED BY <1>1, <1>11, <2>1, <2>2, DeleteCredentialMoves, QuietFits DEF NothingLeft
<1>12. CASE Discover(w)
  <2>1. UNCHANGED <<file, registered, tracked, creds>>
    BY <1>12 DEF Discover, Stores
  <2> QED BY <1>1, <1>2, <1>12, <2>1, DiscoverMoves DEF NothingLeft
<1>13. ASSUME UNCHANGED <<file, creds>>, Ownership', TrackedAreRegistered',
              registered' \in SUBSET (Keys \X Tools), tracked' \in [Keys -> SUBSET Tools]
       PROVE  StoresFit'
  BY <1>1, <1>13 DEF StoresFit, TypeOK, NamesUnique
<1>14. CASE Pop(w)
  <2>1. /\ UNCHANGED <<file, creds>>
        /\ registered' \in SUBSET (Keys \X Tools) /\ tracked' \in [Keys -> SUBSET Tools]
    BY <1>1, <1>14 DEF Pop, TypeOK
  <2> QED BY <1>1, <1>13, <1>14, <2>1, PopKeeps DEF NothingLeft
<1>15. CASE Unregister(w)
  <2>1. /\ UNCHANGED <<file, creds>>
        /\ registered' \in SUBSET (Keys \X Tools) /\ tracked' \in [Keys -> SUBSET Tools]
    BY <1>1, <1>15 DEF Unregister, TypeOK
  <2> QED BY <1>1, <1>13, <1>15, <2>1, UnregisterKeeps DEF NothingLeft
<1>16. CASE Register(w)
  <2>1. Min(work[w].put) \in Tools /\ Key(w) \in Keys
    <3>1. work[w].put # {} /\ work[w].put \in SUBSET Tools /\ Tools \subseteq Nat
      BY <1>1, <1>16, ConnectionsAssumption DEF Register, At, RequestFits, Types, Request, Tools
    <3> QED BY <1>1, <3>1, MinIsIn DEF Key, Request
  <2>2. registered' = registered \/ registered' = registered \cup {<<Key(w), Min(work[w].put)>>}
    BY <1>16 DEF Register
  <2>3. registered' \in SUBSET (Keys \X Tools)
    BY <1>1, <2>1, <2>2 DEF TypeOK
  <2>4. UNCHANGED <<file, creds>> /\ tracked' \in [Keys -> SUBSET Tools]
    BY <1>1, <1>16 DEF Register, TypeOK
  <2> QED BY <1>1, <1>13, <1>16, <2>3, <2>4, RegisterKeeps DEF NothingLeft
<1>17. CASE Track(w)
  <2>1. /\ UNCHANGED <<file, creds>>
        /\ registered' \in SUBSET (Keys \X Tools) /\ tracked' \in [Keys -> SUBSET Tools]
    BY <1>1, <1>17 DEF Track, TypeOK, Request
  <2> QED BY <1>1, <1>13, <1>17, <2>1, TrackKeeps DEF NothingLeft
<1>18. CASE Answer(w)
  <2>1. UNCHANGED <<file, registered, tracked, creds>> /\ Done(w)
    BY <1>18 DEF Answer, Stores
  <2> QED BY <1>1, <1>2, <2>1, DoneMoves DEF NothingLeft, At
<1> QED
  BY <1>3, <1>4, <1>5, <1>6, <1>7, <1>8, <1>9, <1>10, <1>11, <1>12, <1>14, <1>15, <1>16, <1>17, <1>18 DEF Step

(* Only a request that begins finds its worker idle.                       *)
LEMMA OnlyBeginIsIdle ==
  ASSUME NEW w \in Workers, Step(w), ~(\E q \in Requests[w], k \in Keys : Begin(w, q, k))
  PROVE  ~At(w, "idle") /\ alone' \subseteq alone
<1>1. /\ ~At(w, "idle")
      /\ UNCHANGED alone \/ alone' = alone \ {w}
  BY DEF Step, At, Histories, Ended, ResolveOwn, ResolveGlobal, Consent, Load, Truncate, Write, Probe, StoreCredential,
         DeleteCredential, Discover, Pop, Unregister, Register, Track, Answer
<1> QED BY <1>1

(* Of the functions of store.py only owner makes a private connection      *)
(* global; the others change one for everybody only if it was.             *)
LEMMA GlobalsChange ==
  ASSUME TypeOK, NEW w \in Workers, RequestFits(work[w]), At(w, "load"),
         Globals(Changed(w)) # Globals(file)
  PROVE  MayManageGlobal(Caller(w))
<1> DEFINE call == work[w].call
           k    == Key(w)
           made == [key |-> k, auth |-> work[w].auth]
<1>1. /\ call \in {"add", "delete", "config", "owner"} /\ call # "none" /\ made.key = k
      /\ k[1] = None => MayManageGlobal(Caller(w))
      /\ call = "owner" => MayManageGlobal(Caller(w))
  BY DEF TypeOK, Request, RequestFits, Course, Allowed, Ended, At, Key, Caller
<1>2. SUFFICES ASSUME k[1] # None, call \in {"add", "delete", "config"}
               PROVE  Globals(Changed(w)) = Globals(file)
  BY <1>1
<1>3. \/ Changed(w) = file \cup {made}
      \/ Changed(w) = file \ Lookup(file, k)
      \/ Changed(w) = (file \ Lookup(file, k)) \cup {made}
  BY <1>2 DEF Changed, Without
<1> HIDE DEF made, k
<1> QED BY <1>1, <1>2, <1>3 DEF Globals, Lookup

(* What a request has loaded is what it had, nothing, or the file as its   *)
(* call changes it.                                                        *)
LEMMA LoadedMoves ==
  ASSUME TypeOK, NEW w \in Workers, RequestFits(work[w]), Step(w)
  PROVE  \/ work'[w].loaded \in {{}, work[w].loaded}
         \/ Load(w) /\ MayChange(w) /\ work'[w].loaded = Changed(w)
<1> DEFINE Kept == work'[w].loaded \in {{}, work[w].loaded}
<1>1. work[w] \in Request
  BY DEF TypeOK
<1>2. ASSUME NEW step, Go(w, step) PROVE Kept
  BY <1>1, <1>2 DEF Go, TypeOK, Request
<1>3. ASSUME NEW step, NEW k, Goes(w, step, k) PROVE Kept
  BY <1>1, <1>3 DEF Goes, TypeOK, Request
<1>4. ASSUME NEW f, NEW k, Call(w, f, k) PROVE Kept
  BY <1>1, <1>4 DEF Call, TypeOK, Request
<1>5. ASSUME Done(w) PROVE Kept
  BY <1>5 DEF Done, TypeOK, Idle
<1>6. ASSUME NEW how, End(w, how) PROVE Kept
  BY <1>6 DEF End, TypeOK, Idle
<1> HIDE DEF Kept
<1>7. ASSUME Fail(w) \/ Raise(w) PROVE Kept
  BY <1>6, <1>7 DEF Fail, Raise
<1>8. ASSUME NEW p, Found(w, p) PROVE Kept
  BY <1>3, <1>4, <1>7, <1>8 DEF Found
<1>9. ASSUME AfterDelete(w) PROVE Kept
  BY <1>3, <1>7, <1>9 DEF AfterDelete
<1>10. ASSUME GenerationFails(w) PROVE Kept
  BY <1>2, <1>4, <1>7, <1>10 DEF GenerationFails
<1>11. CASE \E q \in Requests[w], k \in Keys : Begin(w, q, k)
  <2>1. PICK q \in Requests[w], k \in Keys : Begin(w, q, k)
    BY <1>11
  <2> QED BY <2>1 DEF Begin, TypeOK, Idle
<1>12. CASE ResolveOwn(w) \/ ResolveGlobal(w)
  BY <1>2, <1>7, <1>8, <1>12 DEF ResolveOwn, ResolveGlobal, Kept
<1>13. CASE Consent(w)
  <2>1. CASE Fail(w)
    BY <1>7, <2>1 DEF Kept
  <2>2. CASE work' = [work EXCEPT ![w].op = "oauth_callback", ![w].step = "own"]
    BY <1>1, <2>2 DEF TypeOK, Request
  <2> QED BY <1>13, <2>1, <2>2 DEF Consent
<1>14. CASE Load(w)
  <2>1. CASE MayChange(w)
    BY <1>1, <1>14, <2>1 DEF Load, TypeOK, Request
  <2>2. CASE ~MayChange(w)
    <3>1. work[w].call \in {"add", "delete", "config", "owner"}
      BY <1>1, <1>14 DEF Load, At, Request, RequestFits, Course
    <3> QED BY <1>5, <1>7, <1>9, <1>14, <2>2, <3>1 DEF Load, Kept
  <2> QED BY <2>1, <2>2
<1>15. CASE Truncate(w)
  BY <1>2, <1>15 DEF Truncate, Kept
<1>16. CASE Write(w)
  <2>1. work[w].call \in {"add", "delete", "config", "owner"}
    BY <1>1, <1>16 DEF Write, At, Request, RequestFits, Course
  <2> QED BY <1>3, <1>5, <1>9, <1>16, <2>1 DEF Write, Kept
<1>17. CASE Probe(w)
  <2>1. CASE Go(w, "profile") \/ Call(w, "delete", Key(w)) \/ Raise(w)
    BY <1>2, <1>4, <1>7, <2>1 DEF Kept
  <2>2. CASE work' = [work EXCEPT ![w].step = "load", ![w].call = "config", ![w].auth = "oauth"]
    BY <1>1, <2>2 DEF TypeOK, Request
  <2> QED BY <1>17, <2>1, <2>2 DEF Probe
<1>18. CASE StoreCredential(w)
  BY <1>2, <1>7, <1>18 DEF StoreCredential, Kept
<1>19. CASE DeleteCredential(w)
  BY <1>5, <1>7, <1>19 DEF DeleteCredential, Kept
<1>20. CASE Discover(w)
  <2>1. CASE GenerationFails(w)
    BY <1>10, <2>1 DEF Kept
  <2>2. CASE \E T \in ToolLists : work' = [work EXCEPT ![w].step = "pop", ![w].put = T, ![w].auth = "open"]
    BY <1>1, <2>2 DEF TypeOK, Request
  <2> QED BY <1>20, <2>1, <2>2 DEF Discover
<1>21. ASSUME NEW types, TakeDown(w, types) PROVE Kept
  BY <1>1, <1>21 DEF TakeDown, TypeOK, Request, Kept
<1>22. CASE Pop(w) \/ Unregister(w)
  BY <1>21, <1>22 DEF Pop, Unregister, Kept
<1>23. CASE Register(w)
  <2>1. CASE GenerationFails(w)
    BY <1>10, <2>1 DEF Kept
  <2>2. CASE ~GenerationFails(w)
    BY <1>1, <1>23, <2>2 DEF Register, TypeOK, Request
  <2> QED BY <2>1, <2>2
<1>24. CASE Track(w) \/ Answer(w)
  BY <1>5, <1>24 DEF Track, Answer, Kept
<1> QED
  BY <1>11, <1>12, <1>13, <1>14, <1>15, <1>16, <1>17, <1>18, <1>19, <1>20, <1>22, <1>23, <1>24 DEF Step

Vouched ==
  /\ vouched \in SUBSET Profile
  /\ GlobalsVouched
  /\ \A w \in Workers : Globals(work[w].loaded) \subseteq vouched

LEMMA VouchedKeeps ==
  ASSUME IInv, NEW w \in Workers, Step(w), Moved(w)
  PROVE  Vouched'
<1>1. TypeOK /\ NamesUnique /\ RequestFits(work[w]) /\ Vouched
  BY DEF IInv, TypeOK, Vouched
<1>2. \A v \in Workers \ {w} : work'[v] = work[v]
  BY <1>1, OthersHold
<1>3. file' \in {file, {}, work[w].loaded}
  BY DEF Step, Begin, Stores, ResolveOwn, ResolveGlobal, Consent, Load, Truncate, Write, Probe, StoreCredential,
         DeleteCredential, Discover, Pop, Unregister, Register, Track, Answer
<1>4. ASSUME vouched \subseteq vouched', Globals(work'[w].loaded) \subseteq vouched', vouched' \in SUBSET Profile
      PROVE  Vouched'
  BY <1>1, <1>2, <1>3, <1>4 DEF Vouched, GlobalsVouched, Globals
<1>5. CASE Load(w) /\ MayChange(w)
  <2>1. Changed(w) \in SUBSET Profile /\ At(w, "load")
    <3>1. work[w].call \in {"add", "delete", "config", "owner"} /\ At(w, "load")
      BY <1>1, <1>5 DEF Load, At, TypeOK, Request, RequestFits, Course
    <3> QED BY <1>1, <1>5, <3>1, ChangedFits DEF TypeOK
  <2>2. CASE MayManageGlobal(Caller(w))
    <3>1. vouched' = vouched \cup Globals(Changed(w))
      BY <1>5, <2>2 DEF Load
    <3>2. work'[w].loaded = Changed(w)
      BY <1>1, <1>5 DEF Load, TypeOK, Request
    <3> QED BY <1>1, <1>4, <2>1, <3>1, <3>2 DEF Vouched, Globals
  <2>3. CASE ~MayManageGlobal(Caller(w))
    <3>1. vouched' = vouched
      BY <1>5, <2>3 DEF Load
    <3>2. work'[w].loaded = Changed(w)
      BY <1>1, <1>5 DEF Load, TypeOK, Request
    <3>3. Globals(Changed(w)) = Globals(file)
      BY <1>1, <2>1, <2>3, GlobalsChange
    <3> QED BY <1>1, <1>4, <3>1, <3>2, <3>3 DEF Vouched, GlobalsVouched
  <2> QED BY <2>2, <2>3
<1>6. CASE ~(Load(w) /\ MayChange(w))
  <2>1. work'[w].loaded \in {{}, work[w].loaded}
    BY <1>1, <1>6, LoadedMoves
  <2>2. vouched' = vouched
    BY <1>6 DEF Step, Begin, Histories, ResolveOwn, ResolveGlobal, Consent, Load, Truncate, Write, Probe,
         StoreCredential, DeleteCredential, Discover, Pop, Unregister, Register, Track, Answer
  <2> QED BY <1>1, <1>4, <2>1, <2>2 DEF Vouched, Globals
<1> QED BY <1>5, <1>6

LEMMA StepKeeps ==
  ASSUME IInv, NEW w \in Workers, Step(w)
  PROVE  IInv'
<1>1. TypeOK /\ Moved(w) /\ StoresFit' /\ NothingLeft(w)
  BY MovesFit DEF IInv
<1>2. \A v \in Workers \ {w} : work'[v] = work[v]
  BY <1>1, OthersHold
<1>3. work' \in [Workers -> Request] /\ \A v \in Workers : RequestFits(work'[v])
  BY <1>1, <1>2 DEF TypeOK, Moved, IInv
<1>4. alone' \subseteq Workers /\ Alone' /\ RefusedCreateUndone'
  <2>1. CASE \E q \in Requests[w], k \in Keys : Begin(w, q, k)
    <3>1. /\ alone' \subseteq {w}
          /\ w \in alone' => \A v \in Workers : At(v, "idle")
          /\ work'[w].step # "error"
      BY <1>1, <2>1, BeginMoves DEF Begin, IInv
    <3> QED BY <1>2, <3>1 DEF Alone, RefusedCreateUndone, At
  <2>2. CASE ~(\E q \in Requests[w], k \in Keys : Begin(w, q, k))
    <3>1. ~At(w, "idle") /\ alone' \subseteq alone
      BY <2>2, OnlyBeginIsIdle
    <3>2. alone \subseteq {w}
      BY <3>1 DEF IInv, Alone, TypeOK
    <3>3. Alone'
      BY <1>2, <3>1, <3>2 DEF Alone, IInv, At
    <3> QED BY <1>1, <3>1, <3>2, <3>3 DEF RefusedCreateUndone, NothingLeft, Op, Key, At
  <2> QED BY <2>1, <2>2
<1>5. Vouched'
  BY <1>1, VouchedKeeps
<1> QED BY <1>1, <1>3, <1>4, <1>5 DEF IInv, TypeOK, StoresFit, Vouched

(* After a restart nobody is in a request, and what was generated anew is  *)
(* tracked.                                                                *)
LEMMA RestartKeeps ==
  ASSUME IInv, Restart
  PROVE  IInv'
<1>1. TypeOK /\ NamesUnique /\ GlobalsVouched /\ UNCHANGED <<file, creds, vouched>> /\ alone' = {}
  BY DEF IInv, Restart
<1>2. PICK S \in SUBSET {p.key : p \in {q \in file : Discoverable(q)}} : \E T \in [S -> ToolLists] :
        /\ tracked' = [k \in Keys |-> IF k \in S THEN T[k] ELSE {}]
        /\ registered' = UNION {{<<k, t>> : t \in T[k]} : k \in S}
  BY DEF Restart
<1>3. PICK T \in [S -> ToolLists] :
        /\ tracked' = [k \in Keys |-> IF k \in S THEN T[k] ELSE {}]
        /\ registered' = UNION {{<<k, t>> : t \in T[k]} : k \in S}
  BY <1>2
<1>4. S \subseteq Keys /\ \A k \in S : T[k] \in SUBSET Tools
  BY <1>1 DEF TypeOK, Profile, Tools
<1>5. tracked' \in [Keys -> SUBSET Tools] /\ registered' \in SUBSET (Keys \X Tools)
  BY <1>3, <1>4
<1>6. TrackedAreRegistered'
  BY <1>3 DEF TrackedAreRegistered
<1>7. /\ work' = [w \in Workers |-> Idle]
      /\ \A w \in Workers : work'[w] = Idle /\ RequestFits(work'[w])
      /\ work' \in [Workers -> Request]
  BY IdleFits DEF Restart
<1>8. \A w \in Workers : Held(w)' = {}
  BY <1>7, IdleFits DEF Held, At
<1>9. Ownership'
  BY <1>8 DEF Ownership
<1>10. \A w \in Workers : Globals(work'[w].loaded) \subseteq vouched'
  BY <1>7 DEF Idle, Globals
<1> QED
  BY <1>1, <1>5, <1>6, <1>7, <1>9, <1>10 DEF IInv, TypeOK, NamesUnique, Alone, RefusedCreateUndone, GlobalsVouched

LEMMA InitFits == Init => IInv
<1> SUFFICES ASSUME Init PROVE IInv
  OBVIOUS
<1>1. /\ \A w \in Workers : work[w] = Idle /\ RequestFits(work[w])
      /\ work \in [Workers -> Request]
  BY IdleFits DEF Init
<1>2. \A w \in Workers : Held(w) = {}
  BY <1>1, IdleFits DEF Held, At
<1>3. Ownership /\ TrackedAreRegistered
  BY <1>2 DEF Ownership, TrackedAreRegistered, Init
<1>4. GlobalsVouched /\ \A w \in Workers : Globals(work[w].loaded) \subseteq vouched
  BY <1>1 DEF Init, Idle, Globals, GlobalsVouched
<1> QED BY <1>1, <1>3, <1>4 DEF Init, IInv, TypeOK, NamesUnique, Alone, RefusedCreateUndone

LEMMA StutterKeeps == IInv /\ UNCHANGED vars => IInv'
  BY DEF vars, IInv, TypeOK, NamesUnique, Ownership, TrackedAreRegistered, Alone, RefusedCreateUndone,
         GlobalsVouched, Held, At, Key, Op

LEMMA NextKeeps == IInv /\ [Next]_vars => IInv'
  BY StepKeeps, RestartKeeps, StutterKeeps DEF Next

-----------------------------------------------------------------------------
(* Connections.tla, IInv: every request keeps to its course, what it is    *)
(* about to write is sound, and every registered type that somebody        *)
(* answers for has one owner.                                              *)
THEOREM ConnectionsInvariant == Spec => []IInv
<1>1. Init => IInv
  BY InitFits
<1>2. IInv /\ [Next]_vars => IInv'
  BY NextKeeps
<1> QED BY <1>1, <1>2, PTL DEF Spec

(* store.py: however the writers of the file overlap and whatever is       *)
(* promoted, the file has at most one connection for each owner and name.  *)
THEOREM ConnectionsUnique == Spec => []NamesUnique
<1>1. IInv => NamesUnique
  BY DEF IInv
<1> QED BY <1>1, ConnectionsInvariant, PTL

(* generated_nodes.py: what a finished generation left for a connection    *)
(* stays in the registry until its entry is taken, also while generations  *)
(* and deletions of the same connection overlap.                           *)
THEOREM ConnectionsTracked == Spec => []TrackedAreRegistered
<1>1. IInv => TrackedAreRegistered
  BY DEF IInv
<1> QED BY <1>1, ConnectionsInvariant, PTL

(* app.py, create_connection: a creation that the endpoint refuses at any  *)
(* step leaves no connection, when no other request ran meanwhile; one     *)
(* that ends in an exception nobody catches is not among them.             *)
THEOREM ConnectionsUndone == Spec => []RefusedCreateUndone
<1>1. IInv => RefusedCreateUndone
  BY DEF IInv
<1> QED BY <1>1, ConnectionsInvariant, PTL

(* app.py, spec-023: every global connection of the file was put there, in *)
(* just this form, by a caller who may manage them, however the writers of *)
(* the file overlap.                                                       *)
THEOREM ConnectionsGlobals == Spec => []GlobalsVouched
<1>1. IInv => GlobalsVouched
  BY DEF IInv
<1> QED BY <1>1, ConnectionsInvariant, PTL
=============================================================================
