----------------------------- MODULE Connections -----------------------------
(***************************************************************************)
(* Saved connections and the node types generated from MCP servers:        *)
(* backend/connections/store.py (one file, loaded whole, changed and       *)
(* written back, with no lock), backend/mcp/generated_nodes.py (the        *)
(* process-wide registry of node types and what each connection put in),   *)
(* the stores of tokens and API keys, and the requests of backend/api/     *)
(* app.py over them.                                                       *)
(*                                                                         *)
(* FastAPI runs requests in threads, so each access to a store is a step.  *)
(* Of a profile's config the model keeps what the code branches on:        *)
(* whether a caller needs an OAuth token or an API key of their own.       *)
(***************************************************************************)
EXTENDS Integers, FiniteSets, FiniteSetsExt

CONSTANTS
  Names,      \* connection names
  Users,      \* user ids
  Admins,     \* users whose role is admin
  Workers,    \* request threads
  Requests,   \* what each worker is asked: endpoint, caller (None: the shared API key), kind of config
  ToolLists,  \* what tools/list may return: sets of tools, a tool is its place in the list
  None        \* the owner of a global connection

Owners == Users \cup {None}
Keys   == Owners \X Names
Tools  == UNION ToolLists
Auths  == {"open", "oauth", "key"}

Endpoints == {"create", "delete", "update", "promote", "refresh", "bootstrap", "api_key", "oauth_start"}

ASSUME ConnectionsAssumption ==
  /\ Admins \subseteq Users /\ None \notin Users /\ Names # {}
  /\ ToolLists \subseteq (SUBSET Nat) \ {{}}
  /\ Requests \in [Workers -> SUBSET [op : Endpoints, caller : Owners, auth : Auths]]

Profile == [key : Keys, auth : Auths]

VARIABLES
  file,        \* connections.json; empty while it is rewritten
  registered,  \* the generated types in the registry, <<key, tool>>
  tracked,     \* _generated_types_by_connection
  creds,       \* stored tokens and API keys, <<user, name, kind>>
  work,        \* the request each worker is in
  alone,       \* history: creations that have had the stores to themselves
  vouched      \* history: the global profiles that one who may manage them put in

vars == <<file, registered, tracked, creds, work, alone, vouched>>

(* call: the function of store.py under way, loaded: the profiles it has;  *)
(* took: types it popped, drop: those still to unregister; put, made:      *)
(* tools to register, registered.                                          *)
Idle == [op |-> "none", step |-> "idle", caller |-> None, key |-> CHOOSE k \in Keys : TRUE,
         auth |-> "open", call |-> "none", loaded |-> {}, took |-> {}, drop |-> {}, put |-> {}, made |-> {}]

Init ==
  /\ file = {} /\ registered = {} /\ creds = {}
  /\ tracked = [k \in Keys |-> {}]
  /\ work = [w \in Workers |-> Idle]
  /\ alone = {} /\ vouched = {}

(* get_connection: the profile of exactly this owner and name. *)
Lookup(profiles, k) == {p \in profiles : p.key = k}

At(w, step) == work[w].step = step
Op(w)       == work[w].op
Caller(w)   == work[w].caller
Key(w)      == work[w].key
Name(w)     == work[w].key[2]
Global(w)   == <<None, Name(w)>>

(* _require_admin lets the shared key through. *)
MayManageGlobal(c) == c = None \/ c \in Admins

HasCredential(user, n, auth) == auth = "open" \/ (user # None /\ <<user, n, auth>> \in creds)

Go(w, step) == work' = [work EXCEPT ![w].step = step]

Goes(w, step, k) ==
  work' = [work EXCEPT ![w].step = step, ![w].key = k, ![w].call = "none", ![w].loaded = {}]

Done(w) == work' = [work EXCEPT ![w] = Idle]

(* What a failed request was about is kept until it is answered.           *)
End(w, how) ==
  work' = [work EXCEPT ![w] = [Idle EXCEPT !.step = how, !.op = Op(w), !.key = Key(w),
                                      !.took = work[w].took]]

(* The endpoint refuses (HTTPException, _error_redirect), or an exception  *)
(* that it does not catch leaves it: the answer is a 500.                  *)
Fail(w)  == End(w, "error")
Raise(w) == End(w, "raised")

Ended == {"error", "raised"}

Call(w, function, k) ==
  work' = [work EXCEPT ![w].step = "load", ![w].call = function, ![w].key = k]

Stores    == <<file, registered, tracked, creds>>
Histories == <<alone, vouched>>

-----------------------------------------------------------------------------
(* A request arrives; scope="global" needs an admin. *)
Begin(w, q, k) ==
  /\ At(w, "idle")
  /\ k[1] = q.caller \/ (q.op = "create" /\ k[1] = None /\ MayManageGlobal(q.caller))
  /\ q.op \in {"oauth_start", "api_key", "bootstrap"} => q.caller # None
  /\ q.op \in {"promote", "bootstrap"} => MayManageGlobal(q.caller)
  /\ work' = [work EXCEPT ![w] = [Idle EXCEPT !.op = q.op, !.caller = q.caller, !.key = k, !.auth = q.auth,
                !.call = IF q.op = "create" THEN "add" ELSE "none",
                !.step = CASE q.op = "create" -> "load" [] q.op = "bootstrap" -> "global" [] OTHER -> "own"]]
  /\ alone' = IF q.op = "create" /\ \A v \in Workers : At(v, "idle") THEN {w} ELSE {}
  /\ UNCHANGED <<Stores, vouched>>

Answer(w) ==
  /\ work[w].step \in Ended
  /\ Done(w)
  /\ alone' = alone \ {w}
  /\ UNCHANGED <<Stores, vouched>>

(* Mutant: whoever resolves a global connection may change it. *)
AnyoneMayTouch(w, p) == TRUE

(* spec-023: a global profile is changed and deleted by admins only.       *)
MayTouch(w, p) == p.key[1] # None \/ MayManageGlobal(Caller(w))

(* What a request does with the profile p it resolved. *)
Found(w, p) ==
  CASE Op(w) = "delete" /\ MayTouch(w, p) -> Call(w, "delete", p.key)
    [] Op(w) = "update" /\ MayTouch(w, p) -> Call(w, "config", p.key)
    [] Op(w) = "promote" -> Call(w, "owner", p.key)
    [] Op(w) = "refresh" -> Goes(w, "profile", p.key)
    [] Op(w) = "bootstrap" /\ HasCredential(Caller(w), Name(w), p.auth) -> Goes(w, "profile", p.key)
    [] Op(w) = "api_key" /\ p.auth = "key" -> Goes(w, "store", p.key)
    [] Op(w) = "oauth_start" /\ p.auth = "oauth" -> Goes(w, "consent", Key(w))
    [] Op(w) = "oauth_callback" -> Goes(w, "store", p.key)
    [] OTHER -> Fail(w)

(* resolve_connection_for_user: the caller's own connection, else the      *)
(* global one.  The file is read again in between.                         *)
ResolveOwn(w) ==
  /\ At(w, "own")
  /\ IF Lookup(file, Key(w)) # {} THEN \E p \in Lookup(file, Key(w)) : Found(w, p)
     ELSE IF Op(w) = "promote" \/ Caller(w) = None THEN Fail(w) ELSE Go(w, "global")
  /\ UNCHANGED <<Stores, Histories>>

ResolveGlobal(w) ==
  /\ At(w, "global")
  /\ IF Lookup(file, Global(w)) # {}
     THEN \E p \in Lookup(file, Global(w)) : Found(w, p)
     ELSE Fail(w)
  /\ UNCHANGED <<Stores, Histories>>

(* The user comes back from the provider, or does not. *)
Consent(w) ==
  /\ At(w, "consent")
  /\ \/ work' = [work EXCEPT ![w].op = "oauth_callback", ![w].step = "own"]
     \/ Fail(w)
  /\ UNCHANGED <<Stores, Histories>>

-----------------------------------------------------------------------------
(* store.py: each function loads the file, checks, and writes it back.     *)

Without(profiles, w) == profiles \ Lookup(profiles, Key(w))

Changed(w) ==
  CASE work[w].call = "add"    -> file \cup {[key |-> Key(w), auth |-> work[w].auth]}
    [] work[w].call = "delete" -> Without(file, w)
    [] work[w].call = "config" -> (file \ Lookup(file, Key(w))) \cup {[key |-> Key(w), auth |-> work[w].auth]}
    [] work[w].call = "owner"  -> (file \ Lookup(file, Key(w))) \cup
                                  {[p EXCEPT !.key = Global(w)] : p \in Lookup(file, Key(w))}

(* Mutant: add_connection does not look for a duplicate. *)
UncheckedAdd(w) ==
  /\ work[w].call # "add" => Lookup(file, Key(w)) # {}
  /\ work[w].call = "owner" => Lookup(file, Global(w)) = {}

MayChange(w) ==
  /\ IF work[w].call = "add" THEN Lookup(file, Key(w)) = {} ELSE Lookup(file, Key(w)) # {}
  /\ work[w].call = "owner" => Lookup(file, Global(w)) = {}

(* delete_connection_endpoint does not look at what delete_connection      *)
(* returned; update_connection_config returning None fails an assertion.   *)
AfterDelete(w) == IF Op(w) = "create" THEN Fail(w) ELSE Goes(w, "pop", Key(w))

Globals(profiles) == {p \in profiles : p.key[1] = None}

Load(w) ==
  /\ At(w, "load")
  /\ IF MayChange(w) THEN work' = [work EXCEPT ![w].step = "truncate", ![w].loaded = Changed(w)]
     ELSE CASE work[w].call = "add" -> Done(w)
            [] work[w].call = "delete" -> AfterDelete(w)
            [] work[w].call = "config" -> Raise(w)
            [] work[w].call = "owner" -> Fail(w)
  /\ vouched' = vouched \cup
       (IF MayChange(w) /\ MayManageGlobal(Caller(w)) THEN Globals(Changed(w)) ELSE {})
  /\ UNCHANGED <<Stores, alone>>

(* write_bytes opens the file, which empties it, and writes. *)
Truncate(w) ==
  /\ At(w, "truncate")
  /\ file' = {}
  /\ Go(w, "write")
  /\ UNCHANGED <<registered, tracked, creds, Histories>>

Write(w) ==
  /\ At(w, "write")
  /\ file' = work[w].loaded
  /\ CASE work[w].call = "config" \/ (work[w].call = "add" /\ work[w].auth = "key") -> Done(w)
       [] work[w].call = "add" /\ work[w].auth # "key" ->
              Goes(w, IF work[w].auth = "open" THEN "probe" ELSE "profile", Key(w))
       [] work[w].call = "owner" -> Goes(w, "profile", Global(w))
       [] work[w].call = "delete" -> AfterDelete(w)
  /\ UNCHANGED <<registered, tracked, creds, Histories>>

(* An API key is asked for before anything is generated.  Otherwise        *)
(* create_connection asks the server: one that answers needs no token; one *)
(* with OAuth metadata gets a client registered, and its types are         *)
(* generated when a user has connected.  Discovery and registration refuse *)
(* with McpOAuthError, which rolls the creation back; an error of the      *)
(* network itself (httpx) is another exception, which nobody catches.      *)
Probe(w) ==
  /\ At(w, "probe")
  /\ \/ Go(w, "profile")
     \/ work' = [work EXCEPT ![w].step = "load", ![w].call = "config", ![w].auth = "oauth"]
     \/ Call(w, "delete", Key(w))
     \/ Raise(w)
  /\ UNCHANGED <<Stores, Histories>>

-----------------------------------------------------------------------------
(* Tokens and API keys. *)

Kind(w) == IF Op(w) = "api_key" THEN "key" ELSE "oauth"

CredentialOwner(w) == Caller(w)

(* The exchange of the code may fail; saving a key does not. *)
StoreCredential(w) ==
  /\ At(w, "store")
  /\ \/ /\ creds' = creds \cup {<<CredentialOwner(w), Name(w), Kind(w)>>}
        /\ Go(w, "profile")
     \/ Kind(w) = "oauth" /\ Fail(w) /\ UNCHANGED creds
  /\ UNCHANGED <<file, registered, tracked, Histories>>

(* After a failed discovery a key is deleted, and a token is with its      *)
(* connection when that was private.                                       *)
DeleteCredential(w) ==
  /\ At(w, "forget")
  /\ creds' = creds \ {IF Op(w) = "api_key" THEN <<Caller(w), Name(w), "key">>
                        ELSE <<Key(w)[1], Name(w), "oauth">>}
  /\ IF Op(w) = "api_key" THEN Fail(w) ELSE Done(w)
  /\ UNCHANGED <<file, registered, tracked, Histories>>

-----------------------------------------------------------------------------
(* generate_node_types_for_connection *)

(* Mutant: the rollback is left to the caller. *)
NotRolledBack(w) == Fail(w)

GenerationFails(w) ==
  CASE Op(w) = "create"  -> Call(w, "delete", Key(w))
    [] Op(w) = "api_key" -> Go(w, "forget")
    [] OTHER -> Fail(w)

DiscoveryUser(w) == IF Op(w) = "create" \/ Caller(w) = None THEN Key(w)[1] ELSE Caller(w)

(* The profile is read again; tools/list, a call over the network, comes   *)
(* before anything is taken down.                                          *)
Discover(w) ==
  /\ At(w, "profile")
  /\ \/ /\ \E p \in Lookup(file, Key(w)) : HasCredential(DiscoveryUser(w), Name(w), p.auth)
        /\ \E T \in ToolLists : work' = [work EXCEPT ![w].step = "pop", ![w].put = T, ![w].auth = "open"]
     \/ GenerationFails(w)
  /\ UNCHANGED <<Stores, Histories>>

Changing(w) == work[w].step \in {"unregister", "register", "track"}

Popped(w) == {Key(w)} \X tracked[Key(w)]

(* unregister_for_connection: the entry is popped, then its types go, one  *)
(* after another; a deletion then forgets the token of a private owner.    *)
TakeDown(w, types) ==
  LET step == CASE types # {} -> "unregister"
                [] types = {} /\ Op(w) # "delete" -> "register"
                [] types = {} /\ Op(w) = "delete" -> "forget"
  IN work' = [work EXCEPT ![w].step = step, ![w].drop = types,
                          ![w].took = IF At(w, "pop") THEN types ELSE @]

Pop(w) ==
  /\ At(w, "pop")
  /\ TakeDown(w, Popped(w))
  /\ tracked' = [tracked EXCEPT ![Key(w)] = {}]
  /\ UNCHANGED <<file, registered, creds, Histories>>

Unregister(w) ==
  /\ At(w, "unregister")
  /\ LET type == CHOOSE x \in work[w].drop : \A y \in work[w].drop : x[2] <= y[2] IN
       /\ registered' = registered \ {type}
       /\ TakeDown(w, work[w].drop \ {type})
  /\ UNCHANGED <<file, tracked, creds, Histories>>

(* Mutant: a type of the same name is replaced. *)
Replaces(k, t) == FALSE

IsDuplicate(k, t) == <<k, t>> \in registered

Register(w) ==
  /\ At(w, "register")
  /\ LET t == Min(work[w].put) IN
       IF IsDuplicate(Key(w), t)
       THEN GenerationFails(w) /\ UNCHANGED registered
       ELSE /\ registered' = registered \cup {<<Key(w), t>>}
            /\ work' = [work EXCEPT ![w].put = @ \ {t}, ![w].made = @ \cup {t},
                                    ![w].step = IF work[w].put = {t} THEN "track" ELSE "register"]
  /\ UNCHANGED <<file, tracked, creds, Histories>>

Track(w) ==
  /\ At(w, "track")
  /\ tracked' = [tracked EXCEPT ![Key(w)] = work[w].made]
  /\ Done(w)
  /\ UNCHANGED <<file, registered, creds, Histories>>

-----------------------------------------------------------------------------
(* regenerate_all_on_startup: one profile after another, before the first  *)
(* request; a global one with the credential of any user.                  *)
Discoverable(p) ==
  IF p.key[1] # None THEN HasCredential(p.key[1], p.key[2], p.auth)
  ELSE p.auth = "open" \/ \E u \in Users : <<u, p.key[2], p.auth>> \in creds

(* The process dies and another one starts. *)
Restart ==
  /\ \E S \in SUBSET {p.key : p \in {q \in file : Discoverable(q)}} : \E T \in [S -> ToolLists] :
       /\ tracked' = [k \in Keys |-> IF k \in S THEN T[k] ELSE {}]
       /\ registered' = UNION {{<<k, t>> : t \in T[k]} : k \in S}
  /\ work' = [w \in Workers |-> Idle]
  /\ alone' = {}
  /\ UNCHANGED <<file, creds, vouched>>

Step(w) ==
  \/ \E q \in Requests[w], k \in Keys : Begin(w, q, k)
  \/ ResolveOwn(w) \/ ResolveGlobal(w) \/ Consent(w)
  \/ Load(w) \/ Truncate(w) \/ Write(w) \/ Probe(w)
  \/ StoreCredential(w) \/ DeleteCredential(w)
  \/ Discover(w) \/ Pop(w) \/ Unregister(w) \/ Register(w) \/ Track(w)
  \/ Answer(w)

Next == (\E w \in Workers : Step(w)) \/ Restart

Spec == Init /\ [][Next]_vars

-----------------------------------------------------------------------------
(* Properties *)

Steps == {"idle", "own", "global", "consent", "load", "truncate", "write", "probe", "store", "forget",
          "profile", "pop", "unregister", "register", "track", "error", "raised"}

Ops == Endpoints \cup {"none", "oauth_callback"}

Request == [op : Ops, step : Steps, caller : Owners, key : Keys, auth : Auths,
            call : {"none", "add", "delete", "config", "owner"}, loaded : SUBSET Profile,
            took : SUBSET (Keys \X Tools), drop : SUBSET (Keys \X Tools), put : SUBSET Tools, made : SUBSET Tools]

TypeOK ==
  /\ file \in SUBSET Profile
  /\ registered \in SUBSET (Keys \X Tools)
  /\ tracked \in [Keys -> SUBSET Tools]
  /\ creds \in SUBSET (Users \X Names \X {"oauth", "key"})
  /\ work \in [Workers -> Request]
  /\ alone \in SUBSET Workers
  /\ vouched \in SUBSET Profile

(* store.py: at most one connection for each owner and name, whatever      *)
(* writers of the file overlap and whatever is promoted.                   *)
NamesUnique == \A p, q \in file : p.key = q.key => p = q

(* generated_nodes.py, _generated_types_by_connection: what a finished     *)
(* generation left for a connection stays in the registry until someone    *)
(* takes the entry, also while other refreshes and deletions of the same   *)
(* connection are half way: register() refusing duplicates is what keeps   *)
(* them from undoing each other.                                           *)
TrackedAreRegistered == \A k \in Keys : \A t \in tracked[k] : <<k, t>> \in registered

(* app.py, refresh_capabilities: a failed refresh leaves the previously    *)
(* generated set in place.  Asked when no other request is half way with   *)
(* the types of this connection.                                           *)
FailedRefreshKeepsTypes ==
  \A w \in Workers :
    Op(w) = "refresh" /\ At(w, "error") /\ (\A v \in Workers : Changing(v) => Key(v) # Key(w))
      => work[w].took \subseteq registered

(* app.py, create_connection: a creation that the endpoint refuses is      *)
(* rolled back, at whichever step: nothing is saved.  One that ends in an  *)
(* exception it does not catch is another matter (the next property).      *)
RefusedCreateUndone ==
  \A w \in alone : Op(w) = "create" /\ At(w, "error") => Lookup(file, Key(w)) = {}

(* The same of every creation that fails, which the code does not give: a  *)
(* network error in discovery or registration leaves the connection saved. *)
FailedCreateUndone ==
  \A w \in alone : Op(w) = "create" /\ work[w].step \in Ended => Lookup(file, Key(w)) = {}

(* app.py, spec-023: every global connection in the file is one that a     *)
(* caller who may manage them put there with just this config, however     *)
(* the writers of the file overlap and also where a name stands for a      *)
(* caller's own connection or a global one.                                *)
GlobalsVouched == Globals(file) \subseteq vouched

-----------------------------------------------------------------------------
(* The inductive invariant behind the safety properties above. *)

(* What a request calls and has, and where it can be with it.              *)
Course(q) ==
  /\ q.call # "none" <=> q.step \in {"load", "truncate", "write"}
  /\ q.call = "add" => q.op = "create"
  /\ q.call = "delete" => q.op \in {"create", "delete"}
  /\ q.call = "config" => q.op \in {"create", "update"}
  /\ q.call = "owner" => q.op = "promote"
  /\ q.step = "probe" => q.op = "create"
  /\ q.op = "create" => q.step \notin {"idle", "own", "global", "consent", "store", "forget"}
  /\ q.step = "store" => q.op \in {"api_key", "oauth_callback"}
  /\ q.step = "consent" => q.op = "oauth_start"
  /\ q.op \in {"oauth_start", "oauth_callback", "api_key", "bootstrap"} /\ q.step \notin Ended => q.caller # None

(* Who may change a global connection has been asked before it is loaded.  *)
Allowed(q) ==
  /\ q.call # "none" \/ (q.op = "create" /\ q.step \notin Ended) =>
       (q.key[1] = None => MayManageGlobal(q.caller))
  /\ q.op = "promote" /\ q.step \notin Ended => MayManageGlobal(q.caller)

Unique(profiles) == \A p, q \in profiles : p.key = q.key => p = q

Undone(q) ==
  q.op = "create" /\ q.call = "delete" /\ q.step \in {"truncate", "write"} => Lookup(q.loaded, q.key) = {}

(* The types it takes down and puts in. *)
Types(q) ==
  /\ q.made # {} => \/ q.step \in {"register", "track", "forget"}
                    \/ q.op = "create" /\ q.call = "delete"
  /\ q.step = "unregister" => q.drop # {} /\ q.drop \subseteq {q.key} \X Tools
  /\ (q.step \in {"pop", "unregister"} /\ q.op # "delete") \/ q.step = "register" => q.put # {}

RequestFits(q) == Course(q) /\ Allowed(q) /\ Unique(q.loaded) /\ Undone(q) /\ Types(q)

(* The registered types a request is answerable for. *)
Held(w) ==
  CASE At(w, "unregister") -> work[w].drop
    [] work[w].step \in {"register", "track"} -> {Key(w)} \X work[w].made
    [] OTHER -> {}

(* A registered type is held by one request, or tracked, or by nobody.     *)
Ownership ==
  /\ \A w \in Workers : Held(w) \subseteq registered
  /\ \A v, w \in Workers : v # w => Held(v) \cap Held(w) = {}
  /\ \A w \in Workers, k \in Keys : Held(w) \cap ({k} \X tracked[k]) = {}

Alone == \A w \in alone : \A v \in Workers \ {w} : At(v, "idle")

IInv ==
  /\ TypeOK
  /\ \A w \in Workers : RequestFits(work[w])
  /\ NamesUnique /\ Ownership /\ TrackedAreRegistered
  /\ Alone /\ RefusedCreateUndone
  /\ GlobalsVouched /\ \A w \in Workers : Globals(work[w].loaded) \subseteq vouched
=============================================================================
