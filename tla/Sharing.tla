------------------------------- MODULE Sharing -------------------------------
(***************************************************************************)
(* Whose connections a graph runs with.  One saved graph: its row, the     *)
(* connection slots its author declared, the connections each runner       *)
(* mapped them to, its entry in the registry of active graphs, and the     *)
(* runs that POST /runs, POST .../invoke and triggers start of it.  Every  *)
(* table is keyed by the graph's id, so other graphs cannot interfere.     *)
(*                                                                         *)
(* A route is a sequence of accesses to these stores with nothing to hold  *)
(* them together; each is a step here.  What Activation and Scheduler      *)
(* model (triggers and webhooks, the schedule of a run) is left out.       *)
(***************************************************************************)
CONSTANTS
  Users,       \* signed-in people
  Names,       \* names of connections, and so of slots
  Connected,   \* the connections there are at first
  Changing,    \* those that come and go
  Bodies,      \* what the graph specs refer to
  Workers,     \* threads that serve requests
  Requests,    \* the requests each of them serves
  RunIds,      \* runs, at most one each
  Faults,      \* what may go wrong: "crash"
  None         \* no user (the shared key, a global connection), nothing

Owners == Users \cup {None}
Profiles == Names \X Owners    \* a connection: its name and its owner

(* refs: names in node configs; gens: connections whose generated node     *)
(* types the graph uses.                                                   *)
BodyRecord == [refs : SUBSET Names, gens : SUBSET Profiles]

Editing == {"post", "put", "delete", "map"}

(* decl: the slots a save declares, None if it leaves them alone.          *)
RequestRecord ==
  [kind : Editing \cup {"run", "invoke", "activate", "deactivate", "fire"},
   user : Owners, body : Bodies \cup {None}, sharing : {"private", "shared", None},
   decl : (SUBSET Names) \cup {None}, slot : Names \cup {None}, name : Names \cup {None}]

AllRequests == UNION {Requests[w] : w \in Workers}

Via == [Names -> Names \cup {None}]
RowRecord == [by : Owners, body : Bodies, sharing : {"private", "shared"}, active : BOOLEAN]
Entry == [by : Owners, body : Bodies]
RunRecord ==
  [by : Owners, body : Bodies, via : Via, declared : SUBSET Names,
   bound : [Names -> Profiles \cup {None}], left : SUBSET Profiles,
   used : SUBSET (Names \X Profiles), status : {"created", "running", "rejected"}, settled : BOOLEAN]

ASSUME SharingAssumption ==
  /\ None \notin Users \cup Names \cup Bodies \cup Profiles
  /\ None \notin RequestRecord \cup RowRecord \cup Entry \cup RunRecord
  /\ Connected \subseteq Profiles /\ Changing \subseteq Profiles
  /\ Bodies \subseteq BodyRecord
  /\ Requests \in [Workers -> SUBSET RequestRecord]
  /\ \A q \in AllRequests :
       /\ q.kind \in {"post", "run", "activate"} => q.body # None
       /\ q.kind = "post" => q.sharing # None /\ q.decl # None
       /\ q.kind = "map" => q.user # None /\ q.slot # None /\ q.name # None

VARIABLES
  up,          \* the server runs
  conns,       \* connections.json
  row,         \* graphs_store
  slots,       \* graph_connection_slots
  mapping,     \* user_slot_mappings
  active,      \* trigger_registry
  op,          \* the request each worker serves
  runs,        \* the runs that were accepted
  overlapped,  \* history: two edits overlapped, or a crash cut one off, since the last clean slate
  activator    \* history: who activated the graph last

tables == <<row, slots, mapping>>
vars == <<up, conns, tables, active, op, runs, overlapped, activator>>

Unmapped == [n \in Names |-> None]
Row(by, body, sharing, isActive) ==
  [by |-> by, body |-> body, sharing |-> sharing, active |-> isActive]

(* row: what was read of it; as, body: whose run of what; declared: the    *)
(* slots the runner had to map; via: slot_mappings; bound: the connection  *)
(* of each name.                                                           *)
Idle == [q |-> None, step |-> "idle", row |-> None, as |-> None, body |-> None,
         declared |-> {}, via |-> Unmapped, bound |-> Unmapped]

Init ==
  /\ up = TRUE
  /\ conns = Connected
  /\ row = None /\ slots = {} /\ mapping = [u \in Users |-> Unmapped]
  /\ active = None
  /\ op = [w \in Workers |-> Idle]
  /\ runs = [r \in RunIds |-> None]
  /\ overlapped = FALSE /\ activator = None

-----------------------------------------------------------------------------
(* Resolution of names *)

(* A user's own connection of that name, or else the global one.           *)
ResolveForUser(name, user) ==
  CASE user # None /\ <<name, user>> \in conns -> <<name, user>>
    [] (user = None \/ <<name, user>> \notin conns) /\ <<name, None>> \in conns -> <<name, None>>
    [] OTHER -> None

SlotAware(name, user, via) ==
  ResolveForUser(IF via[name] # None THEN via[name] ELSE name, user)

Missing(body, user, via) == {n \in body.refs : SlotAware(n, user, via) = None}

Bound(body, user, via) ==
  [n \in Names |-> IF n \in body.refs THEN SlotAware(n, user, via) ELSE None]

(* Mutant: it keeps to the connection it was generated for. *)
AuthorsTarget(run, g) == g

(* Where the node of a generated type finds its connection while it runs.  *)
GeneratedTarget(run, g) ==
  IF run.by # None /\ run.by # g[2] /\ run.via[g[1]] # None
  THEN <<run.via[g[1]], run.by>>
  ELSE g

-----------------------------------------------------------------------------
(* Requests *)

BusyEditing(w) == op[w].q # None /\ op[w].q.kind \in Editing
OthersEdit(w) == \E v \in Workers \ {w} : BusyEditing(v)

FirstStep(kind) ==
  CASE kind = "post" -> "insert"       [] kind = "put" -> "read"
    [] kind = "delete" -> "disarm"     [] kind = "map" -> "checkShared"
    [] kind = "run" -> "checkRow"      [] kind = "invoke" -> "load"
    [] kind = "activate" -> "validate" [] kind = "deactivate" -> "disarm"
    [] kind = "fire" -> "getActive"

(* POST /graphs makes up an id nothing was ever stored under.              *)
FreshId ==
  /\ row = None /\ active = None /\ slots = {} /\ mapping = [u \in Users |-> Unmapped]
  /\ \A w \in Workers : op[w] = Idle

Receive(w, q) ==
  /\ up
  /\ op[w] = Idle
  /\ q.kind = "post" => FreshId
  /\ op' = [op EXCEPT ![w] = [Idle EXCEPT !.q = q, !.step = FirstStep(q.kind),
                                          !.as = q.user, !.body = q.body]]
  /\ overlapped' = (overlapped \/ (q.kind \in Editing /\ OthersEdit(w)))
  /\ UNCHANGED <<up, conns, tables, active, runs, activator>>

Goto(w, step) == op' = [op EXCEPT ![w].step = step]
Finish(w) == op' = [op EXCEPT ![w] = Idle]
Test(w, ok, step) == IF ok THEN Goto(w, step) ELSE Finish(w)

(* Steps that touch the tables, and steps that do not.                     *)
UNTOUCHED_BY_EDITS == UNCHANGED <<up, conns, active, runs, activator>>
UNTOUCHED_BY_READS == UNCHANGED <<up, conns, tables, active, runs, overlapped, activator>>

InsertRow(w) ==
  LET q == op[w].q IN
  /\ op[w].step = "insert"
  /\ row' = Row(q.user, q.body, q.sharing, FALSE)
  /\ Test(w, q.sharing = "shared", "setSlots")
  /\ UNCHANGED <<slots, mapping, overlapped>> /\ UNTOUCHED_BY_EDITS

Provided(given, existing) == IF given = None THEN existing ELSE given

(* update_graph, first connection: only what was provided is new.          *)
ReadRow(w) ==
  LET q == op[w].q IN
  /\ op[w].step = "read"
  /\ IF row = None THEN Finish(w)
     ELSE op' = [op EXCEPT ![w].step = "write",
                   ![w].row = [row EXCEPT !.body = Provided(q.body, @), !.sharing = Provided(q.sharing, @)]]
  /\ UNTOUCHED_BY_READS

(* UPDATE ... WHERE graph_id: neither owner nor flag is written, and the   *)
(* row that was read decides what becomes of the slots.                    *)
WriteRow(w) ==
  LET new == op[w].row IN
  /\ op[w].step = "write"
  /\ row' = IF row = None THEN None ELSE [row EXCEPT !.body = new.body, !.sharing = new.sharing]
  /\ CASE new.sharing = "private" -> Goto(w, "clear")
       [] new.sharing = "shared" -> Test(w, op[w].q.decl # None, "setSlots")
  /\ UNCHANGED <<slots, mapping, overlapped>> /\ UNTOUCHED_BY_EDITS

(* Mutant: declaring slots anew forgets what runners chose. *)
ReplaceAll(declared) == slots' = declared /\ mapping' = [u \in Users |-> Unmapped]

Replace(declared) == slots' = declared /\ UNCHANGED mapping

SetSlots(w) ==
  /\ op[w].step = "setSlots"
  /\ Replace(op[w].q.decl)
  /\ Finish(w)
  /\ UNCHANGED <<row, overlapped>> /\ UNTOUCHED_BY_EDITS

(* Mutant: only the declarations go. *)
DropDeclared == slots' = {} /\ UNCHANGED mapping

Drop == slots' = {} /\ mapping' = [u \in Users |-> Unmapped]

ClearSlots(w) ==
  /\ op[w].step = "clear"
  /\ Drop
  /\ overlapped' = (overlapped /\ OthersEdit(w))
  /\ Finish(w)
  /\ UNCHANGED row /\ UNTOUCHED_BY_EDITS

(* The registry entry of the active graph goes.                            *)
Disarm(w) ==
  /\ op[w].step = "disarm"
  /\ IF op[w].q.kind = "delete" THEN Goto(w, "erase") ELSE Test(w, active # None, "flag")
  /\ active' = None
  /\ UNCHANGED <<up, conns, tables, runs, overlapped, activator>>

Flag(w) ==
  /\ op[w].step = "flag"
  /\ row' = IF row = None THEN None ELSE [row EXCEPT !.active = FALSE]
  /\ Finish(w)
  /\ UNCHANGED <<slots, mapping, overlapped>> /\ UNTOUCHED_BY_EDITS

DeleteRow(w) ==
  /\ op[w].step = "erase"
  /\ row' = None
  /\ Test(w, row # None, "clear")
  /\ UNCHANGED <<slots, mapping, overlapped>> /\ UNTOUCHED_BY_EDITS

(* set_connection_mapping                                                  *)
CheckShared(w) ==
  /\ op[w].step = "checkShared"
  /\ Test(w, row # None /\ row.sharing = "shared", "checkDeclared")
  /\ UNTOUCHED_BY_READS

CheckDeclared(w) ==
  /\ op[w].step = "checkDeclared"
  /\ Test(w, op[w].q.slot \in slots, "checkVisible")
  /\ UNTOUCHED_BY_READS

CheckVisible(w) ==
  LET q == op[w].q IN
  /\ op[w].step = "checkVisible"
  /\ Test(w, ResolveForUser(q.name, q.user) # None, "setMapping")
  /\ UNTOUCHED_BY_READS

SetMapping(w) ==
  LET q == op[w].q IN
  /\ op[w].step = "setMapping"
  /\ mapping' = [mapping EXCEPT ![q.user][q.slot] = q.name]
  /\ Finish(w)
  /\ UNCHANGED <<row, slots, overlapped>> /\ UNTOUCHED_BY_EDITS

-----------------------------------------------------------------------------
(* Runs *)

(* submit_run: only somebody else's shared graph has slots to fill.        *)
CheckRow(w) ==
  LET u == op[w].q.user IN
  /\ op[w].step = "checkRow"
  /\ Goto(w, IF row # None /\ row.sharing = "shared" /\ u # None /\ u # row.by
             THEN "listSlots" ELSE "validate")
  /\ UNTOUCHED_BY_READS

ListSlots(w) ==
  /\ op[w].step = "listSlots"
  /\ op' = [op EXCEPT ![w].step = "getMappings", ![w].declared = slots]
  /\ UNTOUCHED_BY_READS

MappedAll(declared, via) == \A s \in declared : via[s] # None

(* 409 with the missing slots, or on to validation.                        *)
GetMappings(w) ==
  LET via == mapping[op[w].q.user] IN
  /\ op[w].step = "getMappings"
  /\ IF MappedAll(op[w].declared, via)
     THEN op' = [op EXCEPT ![w].step = "validate", ![w].via = via]
     ELSE Finish(w)
  /\ UNTOUCHED_BY_READS

(* invoke_graph runs what is saved, as its owner.                          *)
Load(w) ==
  /\ op[w].step = "load"
  /\ IF row = None THEN Finish(w)
     ELSE op' = [op EXCEPT ![w].step = "validate", ![w].as = row.by, ![w].body = row.body]
  /\ UNTOUCHED_BY_READS

(* fire runs what is active, as the entry's created_by, unvalidated.       *)
GetActive(w) ==
  /\ op[w].step = "getActive"
  /\ IF active = None THEN Finish(w)
     ELSE op' = [op EXCEPT ![w].step = "resolve", ![w].as = active.by, ![w].body = active.body]
  /\ UNTOUCHED_BY_READS

(* check_missing_connections, the rule that depends on who asks.           *)
Validate(w) ==
  LET o == op[w] IN
  /\ o.step = "validate"
  /\ Test(w, Missing(o.body, o.as, o.via) = {}, IF o.q.kind = "activate" THEN "arm" ELSE "resolve")
  /\ UNTOUCHED_BY_READS

(* resolve_connections                                                     *)
ResolveClients(w) ==
  LET o == op[w] IN
  /\ o.step = "resolve"
  /\ IF Missing(o.body, o.as, o.via) = {}
     THEN op' = [op EXCEPT ![w].step = "start", ![w].bound = Bound(o.body, o.as, o.via)]
     ELSE Finish(w)
  /\ UNTOUCHED_BY_READS

NewRun(o) ==
  [by |-> o.as, body |-> o.body, via |-> o.via, declared |-> o.declared, bound |-> o.bound,
   left |-> o.body.gens, used |-> {}, status |-> "created", settled |-> TRUE]

(* resolve_connection_profiles reads the store again; then the run exists. *)
StartRun(w) ==
  LET o == op[w] IN
  /\ o.step = "start"
  /\ IF Missing(o.body, o.as, o.via) = {}
     THEN \E r \in RunIds : runs[r] = None /\ runs' = [runs EXCEPT ![r] = NewRun(o)]
     ELSE UNCHANGED runs
  /\ Finish(w)
  /\ UNCHANGED <<up, conns, tables, active, overlapped, activator>>

(* run_graph validates once more, without the mappings.                    *)
Revalidate(r) ==
  /\ runs[r].status = "created"
  /\ runs' = [runs EXCEPT ![r].status =
                IF Missing(runs[r].body, runs[r].by, Unmapped) = {} THEN "running" ELSE "rejected"]
  /\ UNCHANGED <<up, conns, tables, active, op, overlapped, activator>>

(* A node of a generated type: it runs, or fails because its connection    *)
(* "no longer exists", which is no failure of the run.                     *)
ExecuteGenerated(r, g) ==
  LET c == GeneratedTarget(runs[r], g) IN
  /\ runs[r].status = "running"
  /\ g \in runs[r].left
  /\ runs' = [runs EXCEPT ![r].left = @ \ {g},
                          ![r].used = IF c \in conns THEN @ \cup {<<g[1], c>>} ELSE @]
  /\ UNCHANGED <<up, conns, tables, active, op, overlapped, activator>>

-----------------------------------------------------------------------------
(* Activation, as far as identities go *)

Arm(w) ==
  LET q == op[w].q IN
  /\ op[w].step = "arm"
  /\ active' = [by |-> q.user, body |-> q.body]
  /\ activator' = q.user
  /\ Goto(w, "store")
  /\ UNCHANGED <<up, conns, tables, runs, overlapped>>

(* The upsert names neither created_by nor sharing.                        *)
StoreActive(w) ==
  LET q == op[w].q IN
  /\ op[w].step = "store"
  /\ row' = IF row = None THEN Row(None, q.body, "private", TRUE)
            ELSE [row EXCEPT !.body = q.body, !.active = TRUE]
  /\ Finish(w)
  /\ UNCHANGED <<slots, mapping, overlapped>> /\ UNTOUCHED_BY_EDITS

(* Threads, requests and runs are gone; tables and connections stay.       *)
Crash ==
  /\ up
  /\ "crash" \in Faults
  /\ up' = FALSE
  /\ overlapped' = (overlapped \/ \E w \in Workers : BusyEditing(w))
  /\ op' = [w \in Workers |-> Idle]
  /\ active' = None
  /\ runs' = [r \in RunIds |-> None]
  /\ UNCHANGED <<conns, tables, activator>>

(* _reactivate_persisted_graphs: the row's created_by stands in.           *)
Restart ==
  /\ ~up
  /\ up' = TRUE
  /\ active' = IF row # None /\ row.active /\ Missing(row.body, row.by, Unmapped) = {}
               THEN [by |-> row.by, body |-> row.body] ELSE None
  /\ UNCHANGED <<conns, tables, op, runs, overlapped, activator>>

-----------------------------------------------------------------------------
(* Connections come and go (Connections models how).                       *)
ChangeConnection(c) ==
  /\ up
  /\ conns' = IF c \in conns THEN conns \ {c} ELSE conns \cup {c}
  /\ runs' = [r \in RunIds |-> IF runs[r] = None THEN None ELSE [runs[r] EXCEPT !.settled = FALSE]]
  /\ UNCHANGED <<up, tables, active, op, overlapped, activator>>

Edit(w) ==
  \/ InsertRow(w) \/ ReadRow(w) \/ WriteRow(w) \/ SetSlots(w) \/ ClearSlots(w)
  \/ Disarm(w) \/ Flag(w) \/ DeleteRow(w) \/ Arm(w) \/ StoreActive(w)
  \/ CheckShared(w) \/ CheckDeclared(w) \/ CheckVisible(w) \/ SetMapping(w)

Enter(w) ==
  \/ CheckRow(w) \/ ListSlots(w) \/ GetMappings(w) \/ Load(w) \/ GetActive(w)
  \/ Validate(w) \/ ResolveClients(w) \/ StartRun(w)

RunStep(r) ==
  /\ runs[r] # None
  /\ Revalidate(r) \/ \E g \in runs[r].left : ExecuteGenerated(r, g)

Next ==
  \/ \E w \in Workers : Edit(w) \/ Enter(w) \/ \E q \in Requests[w] : Receive(w, q)
  \/ \E r \in RunIds : RunStep(r)
  \/ \E c \in Changing : ChangeConnection(c)
  \/ Crash \/ Restart

Spec == Init /\ [][Next]_vars

-----------------------------------------------------------------------------
(* Properties *)

Steps ==
  {"idle", "insert", "read", "write", "setSlots", "clear", "disarm", "flag", "erase",
   "checkShared", "checkDeclared", "checkVisible", "setMapping", "checkRow", "listSlots",
   "getMappings", "load", "getActive", "validate", "resolve", "start", "arm", "store"}

OpRecord ==
  [q : AllRequests \cup {None}, step : Steps, row : RowRecord \cup {None}, as : Owners,
   body : Bodies \cup {None}, declared : SUBSET Names, via : Via, bound : [Names -> Profiles \cup {None}]]

TypeOK ==
  /\ up \in BOOLEAN /\ overlapped \in BOOLEAN
  /\ conns \in SUBSET Profiles
  /\ row \in RowRecord \cup {None}
  /\ slots \in SUBSET Names
  /\ mapping \in [Users -> Via]
  /\ active \in Entry \cup {None}
  /\ op \in [Workers -> OpRecord]
  /\ runs \in [RunIds -> RunRecord \cup {None}]
  /\ activator \in Owners

Quiet == up /\ ~overlapped /\ \A w \in Workers : ~BusyEditing(w)
Private == row = None \/ row.sharing = "private"

(* graph_sharing_store.py 87, "its declared slots (and any per-user        *)
(* mappings against them) become meaningless": a graph that is private, or *)
(* deleted, has neither, however it got there; so a graph that is shared   *)
(* again, or an id that is activated again, asks its runners again.        *)
PrivateIsClean ==
  Quiet /\ Private => slots = {} /\ \A u \in Users : mapping[u] = Unmapped

(* specs/021, "remembered and reused silently afterward": as long as the   *)
(* graph stays shared no save of it takes a runner's choice away.          *)
MappingsAreKept ==
  [][\A u \in Users, s \in Names :
       mapping[u][s] # None /\ mapping'[u][s] = None => Private \/ overlapped]_vars

(* specs/021, "a shared graph resolves each slot via that user's own       *)
(* mapping": what somebody else's shared graph declared when the run was   *)
(* accepted, its nodes get from the runner or from everybody, never from   *)
(* the author, those that look the connection up while they run included.  *)
SlotsAreTheRunners ==
  \A r \in RunIds : runs[r] # None =>
    \A s \in runs[r].declared :
      /\ s \in runs[r].body.refs =>
           /\ runs[r].bound[s][1] = runs[r].via[s]
           /\ runs[r].bound[s][2] \in {runs[r].by, None}
      /\ \A u \in runs[r].used : u[1] = s /\ runs[r].by # None => u[2][2] \in {runs[r].by, None}

(* engine.py 262, of a "second, internal check" that rejects what was      *)
(* "already correctly validated and resolved ... moments earlier": an      *)
(* accepted run goes ahead, unless a connection changed since.             *)
AcceptedRunsGoAhead ==
  \A r \in RunIds : runs[r] # None /\ runs[r].settled => runs[r].status # "rejected"

(* app.py 1837, "exactly the identity that activated it originally": an    *)
(* active graph runs as whoever activated it, after a restart too.         *)
ActsAsActivator == active # None => active.by = activator

-----------------------------------------------------------------------------
(* The inductive invariant behind the safety properties above.             *)

At(w, steps) == op[w].step \in steps

(* Where a request can be, by its kind, and what it has by then.           *)
Course(w) ==
  LET o == op[w] IN
  /\ o.q = None <=> o.step = "idle"
  /\ o.q = None => o = Idle
  /\ o.q # None => o.q \in Requests[w]
  /\ At(w, {"insert"}) => o.q.kind = "post"
  /\ At(w, {"read", "write"}) => o.q.kind = "put"
  /\ At(w, {"write"}) => o.row # None
  /\ At(w, {"setSlots"}) => o.q.kind \in {"post", "put"} /\ o.q.decl # None
  /\ At(w, {"clear"}) => o.q.kind \in {"put", "delete"}
  /\ At(w, {"disarm"}) => o.q.kind \in {"delete", "deactivate"}
  /\ At(w, {"erase"}) => o.q.kind = "delete"
  /\ At(w, {"flag"}) => o.q.kind = "deactivate"
  /\ At(w, {"checkShared", "checkDeclared", "checkVisible", "setMapping"}) => o.q.kind = "map"
  /\ At(w, {"checkRow", "listSlots", "getMappings"}) => o.q.kind = "run"
  /\ At(w, {"listSlots", "getMappings"}) => o.q.user # None
  /\ At(w, {"load"}) => o.q.kind = "invoke"
  /\ At(w, {"getActive"}) => o.q.kind = "fire"
  /\ At(w, {"validate"}) => o.q.kind \in {"run", "invoke", "activate"}
  /\ At(w, {"resolve", "start"}) => o.q.kind \in {"run", "invoke", "fire"}
  /\ At(w, {"arm", "store"}) => o.q.kind = "activate"
  /\ At(w, {"checkRow", "listSlots", "getMappings", "validate", "resolve", "start"}) => o.body # None

(* A name that was declared is bound to what the runner mapped it to, as   *)
(* the runner's own or everybody's.                                        *)
BoundToRunner(declared, body, by, via, bound) ==
  \A s \in declared \cap body.refs : bound[s][1] = via[s] /\ bound[s][2] \in {by, None}

(* From the check of the mappings on, every slot the runner had to map is  *)
(* mapped in the copy that goes on to the run.                             *)
Mapped(w) ==
  LET o == op[w] IN
  /\ o.declared # {} => o.q.kind = "run" /\ At(w, {"getMappings", "validate", "resolve", "start"})
  /\ At(w, {"validate", "resolve", "start"}) => MappedAll(o.declared, o.via)
  /\ At(w, {"start"}) => BoundToRunner(o.declared, o.body, o.as, o.via, o.bound)

AcceptedIsMapped ==
  /\ \A w \in Workers : Mapped(w)
  /\ \A r \in RunIds : runs[r] # None => MappedAll(runs[r].declared, runs[r].via)

Clean == slots = {} /\ \A u \in Users : mapping[u] = Unmapped

(* What an edit that has the graph to itself relies on: nobody else        *)
(* changes what the row says of sharing, and only the edit that is about   *)
(* to clear the slots leaves a private graph with any.                     *)
EditsAreApart ==
  ~overlapped =>
    /\ \A v, w \in Workers : BusyEditing(v) /\ BusyEditing(w) => v = w
    /\ \A w \in Workers :
         /\ At(w, {"insert", "clear"}) => Private
         /\ At(w, {"setSlots", "checkDeclared", "checkVisible", "setMapping"}) => ~Private
         /\ At(w, {"write"}) => row # None
    /\ (\A w \in Workers : ~At(w, {"clear"})) /\ Private => Clean

IInv ==
  /\ TypeOK
  /\ \A w \in Workers : Course(w)
  /\ AcceptedIsMapped /\ EditsAreApart
  /\ SlotsAreTheRunners
=============================================================================
