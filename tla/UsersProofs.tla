---------------------------- MODULE UsersProofs ----------------------------
(***************************************************************************)
(* Theorems about the people who use the server: first whose connections   *)
(* the graphs they share run with (Sharing), for any number of users,      *)
(* requests and runs; then their accounts, sessions and invoke keys        *)
(* (Accounts), for any number of addresses, callbacks and requests.  The   *)
(* two components have no step and no state in common.                     *)
(***************************************************************************)
EXTENDS Sharing, Accounts, TLAPS

-----------------------------------------------------------------------------
(* Sharing *)

(* What a request is, by its kind. *)
LEMMA RequestType ==
  ASSUME NEW w \in Workers, NEW q \in Requests[w]
  PROVE  /\ q \in AllRequests /\ q \in RequestRecord /\ q # None
         /\ q.user \in Owners /\ q.body \in Bodies \cup {None}
         /\ q.sharing \in {"private", "shared", None} /\ q.decl \in (SUBSET Names) \cup {None}
         /\ q.slot \in Names \cup {None} /\ q.name \in Names \cup {None}
         /\ q.kind \in {"post", "run", "activate"} => q.body # None
         /\ q.kind = "post" => q.sharing # None /\ q.decl # None
         /\ q.kind = "map" => q.user # None /\ q.slot # None /\ q.name # None
<1>1. q \in AllRequests
  BY DEF AllRequests
<1>2. q \in RequestRecord
  BY SharingAssumption
<1>3. q # None
  BY <1>2, SharingAssumption
<1> QED BY <1>1, <1>2, <1>3, SharingAssumption DEF RequestRecord

LEMMA IdleType == Idle \in OpRecord /\ Idle.q = None /\ Idle.step = "idle" /\ Unmapped \in Via
  BY DEF Idle, OpRecord, Steps, Owners, Via, Unmapped

(* Names resolve to connections of that name, the user's own or global.    *)
LEMMA Resolves ==
  ASSUME TypeOK, NEW name \in Names, NEW user \in Owners
  PROVE  /\ ResolveForUser(name, user) \in Profiles \cup {None}
         /\ ResolveForUser(name, user) # None =>
              /\ ResolveForUser(name, user)[1] = name
              /\ ResolveForUser(name, user)[2] \in {user, None}
  BY SharingAssumption DEF ResolveForUser, TypeOK, Profiles

LEMMA SlotResolves ==
  ASSUME TypeOK, NEW name \in Names, NEW user \in Owners, NEW via \in Via
  PROVE  /\ SlotAware(name, user, via) \in Profiles \cup {None}
         /\ SlotAware(name, user, via) # None /\ via[name] # None =>
              /\ SlotAware(name, user, via)[1] = via[name]
              /\ SlotAware(name, user, via)[2] \in {user, None}
<1>1. CASE via[name] # None
  <2>1. via[name] \in Names /\ SlotAware(name, user, via) = ResolveForUser(via[name], user)
    BY <1>1 DEF Via, SlotAware
  <2> QED BY <2>1, Resolves
<1>2. CASE via[name] = None
  <2>1. SlotAware(name, user, via) = ResolveForUser(name, user)
    BY <1>2 DEF SlotAware
  <2> QED BY <2>1, <1>2, Resolves
<1> QED BY <1>1, <1>2

LEMMA BoundType ==
  ASSUME TypeOK, NEW body \in Bodies, NEW user \in Owners, NEW via \in Via
  PROVE  Bound(body, user, via) \in [Names -> Profiles \cup {None}]
  BY SlotResolves DEF Bound

(* What resolve_connections binds, nothing being missing, is the runner's. *)
LEMMA BindsToRunner ==
  ASSUME TypeOK, NEW body \in Bodies, NEW user \in Owners, NEW via \in Via, NEW declared \in SUBSET Names,
         MappedAll(declared, via), Missing(body, user, via) = {}
  PROVE  BoundToRunner(declared, body, user, via, Bound(body, user, via))
<1> SUFFICES ASSUME NEW s \in declared \cap body.refs
             PROVE  Bound(body, user, via)[s][1] = via[s] /\ Bound(body, user, via)[s][2] \in {user, None}
  BY DEF BoundToRunner
<1>1. s \in Names /\ via[s] # None
  BY DEF MappedAll
<1>2. Bound(body, user, via)[s] = SlotAware(s, user, via) /\ SlotAware(s, user, via) # None
  BY <1>1 DEF Bound, Missing
<1> QED BY <1>1, <1>2, SlotResolves

(* What an update writes was a row when it was read.                       *)
LEMMA WriteType ==
  ASSUME TypeOK, NEW w \in Workers, Course(w), op[w].step = "write"
  PROVE  op[w].row \in RowRecord /\ op[w].row.sharing \in {"private", "shared"} /\ op[w].q \in Requests[w]
<1>1. op[w] \in OpRecord /\ op[w].row # None
  BY DEF TypeOK, Course, At
<1>2. op[w].row \in RowRecord
  BY <1>1 DEF OpRecord
<1>3. op[w].q \in Requests[w]
  BY DEF Course
<1> QED BY <1>2, <1>3 DEF RowRecord

(* A request's step changes the record of that request only.               *)
LEMMA OneMoves ==
  ASSUME TypeOK, NEW w \in Workers, Course(w), Edit(w) \/ Enter(w) \/ \E q \in Requests[w] : Receive(w, q)
  PROVE  \A v \in Workers \ {w} : op'[v] = op[v]
<1> SUFFICES ASSUME NEW v \in Workers \ {w} PROVE op'[v] = op[v]
  OBVIOUS
<1> USE DEF TypeOK, Goto, Finish, Test
<1>1. CASE Edit(w)
  <2>1. CASE InsertRow(w) \/ ReadRow(w) \/ SetSlots(w) \/ ClearSlots(w)
    BY <2>1 DEF InsertRow, ReadRow, SetSlots, ClearSlots
  <2>4. CASE WriteRow(w)
    BY <2>4, WriteType DEF WriteRow
  <2>2. CASE Disarm(w) \/ Flag(w) \/ DeleteRow(w) \/ Arm(w) \/ StoreActive(w)
    BY <2>2 DEF Disarm, Flag, DeleteRow, Arm, StoreActive
  <2>3. CASE CheckShared(w) \/ CheckDeclared(w) \/ CheckVisible(w) \/ SetMapping(w)
    BY <2>3 DEF CheckShared, CheckDeclared, CheckVisible, SetMapping
  <2> QED BY <1>1, <2>1, <2>2, <2>3, <2>4 DEF Edit
<1>2. CASE Enter(w)
  <2>1. CASE CheckRow(w) \/ ListSlots(w) \/ GetMappings(w) \/ Load(w)
    BY <2>1 DEF CheckRow, ListSlots, GetMappings, Load
  <2>2. CASE GetActive(w) \/ Validate(w) \/ ResolveClients(w) \/ StartRun(w)
    BY <2>2 DEF GetActive, Validate, ResolveClients, StartRun
  <2> QED BY <1>2, <2>1, <2>2 DEF Enter
<1>3. ASSUME NEW q \in Requests[w], Receive(w, q) PROVE op'[v] = op[v]
  BY <1>3 DEF Receive
<1> QED BY <1>1, <1>2, <1>3

-----------------------------------------------------------------------------
(* Each step keeps the types, and its request on its course.               *)

LEMMA EditTypes ==
  ASSUME TypeOK, NEW w \in Workers, Course(w), Edit(w)
  PROVE  TypeOK' /\ Course(w)'
<1> DEFINE o == op[w]  q == op[w].q
<1>0. /\ o \in OpRecord /\ op \in [Workers -> OpRecord] /\ o.step \in Steps
      /\ row \in RowRecord \cup {None} /\ o.row \in RowRecord \cup {None}
      /\ o.as \in Owners /\ o.body \in Bodies \cup {None}
  BY DEF TypeOK, OpRecord
<1>q. o.step # "idle" => q \in Requests[w] /\ q # None
  BY DEF Course, At
<1>t. o.step # "idle" =>
         /\ q.user \in Owners /\ q.body \in Bodies \cup {None}
         /\ q.sharing \in {"private", "shared", None} /\ q.decl \in (SUBSET Names) \cup {None}
         /\ q.slot \in Names \cup {None} /\ q.name \in Names \cup {None}
         /\ q.kind \in {"post", "run", "activate"} => q.body # None
         /\ q.kind = "post" => q.sharing # None /\ q.decl # None
         /\ q.kind = "map" => q.user # None /\ q.slot # None /\ q.name # None
  BY <1>q, RequestType
<1>f. ASSUME Finish(w) PROVE op' \in [Workers -> OpRecord] /\ Course(w)'
  BY <1>0, <1>f, IdleType DEF Finish, Course, At
<1>g. ASSUME NEW s \in Steps \ {"idle"}, Goto(w, s)
      PROVE  /\ op' \in [Workers -> OpRecord]
             /\ op'[w].step = s /\ op'[w].q = q /\ op'[w].row = o.row /\ op'[w].body = o.body
  BY <1>0, <1>g DEF Goto, OpRecord
<1> USE DEF UNTOUCHED_BY_EDITS, UNTOUCHED_BY_READS, Test, tables
<1>1. CASE InsertRow(w)
  <2>1. o.step = "insert" /\ q.kind = "post" /\ q.sharing \in {"private", "shared"} /\ q.body \in Bodies
    BY <1>1, <1>t DEF InsertRow, Course, At
  <2>2. row' \in RowRecord
    BY <1>1, <1>t, <2>1 DEF InsertRow, Row, RowRecord
  <2>3. op' \in [Workers -> OpRecord] /\ Course(w)'
    BY <1>1, <1>f, <1>g, <1>t, <1>q, <2>1 DEF InsertRow, Course, At, Steps
  <2> QED BY <1>1, <2>2, <2>3 DEF InsertRow, TypeOK
<1>2. CASE ReadRow(w)
  <2>1. o.step = "read" /\ q.kind = "put" /\ q \in Requests[w] /\ q # None
    BY <1>2, <1>q DEF ReadRow, Course, At
  <2>2. op' \in [Workers -> OpRecord] /\ Course(w)'
    <3>1. CASE row = None
      BY <1>2, <3>1, <1>f DEF ReadRow
    <3>2. CASE row # None
      <4> DEFINE new == [row EXCEPT !.body = Provided(q.body, @), !.sharing = Provided(q.sharing, @)]
      <4>1. new \in RowRecord /\ new # None
        BY <1>0, <1>t, <2>1, <3>2, SharingAssumption DEF RowRecord, Provided
      <4>2. op' = [op EXCEPT ![w] = [o EXCEPT !.step = "write", !.row = new]]
        BY <1>0, <1>2, <3>2 DEF ReadRow
      <4> HIDE DEF new
      <4>3. op'[w] = [o EXCEPT !.step = "write", !.row = new]
        BY <1>0, <4>2
      <4>4. op'[w] \in OpRecord /\ op'[w].step = "write" /\ op'[w].q = q /\ op'[w].row = new
        BY <1>0, <4>1, <4>3 DEF OpRecord, Steps
      <4> QED BY <1>0, <2>1, <4>1, <4>2, <4>4 DEF Course, At
    <3> QED BY <3>1, <3>2
  <2> QED BY <1>2, <2>2 DEF ReadRow, TypeOK
<1>3. CASE WriteRow(w)
  <2>1. /\ o.step = "write" /\ q.kind = "put" /\ o.row \in RowRecord /\ o.row.body \in Bodies
        /\ o.row.sharing \in {"private", "shared"}
    BY <1>3, WriteType DEF WriteRow, Course, At, RowRecord
  <2>2. row' \in RowRecord \cup {None}
    BY <1>0, <1>3, <2>1 DEF WriteRow, RowRecord
  <2>3. op' \in [Workers -> OpRecord] /\ Course(w)'
    <3>1. CASE Goto(w, "clear")
      BY <1>g, <1>q, <2>1, <3>1 DEF Course, At, Steps
    <3>2. CASE Goto(w, "setSlots") /\ q.decl # None
      BY <1>g, <1>q, <2>1, <3>2 DEF Course, At, Steps
    <3> QED BY <1>3, <1>f, <2>1, <3>1, <3>2 DEF WriteRow
  <2> QED BY <1>3, <2>2, <2>3 DEF WriteRow, TypeOK
<1>4. CASE SetSlots(w)
  <2>1. q.decl \in SUBSET Names
    BY <1>4, <1>t DEF SetSlots, Course, At
  <2> QED BY <1>4, <1>f, <2>1 DEF SetSlots, Replace, TypeOK
<1>5. CASE ClearSlots(w)
  BY <1>5, <1>f, IdleType DEF ClearSlots, Drop, TypeOK
<1>6. CASE Disarm(w)
  <2>1. o.step = "disarm" /\ q.kind \in {"delete", "deactivate"} /\ q \in Requests[w] /\ q # None
    BY <1>6, <1>q DEF Disarm, Course, At
  <2>2. op' \in [Workers -> OpRecord] /\ Course(w)'
    BY <1>6, <1>f, <1>g, <2>1 DEF Disarm, Course, At, Steps
  <2> QED BY <1>6, <2>2 DEF Disarm, TypeOK
<1>7. CASE Flag(w)
  <2>1. row' \in RowRecord \cup {None}
    BY <1>0, <1>7 DEF Flag, RowRecord
  <2> QED BY <1>7, <1>f, <2>1 DEF Flag, TypeOK
<1>8. CASE DeleteRow(w)
  <2>1. o.step = "erase" /\ q.kind = "delete" /\ q \in Requests[w] /\ q # None
    BY <1>8, <1>q DEF DeleteRow, Course, At
  <2>2. op' \in [Workers -> OpRecord] /\ Course(w)'
    BY <1>8, <1>f, <1>g, <2>1 DEF DeleteRow, Course, At, Steps
  <2> QED BY <1>8, <2>2 DEF DeleteRow, TypeOK
<1>9. CASE Arm(w)
  <2>1. o.step = "arm" /\ q.kind = "activate" /\ q \in Requests[w] /\ q # None /\ q.body \in Bodies
    BY <1>9, <1>q, <1>t DEF Arm, Course, At
  <2>2. op' \in [Workers -> OpRecord] /\ Course(w)'
    BY <1>9, <1>g, <2>1 DEF Arm, Course, At, Steps
  <2> QED BY <1>9, <1>t, <2>1, <2>2 DEF Arm, TypeOK, Entry
<1>10. CASE StoreActive(w)
  <2>1. q.body \in Bodies
    BY <1>10, <1>t DEF StoreActive, Course, At
  <2>2. row' \in RowRecord
    BY <1>0, <1>10, <2>1 DEF StoreActive, Row, RowRecord, Owners
  <2> QED BY <1>10, <1>f, <2>2 DEF StoreActive, TypeOK
<1>11. CASE CheckShared(w) \/ CheckDeclared(w) \/ CheckVisible(w)
  <2>1. o.step # "idle" /\ q.kind = "map" /\ q \in Requests[w] /\ q # None
    BY <1>11, <1>q DEF CheckShared, CheckDeclared, CheckVisible, Course, At
  <2>2. op' \in [Workers -> OpRecord] /\ Course(w)'
    BY <1>11, <1>f, <1>g, <2>1 DEF CheckShared, CheckDeclared, CheckVisible, Course, At, Steps
  <2> QED BY <1>11, <2>2 DEF CheckShared, CheckDeclared, CheckVisible, TypeOK
<1>12. CASE SetMapping(w)
  <2>1. q.user \in Users /\ q.slot \in Names /\ q.name \in Names
    BY <1>12, <1>t DEF SetMapping, Course, At, Owners
  <2>2. mapping' \in [Users -> Via]
    BY <1>12, <2>1 DEF SetMapping, TypeOK, Via
  <2> QED BY <1>12, <1>f, <2>2 DEF SetMapping, TypeOK
<1> QED BY <1>1, <1>2, <1>3, <1>4, <1>5, <1>6, <1>7, <1>8, <1>9, <1>10, <1>11, <1>12 DEF Edit

LEMMA EnterTypes ==
  ASSUME TypeOK, NEW w \in Workers, Course(w), Enter(w)
  PROVE  TypeOK' /\ Course(w)'
<1> DEFINE o == op[w]  q == op[w].q
<1>0. /\ o \in OpRecord /\ op \in [Workers -> OpRecord] /\ o.step \in Steps
      /\ row \in RowRecord \cup {None}
      /\ o.as \in Owners /\ o.body \in Bodies \cup {None} /\ o.via \in Via
  BY DEF TypeOK, OpRecord
<1>q. o.step # "idle" => q \in Requests[w] /\ q # None /\ q.user \in Owners
  BY RequestType DEF Course, At
<1>f. ASSUME Finish(w) PROVE op' \in [Workers -> OpRecord] /\ Course(w)'
  BY <1>0, <1>f, IdleType DEF Finish, Course, At
<1>g. ASSUME NEW s \in Steps \ {"idle"}, Goto(w, s)
      PROVE  /\ op' \in [Workers -> OpRecord]
             /\ op'[w].step = s /\ op'[w].q = q /\ op'[w].row = o.row /\ op'[w].body = o.body
  BY <1>0, <1>g DEF Goto, OpRecord
<1> USE DEF UNTOUCHED_BY_READS, Test, tables
<1>1. CASE CheckRow(w)
  <2>1. o.step = "checkRow" /\ q.kind = "run" /\ q \in Requests[w] /\ q # None /\ o.body # None
    BY <1>1, <1>q DEF CheckRow, Course, At
  <2>2. op' \in [Workers -> OpRecord] /\ Course(w)'
    BY <1>1, <1>g, <2>1 DEF CheckRow, Course, At, Steps
  <2> QED BY <1>1, <2>2 DEF CheckRow, TypeOK
<1>2. CASE ListSlots(w)
  <2>1. o.step = "listSlots" /\ q.kind = "run" /\ q \in Requests[w] /\ q # None /\ q.user # None /\ o.body # None
    BY <1>2, <1>q DEF ListSlots, Course, At
  <2>2. op' = [op EXCEPT ![w] = [o EXCEPT !.step = "getMappings", !.declared = slots]]
    BY <1>0, <1>2 DEF ListSlots
  <2>3. op' \in [Workers -> OpRecord] /\ Course(w)'
    BY <1>0, <2>1, <2>2 DEF TypeOK, OpRecord, Course, At, Steps
  <2> QED BY <1>2, <2>3 DEF ListSlots, TypeOK
<1>3. CASE GetMappings(w)
  <2>1. /\ o.step = "getMappings" /\ q.kind = "run" /\ q \in Requests[w] /\ q # None /\ o.body # None
        /\ mapping[q.user] \in Via
    BY <1>3, <1>q DEF GetMappings, Course, At, TypeOK, Owners
  <2>2. ASSUME op' = [op EXCEPT ![w] = [o EXCEPT !.step = "validate", !.via = mapping[q.user]]]
        PROVE  op' \in [Workers -> OpRecord] /\ Course(w)'
    BY <1>0, <2>1, <2>2 DEF OpRecord, Course, At, Steps
  <2>3. op' \in [Workers -> OpRecord] /\ Course(w)'
    BY <1>0, <1>3, <1>f, <2>2 DEF GetMappings
  <2> QED BY <1>3, <2>3 DEF GetMappings, TypeOK
<1>4. CASE Load(w)
  <2>1. o.step = "load" /\ q.kind = "invoke" /\ q \in Requests[w] /\ q # None
    BY <1>4, <1>q DEF Load, Course, At
  <2>2. ASSUME row # None, op' = [op EXCEPT ![w] = [o EXCEPT !.step = "validate", !.as = row.by,
               !.body = row.body]]
        PROVE  op' \in [Workers -> OpRecord] /\ Course(w)'
    <3>1. row.by \in Owners /\ row.body \in Bodies /\ row.body # None
      BY <1>0, <2>2, SharingAssumption DEF RowRecord
    <3> QED BY <1>0, <2>1, <2>2, <3>1 DEF OpRecord, Course, At, Steps
  <2>3. op' \in [Workers -> OpRecord] /\ Course(w)'
    BY <1>0, <1>4, <1>f, <2>2 DEF Load
  <2> QED BY <1>4, <2>3 DEF Load, TypeOK
<1>5. CASE GetActive(w)
  <2>1. o.step = "getActive" /\ q.kind = "fire" /\ q \in Requests[w] /\ q # None
    BY <1>5, <1>q DEF GetActive, Course, At
  <2>2. ASSUME active # None,
               op' = [op EXCEPT ![w] = [o EXCEPT !.step = "resolve", !.as = active.by, !.body = active.body]]
        PROVE  op' \in [Workers -> OpRecord] /\ Course(w)'
    <3>1. active.by \in Owners /\ active.body \in Bodies /\ active.body # None
      BY <2>2, SharingAssumption DEF TypeOK, Entry
    <3> QED BY <1>0, <2>1, <2>2, <3>1 DEF OpRecord, Course, At, Steps
  <2>3. op' \in [Workers -> OpRecord] /\ Course(w)'
    BY <1>0, <1>5, <1>f, <2>2 DEF GetActive
  <2> QED BY <1>5, <2>3 DEF GetActive, TypeOK
<1>6. CASE Validate(w)
  <2>1. /\ o.step = "validate" /\ q.kind \in {"run", "invoke", "activate"} /\ q \in Requests[w] /\ q # None
        /\ o.body # None
    BY <1>6, <1>q DEF Validate, Course, At
  <2>2. op' \in [Workers -> OpRecord] /\ Course(w)'
    <3>1. CASE Goto(w, "arm") /\ q.kind = "activate"
      BY <1>g, <2>1, <3>1 DEF Course, At, Steps
    <3>2. CASE Goto(w, "resolve") /\ q.kind # "activate"
      BY <1>g, <2>1, <3>2 DEF Course, At, Steps
    <3> QED BY <1>6, <1>f, <3>1, <3>2 DEF Validate
  <2> QED BY <1>6, <2>2 DEF Validate, TypeOK
<1>7. CASE ResolveClients(w)
  <2>1. /\ o.step = "resolve" /\ q.kind \in {"run", "invoke", "fire"} /\ q \in Requests[w] /\ q # None
        /\ o.body \in Bodies /\ o.body # None
    BY <1>0, <1>7, <1>q DEF ResolveClients, Course, At
  <2>2. Bound(o.body, o.as, o.via) \in [Names -> Profiles \cup {None}]
    BY <1>0, <2>1, BoundType
  <2>3. ASSUME op' = [op EXCEPT ![w] = [o EXCEPT !.step = "start", !.bound = Bound(o.body, o.as, o.via)]]
        PROVE  op' \in [Workers -> OpRecord] /\ Course(w)'
    BY <1>0, <2>1, <2>2, <2>3 DEF OpRecord, Course, At, Steps
  <2>4. op' \in [Workers -> OpRecord] /\ Course(w)'
    BY <1>0, <1>7, <1>f, <2>3 DEF ResolveClients
  <2> QED BY <1>7, <2>4 DEF ResolveClients, TypeOK
<1>8. CASE StartRun(w)
  <2>1. /\ o.step = "start" /\ o.body \in Bodies /\ o.body.gens \in SUBSET Profiles
        /\ o.declared \in SUBSET Names /\ o.bound \in [Names -> Profiles \cup {None}]
    BY <1>0, <1>8, SharingAssumption DEF StartRun, Course, At, OpRecord, BodyRecord
  <2>2. NewRun(o) \in RunRecord
    BY <1>0, <2>1 DEF NewRun, RunRecord
  <2>3. runs' \in [RunIds -> RunRecord \cup {None}]
    BY <1>8, <2>2 DEF StartRun, TypeOK
  <2>4. op' \in [Workers -> OpRecord] /\ Course(w)'
    BY <1>8, <1>f DEF StartRun
  <2> QED BY <1>8, <2>3, <2>4 DEF StartRun, TypeOK
<1> QED BY <1>1, <1>2, <1>3, <1>4, <1>5, <1>6, <1>7, <1>8 DEF Enter

LEMMA ReceiveTypes ==
  ASSUME TypeOK, NEW w \in Workers, Course(w), NEW q \in Requests[w], Receive(w, q)
  PROVE  TypeOK' /\ Course(w)'
<1>1. q.user \in Owners /\ q.body \in Bodies \cup {None} /\ q \in AllRequests /\ q # None
  BY RequestType
<1>2. q.kind = "run" => q.body # None
  BY RequestType
<1>3. q.kind = "activate" => q.body # None
  BY RequestType
<1>4. q.kind \in Editing \cup {"run", "invoke", "activate", "deactivate", "fire"}
  BY RequestType DEF RequestRecord
<1> DEFINE new == [Idle EXCEPT !.q = q, !.step = FirstStep(q.kind), !.as = q.user, !.body = q.body]
<1>5. FirstStep(q.kind) \in Steps \ {"idle"}
  BY <1>4 DEF FirstStep, Editing, Steps
<1>6. /\ new \in OpRecord /\ new.q = q /\ new.step = FirstStep(q.kind) /\ new.body = q.body
  BY <1>1, <1>5, IdleType DEF OpRecord, Idle
<1> HIDE DEF new
<1>7. op' = [op EXCEPT ![w] = new]
  BY DEF Receive, new
<1>8. op' \in [Workers -> OpRecord] /\ op'[w] = new
  BY <1>6, <1>7 DEF TypeOK
<1>9. Course(w)'
  BY <1>1, <1>2, <1>3, <1>4, <1>6, <1>8 DEF Course, At, FirstStep, Editing
<1> QED BY <1>8, <1>9 DEF Receive, TypeOK, tables

LEMMA OtherTypes ==
  ASSUME TypeOK, \A w \in Workers : Course(w),
         \/ \E r \in RunIds : RunStep(r)
         \/ \E c \in Changing : ChangeConnection(c)
         \/ Crash \/ Restart \/ UNCHANGED vars
  PROVE  TypeOK' /\ \A w \in Workers : Course(w)'
<1>1. ASSUME op' = op PROVE \A w \in Workers : Course(w)'
  BY <1>1 DEF Course, At
<1>2. ASSUME NEW r \in RunIds, RunStep(r) PROVE TypeOK' /\ op' = op
  <2>1. runs[r] \in RunRecord
    BY <1>2 DEF RunStep, TypeOK
  <2>2. CASE Revalidate(r)
    <3>1. runs' \in [RunIds -> RunRecord \cup {None}]
      BY <2>1, <2>2 DEF Revalidate, TypeOK, RunRecord
    <3> QED BY <2>2, <3>1 DEF Revalidate, TypeOK, tables
  <2>3. ASSUME NEW g \in runs[r].left, ExecuteGenerated(r, g) PROVE TypeOK' /\ op' = op
    <3> DEFINE c == GeneratedTarget(runs[r], g)
               used == IF c \in conns THEN runs[r].used \cup {<<g[1], c>>} ELSE runs[r].used
    <3>1. g[1] \in Names
      BY <2>1 DEF RunRecord, Profiles
    <3>2. used \in SUBSET (Names \X Profiles)
      BY <2>1, <3>1 DEF RunRecord, TypeOK
    <3>3. runs' = [runs EXCEPT ![r] = [runs[r] EXCEPT !.left = runs[r].left \ {g}, !.used = used]]
      BY <2>3 DEF ExecuteGenerated, TypeOK
    <3> HIDE DEF used
    <3>4. [runs[r] EXCEPT !.left = runs[r].left \ {g}, !.used = used] \in RunRecord
      BY <2>1, <3>2 DEF RunRecord
    <3>5. runs' \in [RunIds -> RunRecord \cup {None}]
      BY <3>3, <3>4 DEF TypeOK
    <3> QED BY <2>3, <3>5 DEF ExecuteGenerated, TypeOK, tables
  <2> QED BY <1>2, <2>2, <2>3 DEF RunStep
<1>3. ASSUME NEW c \in Changing, ChangeConnection(c) PROVE TypeOK' /\ op' = op
  <2>1. \A r \in RunIds : runs[r] # None => [runs[r] EXCEPT !.settled = FALSE] \in RunRecord
    BY DEF TypeOK, RunRecord
  <2>2. runs' \in [RunIds -> RunRecord \cup {None}]
    BY <1>3, <2>1 DEF ChangeConnection
  <2> QED BY <1>3, <2>2, SharingAssumption DEF ChangeConnection, TypeOK, tables
<1>4. ASSUME Crash PROVE TypeOK' /\ \A w \in Workers : Course(w)'
  BY <1>4, IdleType DEF Crash, TypeOK, Course, At, tables
<1>5. ASSUME Restart PROVE TypeOK' /\ op' = op
  BY <1>5 DEF Restart, TypeOK, RowRecord, Entry, tables
<1>6. ASSUME UNCHANGED vars PROVE TypeOK' /\ op' = op
  BY <1>6 DEF vars, tables, TypeOK
<1> QED BY <1>1, <1>2, <1>3, <1>4, <1>5, <1>6

LEMMA TypeStep ==
  ASSUME TypeOK, \A w \in Workers : Course(w), [Next]_vars
  PROVE  TypeOK' /\ \A w \in Workers : Course(w)'
<1>1. ASSUME NEW w \in Workers, Edit(w) \/ Enter(w) \/ \E q \in Requests[w] : Receive(w, q)
      PROVE  TypeOK' /\ \A v \in Workers : Course(v)'
  <2>1. TypeOK' /\ Course(w)'
    BY <1>1, EditTypes, EnterTypes, ReceiveTypes
  <2>2. ASSUME NEW v \in Workers \ {w} PROVE Course(v)'
    BY <1>1, OneMoves DEF Course, At
  <2> QED BY <2>1, <2>2
<1> QED BY <1>1, OtherTypes DEF Next

-----------------------------------------------------------------------------
(* What a runner had to map stays mapped on the way to the run, and so     *)
(* does what it is bound to.                                               *)

LEMMA MappedStep ==
  ASSUME TypeOK, NEW w \in Workers, Course(w), Mapped(w),
         Edit(w) \/ Enter(w) \/ \E q \in Requests[w] : Receive(w, q)
  PROVE  Mapped(w)'
<1> DEFINE o == op[w]
<1>0. o \in OpRecord /\ op \in [Workers -> OpRecord] /\ o.as \in Owners /\ o.via \in Via /\ o.declared \in SUBSET Names
  BY DEF TypeOK, OpRecord
<1>f. ASSUME Finish(w) PROVE Mapped(w)'
  BY <1>0, <1>f DEF Finish, Mapped, At, Idle
<1> DEFINE Late == {"getMappings", "validate", "resolve", "start"}
<1>g. ASSUME NEW s \in Steps, Goto(w, s), ~At(w, Late), s # "start"
      PROVE  Mapped(w)'
  BY <1>0, <1>g DEF Goto, OpRecord, Mapped, At, MappedAll
<1> USE DEF Test
<1>1. CASE Edit(w)
  <2>1. CASE InsertRow(w) \/ SetSlots(w) \/ ClearSlots(w) \/ Disarm(w) \/ Flag(w) \/ DeleteRow(w)
    BY <2>1, <1>f, <1>g DEF InsertRow, SetSlots, ClearSlots, Disarm, Flag, DeleteRow, At, Steps
  <2>2. CASE ReadRow(w)
    <3>1. ASSUME NEW r, op' = [op EXCEPT ![w].step = "write", ![w].row = r]
          PROVE  Mapped(w)'
      BY <1>0, <2>2, <3>1 DEF ReadRow, Mapped, At
    <3> QED BY <2>2, <1>f, <3>1 DEF ReadRow
  <2>3. CASE WriteRow(w)
    <3>1. op[w].step = "write" /\ ~At(w, Late)
      BY <2>3 DEF WriteRow, At
    <3>2. Goto(w, "clear") \/ Goto(w, "setSlots") \/ Finish(w)
      BY <2>3, <3>1, WriteType DEF WriteRow
    <3> QED BY <3>1, <3>2, <1>f, <1>g DEF Steps
  <2>4. CASE Arm(w) \/ StoreActive(w) \/ CheckShared(w)
    BY <2>4, <1>f, <1>g DEF Arm, StoreActive, CheckShared, At, Steps
  <2>5. CASE CheckDeclared(w) \/ CheckVisible(w) \/ SetMapping(w)
    BY <2>5, <1>f, <1>g DEF CheckDeclared, CheckVisible, SetMapping, At, Steps
  <2> QED BY <1>1, <2>1, <2>2, <2>3, <2>4, <2>5 DEF Edit
<1>2. CASE Enter(w)
  <2>1. CASE CheckRow(w)
    BY <2>1, <1>g DEF CheckRow, At, Steps
  <2>2. CASE ListSlots(w)
    <3>1. op' = [op EXCEPT ![w].step = "getMappings", ![w].declared = slots] /\ o.q.kind = "run"
      BY <2>2 DEF ListSlots, Course, At
    <3>2. op'[w].step = "getMappings" /\ op'[w].q = o.q
      BY <1>0, <3>1 DEF OpRecord
    <3> QED BY <3>1, <3>2 DEF Mapped, At
  <2>3. CASE GetMappings(w)
    <3>1. CASE MappedAll(o.declared, mapping[o.q.user])
      <4>1. op' = [op EXCEPT ![w].step = "validate", ![w].via = mapping[o.q.user]] /\ o.step = "getMappings"
        BY <2>3, <3>1 DEF GetMappings
      <4>2. /\ op'[w].step = "validate" /\ op'[w].declared = o.declared /\ op'[w].q = o.q
            /\ op'[w].via = mapping[o.q.user]
        BY <1>0, <4>1 DEF OpRecord
      <4> QED BY <3>1, <4>1, <4>2 DEF Mapped, At
    <3> QED BY <2>3, <3>1, <1>f DEF GetMappings
  <2>4. CASE Load(w)
    <3>1. o.declared = {}
      BY <2>4 DEF Load, Mapped, At
    <3>2. CASE op' = [op EXCEPT ![w].step = "validate", ![w].as = row.by, ![w].body = row.body]
      <4>1. op'[w].declared = {} /\ op'[w].step = "validate"
        BY <1>0, <3>1, <3>2 DEF OpRecord
      <4> QED BY <4>1 DEF Mapped, At, MappedAll
    <3> QED BY <2>4, <1>f, <3>2 DEF Load
  <2>5. CASE GetActive(w)
    <3>1. o.declared = {}
      BY <2>5 DEF GetActive, Mapped, At
    <3>2. CASE op' = [op EXCEPT ![w].step = "resolve", ![w].as = active.by, ![w].body = active.body]
      <4>1. op'[w].declared = {} /\ op'[w].step = "resolve"
        BY <1>0, <3>1, <3>2 DEF OpRecord
      <4> QED BY <4>1 DEF Mapped, At, MappedAll
    <3> QED BY <2>5, <1>f, <3>2 DEF GetActive
  <2>6. CASE Validate(w)
    <3>1. ASSUME NEW s \in {"arm", "resolve"}, Goto(w, s), s = "arm" <=> o.q.kind = "activate"
          PROVE  Mapped(w)'
      <4>1. /\ o.step = "validate" /\ op'[w].step = s /\ op'[w].declared = o.declared /\ op'[w].q = o.q
            /\ op'[w].via = o.via
        BY <1>0, <2>6, <3>1 DEF Validate, Goto, OpRecord
      <4> QED BY <3>1, <4>1 DEF Mapped, At
    <3> QED BY <2>6, <3>1, <1>f DEF Validate
  <2>7. CASE ResolveClients(w)
    <3>1. o.step = "resolve" /\ o.body \in Bodies /\ MappedAll(o.declared, o.via)
      BY <1>0, <2>7 DEF ResolveClients, Course, At, TypeOK, OpRecord, Mapped
    <3>2. CASE /\ Missing(o.body, o.as, o.via) = {}
               /\ op' = [op EXCEPT ![w].step = "start", ![w].bound = Bound(o.body, o.as, o.via)]
      <4>1. BoundToRunner(o.declared, o.body, o.as, o.via, Bound(o.body, o.as, o.via))
        BY <1>0, <3>1, <3>2, BindsToRunner
      <4>2. /\ op'[w].step = "start" /\ op'[w].declared = o.declared /\ op'[w].body = o.body
            /\ op'[w].as = o.as /\ op'[w].via = o.via /\ op'[w].bound = Bound(o.body, o.as, o.via)
        BY <1>0, <3>2 DEF OpRecord
      <4>3. op'[w].q = o.q /\ o.step = "resolve"
        BY <1>0, <2>7, <3>2 DEF ResolveClients, OpRecord
      <4> QED BY <3>1, <4>1, <4>2, <4>3 DEF Mapped, At
    <3> QED BY <2>7, <3>2, <1>f DEF ResolveClients
  <2>8. CASE StartRun(w)
    BY <2>8, <1>f DEF StartRun
  <2> QED BY <1>2, <2>1, <2>2, <2>3, <2>4, <2>5, <2>6, <2>7, <2>8 DEF Enter
<1>3. ASSUME NEW q \in Requests[w], Receive(w, q) PROVE Mapped(w)'
  <2>1. op'[w].declared = {} /\ op'[w].step \notin {"start"}
    <3>1. q.kind \in Editing \cup {"run", "invoke", "activate", "deactivate", "fire"}
      BY RequestType DEF RequestRecord
    <3>2. op' = [op EXCEPT ![w] = [Idle EXCEPT !.q = q, !.step = FirstStep(q.kind),
                                               !.as = q.user, !.body = q.body]]
      BY <1>3 DEF Receive
    <3> QED BY <1>0, <3>1, <3>2 DEF Idle, FirstStep, Editing
  <2> QED BY <2>1 DEF Mapped, At, MappedAll
<1> QED BY <1>1, <1>2, <1>3

(* What a run carries fits together from its start on, and what its nodes  *)
(* look up while it runs fits too.                                         *)
RunFits(r) ==
  runs[r] # None =>
    /\ MappedAll(runs[r].declared, runs[r].via)
    /\ BoundToRunner(runs[r].declared, runs[r].body, runs[r].by, runs[r].via, runs[r].bound)
    /\ \A s \in runs[r].declared, u \in runs[r].used :
         u[1] = s /\ runs[r].by # None => u[2][2] \in {runs[r].by, None}

LEMMA RunsFit ==
  ASSUME TypeOK
  PROVE  /\ SlotsAreTheRunners <=> \A r \in RunIds : runs[r] # None =>
              /\ BoundToRunner(runs[r].declared, runs[r].body, runs[r].by, runs[r].via, runs[r].bound)
              /\ \A s \in runs[r].declared, u \in runs[r].used :
                   u[1] = s /\ runs[r].by # None => u[2][2] \in {runs[r].by, None}
  BY DEF SlotsAreTheRunners, BoundToRunner

(* A generated node of a declared slot finds the runner's connection.      *)
LEMMA GeneratedIsTheRunners ==
  ASSUME TypeOK, NEW r \in RunIds, runs[r] # None, RunFits(r), NEW g \in runs[r].left,
         g[1] \in runs[r].declared, runs[r].by # None
  PROVE  GeneratedTarget(runs[r], g)[2] = runs[r].by
  BY DEF GeneratedTarget, RunFits, MappedAll

LEMMA RunsStep ==
  ASSUME TypeOK, \A w \in Workers : Course(w) /\ Mapped(w), \A r \in RunIds : RunFits(r), [Next]_vars
  PROVE  \A r \in RunIds : RunFits(r)'
<1>1. ASSUME UNCHANGED runs PROVE \A r \in RunIds : RunFits(r)'
  BY <1>1 DEF RunFits
<1>2. ASSUME NEW w \in Workers, StartRun(w) PROVE \A r \in RunIds : RunFits(r)'
  <2> DEFINE o == op[w]
  <2>1. /\ MappedAll(o.declared, o.via)
        /\ BoundToRunner(o.declared, o.body, o.as, o.via, o.bound)
    BY <1>2 DEF StartRun, Mapped, At
  <2>2. ASSUME NEW r \in RunIds, runs' = [runs EXCEPT ![r] = NewRun(o)] PROVE \A t \in RunIds : RunFits(t)'
    <3>1. \A t \in RunIds \ {r} : runs'[t] = runs[t]
      BY <2>2 DEF TypeOK
    <3>2. runs'[r] = NewRun(o)
      BY <2>2 DEF TypeOK
    <3> QED BY <2>1, <3>1, <3>2 DEF RunFits, NewRun
  <2> QED BY <1>1, <1>2, <2>2 DEF StartRun
<1>3. ASSUME NEW r \in RunIds, RunStep(r) PROVE \A t \in RunIds : RunFits(t)'
  <2>1. runs[r] \in RunRecord /\ runs[r] # None
    BY <1>3 DEF RunStep, TypeOK
  <2>2. CASE Revalidate(r)
    <3>1. \A t \in RunIds \ {r} : runs'[t] = runs[t]
      BY <2>2 DEF Revalidate, TypeOK
    <3>2. /\ runs'[r].declared = runs[r].declared /\ runs'[r].body = runs[r].body /\ runs'[r].by = runs[r].by
          /\ runs'[r].via = runs[r].via /\ runs'[r].bound = runs[r].bound /\ runs'[r].used = runs[r].used
      BY <2>1, <2>2 DEF Revalidate, TypeOK, RunRecord
    <3> QED BY <2>1, <3>1, <3>2 DEF RunFits
  <2>3. ASSUME NEW g \in runs[r].left, ExecuteGenerated(r, g) PROVE \A t \in RunIds : RunFits(t)'
    <3> DEFINE c == GeneratedTarget(runs[r], g)
    <3>1. \A t \in RunIds \ {r} : runs'[t] = runs[t]
      BY <2>3 DEF ExecuteGenerated, TypeOK
    <3>2. /\ runs'[r].declared = runs[r].declared /\ runs'[r].body = runs[r].body /\ runs'[r].by = runs[r].by
          /\ runs'[r].via = runs[r].via /\ runs'[r].bound = runs[r].bound
          /\ runs'[r].used \in {runs[r].used, runs[r].used \cup {<<g[1], c>>}}
      BY <2>1, <2>3 DEF ExecuteGenerated, TypeOK, RunRecord
    <3>3. g[1] \in runs[r].declared /\ runs[r].by # None => c[2] = runs[r].by
      BY <2>1, GeneratedIsTheRunners
    <3> HIDE DEF c
    <3>4. \A s \in runs[r].declared, u \in runs'[r].used :
            u[1] = s /\ runs[r].by # None => u[2][2] \in {runs[r].by, None}
      BY <2>1, <3>2, <3>3 DEF RunFits
    <3> QED BY <2>1, <3>1, <3>2, <3>4 DEF RunFits
  <2> QED BY <1>3, <2>2, <2>3 DEF RunStep
<1>4. ASSUME NEW c \in Changing, ChangeConnection(c) PROVE \A r \in RunIds : RunFits(r)'
  <2>1. \A r \in RunIds : runs[r] = None => runs'[r] = None
    BY <1>4 DEF ChangeConnection
  <2>2. ASSUME NEW r \in RunIds, runs[r] # None
        PROVE  /\ runs'[r].declared = runs[r].declared /\ runs'[r].body = runs[r].body /\ runs'[r].by = runs[r].by
               /\ runs'[r].via = runs[r].via /\ runs'[r].bound = runs[r].bound /\ runs'[r].used = runs[r].used
    BY <1>4, <2>2 DEF ChangeConnection, TypeOK, RunRecord
  <2> QED BY <2>1, <2>2 DEF RunFits
<1>5. ASSUME Crash PROVE \A r \in RunIds : RunFits(r)'
  BY <1>5 DEF Crash, RunFits
<1>6. ASSUME NEW w \in Workers, Edit(w) PROVE UNCHANGED runs
  <2>1. Course(w)
    OBVIOUS
  <2> USE DEF UNTOUCHED_BY_EDITS, UNTOUCHED_BY_READS
  <2>2. CASE InsertRow(w) \/ ReadRow(w) \/ WriteRow(w) \/ SetSlots(w) \/ ClearSlots(w)
    BY <2>2 DEF InsertRow, ReadRow, WriteRow, SetSlots, ClearSlots
  <2>3. CASE Disarm(w) \/ Flag(w) \/ DeleteRow(w) \/ Arm(w) \/ StoreActive(w)
    BY <2>3 DEF Disarm, Flag, DeleteRow, Arm, StoreActive
  <2>4. CASE CheckShared(w) \/ CheckDeclared(w) \/ CheckVisible(w) \/ SetMapping(w)
    BY <2>4 DEF CheckShared, CheckDeclared, CheckVisible, SetMapping
  <2> QED BY <1>6, <2>2, <2>3, <2>4 DEF Edit
<1>7. ASSUME NEW w \in Workers, Enter(w), ~StartRun(w) PROVE UNCHANGED runs
  BY <1>7 DEF Enter, CheckRow, ListSlots, GetMappings, Load, GetActive, Validate, ResolveClients,
              UNTOUCHED_BY_READS
<1>8. ASSUME NEW w \in Workers, NEW q \in Requests[w], Receive(w, q) PROVE UNCHANGED runs
  BY <1>8 DEF Receive
<1>9. Restart \/ UNCHANGED vars => UNCHANGED runs
  BY DEF Restart, vars
<1> QED BY <1>1, <1>2, <1>3, <1>4, <1>5, <1>6, <1>7, <1>8, <1>9 DEF Next

-----------------------------------------------------------------------------
(* An edit that has the graph to itself leaves a private graph clean.      *)

Alone == {"insert", "write", "setSlots", "clear", "checkDeclared", "checkVisible", "setMapping"}

LEMMA EditSteps ==
  ASSUME NEW w \in Workers, Course(w), At(w, Alone \cup {"read", "erase", "checkShared"})
  PROVE  BusyEditing(w)
  BY SharingAssumption DEF Course, At, Alone, BusyEditing, Editing

(* A request keeps its kind until it is answered.                          *)
LEMMA KeepsKind ==
  ASSUME TypeOK, NEW w \in Workers, Course(w), Edit(w) \/ Enter(w)
  PROVE  BusyEditing(w)' => BusyEditing(w)
<1> DEFINE o == op[w]
<1> SUFFICES op'[w].q \in {o.q, None}
  BY DEF BusyEditing
<1>0. o \in OpRecord /\ op \in [Workers -> OpRecord]
  BY DEF TypeOK
<1>f. ASSUME Finish(w) PROVE op'[w].q = None
  BY <1>0, <1>f, IdleType DEF Finish
<1>g. ASSUME NEW s, Goto(w, s) PROVE op'[w].q = o.q
  BY <1>0, <1>g DEF Goto, OpRecord
<1> USE DEF Test
<1>1. CASE InsertRow(w) \/ SetSlots(w) \/ ClearSlots(w) \/ Disarm(w) \/ Flag(w) \/ DeleteRow(w)
  BY <1>1, <1>f, <1>g DEF InsertRow, SetSlots, ClearSlots, Disarm, Flag, DeleteRow
<1>2. CASE ReadRow(w)
  <2>1. ASSUME NEW r, op' = [op EXCEPT ![w].step = "write", ![w].row = r] PROVE op'[w].q = o.q
    BY <1>0, <2>1 DEF OpRecord
  <2> QED BY <1>2, <1>f, <2>1 DEF ReadRow
<1>3. CASE WriteRow(w)
  <2>1. Goto(w, "clear") \/ Goto(w, "setSlots") \/ Finish(w)
    BY <1>3, WriteType DEF WriteRow
  <2> QED BY <2>1, <1>f, <1>g
<1>4. CASE Arm(w) \/ StoreActive(w) \/ CheckShared(w) \/ CheckDeclared(w) \/ CheckVisible(w) \/ SetMapping(w)
  BY <1>4, <1>f, <1>g DEF Arm, StoreActive, CheckShared, CheckDeclared, CheckVisible, SetMapping
<1>5. CASE CheckRow(w) \/ Validate(w) \/ StartRun(w)
  BY <1>5, <1>f, <1>g DEF CheckRow, Validate, StartRun
<1>6. CASE ListSlots(w) \/ GetMappings(w) \/ ResolveClients(w)
  <2>1. ASSUME NEW r, NEW s, \/ op' = [op EXCEPT ![w].step = s, ![w].declared = r]
                             \/ op' = [op EXCEPT ![w].step = s, ![w].via = r]
                             \/ op' = [op EXCEPT ![w].step = s, ![w].bound = r]
        PROVE  op'[w].q = o.q
    BY <1>0, <2>1 DEF OpRecord
  <2> QED BY <1>6, <1>f, <2>1 DEF ListSlots, GetMappings, ResolveClients
<1>7. CASE Load(w) \/ GetActive(w)
  <2>1. ASSUME NEW r, NEW s, NEW b, op' = [op EXCEPT ![w].step = s, ![w].as = r, ![w].body = b]
        PROVE  op'[w].q = o.q
    BY <1>0, <2>1 DEF OpRecord
  <2> QED BY <1>7, <1>f, <2>1 DEF Load, GetActive
<1> QED BY <1>1, <1>2, <1>3, <1>4, <1>5, <1>6, <1>7 DEF Edit, Enter

(* A step of w that leaves the tables alone, and the edits as they are.    *)
LEMMA Quietly ==
  ASSUME EditsAreApart, NEW w \in Workers, UNCHANGED <<row, slots, mapping, overlapped>>,
         \A v \in Workers \ {w} : op'[v] = op[v],
         BusyEditing(w)' => BusyEditing(w),
         ~At(w, {"clear"}), ~At(w, Alone)'
  PROVE  EditsAreApart'
<1> SUFFICES ASSUME ~overlapped PROVE EditsAreApart'
  BY DEF EditsAreApart
<1>1. \A v \in Workers : BusyEditing(v)' => BusyEditing(v)
  BY DEF BusyEditing
<1>2. \A v \in Workers, S \in SUBSET Alone : At(v, S)' => v # w /\ At(v, S)
  BY DEF At
<1>3. Private' = Private /\ Clean' = Clean
  BY DEF Private, Clean
<1> QED BY <1>1, <1>2, <1>3 DEF EditsAreApart, At, Alone

LEMMA ReceiveApart ==
  ASSUME TypeOK, \A v \in Workers : Course(v), EditsAreApart,
         NEW w \in Workers, NEW q \in Requests[w], Receive(w, q)
  PROVE  EditsAreApart'
<1> SUFFICES ASSUME ~overlapped' PROVE EditsAreApart'
  BY DEF EditsAreApart
<1>1. /\ ~overlapped /\ UNCHANGED <<row, slots, mapping>>
      /\ q.kind \in Editing => ~OthersEdit(w)
  BY DEF Receive, tables
<1>2. \A v \in Workers \ {w} : op'[v] = op[v]
  BY OneMoves
<1>3. op'[w].q = q /\ op'[w].step = FirstStep(q.kind) /\ op[w] = Idle
  BY DEF Receive, TypeOK, OpRecord, Idle
<1>4. q.kind \in Editing \cup {"run", "invoke", "activate", "deactivate", "fire"}
  BY RequestType DEF RequestRecord
<1>5. BusyEditing(w)' => q.kind \in Editing
  BY <1>3 DEF BusyEditing
<1>6. \A v, u \in Workers : BusyEditing(v)' /\ BusyEditing(u)' => v = u
  BY <1>1, <1>2, <1>5 DEF EditsAreApart, BusyEditing, OthersEdit
<1>7. ~At(w, Alone \ {"insert"})' /\ (At(w, {"insert"})' => q.kind = "post")
  BY <1>3, <1>4 DEF FirstStep, Editing, At, Alone
<1>8. q.kind = "post" => Private
  BY DEF Receive, FreshId, Private
<1>9. \A v \in Workers : ~At(v, {"clear"})' => ~At(v, {"clear"})
  BY <1>2, <1>3 DEF At, Idle
<1>10. Private' = Private /\ Clean' = Clean
  BY <1>1 DEF Private, Clean
<1>11. ASSUME NEW v \in Workers, NEW S \in SUBSET (Alone \ {"insert"}), At(v, S)' PROVE v # w /\ At(v, S)
  BY <1>2, <1>7, <1>11 DEF At
<1>12. ASSUME NEW v \in Workers
       PROVE  /\ At(v, {"insert", "clear"})' => Private'
              /\ At(v, {"setSlots", "checkDeclared", "checkVisible", "setMapping"})' => ~Private'
              /\ At(v, {"write"})' => row' # None
  <2>1. CASE v = w
    BY <1>7, <1>8, <1>10, <2>1 DEF At, Alone
  <2>2. CASE v # w
    BY <1>1, <1>2, <1>10, <2>2 DEF At, EditsAreApart
  <2> QED BY <2>1, <2>2
<1> QED BY <1>1, <1>6, <1>9, <1>10, <1>12 DEF EditsAreApart

LEMMA EnterApart ==
  ASSUME TypeOK, EditsAreApart, NEW w \in Workers, Course(w), Enter(w)
  PROVE  EditsAreApart'
<1>0. op[w] \in OpRecord /\ op \in [Workers -> OpRecord]
  BY DEF TypeOK
<1>1. UNCHANGED <<row, slots, mapping, overlapped>>
  BY DEF Enter, CheckRow, ListSlots, GetMappings, Load, GetActive, Validate, ResolveClients, StartRun,
         UNTOUCHED_BY_READS, tables
<1>2. ~At(w, {"clear"})
  BY DEF Enter, CheckRow, ListSlots, GetMappings, Load, GetActive, Validate, ResolveClients, StartRun, At
<1>3. ~At(w, Alone)'
  <2>1. op'[w].step \notin Alone
    BY <1>0 DEF Enter, CheckRow, ListSlots, GetMappings, Load, GetActive, Validate, ResolveClients, StartRun,
                Goto, Test, Finish, Idle, OpRecord, Alone
  <2> QED BY <2>1 DEF At
<1> QED BY <1>1, <1>2, <1>3, OneMoves, KeepsKind, Quietly

LEMMA EditApart ==
  ASSUME TypeOK, \A v \in Workers : Course(v), EditsAreApart, NEW w \in Workers, Edit(w)
  PROVE  EditsAreApart'
<1> DEFINE o == op[w]  q == op[w].q
<1> SUFFICES ASSUME ~overlapped' PROVE EditsAreApart'
  BY DEF EditsAreApart
<1>0. o \in OpRecord /\ op \in [Workers -> OpRecord] /\ Course(w)
  BY DEF TypeOK
<1>1. \A v \in Workers \ {w} : op'[v] = op[v]
  BY <1>0, OneMoves
<1>2. BusyEditing(w)' => BusyEditing(w)
  BY <1>0, KeepsKind
<1>3. ASSUME ~overlapped PROVE \A v, u \in Workers : BusyEditing(v)' /\ BusyEditing(u)' => v = u
  BY <1>1, <1>2, <1>3 DEF EditsAreApart, BusyEditing
(* While w has the graph to itself, nobody else is at a step of an edit.   *)
<1>4. ASSUME ~overlapped, BusyEditing(w)
      PROVE  \A v \in Workers \ {w}, S \in SUBSET Alone : ~At(v, S) /\ ~At(v, S)'
  <2>1. ASSUME NEW v \in Workers \ {w}, NEW S \in SUBSET Alone, At(v, S) PROVE FALSE
    <3>1. At(v, Alone \cup {"read", "erase", "checkShared"})
      BY <2>1 DEF At
    <3> QED BY <1>4, <3>1, EditSteps DEF EditsAreApart
  <2> QED BY <1>1, <2>1 DEF At
<1>f. ASSUME Finish(w) PROVE op'[w].step = "idle"
  BY <1>0, <1>f, IdleType DEF Finish
<1>g. ASSUME NEW s, Goto(w, s) PROVE op'[w].step = s
  BY <1>0, <1>g DEF Goto, OpRecord
<1> USE DEF Test
(* What is left to show of an edit on its own.                             *)
<1>5. ASSUME ~overlapped, BusyEditing(w),
             At(w, {"insert", "clear"})' => Private',
             At(w, {"setSlots", "checkDeclared", "checkVisible", "setMapping"})' => ~Private',
             At(w, {"write"})' => row' # None,
             ~At(w, {"clear"})' /\ Private' => Clean'
      PROVE  EditsAreApart'
  <2>1. ASSUME NEW v \in Workers
        PROVE  /\ At(v, {"insert", "clear"})' => Private'
               /\ At(v, {"setSlots", "checkDeclared", "checkVisible", "setMapping"})' => ~Private'
               /\ At(v, {"write"})' => row' # None
    <3>1. CASE v = w
      BY <1>5, <3>1
    <3>2. CASE v # w
      BY <1>4, <1>5, <3>2 DEF Alone
    <3> QED BY <3>1, <3>2
  <2>2. (\A v \in Workers : ~At(v, {"clear"})') /\ Private' => Clean'
    BY <1>5
  <2> QED BY <1>3, <1>5, <2>1, <2>2 DEF EditsAreApart
(* Before w clears the slots, a private graph has none.                    *)
<1>6. ASSUME ~overlapped, BusyEditing(w), ~At(w, {"clear"}), Private PROVE Clean
  <2>1. \A v \in Workers : ~At(v, {"clear"})
    BY <1>4, <1>6 DEF Alone
  <2> QED BY <1>6, <2>1 DEF EditsAreApart
<1>11. CASE InsertRow(w)
  <2>1. ~overlapped /\ o.step = "insert" /\ q.kind = "post" /\ q \in Requests[w] /\ BusyEditing(w) /\ Private
    BY <1>0, <1>11, EditSteps, SharingAssumption DEF InsertRow, Course, At, EditsAreApart, Alone
  <2>2. Clean'
    BY <1>6, <1>11, <2>1 DEF InsertRow, Clean, At
  <2>3. row' = Row(q.user, q.body, q.sharing, FALSE) /\ row' \in RowRecord /\ row' # None
    <3>1. q.body \in Bodies /\ q.sharing \in {"private", "shared"} /\ q.user \in Owners
      BY <2>1, RequestType
    <3>2. row' = Row(q.user, q.body, q.sharing, FALSE)
      BY <1>11 DEF InsertRow
    <3>3. row' \in RowRecord
      BY <3>1, <3>2 DEF Row, RowRecord
    <3> QED BY <3>2, <3>3, SharingAssumption
  <2>4. op'[w].step = "setSlots" => ~Private'
    BY <1>11, <1>f, <2>3 DEF InsertRow, Private, Row
  <2>5. op'[w].step \in {"setSlots", "idle"}
    BY <1>11, <1>f, <1>g DEF InsertRow
  <2> QED BY <1>5, <2>1, <2>2, <2>4, <2>5 DEF At
<1>12. CASE ReadRow(w)
  <2>1. ~overlapped /\ o.step = "read" /\ BusyEditing(w) /\ UNCHANGED <<row, slots, mapping>>
    BY <1>0, <1>12, EditSteps DEF ReadRow, At, Alone, UNTOUCHED_BY_READS, tables
  <2>2. op'[w].step \in {"write", "idle"} /\ (op'[w].step = "write" => row # None)
    <3>1. ASSUME NEW r, op' = [op EXCEPT ![w].step = "write", ![w].row = r] PROVE op'[w].step = "write"
      BY <1>0, <3>1 DEF OpRecord
    <3> QED BY <1>12, <1>f, <3>1 DEF ReadRow
  <2>3. Private => Clean
    BY <1>6, <2>1 DEF At
  <2> QED BY <1>5, <2>1, <2>2, <2>3 DEF At, Private, Clean
<1>13. CASE WriteRow(w)
  <2>1. ~overlapped /\ o.step = "write" /\ BusyEditing(w) /\ row \in RowRecord /\ row # None
    BY <1>0, <1>13, EditSteps DEF WriteRow, At, EditsAreApart, Alone, TypeOK
  <2>2. o.row.sharing \in {"private", "shared"} /\ o.row.body \in Bodies
    BY <1>0, <1>13, WriteType DEF WriteRow, RowRecord
  <2>3. row' \in RowRecord /\ row' # None /\ row'.sharing = o.row.sharing
    BY <1>13, <2>1, <2>2, SharingAssumption DEF WriteRow, RowRecord
  <2>4. IF o.row.sharing = "private" THEN op'[w].step = "clear" ELSE op'[w].step \in {"setSlots", "idle"}
    BY <1>13, <1>f, <1>g, <2>2 DEF WriteRow
  <2> QED BY <1>5, <2>1, <2>2, <2>3, <2>4 DEF At, Private
<1>14. CASE SetSlots(w)
  <2>1. ~overlapped /\ o.step = "setSlots" /\ BusyEditing(w) /\ ~Private
    BY <1>0, <1>14, EditSteps DEF SetSlots, At, EditsAreApart, Alone
  <2>2. op'[w].step = "idle" /\ row' = row
    BY <1>14, <1>f DEF SetSlots
  <2> QED BY <1>5, <2>1, <2>2 DEF At, Private
<1>15. CASE ClearSlots(w)
  <2>1. o.step = "clear" /\ BusyEditing(w) /\ op'[w].step = "idle" /\ row' = row
    BY <1>0, <1>15, <1>f, EditSteps DEF ClearSlots, At, Alone
  <2>2. Clean'
    BY <1>15 DEF ClearSlots, Drop, Clean, Unmapped
  <2>3. CASE ~overlapped
    BY <1>5, <2>1, <2>2, <2>3 DEF At
  <2>4. CASE overlapped
    <3>1. \A v \in Workers : ~BusyEditing(v)'
      <4>1. \A v \in Workers \ {w} : ~BusyEditing(v)
        BY <1>15, <2>4 DEF ClearSlots, OthersEdit
      <4>2. op'[w].q = None
        BY <1>0, <1>15, IdleType DEF ClearSlots, Finish
      <4> QED BY <1>1, <4>1, <4>2 DEF BusyEditing
    <3>2. \A v \in Workers, S \in SUBSET Alone : ~At(v, S)'
      <4> SUFFICES ASSUME NEW v \in Workers, NEW S \in SUBSET Alone, At(v, S)' PROVE FALSE
        OBVIOUS
      <4>1. v # w
        BY <2>1 DEF At, Alone
      <4>2. At(v, Alone \cup {"read", "erase", "checkShared"})
        BY <1>1, <4>1 DEF At
      <4> QED BY <1>1, <3>1, <4>1, <4>2, EditSteps DEF BusyEditing
    <3> QED BY <2>2, <3>1, <3>2 DEF EditsAreApart, Alone
  <2> QED BY <2>3, <2>4
<1>16. CASE Disarm(w) \/ Arm(w)
  <2>1. UNCHANGED <<row, slots, mapping, overlapped>> /\ ~At(w, {"clear"})
    BY <1>16 DEF Disarm, Arm, tables, At
  <2>2. op'[w].step \in {"erase", "flag", "idle", "store"}
    BY <1>16, <1>f, <1>g DEF Disarm, Arm
  <2> QED BY <1>1, <1>2, <2>1, <2>2, Quietly DEF At, Alone
<1>17. CASE CheckShared(w) \/ CheckDeclared(w) \/ CheckVisible(w)
  <2>1. /\ ~overlapped /\ BusyEditing(w) /\ UNCHANGED <<row, slots, mapping>>
        /\ o.step \in {"checkShared", "checkDeclared", "checkVisible"}
    BY <1>0, <1>17, EditSteps DEF CheckShared, CheckDeclared, CheckVisible, At, Alone, UNTOUCHED_BY_READS,
                                  tables
  <2>2. op'[w].step \in {"checkDeclared", "checkVisible", "setMapping", "idle"}
    BY <1>17, <1>f, <1>g DEF CheckShared, CheckDeclared, CheckVisible
  <2>3. op'[w].step # "idle" => ~Private
    <3>1. CASE CheckShared(w)
      BY <1>f, <3>1 DEF CheckShared, Private
    <3>2. CASE CheckDeclared(w) \/ CheckVisible(w)
      BY <2>1, <3>2 DEF CheckDeclared, CheckVisible, EditsAreApart, At
    <3> QED BY <1>17, <3>1, <3>2
  <2>4. Private => Clean
    BY <1>6, <2>1 DEF At
  <2> QED BY <1>5, <2>1, <2>2, <2>3, <2>4 DEF At, Private, Clean
<1>18. CASE SetMapping(w)
  <2>1. ~overlapped /\ o.step = "setMapping" /\ BusyEditing(w) /\ ~Private
    BY <1>0, <1>18, EditSteps DEF SetMapping, At, EditsAreApart, Alone
  <2>2. op'[w].step = "idle" /\ row' = row
    BY <1>18, <1>f DEF SetMapping
  <2> QED BY <1>5, <2>1, <2>2 DEF At, Private
<1>19. CASE DeleteRow(w)
  <2>1. ~overlapped /\ o.step = "erase" /\ BusyEditing(w) /\ row' = None /\ UNCHANGED <<slots, mapping>>
    BY <1>0, <1>19, EditSteps DEF DeleteRow, At, Alone
  <2>2. IF row # None THEN op'[w].step = "clear" ELSE op'[w].step = "idle"
    BY <1>19, <1>f, <1>g DEF DeleteRow
  <2>3. op'[w].step = "idle" => Clean'
    BY <1>6, <2>1, <2>2 DEF At, Private, Clean
  <2> QED BY <1>5, <2>1, <2>2, <2>3 DEF At, Private
(* What (de)activation writes to the row says nothing of sharing.          *)
<1>20. CASE Flag(w) \/ StoreActive(w)
  <2>1. /\ ~overlapped /\ UNCHANGED <<slots, mapping>> /\ op'[w].step = "idle"
        /\ o.step \in {"flag", "store"}
    <3>1. CASE Flag(w)
      BY <1>f, <3>1 DEF Flag
    <3>2. CASE StoreActive(w)
      BY <1>f, <3>2 DEF StoreActive
    <3> QED BY <1>20, <3>1, <3>2
  <2>2. Private' = Private /\ (row # None => row' # None)
    <3>1. CASE row = None
      BY <1>20, <3>1 DEF Flag, StoreActive, Private, Row
    <3>2. CASE row # None
      <4>1. row \in RowRecord
        BY <3>2 DEF TypeOK
      <4>2. q.body \in Bodies \/ ~StoreActive(w)
        BY <1>0, RequestType DEF StoreActive, Course, At
      <4>3. row' \in RowRecord /\ row'.sharing = row.sharing
        BY <1>20, <3>2, <4>1, <4>2 DEF Flag, StoreActive, RowRecord
      <4> QED BY <3>2, <4>3, SharingAssumption DEF Private
    <3> QED BY <3>1, <3>2
  <2>3. \A v \in Workers, S \in SUBSET Alone : At(v, S)' => At(v, S)
    BY <1>1, <2>1 DEF At, Alone
  <2>4. \A v \in Workers : ~At(v, {"clear"})' => ~At(v, {"clear"})
    BY <1>1, <2>1 DEF At
  <2>5. Clean' = Clean
    BY <2>1 DEF Clean
  <2> QED BY <1>3, <2>1, <2>2, <2>3, <2>4, <2>5 DEF EditsAreApart, Alone
<1> QED BY <1>11, <1>12, <1>13, <1>14, <1>15, <1>16, <1>17, <1>18, <1>19, <1>20 DEF Edit

LEMMA OtherApart ==
  ASSUME TypeOK, \A v \in Workers : Course(v), EditsAreApart,
         \/ \E r \in RunIds : RunStep(r)
         \/ \E c \in Changing : ChangeConnection(c)
         \/ Crash \/ Restart \/ UNCHANGED vars
  PROVE  EditsAreApart'
<1>1. ASSUME UNCHANGED <<row, slots, mapping, op, overlapped>> PROVE EditsAreApart'
  BY <1>1 DEF EditsAreApart, BusyEditing, At, Private, Clean
<1>2. CASE Crash
  <2> SUFFICES ASSUME ~overlapped' PROVE EditsAreApart'
    BY DEF EditsAreApart
  <2>1. ~overlapped /\ (\A v \in Workers : ~BusyEditing(v)) /\ UNCHANGED <<row, slots, mapping>>
    BY <1>2 DEF Crash, tables
  <2>2. \A v \in Workers : ~At(v, {"clear"})
    BY <2>1, EditSteps DEF At, Alone
  <2>3. \A v \in Workers, S \in SUBSET Alone : ~At(v, S)'
    BY <1>2 DEF Crash, Idle, At, Alone
  <2>4. \A v \in Workers : ~BusyEditing(v)'
    BY <1>2 DEF Crash, Idle, BusyEditing
  <2>5. Private' = Private /\ Clean' = Clean
    BY <2>1 DEF Private, Clean
  <2> QED BY <2>1, <2>2, <2>3, <2>4, <2>5 DEF EditsAreApart, Alone
<1>3. (\E r \in RunIds : RunStep(r)) \/ (\E c \in Changing : ChangeConnection(c)) \/ Restart \/ UNCHANGED vars
        => UNCHANGED <<row, slots, mapping, op, overlapped>>
  BY DEF RunStep, Revalidate, ExecuteGenerated, ChangeConnection, Restart, vars, tables
<1> QED BY <1>1, <1>2, <1>3

-----------------------------------------------------------------------------
(* The inductive invariant, and what it is for.                            *)

LEMMA IInvInit == Init => IInv
<1> SUFFICES ASSUME Init PROVE IInv
  OBVIOUS
<1>1. TypeOK
  BY IdleType, SharingAssumption DEF Init, TypeOK, Owners
<1>2. \A w \in Workers : op[w] = Idle /\ op[w].q = None /\ op[w].step = "idle" /\ op[w].declared = {}
  BY DEF Init, Idle
<1>3. \A w \in Workers : Course(w) /\ Mapped(w)
  BY <1>2 DEF Course, Mapped, At
<1>4. EditsAreApart
  BY <1>2 DEF Init, EditsAreApart, BusyEditing, At, Clean
<1>5. \A r \in RunIds : runs[r] = None
  BY DEF Init
<1> QED BY <1>1, <1>3, <1>4, <1>5 DEF IInv, AcceptedIsMapped, SlotsAreTheRunners

LEMMA IInvStep == IInv /\ [Next]_vars => IInv'
<1> SUFFICES ASSUME IInv, [Next]_vars PROVE IInv'
  OBVIOUS
<1>1. /\ TypeOK /\ (\A w \in Workers : Course(w) /\ Mapped(w)) /\ EditsAreApart
      /\ AcceptedIsMapped /\ SlotsAreTheRunners
  BY DEF IInv, AcceptedIsMapped
<1>2. TypeOK' /\ \A w \in Workers : Course(w)'
  BY <1>1, TypeStep
<1>3. \A w \in Workers : Mapped(w)'
  <2>1. ASSUME NEW w \in Workers, Edit(w) \/ Enter(w) \/ \E q \in Requests[w] : Receive(w, q)
        PROVE  \A v \in Workers : Mapped(v)'
    <3>1. Mapped(w)'
      BY <1>1, <2>1, MappedStep
    <3>2. ASSUME NEW v \in Workers \ {w} PROVE Mapped(v)'
      BY <1>1, <2>1, OneMoves DEF Mapped, At
    <3> QED BY <3>1, <3>2
  <2>2. ASSUME op' = op PROVE \A v \in Workers : Mapped(v)'
    BY <1>1, <2>2 DEF Mapped, At
  <2>3. ASSUME Crash PROVE \A v \in Workers : Mapped(v)'
    BY <2>3 DEF Crash, Mapped, At, Idle
  <2>4. \/ \E r \in RunIds : RunStep(r)
        \/ \E c \in Changing : ChangeConnection(c)
        \/ Restart \/ UNCHANGED vars
        => op' = op
    BY DEF RunStep, Revalidate, ExecuteGenerated, ChangeConnection, Restart, vars
  <2> QED BY <2>1, <2>2, <2>3, <2>4 DEF Next
<1>4. (\A r \in RunIds : RunFits(r)) <=>
        SlotsAreTheRunners /\ \A r \in RunIds : runs[r] # None => MappedAll(runs[r].declared, runs[r].via)
  BY <1>1, RunsFit DEF RunFits
<1>5. \A r \in RunIds : RunFits(r)'
  BY <1>1, <1>4, RunsStep DEF AcceptedIsMapped
<1>6. /\ SlotsAreTheRunners'
      /\ \A r \in RunIds : runs'[r] # None => MappedAll(runs'[r].declared, runs'[r].via)
  BY <1>5 DEF RunFits, SlotsAreTheRunners, BoundToRunner
<1>7. EditsAreApart'
  <2>1. ASSUME NEW w \in Workers, Edit(w) \/ Enter(w) \/ \E q \in Requests[w] : Receive(w, q)
        PROVE  EditsAreApart'
    BY <1>1, <2>1, EditApart, EnterApart, ReceiveApart
  <2> QED BY <1>1, <2>1, OtherApart DEF Next
<1> QED BY <1>2, <1>3, <1>6, <1>7 DEF IInv, AcceptedIsMapped

(* Types and courses hold, accepted runs are mapped and bound to their     *)
(* runners, and edits that do not overlap leave no slot behind: whatever   *)
(* order the accesses of submit_run, update_graph, delete_graph and        *)
(* set_connection_mapping come in.                                         *)
THEOREM SharingInvariant == Spec => []IInv
<1> QED BY IInvInit, IInvStep, PTL DEF Spec

THEOREM SharingTypes == Spec => []TypeOK
<1>1. IInv => TypeOK
  BY DEF IInv
<1> QED BY <1>1, SharingInvariant, PTL

(* graph_sharing_store.py: once no edit is under way, and none overlapped  *)
(* another, a graph that is private or gone has neither slots nor mappings.*)
THEOREM SharingPrivate == Spec => []PrivateIsClean
<1>1. IInv => PrivateIsClean
  <2> SUFFICES ASSUME IInv, Quiet, Private PROVE Clean
    BY DEF PrivateIsClean, Clean
  <2>1. EditsAreApart /\ \A w \in Workers : Course(w)
    BY DEF IInv
  <2>2. \A w \in Workers : ~At(w, {"clear"})
    BY <2>1, EditSteps DEF Quiet, At, Alone
  <2> QED BY <2>1, <2>2 DEF EditsAreApart, Quiet
<1> QED BY <1>1, SharingInvariant, PTL

(* submit_run and resolve_connections: the slots somebody else's shared    *)
(* graph declared are filled by the runner or by everybody, never by the   *)
(* author.                                                                 *)
THEOREM SharingSlots == Spec => []SlotsAreTheRunners
<1>1. IInv => SlotsAreTheRunners
  BY DEF IInv
<1> QED BY <1>1, SharingInvariant, PTL

(* set_declared_slots leaves user_slot_mappings alone: no save of a graph  *)
(* that stays shared takes a runner's choice away.                         *)
THEOREM SharingMappings == Spec => MappingsAreKept
<1>1. ASSUME IInv, [Next]_vars, NEW u \in Users, NEW s \in Names, mapping[u][s] # None, mapping'[u][s] = None
      PROVE  Private \/ overlapped
  <2>0. TypeOK /\ EditsAreApart /\ \A w \in Workers : Course(w)
    BY <1>1 DEF IInv
  <2>1. ASSUME NEW w \in Workers, ClearSlots(w) PROVE Private \/ overlapped
    BY <2>0, <2>1 DEF ClearSlots, EditsAreApart, At
  <2>2. ASSUME NEW w \in Workers, SetMapping(w) PROVE FALSE
    <3> DEFINE q == op[w].q
    <3>1. q \in Requests[w] /\ q.kind = "map"
      BY <2>0, <2>2 DEF SetMapping, Course, At
    <3>2. q.user \in Users /\ q.slot \in Names /\ q.name # None
      BY <3>1, RequestType DEF Owners
    <3>3. mapping' = [mapping EXCEPT ![q.user][q.slot] = q.name]
      BY <2>2 DEF SetMapping
    <3> HIDE DEF q
    <3>4. mapping'[u][s] \in {mapping[u][s], q.name}
      BY <2>0, <3>2, <3>3 DEF TypeOK, Via
    <3> QED BY <1>1, <3>2, <3>4
  <2>3. ASSUME mapping' = mapping PROVE FALSE
    BY <1>1, <2>3
  <2>4. ASSUME NEW w \in Workers, Edit(w), ~ClearSlots(w), ~SetMapping(w) PROVE mapping' = mapping
    BY <2>4 DEF Edit, InsertRow, ReadRow, WriteRow, SetSlots, Replace, Disarm, Flag, DeleteRow, Arm,
                StoreActive,
                CheckShared, CheckDeclared, CheckVisible, UNTOUCHED_BY_READS, tables
  <2>5. ASSUME NEW w \in Workers, Enter(w) \/ \E q \in Requests[w] : Receive(w, q) PROVE mapping' = mapping
    BY <2>5 DEF Enter, CheckRow, ListSlots, GetMappings, Load, GetActive, Validate, ResolveClients, StartRun,
                Receive, UNTOUCHED_BY_READS, tables
  <2>6. \/ \E r \in RunIds : RunStep(r)
        \/ \E c \in Changing : ChangeConnection(c)
        \/ Crash \/ Restart \/ UNCHANGED vars
        => mapping' = mapping
    BY DEF RunStep, Revalidate, ExecuteGenerated, ChangeConnection, Crash, Restart, vars, tables
  <2> QED BY <1>1, <2>1, <2>2, <2>3, <2>4, <2>5, <2>6 DEF Next
<1>2. IInv /\ [Next]_vars =>
        [\A u \in Users, s \in Names :
           mapping[u][s] # None /\ mapping'[u][s] = None => Private \/ overlapped]_vars
  BY <1>1
<1> QED BY <1>2, SharingInvariant, PTL DEF Spec, MappingsAreKept

-----------------------------------------------------------------------------
(* Accounts *)

(* What a callback in progress is.                                         *)
LEMMA CallbackType ==
  ASSUME AccountsTypeOK, NEW c \in Callbacks, NEW place, IsAt(c, place)
  PROVE  /\ callback[c] \in SignIn /\ callback[c].at = place
         /\ callback[c].browser \in Browsers /\ callback[c].email \in Emails
         /\ callback[c].invite \in Invite \cup {Absent} /\ callback[c].user \in User \cup {Absent}
<1>1. callback[c] \in SignIn
  BY DEF AccountsTypeOK, IsAt
<1> QED BY <1>1 DEF IsAt, SignIn

LEMMA Redirected ==
  ASSUME AccountsTypeOK, NEW c \in Callbacks, NEW place, IsAt(c, place), RedirectBack(c)
  PROVE  /\ callback' = [callback EXCEPT ![c] = Ended]
         /\ callback' \in [Callbacks -> SignIn \cup {Absent, Ended}]
         /\ cookie' \in [Browsers -> (1..Logins) \cup {Absent}]
  BY CallbackType DEF RedirectBack, AccountsTypeOK

LEMMA AccountTypesInit == AccountsInit => AccountsTypeOK
<1> SUFFICES ASSUME AccountsInit PROVE AccountsTypeOK
  OBVIOUS
<1>1. issued \in 0..Logins
  BY AccountsAssumption DEF AccountsInit
<1>2. invites \in [Emails -> Invite \cup {Absent}]
  BY AccountsAssumption DEF AccountsInit, Invite, Roles
<1> QED BY <1>1, <1>2 DEF AccountsInit, AccountsTypeOK

LEMMA AccountTypes ==
  ASSUME AccountsTypeOK, CallbacksHold, [AccountsNext]_allVars
  PROVE  AccountsTypeOK'
<1> USE DEF AccountsTypeOK
<1>1. ASSUME NEW user \in sessions, NEW e \in Emails, NEW role \in Roles, InviteUser(user, e, role)
      PROVE  AccountsTypeOK'
  <2>1. [role |-> role, by |-> user.id] \in Invite
    BY DEF Invite, Session
  <2> QED BY <1>1, <2>1 DEF InviteUser, AddInvite, keyVars
<1>2. ASSUME NEW e \in AdminEmails, RestartServer(e) PROVE AccountsTypeOK'
  <2>1. invites' \in [Emails -> Invite \cup {Absent}]
    BY <1>2, AccountsAssumption DEF RestartServer, EnsureAdminBootstrapped, AddInvite, Invite, Roles
  <2> QED BY <1>2, <2>1 DEF RestartServer
<1>3. ASSUME NEW b \in Browsers, GoogleLogin(b) \/ StateExpires(b) PROVE AccountsTypeOK'
  <2>1. issued' \in 0..Logins /\ (issued < Logins => issued + 1 \in 1..Logins)
    BY <1>3, AccountsAssumption DEF GoogleLogin, StateExpires
  <2> QED BY <1>3, <2>1 DEF GoogleLogin, StateExpires, keyVars
<1>4. ASSUME NEW c \in Callbacks, NEW b \in Browsers, NEW state \in 1..Logins, NEW e \in Emails,
             ExchangeCode(c, b, state, e)
      PROVE  AccountsTypeOK'
  <2>1. [at |-> "invite", browser |-> b, email |-> e, invite |-> Absent, user |-> Absent] \in SignIn
    BY DEF SignIn
  <2> QED BY <1>4, <2>1 DEF ExchangeCode, keyVars
<1>5. ASSUME NEW c \in Callbacks, ExchangeFails(c) PROVE AccountsTypeOK'
  BY <1>5, Redirected DEF ExchangeFails, keyVars
<1>6. ASSUME NEW c \in Callbacks, GetInvite(c) PROVE AccountsTypeOK'
  <2>1. IsAt(c, "invite") /\ callback[c] \in SignIn /\ callback[c].email \in Emails
    BY <1>6, CallbackType DEF GetInvite
  <2>2. [callback[c] EXCEPT !.at = "account", !.invite = invites[callback[c].email]] \in SignIn
    BY <2>1 DEF SignIn
  <2>3. callback' \in [Callbacks -> SignIn \cup {Absent, Ended}] /\ cookie' \in [Browsers -> (1..Logins) \cup {Absent}]
    BY <1>6, <2>1, <2>2, Redirected DEF GetInvite
  <2> QED BY <1>6, <2>3 DEF GetInvite, keyVars
<1>7. ASSUME NEW c \in Callbacks, GetUserByEmail(c) PROVE AccountsTypeOK'
  <2>1. callback[c] \in SignIn
    BY <1>7, CallbackType DEF GetUserByEmail
  <2>2. RowsOf(callback[c].email) # {} => (CHOOSE u \in RowsOf(callback[c].email) : TRUE) \in User
    BY DEF RowsOf
  <2>3. callback'[c] \in SignIn
    BY <1>7, <2>1, <2>2 DEF GetUserByEmail, SignIn
  <2> QED BY <1>7, <2>3 DEF GetUserByEmail, keyVars
<1>8. ASSUME NEW c \in Callbacks, NEW id \in Ids, CreateUser(c, id) PROVE AccountsTypeOK'
  <2>1. callback[c] \in SignIn /\ callback[c].email \in Emails /\ callback[c].invite \in Invite
    BY <1>8, CallbackType DEF CreateUser, CallbacksHold
  <2>2. NewUser(c, id) \in User
    BY <2>1 DEF NewUser, User, Invite
  <2>3. [callback[c] EXCEPT !.at = "issue", !.invite = Absent, !.user = NewUser(c, id)] \in SignIn
    BY <2>1, <2>2 DEF SignIn
  <2> QED BY <1>8, <2>2, <2>3 DEF CreateUser, Insert, Inserted, keyVars
<1>9. ASSUME NEW c \in Callbacks, IssueToken(c) PROVE AccountsTypeOK'
  <2>1. callback[c].user \in User
    BY <1>9, CallbackType DEF IssueToken, CallbacksHold
  <2>2. sessions' \subseteq Session
    BY <1>9, <2>1 DEF IssueToken, User, Session
  <2> QED BY <1>9, <2>2, Redirected DEF IssueToken, keyVars
<1>10. ASSUME NEW g \in Graphs, NEW k \in Keys, CreateInvokeKey(g, k) \/ DeleteInvokeKey(g, k) PROVE AccountsTypeOK'
  BY <1>10 DEF CreateInvokeKey, DeleteInvokeKey, accountVars
<1>11. ASSUME NEW g \in Graphs, NEW k \in Keys, NEW w \in Invocations, Admit(w, g, k) PROVE AccountsTypeOK'
  <2>1. [graph |-> g, key |-> k, after |-> revoked, at |-> "begin"] \in Request
    BY DEF Request
  <2> QED BY <1>11, <2>1 DEF Admit, accountVars
<1>12. ASSUME NEW g \in Graphs, DeleteGraph(g) PROVE AccountsTypeOK'
  BY <1>12 DEF DeleteGraph, accountVars
<1>13. ASSUME NEW w \in Invocations, BeginInvoke(w) \/ EndInvoke(w) PROVE AccountsTypeOK'
  <2>1. request[w] # Absent => [request[w] EXCEPT !.at = "running"] \in Request
    BY DEF Request
  <2> QED BY <1>13, <2>1 DEF BeginInvoke, EndInvoke, Serves, accountVars
<1>14. CASE UNCHANGED allVars
  BY <1>14 DEF allVars, accountVars, keyVars
<1> QED BY <1>1, <1>2, <1>3, <1>4, <1>5, <1>6, <1>7, <1>8, <1>9, <1>10, <1>11, <1>12, <1>13, <1>14 DEF AccountsNext

-----------------------------------------------------------------------------
(* What steps do to the tables. *)

(* Accounts are only added, under an address and an id of their own, and   *)
(* with the invitation a callback read.                                    *)
LEMMA UsersStep ==
  ASSUME AccountsTypeOK, CallbacksHold, [AccountsNext]_allVars
  PROVE  \/ users' = users
         \/ \E n \in User :
              /\ users' = users \cup {n}
              /\ \A u \in users : u.email # n.email /\ u.id # n.id
              /\ [email |-> n.email, role |-> n.role, by |-> n.by] \in granted
<1>1. ASSUME NEW c \in Callbacks, NEW id \in Ids, CreateUser(c, id), users' # users
      PROVE  \E n \in User :
              /\ users' = users \cup {n}
              /\ \A u \in users : u.email # n.email /\ u.id # n.id
              /\ [email |-> n.email, role |-> n.role, by |-> n.by] \in granted
  <2>1. /\ callback[c].email \in Emails /\ callback[c].invite \in Invite
        /\ Grant(callback[c].email, callback[c].invite) \in granted
    BY <1>1, CallbackType DEF CreateUser, CallbacksHold
  <2>2. NewUser(c, id) \in User
    BY <2>1 DEF NewUser, User, Invite
  <2>3. RowsOf(callback[c].email) = {} /\ users' = users \cup {NewUser(c, id)}
    BY <1>1 DEF CreateUser, Insert, Inserted
  <2> QED BY <1>1, <2>1, <2>2, <2>3 DEF CreateUser, NewUser, RowsOf, Grant
<1> QED BY <1>1 DEF AccountsNext, allVars, accountVars, keyVars, InviteUser, RestartServer, GoogleLogin, StateExpires,
                    ExchangeCode, ExchangeFails, GetInvite, GetUserByEmail, IssueToken, CreateInvokeKey,
                    DeleteInvokeKey, Admit, DeleteGraph, BeginInvoke, EndInvoke

(* An invitation is made in the name of an admin's account, or of an       *)
(* administrator's address.                                                *)
LEMMA InvitesStep ==
  ASSUME AccountsTypeOK, SessionsHaveAccounts, [AccountsNext]_allVars
  PROVE  \/ UNCHANGED <<invites, granted>>
         \/ \E e \in Emails, i \in Invite :
              /\ invites' = [invites EXCEPT ![e] = i] /\ granted' = granted \cup {Grant(e, i)}
              /\ \/ i.by = Absent /\ i.role = "admin" /\ e \in AdminEmails
                 \/ \E v \in users : v.id = i.by /\ v.role = "admin"
<1>1. ASSUME NEW user \in sessions, NEW e \in Emails, NEW role \in Roles, InviteUser(user, e, role)
      PROVE  \E i \in Invite :
              /\ invites' = [invites EXCEPT ![e] = i] /\ granted' = granted \cup {Grant(e, i)}
              /\ \E v \in users : v.id = i.by /\ v.role = "admin"
  <2>1. [role |-> role, by |-> user.id] \in Invite
    BY DEF Invite, Session, AccountsTypeOK
  <2>2. PICK v \in users : v.id = user.id /\ v.role = user.role
    BY DEF SessionsHaveAccounts
  <2> QED BY <1>1, <2>1, <2>2 DEF InviteUser, AddInvite
<1>2. ASSUME NEW e \in AdminEmails, RestartServer(e), ~UNCHANGED <<invites, granted>>
      PROVE  \E i \in Invite :
              /\ invites' = [invites EXCEPT ![e] = i] /\ granted' = granted \cup {Grant(e, i)}
              /\ i.by = Absent /\ i.role = "admin"
  <2>1. [role |-> "admin", by |-> Absent] \in Invite
    BY DEF Invite, Roles
  <2> QED BY <1>2, <2>1 DEF RestartServer, EnsureAdminBootstrapped, AddInvite
<1> QED BY <1>1, <1>2, AccountsAssumption
        DEF AccountsNext, allVars, accountVars, keyVars, GoogleLogin, StateExpires, ExchangeCode, ExchangeFails,
            GetInvite, GetUserByEmail, CreateUser, IssueToken, CreateInvokeKey, DeleteInvokeKey, Admit,
            DeleteGraph, BeginInvoke, EndInvoke

LEMMA GrantsStep ==
  ASSUME AccountsTypeOK, SessionsHaveAccounts, AccountInv, [AccountsNext]_allVars
  PROVE  /\ granted \subseteq granted' /\ users \subseteq users'
         /\ \A e \in Emails : invites'[e] # Absent => Grant(e, invites'[e]) \in granted'
         /\ GrantsAreFounded'
<1>1. granted \subseteq granted'
  BY InvitesStep
<1>2. users \subseteq users'
  BY UsersStep DEF AccountInv
<1>3. \A e \in Emails : invites'[e] # Absent => Grant(e, invites'[e]) \in granted'
  BY InvitesStep DEF AccountInv, AccountsTypeOK
<1>4. GrantsAreFounded'
  <2>1. CASE granted' = granted
    BY <2>1, <1>2 DEF AccountInv, GrantsAreFounded
  <2>2. ASSUME NEW e \in Emails, NEW i \in Invite, granted' = granted \cup {Grant(e, i)},
               \/ i.by = Absent /\ i.role = "admin" /\ e \in AdminEmails
               \/ \E v \in users : v.id = i.by /\ v.role = "admin"
        PROVE  GrantsAreFounded'
    <3>1. \A v \in users : v.id # Absent
      BY NullAssumption DEF AccountsTypeOK, User
    <3>2. /\ Grant(e, i).email = e /\ Grant(e, i).role = i.role /\ Grant(e, i).by = i.by
      BY DEF Grant
    <3> QED BY <2>2, <3>1, <3>2, <1>2 DEF AccountInv, GrantsAreFounded
  <2> QED BY <2>1, <2>2, InvitesStep
<1> QED BY <1>1, <1>2, <1>3, <1>4

(* Each step leaves a callback as it is, or ends it, or moves it on.       *)
LEMMA CallbacksStep ==
  ASSUME AccountsTypeOK, SessionsHaveAccounts, AccountInv, [AccountsNext]_allVars
  PROVE  CallbacksHold'
<1>1. \A e \in Emails : invites[e] # Absent => Grant(e, invites[e]) \in granted
  BY DEF AccountInv
<1>2. ASSUME NEW c \in Callbacks, callback'[c] = callback[c] \/ callback'[c] \in {Absent, Ended}
      PROVE  /\ (IsAt(c, "account") \/ IsAt(c, "create"))' =>
                  callback'[c].invite # Absent /\ Grant(callback'[c].email, callback'[c].invite) \in granted'
             /\ IsAt(c, "issue")' => callback'[c].user \in users'
    BY <1>2, GrantsStep DEF AccountInv, CallbacksHold, IsAt
<1> DEFINE Others(c) == \A d \in Callbacks : d # c => callback'[d] = callback[d]
<1>3. ASSUME NEW c \in Callbacks, RedirectBack(c)
      PROVE  Others(c) /\ callback'[c] = Ended
  BY <1>3 DEF RedirectBack, AccountsTypeOK
<1>4. ASSUME NEW c \in Callbacks, ExchangeFails(c) \/ IssueToken(c) PROVE CallbacksHold'
  BY <1>4, <1>3, <1>2 DEF ExchangeFails, IssueToken, CallbacksHold
<1>5. ASSUME NEW c \in Callbacks, GetInvite(c) PROVE CallbacksHold'
  <2>1. CASE invites[callback[c].email] = Absent
    BY <1>5, <2>1, <1>3, <1>2 DEF GetInvite, CallbacksHold
  <2>2. CASE invites[callback[c].email] # Absent
    <3>1. callback[c] \in SignIn /\ callback[c].email \in Emails
      BY <1>5, CallbackType DEF GetInvite
    <3>2. callback' = [callback EXCEPT ![c].at = "account", ![c].invite = invites[callback[c].email]]
      BY <1>5, <2>2 DEF GetInvite
    <3>3. /\ callback'[c].at = "account" /\ callback'[c].email = callback[c].email
          /\ callback'[c].invite = invites[callback[c].email] /\ Others(c)
      BY <3>1, <3>2 DEF AccountsTypeOK, SignIn
    <3>4. Grant(callback'[c].email, callback'[c].invite) \in granted'
      BY <3>1, <3>3, <2>2, <1>1, GrantsStep
    <3> QED BY <3>3, <3>4, <2>2, <1>2 DEF CallbacksHold, IsAt
  <2> QED BY <2>1, <2>2
<1>6. ASSUME NEW c \in Callbacks, GetUserByEmail(c) PROVE CallbacksHold'
  <2>1. callback[c] \in SignIn /\ IsAt(c, "account")
    BY <1>6, CallbackType DEF GetUserByEmail
  <2>2. CASE RowsOf(callback[c].email) = {}
    <3>1. /\ callback'[c].at = "create" /\ callback'[c].email = callback[c].email
          /\ callback'[c].invite = callback[c].invite /\ Others(c)
      BY <1>6, <2>1, <2>2 DEF GetUserByEmail, AccountsTypeOK, SignIn
    <3> QED BY <3>1, <2>1, <1>2, GrantsStep DEF AccountInv, CallbacksHold, IsAt
  <2>3. CASE RowsOf(callback[c].email) # {}
    <3>1. /\ callback'[c].at = "issue" /\ Others(c)
          /\ callback'[c].user = CHOOSE u \in RowsOf(callback[c].email) : TRUE
      BY <1>6, <2>1, <2>3 DEF GetUserByEmail, AccountsTypeOK, SignIn
    <3>2. callback'[c].user \in users
      BY <3>1, <2>3 DEF RowsOf
    <3> QED BY <3>1, <3>2, <1>2, GrantsStep DEF CallbacksHold, IsAt
  <2> QED BY <2>2, <2>3
<1>7. ASSUME NEW c \in Callbacks, NEW id \in Ids, CreateUser(c, id) PROVE CallbacksHold'
  <2>1. callback[c] \in SignIn
    BY <1>7, CallbackType DEF CreateUser
  <2>2. CASE RowsOf(callback[c].email) = {}
    <3>1. /\ callback'[c].at = "issue" /\ Others(c)
          /\ callback'[c].user = NewUser(c, id) /\ users' = users \cup {NewUser(c, id)}
      BY <1>7, <2>1, <2>2 DEF CreateUser, Insert, Inserted, AccountsTypeOK, SignIn
    <3> QED BY <3>1, <1>2 DEF CallbacksHold, IsAt
  <2>3. CASE RowsOf(callback[c].email) # {}
    <3>1. callback'[c] = Ended /\ Others(c)
      BY <1>7, <2>3 DEF CreateUser, Insert, AccountsTypeOK
    <3> QED BY <3>1, <1>2 DEF CallbacksHold
  <2> QED BY <2>2, <2>3
<1>8. ASSUME NEW c \in Callbacks, NEW b \in Browsers, NEW state \in 1..Logins, NEW e \in Emails,
             ExchangeCode(c, b, state, e)
      PROVE  CallbacksHold'
  <2>1. callback'[c].at = "invite" /\ Others(c)
    BY <1>8 DEF ExchangeCode, AccountsTypeOK
  <2> QED BY <2>1, <1>2 DEF CallbacksHold, IsAt
<1>9. ASSUME NEW e \in AdminEmails, RestartServer(e) PROVE CallbacksHold'
  BY <1>9, <1>2 DEF RestartServer, CallbacksHold
<1>10. CASE UNCHANGED callback
  BY <1>10, <1>2 DEF CallbacksHold
<1> QED BY <1>4, <1>5, <1>6, <1>7, <1>8, <1>9, <1>10
        DEF AccountsNext, allVars, accountVars, keyVars, InviteUser, GoogleLogin, StateExpires, CreateInvokeKey,
            DeleteInvokeKey, Admit, DeleteGraph, BeginInvoke, EndInvoke

LEMMA AccountStep ==
  ASSUME AccountsTypeOK, SessionsHaveAccounts, AccountInv, [AccountsNext]_allVars
  PROVE  AccountInv'
  BY GrantsStep, CallbacksStep DEF AccountInv

LEMMA SessionsStep ==
  ASSUME AccountsTypeOK, AccountInv, SessionsHaveAccounts, [AccountsNext]_allVars
  PROVE  SessionsHaveAccounts'
<1>1. \A s \in sessions' : s \in sessions
        \/ \E u \in users : s = [id |-> u.id, email |-> u.email, role |-> u.role]
  <2>1. ASSUME NEW c \in Callbacks, IssueToken(c)
        PROVE  \A s \in sessions' : s \in sessions
                 \/ \E u \in users : s = [id |-> u.id, email |-> u.email, role |-> u.role]
    BY <2>1 DEF IssueToken, AccountInv, CallbacksHold
  <2> QED BY <2>1 DEF AccountsNext, allVars, accountVars, keyVars, InviteUser, RestartServer, GoogleLogin, StateExpires,
             ExchangeCode, ExchangeFails, GetInvite, GetUserByEmail, CreateUser, CreateInvokeKey,
             DeleteInvokeKey, Admit, DeleteGraph, BeginInvoke, EndInvoke
<1>2. users \subseteq users'
  BY UsersStep DEF AccountInv
<1>3. \A u, v \in users' : u.email = v.email \/ u.id = v.id => u = v
  BY UsersStep DEF AccountInv, SessionsHaveAccounts
<1> QED BY <1>1, <1>2, <1>3 DEF SessionsHaveAccounts

(* A new account is the first of any set it is in to be looked at last:    *)
(* whoever invited it had an account before.                               *)
LEMMA RolesStep ==
  ASSUME AccountsTypeOK, AccountInv, SessionsHaveAccounts, RolesWereGranted, [AccountsNext]_allVars
  PROVE  RolesWereGranted'
<1> DEFINE Founded(S) == \E u \in S : IF u.by = Absent THEN u.email \in AdminEmails /\ u.role = "admin"
                                     ELSE \A v \in S : v.id # u.by
<1>1. granted \subseteq granted'
  BY GrantsStep
<1>2. CASE users' = users
  BY <1>1, <1>2 DEF RolesWereGranted
<1>3. ASSUME NEW n \in User,
             users' = users \cup {n},
             \A u \in users : u.email # n.email /\ u.id # n.id,
             [email |-> n.email, role |-> n.role, by |-> n.by] \in granted
      PROVE  RolesWereGranted'
  <2>1. IF n.by = Absent THEN n.email \in AdminEmails /\ n.role = "admin"
        ELSE \E v \in users : v.id = n.by /\ v.role = "admin"
    BY <1>3 DEF AccountInv, GrantsAreFounded
  <2>2. \A u \in users' : [email |-> u.email, role |-> u.role, by |-> u.by] \in granted'
    BY <1>1, <1>3 DEF RolesWereGranted
  <2>3. \A u \in users' : u.by # Absent => \E v \in users' : v.id = u.by /\ v.role = "admin"
    BY <1>3, <2>1 DEF RolesWereGranted
  <2>4. ASSUME NEW S \in SUBSET users', S # {} PROVE Founded(S)
    <3>1. CASE S \subseteq users
      BY <3>1, <2>4 DEF RolesWereGranted
    <3>2. CASE S = {n}
      BY <3>2, <2>1, <1>3
    <3>3. CASE S \ {n} # {} /\ n \in S
      <4>1. S \ {n} \subseteq users
        BY <1>3
      <4>2. PICK u \in S \ {n} : IF u.by = Absent THEN u.email \in AdminEmails /\ u.role = "admin"
                                ELSE \A v \in S \ {n} : v.id # u.by
        BY <4>1, <3>3 DEF RolesWereGranted
      <4>3. u.by # Absent => u.by # n.id
        BY <4>1, <1>3 DEF RolesWereGranted
      <4> QED BY <4>2, <4>3
    <3> QED BY <3>1, <3>2, <3>3, <1>3
  <2> QED BY <2>2, <2>3, <2>4 DEF RolesWereGranted
<1> QED BY <1>2, <1>3, UsersStep DEF AccountInv

-----------------------------------------------------------------------------
(* Invoke keys *)

LEMMA KeysStep ==
  ASSUME AccountsTypeOK, KeyInv, KeysInvokeTheirGraph, [AccountsNext]_allVars
  PROVE  KeyInv' /\ KeysInvokeTheirGraph'
<1> USE DEF KeyInv, KeysInvokeTheirGraph, AccountsTypeOK
<1>1. ASSUME NEW g \in Graphs, NEW k \in Keys, CreateInvokeKey(g, k)
      PROVE  KeyInv' /\ KeysInvokeTheirGraph'
  <2>1. minted[k] = Absent /\ g # Absent
    BY <1>1, NullAssumption DEF CreateInvokeKey
  <2>2. \A w \in Invocations : request[w] # Absent => request[w].key # k
    BY <2>1, NullAssumption DEF Request
  <2> QED BY <1>1, <2>1, <2>2 DEF CreateInvokeKey, Request
<1>2. ASSUME NEW g \in Graphs, NEW k \in Keys, DeleteInvokeKey(g, k)
      PROVE  KeyInv' /\ KeysInvokeTheirGraph'
  <2>1. minted[k] # Absent
    BY <1>2, NullAssumption DEF DeleteInvokeKey, RevokeInvokeKey
  <2> QED BY <1>2, <2>1 DEF DeleteInvokeKey
<1>3. ASSUME NEW g \in Graphs, NEW k \in Keys, NEW w \in Invocations, Admit(w, g, k)
      PROVE  KeyInv' /\ KeysInvokeTheirGraph'
  <2>1. minted[k] = g /\ k \notin revoked
    BY <1>3, NullAssumption DEF Admit, ValidateInvokeKey
  <2> QED BY <1>3, <2>1 DEF Admit
<1>4. ASSUME NEW w \in Invocations, BeginInvoke(w) \/ EndInvoke(w)
      PROVE  KeyInv' /\ KeysInvokeTheirGraph'
  <2>1. \A v \in Invocations : request'[v] # Absent =>
          request[v] # Absent /\ request'[v].key = request[v].key
          /\ request'[v].graph = request[v].graph /\ request'[v].after = request[v].after
    BY <1>4 DEF BeginInvoke, EndInvoke, Serves, Request
  <2> QED BY <1>4, <2>1 DEF BeginInvoke, EndInvoke
<1>5. ASSUME NEW e \in AdminEmails, RestartServer(e) PROVE KeyInv' /\ KeysInvokeTheirGraph'
  BY <1>5 DEF RestartServer
<1>6. CASE UNCHANGED <<keys, minted, revoked, request>>
  BY <1>6
<1> QED BY <1>1, <1>2, <1>3, <1>4, <1>5, <1>6
        DEF AccountsNext, allVars, keyVars, InviteUser, GoogleLogin, StateExpires, ExchangeCode, ExchangeFails,
            GetInvite, GetUserByEmail, CreateUser, IssueToken, DeleteGraph

-----------------------------------------------------------------------------
LEMMA AccountsInvInit == AccountsInit => AccountsIInv
<1> SUFFICES ASSUME AccountsInit PROVE AccountsIInv
  OBVIOUS
<1>1. AccountsTypeOK
  BY AccountTypesInit
<1>2. AccountInv
  BY AccountsAssumption DEF AccountsInit, AccountInv, GrantsAreFounded, CallbacksHold, IsAt, Grant
<1>3. KeyInv /\ KeysInvokeTheirGraph
  BY DEF AccountsInit, KeyInv, KeysInvokeTheirGraph
<1>4. SessionsHaveAccounts /\ RolesWereGranted
  BY DEF AccountsInit, SessionsHaveAccounts, RolesWereGranted
<1> QED BY <1>1, <1>2, <1>3, <1>4 DEF AccountsIInv

(* Accounts.tla, AccountsIInv: what the interleaved callbacks, invites and key      *)
(* requests keep between them.                                             *)
THEOREM AccountsInvariant == AccountsSpec => []AccountsIInv
<1>1. AccountsIInv /\ [AccountsNext]_allVars => AccountsIInv'
  BY AccountTypes, AccountStep, SessionsStep, RolesStep, KeysStep DEF AccountsIInv, AccountInv
<1> QED BY <1>1, AccountsInvInit, PTL DEF AccountsSpec

(* Whoever holds a session token has the account and the role it states,   *)
(* and no address has two, however callbacks overlap.                      *)
THEOREM AccountsSessions == AccountsSpec => []SessionsHaveAccounts
<1>1. AccountsIInv => SessionsHaveAccounts
  BY DEF AccountsIInv
<1> QED BY <1>1, AccountsInvariant, PTL

(* Every role can be led back, inviter by inviter, to an administrator's   *)
(* address.                                                                *)
THEOREM AccountsRoles == AccountsSpec => []RolesWereGranted
<1>1. AccountsIInv => RolesWereGranted
  BY DEF AccountsIInv
<1> QED BY <1>1, AccountsInvariant, PTL

(* An invoke key runs the graph it was made for, and none once revoked.    *)
THEOREM AccountsKeys == AccountsSpec => []KeysInvokeTheirGraph
<1>1. AccountsIInv => KeysInvokeTheirGraph
  BY DEF AccountsIInv
<1> QED BY <1>1, AccountsInvariant, PTL
=============================================================================
