------------------------------ MODULE Accounts ------------------------------
(***************************************************************************)
(* Who may use the server: the table of invited addresses, the accounts    *)
(* made by sign-ins with Google, the session tokens that name an account   *)
(* and carry its role, and the invoke keys of graphs.                      *)
(*                                                                         *)
(* A callback of Google reads the invitation, looks the account up and     *)
(* makes it in three connections of the database, so callbacks, new        *)
(* invitations and a restart come between the three.  Sessions are signed  *)
(* tokens that no table lists: an expired one is one that is not used      *)
(* again.  Google is external: it answers with any address, or fails.      *)
(***************************************************************************)
EXTENDS Naturals, FiniteSets

CONSTANTS
  Emails,
  AdminEmails,  \* what AGENT_GRAPH_STUDIO_ADMIN_EMAIL is set to at one start or another
  Ids,          \* account ids: uuid4() draws an unused one
  Browsers,
  Logins,       \* bound: the state tokens issued are 1..Logins
  Callbacks,    \* bound: requests of Google's redirect
  Graphs, Keys, \* bound: graph ids, invoke keys
  Invocations,  \* bound: invocations with an invoke key in progress
  Ended, Absent

ASSUME AccountsAssumption ==
  /\ AdminEmails # {} /\ AdminEmails \subseteq Emails
  /\ IsFiniteSet(Ids) /\ IsFiniteSet(Callbacks) /\ Cardinality(Callbacks) <= Cardinality(Ids)
  /\ Logins \in Nat

VARIABLES
  invites,   \* invited_emails
  users,
  granted,   \* history: every invitation there was
  issued,    \* state tokens issued so far
  cookie,    \* the oauth_state cookie of each browser
  callback,  \* the sign-in each callback is about
  sessions,  \* the session tokens issued
  graphs, keys,
  minted,    \* history: the graph each key was made for
  revoked,   \* history: the keys whose deletion was answered with 204
  request    \* requests in progress

accountVars == <<invites, users, granted, issued, cookie, callback, sessions>>
keyVars == <<graphs, keys, minted, revoked, request>>
allVars == <<accountVars, keyVars>>

Roles == {"admin", "member"}
Invite == [role : Roles, by : Ids \cup {Absent}]
Request == [graph : Graphs, key : Keys, after : SUBSET Keys, at : {"begin", "running"}]
User == [id : Ids, email : Emails, role : Roles, by : Ids \cup {Absent}]
Session == [id : Ids, email : Emails, role : Roles]

SignIn == [at : {"invite", "account", "create", "issue"}, browser : Browsers, email : Emails,
           invite : Invite \cup {Absent}, user : User \cup {Absent}]

(* Absent and Ended are no accounts, graphs or records.                    *)
ASSUME NullAssumption ==
  /\ Absent \notin Ids \cup Graphs \cup Invite \cup User \cup SignIn \cup Request
  /\ Ended \notin SignIn \cup {Absent}

Grant(e, i) == [email |-> e, role |-> i.role, by |-> i.by]

(* The first start finds an empty table. *)
AccountsInit ==
  /\ \E e \in AdminEmails :
       LET first == [role |-> "admin", by |-> Absent] IN
       /\ invites = [f \in Emails |-> IF f = e THEN first ELSE Absent]
       /\ granted = {Grant(e, first)}
  /\ users = {}
  /\ issued = 0
  /\ cookie = [b \in Browsers |-> Absent]
  /\ callback = [c \in Callbacks |-> Absent]
  /\ sessions = {}
  /\ graphs = Graphs
  /\ keys = [k \in Keys |-> Absent]
  /\ minted = [k \in Keys |-> Absent]
  /\ revoked = {}
  /\ request = [w \in Invocations |-> Absent]

-----------------------------------------------------------------------------
(* Invitations *)

(* INSERT ... ON CONFLICT(email) DO UPDATE SET role, invited_by            *)
AddInvite(e, invite) ==
  /\ invites' = [invites EXCEPT ![e] = invite]
  /\ granted' = granted \cup {Grant(e, invite)}

(* The caller's role and id are those of the session token. *)
InviteUser(user, e, role) ==
  /\ user \in sessions /\ user.role = "admin"
  /\ AddInvite(e, [role |-> role, by |-> user.id])
  /\ UNCHANGED <<users, issued, cookie, callback, sessions, keyVars>>

(* Mutant: the bootstrap updates the role of an invitation that is there,  *)
(* as add_invite does.                                                     *)
Promoted(e) ==
  IF invites[e] = Absent
  THEN AddInvite(e, [role |-> "admin", by |-> Absent])
  ELSE invites' = [invites EXCEPT ![e].role = "admin"] /\ UNCHANGED granted

(* INSERT ... ON CONFLICT(email) DO NOTHING                                *)
EnsureAdminBootstrapped(e) ==
  IF invites[e] = Absent
  THEN AddInvite(e, [role |-> "admin", by |-> Absent])
  ELSE UNCHANGED <<invites, granted>>

(* The process ends, with the requests it was working on, and starts with  *)
(* the address it is configured with now.                                  *)
RestartServer(e) ==
  /\ EnsureAdminBootstrapped(e)
  /\ callback' = [c \in Callbacks |->
                    IF callback[c] = Absent THEN Absent ELSE Ended]
  /\ request' = [w \in Invocations |-> Absent]
  /\ UNCHANGED <<users, issued, cookie, sessions, graphs, keys, minted, revoked>>

-----------------------------------------------------------------------------
(* Sign-in *)

GoogleLogin(b) ==
  /\ issued < Logins
  /\ issued' = issued + 1
  /\ cookie' = [cookie EXCEPT ![b] = issued + 1]
  /\ UNCHANGED <<invites, users, granted, callback, sessions, keyVars>>

(* The state token and the cookie live equally long. *)
StateExpires(b) ==
  /\ cookie[b] # Absent
  /\ cookie' = [cookie EXCEPT ![b] = Absent]
  /\ UNCHANGED <<invites, users, granted, issued, callback, sessions, keyVars>>

(* Google sends browser b back with a state token and a code for e.        *)
(* Without the cookie of that state it is refused (UNCHANGED).             *)
ExchangeCode(c, b, state, e) ==
  /\ callback[c] = Absent
  /\ state \in 1..issued
  /\ cookie[b] = state
  /\ callback' = [callback EXCEPT ![c] = [at |-> "invite", browser |-> b, email |-> e,
                                          invite |-> Absent, user |-> Absent]]
  /\ UNCHANGED <<invites, users, granted, issued, cookie, sessions, keyVars>>

(* Every redirect to the frontend deletes the cookie, whichever sign-in    *)
(* it has been overwritten for.                                            *)
RedirectBack(c) ==
  /\ callback' = [callback EXCEPT ![c] = Ended]
  /\ cookie' = [cookie EXCEPT ![callback[c].browser] = Absent]

IsAt(c, place) == callback[c] \notin {Absent, Ended} /\ callback[c].at = place

ExchangeFails(c) ==
  /\ IsAt(c, "invite")
  /\ RedirectBack(c)
  /\ UNCHANGED <<invites, users, granted, issued, sessions, keyVars>>

GetInvite(c) ==
  /\ IsAt(c, "invite")
  /\ IF invites[callback[c].email] = Absent
     THEN RedirectBack(c)
     ELSE /\ callback' = [callback EXCEPT ![c].at = "account",
                                          ![c].invite = invites[callback[c].email]]
          /\ UNCHANGED cookie
  /\ UNCHANGED <<invites, users, granted, issued, sessions, keyVars>>

RowsOf(e) == {u \in users : u.email = e}

GetUserByEmail(c) ==
  /\ IsAt(c, "account")
  /\ callback' = IF RowsOf(callback[c].email) = {}
                 THEN [callback EXCEPT ![c].at = "create"]
                 ELSE [callback EXCEPT ![c].at = "issue", ![c].invite = Absent,
                                       ![c].user = CHOOSE u \in RowsOf(callback[c].email) : TRUE]
  /\ UNCHANGED <<invites, users, granted, issued, cookie, sessions, keyVars>>

NewUser(c, id) ==
  [id |-> id, email |-> callback[c].email, role |-> callback[c].invite.role, by |-> callback[c].invite.by]

Inserted(c, user) ==
  /\ users' = users \cup {user}
  /\ callback' = [callback EXCEPT ![c].at = "issue", ![c].invite = Absent, ![c].user = user]

(* Mutant: an upsert like that of add_invite.  The row keeps its id, and   *)
(* create_user returns the id it was given.                                *)
Upsert(c, id) ==
  LET user == NewUser(c, id) IN
  IF RowsOf(user.email) = {}
  THEN Inserted(c, user)
  ELSE /\ users' = {IF u.email = user.email THEN [u EXCEPT !.role = user.role, !.by = user.by] ELSE u : u \in users}
       /\ callback' = [callback EXCEPT ![c].at = "issue", ![c].invite = Absent, ![c].user = user]

(* email is UNIQUE: of two first sign-ins with one address the later       *)
(* INSERT raises, and its request ends with a server error.                *)
Insert(c, id) ==
  IF RowsOf(callback[c].email) = {}
  THEN Inserted(c, NewUser(c, id))
  ELSE callback' = [callback EXCEPT ![c] = Ended] /\ UNCHANGED users

CreateUser(c, id) ==
  /\ IsAt(c, "create")
  /\ \A u \in users : u.id # id
  /\ Insert(c, id)
  /\ UNCHANGED <<invites, granted, issued, cookie, sessions, keyVars>>

IssueToken(c) ==
  /\ IsAt(c, "issue")
  /\ LET u == callback[c].user IN
     sessions' = sessions \cup {[id |-> u.id, email |-> u.email, role |-> u.role]}
  /\ RedirectBack(c)
  /\ UNCHANGED <<invites, users, granted, issued, keyVars>>

-----------------------------------------------------------------------------
(* Invoke keys *)

(* Creating, listing and deleting keys take a session or the API key of    *)
(* the server.  The graph is looked up and the key inserted in two steps;  *)
(* deleting the graph between them leaves what deleting it afterwards      *)
(* does: a key of a graph that is gone.                                    *)
CreateInvokeKey(g, k) ==
  /\ g \in graphs
  /\ minted[k] = Absent
  /\ keys' = [keys EXCEPT ![k] = g]
  /\ minted' = [minted EXCEPT ![k] = g]
  /\ UNCHANGED <<accountVars, graphs, revoked, request>>

(* WHERE graph_id = ? AND key_id = ?                                       *)
RevokeInvokeKey(g, k) == keys[k] = g

(* 404 if no row was deleted (UNCHANGED). *)
DeleteInvokeKey(g, k) ==
  /\ RevokeInvokeKey(g, k)
  /\ keys' = [keys EXCEPT ![k] = Absent]
  /\ revoked' = revoked \cup {k}
  /\ UNCHANGED <<accountVars, graphs, minted, request>>

(* The graph's keys stay in their table. *)
DeleteGraph(g) ==
  /\ g \in graphs
  /\ graphs' = graphs \ {g}
  /\ UNCHANGED <<accountVars, keys, minted, revoked, request>>

(* Mutant: the key is looked up by its hash alone. *)
AnyStored(g, k) == keys[k] # Absent

(* WHERE graph_id = ? AND key_hash = ?                                     *)
ValidateInvokeKey(g, k) == keys[k] = g

(* require_auth lets a request for the contract of g, or to invoke g, in   *)
(* with key k; everything else answers such a request with 401.  after:    *)
(* history, the keys that were revoked when it came.                       *)
Admit(w, g, k) ==
  /\ request[w] = Absent
  /\ ValidateInvokeKey(g, k)
  /\ request' = [request EXCEPT ![w] = [graph |-> g, key |-> k, after |-> revoked, at |-> "begin"]]
  /\ UNCHANGED <<accountVars, graphs, keys, minted, revoked>>

Serves(w, place) == request[w] # Absent /\ request[w].at = place

(* get_graph: the run is of the row that is read now, 404 if it is gone.   *)
BeginInvoke(w) ==
  /\ Serves(w, "begin")
  /\ request' = [request EXCEPT ![w] = IF @.graph \in graphs THEN [@ EXCEPT !.at = "running"] ELSE Absent]
  /\ UNCHANGED <<accountVars, graphs, keys, minted, revoked>>

EndInvoke(w) ==
  /\ Serves(w, "running")
  /\ request' = [request EXCEPT ![w] = Absent]
  /\ UNCHANGED <<accountVars, graphs, keys, minted, revoked>>

-----------------------------------------------------------------------------
AccountsNext ==
  \/ \E user \in sessions, e \in Emails, role \in Roles : InviteUser(user, e, role)
  \/ \E e \in AdminEmails : RestartServer(e)
  \/ \E b \in Browsers : GoogleLogin(b) \/ StateExpires(b)
  \/ \E c \in Callbacks, b \in Browsers, state \in 1..Logins, e \in Emails : ExchangeCode(c, b, state, e)
  \/ \E c \in Callbacks : ExchangeFails(c) \/ GetInvite(c) \/ GetUserByEmail(c) \/ IssueToken(c)
  \/ \E c \in Callbacks, id \in Ids : CreateUser(c, id)
  \/ \E g \in Graphs, k \in Keys :
       CreateInvokeKey(g, k) \/ DeleteInvokeKey(g, k) \/ \E w \in Invocations : Admit(w, g, k)
  \/ \E g \in Graphs : DeleteGraph(g)
  \/ \E w \in Invocations : BeginInvoke(w) \/ EndInvoke(w)

AccountsSpec == AccountsInit /\ [][AccountsNext]_allVars

-----------------------------------------------------------------------------
(* Properties *)

(* Types of what the tables, browsers and requests hold. *)
AccountsTypeOK ==
  /\ invites \in [Emails -> Invite \cup {Absent}]
  /\ users \subseteq User
  /\ issued \in 0..Logins /\ cookie \in [Browsers -> (1..Logins) \cup {Absent}]
  /\ callback \in [Callbacks -> SignIn \cup {Absent, Ended}]
  /\ sessions \subseteq Session
  /\ keys \in [Keys -> Graphs \cup {Absent}] /\ minted \in [Keys -> Graphs \cup {Absent}] /\ revoked \subseteq Keys
  /\ request \in [Invocations -> Request \cup {Absent}]

(* A session token names an account that is there, with the address and    *)
(* the role of its row, and an address has one account: get_me never finds *)
(* that a user who is signed in "no longer exists" (app.py 508), however   *)
(* sign-ins with one address overlap.                                      *)
SessionsHaveAccounts ==
  /\ \A s \in sessions : \E u \in users : s = [id |-> u.id, email |-> u.email, role |-> u.role]
  /\ \A u, v \in users : u.email = v.email \/ u.id = v.id => u = v

(* users_store.py 172, "never downgrades an existing invite's role": each  *)
(* account has the role one invitation gave it, from an admin's account or *)
(* from a start of the server, and following the inviters leads back to an *)
(* account made for an administrator's address.                            *)
RolesWereGranted ==
  /\ \A u \in users : [email |-> u.email, role |-> u.role, by |-> u.by] \in granted
  /\ \A u \in users : u.by # Absent => \E v \in users : v.id = u.by /\ v.role = "admin"
  /\ \A S \in SUBSET users : S # {} =>
       \E u \in S : IF u.by = Absent THEN u.email \in AdminEmails /\ u.role = "admin"
                    ELSE \A v \in S : v.id # u.by

(* An invocation that came with an invoke key is of the graph the key was  *)
(* made for, and the key had not been revoked when it came.                *)
KeysInvokeTheirGraph ==
  \A w \in Invocations : request[w] # Absent =>
    /\ minted[request[w].key] = request[w].graph
    /\ request[w].key \notin request[w].after
-----------------------------------------------------------------------------
(* The inductive invariant behind the properties above. *)

(* An invitation without an inviter is one of a start of the server; any   *)
(* other was made in the name of an admin's account.                       *)
GrantsAreFounded ==
  \A g \in granted :
    IF g.by = Absent THEN g.email \in AdminEmails /\ g.role = "admin"
    ELSE \E v \in users : v.id = g.by /\ v.role = "admin"

(* A callback goes on with an invitation there was, and then with an       *)
(* account that is there, though either table may have changed since.      *)
CallbacksHold ==
  \A c \in Callbacks :
    /\ IsAt(c, "account") \/ IsAt(c, "create") =>
         callback[c].invite # Absent /\ Grant(callback[c].email, callback[c].invite) \in granted
    /\ IsAt(c, "issue") => callback[c].user \in users

AccountInv ==
  /\ \A e \in Emails : invites[e] # Absent => Grant(e, invites[e]) \in granted
  /\ GrantsAreFounded
  /\ CallbacksHold

(* A key that is stored is as it was made; a revoked one is not.           *)
KeyInv ==
  /\ \A k \in Keys : keys[k] # Absent => keys[k] = minted[k] /\ k \notin revoked
  /\ \A k \in revoked : minted[k] # Absent

AccountsIInv ==
  /\ AccountsTypeOK
  /\ AccountInv
  /\ KeyInv
  /\ SessionsHaveAccounts
  /\ RolesWereGranted
  /\ KeysInvokeTheirGraph
=============================================================================
