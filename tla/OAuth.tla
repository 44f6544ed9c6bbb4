-------------------------------- MODULE OAuth --------------------------------
(***************************************************************************)
(* The OAuth token of one user for one connection: consent through the     *)
(* browser, the row of mcp_oauth_tokens, the refresh each tool call makes  *)
(* for itself when the token is about to expire, deletion.  Rows of other  *)
(* users and connections are never touched.                                *)
(*                                                                         *)
(* The provider is external.  It may rotate refresh tokens or not, and may *)
(* refuse one that was used before.  Time passes at any point and for as   *)
(* long as it likes: the timeouts of the code bound the phases of a call,  *)
(* and none of them the time from a token's issue to its use.              *)
(***************************************************************************)
EXTENDS Integers

CONSTANTS
  Callers,    \* executions of generated nodes, each of which needs the token once
  Grants,     \* consents, one for each flow through the browser
  Ways,       \* what providers do with refresh tokens
  Life,       \* expires_in of an access token, where the provider gives one
  Skew,       \* REFRESH_SKEW_SECONDS
  StateLife,  \* STATE_TOKEN_EXPIRES_MINUTES
  MaxTime,    \* bound of the model: the clock
  Faults,     \* what may go wrong: "network", "crash"
  None

ASSUME TimeAssumption ==
  {Life, Skew, StateLife, MaxTime} \subseteq Nat
ASSUME CallersAssumption ==
  /\ None \notin Grants \cup Nat
  /\ Ways \subseteq {"none", "one forever", "rotates", "once only", "revokes"}

VARIABLES
  now,
  policy,    \* of each grant: the provider's way with its tokens
  issued,    \* the number of the last refresh token of each grant, 0 before the code is used
  exists,    \* the connection is in the store
  row,       \* mcp_oauth_tokens
  flow,      \* where each consent is
  cookie,    \* the browser's state cookie
  caller,    \* where each execution is
  deleting,  \* DELETE /connections/{name} is between the store and the token
  dropped    \* history: grants of which a rotated refresh token never reached the row

provider == <<policy, issued>>
vars == <<now, provider, exists, row, flow, cookie, caller, deleting, dropped>>

(* refresh: it sends no refresh token, one for good, or a new one with     *)
(* each answer, and then accepts the old ones too, the last one only, or   *)
(* the last one only and none at all once it has seen an old one.  life:   *)
(* expires_in, None where it leaves that out and the token stays good.     *)
Policies == [refresh : Ways, life : {Life, None}]

RefreshToken == [grant : Grants, n : Nat]
Access == [grant : Grants, exp : Nat \cup {None}]
Reply == [access : Access, expiresIn : {Life, None}, refresh : RefreshToken \cup {None}]
TokenRow == [access : Access, expiresAt : Nat \cup {None}, updatedAt : Nat, refresh : RefreshToken \cup {None}]

ASSUME NoneAssumption == None \notin RefreshToken \cup TokenRow

(* row: the one it read, and at the end the one whose token it has; since: *)
(* when it got that token.                                                 *)
NoFlow == [step |-> "idle", since |-> 0, reply |-> None]
NoCall == [step |-> "idle", since |-> 0, row |-> None, reply |-> None]
Over == [NoCall EXCEPT !.step = "over"]

Init ==
  /\ now = 0
  /\ policy \in [Grants -> Policies] /\ issued = [g \in Grants |-> 0]
  /\ exists = TRUE
  /\ row = None
  /\ flow = [g \in Grants |-> NoFlow] /\ cookie = None
  /\ caller = [c \in Callers |-> NoCall]
  /\ deleting = FALSE /\ dropped = {}

-----------------------------------------------------------------------------
(* The provider *)

From(life) == IF life = None THEN None ELSE now + life

(* What it answers a code or a refresh token with.                         *)
Answer(g, new) ==
  [access |-> [grant |-> g, exp |-> From(policy[g].life)], expiresIn |-> policy[g].life,
   refresh |-> IF new THEN [grant |-> g, n |-> issued[g] + 1] ELSE None]

Accepts(t) == policy[t.grant].refresh \in {"once only", "revokes"} => t.n = issued[t.grant]

Rotates(g) == policy[g].refresh \in {"rotates", "once only", "revokes"}

(* The last one that was issued is nobody's.                               *)
Void(g) == issued' = [issued EXCEPT ![g] = @ + 1]

Expired(access) == access.exp # None /\ now >= access.exp

-----------------------------------------------------------------------------
(* store_token_response and _is_expiring_soon *)

(* Mutant: a response without a refresh token clears the one there was.    *)
AsAnswered(reply, old) == reply.refresh

(* {**refreshed, "refresh_token": refreshed.get("refresh_token", old)}     *)
KeptRefresh(reply, old) == IF reply.refresh = None THEN old ELSE reply.refresh

(* expires_at counts from when the answer is stored.                       *)
Stored(reply, refresh) ==
  [access |-> reply.access, expiresAt |-> From(reply.expiresIn), updatedAt |-> now, refresh |-> refresh]

(* Mutant: a token is good until the moment it expires. *)
NoSkew(expiresAt) == now >= expiresAt

IsExpiringSoon(expiresAt) == now + Skew >= expiresAt

-----------------------------------------------------------------------------
(* Connecting: /connections/oauth/start and /callback *)

FlowAt(g, step) == flow' = [flow EXCEPT ![g] = [NoFlow EXCEPT !.step = step]]

(* A signed state that carries user, connection and verifier, and the same *)
(* in the cookie, in place of that of any other tab.                       *)
StartFlow(g) ==
  /\ flow[g].step = "idle" /\ exists
  /\ flow' = [flow EXCEPT ![g] = [NoFlow EXCEPT !.step = "consent", !.since = now]]
  /\ cookie' = g
  /\ UNCHANGED <<now, provider, exists, row, caller, deleting, dropped>>

InTime(g) == now < flow[g].since + StateLife

(* The person agrees, and the provider sends the browser back, in time and *)
(* with the right cookie or not.                                           *)
Callback(g) ==
  /\ flow[g].step = "consent"
  /\ FlowAt(g, IF cookie = g /\ InTime(g) /\ exists THEN "exchange" ELSE "over")
  /\ cookie' = IF cookie = g /\ InTime(g) /\ ~exists THEN None ELSE cookie
  /\ UNCHANGED <<now, provider, exists, row, caller, deleting, dropped>>

(* The code is good for one exchange. *)
ExchangeCode(g) ==
  /\ flow[g].step = "exchange"
  /\ LET new == policy[g].refresh # "none" IN
     /\ flow' = [flow EXCEPT ![g].step = "save", ![g].reply = Answer(g, new)]
     /\ issued' = IF new THEN [issued EXCEPT ![g] = 1] ELSE issued
  /\ UNCHANGED <<now, policy, exists, row, cookie, caller, deleting, dropped>>

(* Refused, which takes the cookie away, or not reached.                   *)
ExchangeFails(g) ==
  /\ flow[g].step = "exchange"
  /\ FlowAt(g, "over")
  /\ \/ cookie' = None
     \/ "network" \in Faults /\ UNCHANGED cookie
  /\ UNCHANGED <<now, provider, exists, row, caller, deleting, dropped>>

SaveConsent(g) ==
  /\ flow[g].step = "save"
  /\ row' = Stored(flow[g].reply, flow[g].reply.refresh)
  /\ FlowAt(g, "over") /\ cookie' = None
  /\ UNCHANGED <<now, provider, exists, caller, deleting, dropped>>

-----------------------------------------------------------------------------
(* get_valid_access_token, on behalf of a node *)

CallAt(c, step) == caller' = [caller EXCEPT ![c].step = step]
UNTOUCHED_BY_CALLS == UNCHANGED <<now, policy, exists, flow, cookie, deleting>>

Begin(c) ==
  /\ caller[c].step = "idle" /\ exists
  /\ CallAt(c, "read")
  /\ UNCHANGED <<row, issued, dropped>> /\ UNTOUCHED_BY_CALLS

ReadToken(c) ==
  /\ caller[c].step = "read"
  /\ CASE row = None -> caller' = [caller EXCEPT ![c] = Over]
       [] row # None /\ (row.expiresAt = None \/ ~IsExpiringSoon(row.expiresAt)) ->
            caller' = [caller EXCEPT ![c].step = "hold", ![c].row = row, ![c].since = now]
       [] row # None /\ row.expiresAt # None /\ IsExpiringSoon(row.expiresAt) ->
            IF row.refresh = None THEN caller' = [caller EXCEPT ![c] = Over]
            ELSE caller' = [caller EXCEPT ![c].step = "refresh", ![c].row = row]
  /\ UNCHANGED <<row, issued, dropped>> /\ UNTOUCHED_BY_CALLS

(* The provider answers the refresh token that was read. *)
Refresh(c) ==
  LET t == caller[c].row.refresh  g == t.grant IN
  /\ caller[c].step = "refresh"
  /\ Accepts(t)
  /\ caller' = [caller EXCEPT ![c].step = "save", ![c].reply = Answer(g, Rotates(g))]
  /\ issued' = IF Rotates(g) THEN [issued EXCEPT ![g] = @ + 1] ELSE issued
  /\ UNCHANGED <<row, dropped>> /\ UNTOUCHED_BY_CALLS

(* It refuses, or cannot be reached, or its answer is lost on the way: the *)
(* node fails.                                                             *)
RefreshFails(c) ==
  LET t == caller[c].row.refresh  g == t.grant IN
  /\ caller[c].step = "refresh"
  /\ \/ /\ ~Accepts(t) /\ UNCHANGED dropped
        /\ IF policy[g].refresh = "revokes" THEN Void(g) ELSE UNCHANGED issued
     \/ "network" \in Faults /\ UNCHANGED <<issued, dropped>>
     \/ /\ "network" \in Faults /\ Accepts(t) /\ Rotates(g)
        /\ Void(g)
        /\ dropped' = dropped \cup {g}
  /\ caller' = [caller EXCEPT ![c] = Over]
  /\ UNCHANGED row /\ UNTOUCHED_BY_CALLS

(* INSERT ... ON CONFLICT DO UPDATE, whatever the row is by now. *)
SaveRefreshed(c) ==
  LET o == caller[c] IN
  /\ o.step = "save"
  /\ row' = Stored(o.reply, KeptRefresh(o.reply, o.row.refresh))
  /\ caller' = [caller EXCEPT ![c] = [NoCall EXCEPT !.step = "hold", !.row = row', !.since = now]]
  /\ UNCHANGED <<issued, dropped>> /\ UNTOUCHED_BY_CALLS

(* The token goes out with the tool call, after the session is initialized *)
(* and, if the connection is not trusted, a person has approved the call.  *)
Use(c) ==
  /\ caller[c].step = "hold"
  /\ caller' = [caller EXCEPT ![c] = Over]
  /\ UNCHANGED <<row, issued, dropped>> /\ UNTOUCHED_BY_CALLS

-----------------------------------------------------------------------------
(* delete_connection_endpoint, for a private connection *)

DeleteConnection ==
  /\ exists /\ exists' = FALSE
  /\ deleting' = TRUE
  /\ UNCHANGED <<now, provider, row, flow, cookie, caller, dropped>>

DeleteToken ==
  /\ deleting /\ deleting' = FALSE
  /\ row' = None
  /\ UNCHANGED <<now, provider, exists, flow, cookie, caller, dropped>>

(* The process dies; the browser keeps its cookie and its way back.        *)
Crash ==
  /\ "crash" \in Faults
  /\ dropped' = dropped \cup {caller[c].reply.access.grant : c \in {d \in Callers : caller[d].step = "save"}}
  /\ caller' = [c \in Callers |-> IF caller[c] = NoCall THEN NoCall ELSE Over]
  /\ flow' = [g \in Grants |-> IF flow[g].step \in {"exchange", "save"}
                               THEN [NoFlow EXCEPT !.step = "over"] ELSE flow[g]]
  /\ deleting' = FALSE
  /\ UNCHANGED <<now, provider, exists, row, cookie>>

Tick ==
  /\ now < MaxTime
  /\ now' = now + 1
  /\ UNCHANGED <<provider, exists, row, flow, cookie, caller, deleting, dropped>>

Next ==
  \/ \E g \in Grants : StartFlow(g) \/ Callback(g) \/ ExchangeCode(g)
                       \/ ExchangeFails(g) \/ SaveConsent(g)
  \/ \E c \in Callers : Begin(c) \/ ReadToken(c) \/ Refresh(c) \/ RefreshFails(c)
                        \/ SaveRefreshed(c) \/ Use(c)
  \/ DeleteConnection \/ DeleteToken \/ Crash \/ Tick

Spec == Init /\ [][Next]_vars

-----------------------------------------------------------------------------
(* Properties *)

FlowState == [step : {"idle", "consent", "exchange", "save", "over"}, since : Nat, reply : Reply \cup {None}]
CallState == [step : {"idle", "read", "refresh", "save", "hold", "over"}, since : Nat,
              row : TokenRow \cup {None}, reply : Reply \cup {None}]

TypeOK ==
  /\ now \in Nat /\ policy \in [Grants -> Policies] /\ issued \in [Grants -> Nat]
  /\ exists \in BOOLEAN /\ deleting \in BOOLEAN
  /\ row \in TokenRow \cup {None}
  /\ flow \in [Grants -> FlowState] /\ cookie \in Grants \cup {None}
  /\ caller \in [Callers -> CallState]
  /\ dropped \in SUBSET Grants

AnsweredAt(access) == access.exp - Life

(* oauth_flow.py, REFRESH_SKEW_SECONDS: the skew is what an answer may     *)
(* take to be stored and its token to be used, together.  expires_at is    *)
(* counted from when the answer is stored, which is late, and other        *)
(* callers may store their own answers in between; a token that has spent  *)
(* no more than the skew on these two ways goes out before it expires.     *)
FreshWithinSkew ==
  \A c \in Callers : LET r == caller[c].row IN
    caller[c].step = "hold" /\ r.access.exp # None =>
      LET spent == (r.updatedAt - AnsweredAt(r.access)) + (now - caller[c].since) IN
        spent <= Skew /\ spent < Life => ~Expired(r.access)

(* oauth_flow.py 62, the expiry must not be raced past "between 'checked   *)
(* valid' and 'used'", whatever the two ways take: not so, with a call     *)
(* that is slow or waits for a person's approval.                          *)
FreshWhenUsed == \A c \in Callers : caller[c].step = "hold" => ~Expired(caller[c].row.access)

(* Somebody holds an answer for this grant that is not stored yet.         *)
Pending(g) ==
  \/ \E c \in Callers : caller[c].step = "save" /\ caller[c].reply.access.grant = g
  \/ flow[g].step = "save"

(* "Transparently refreshing": an account that was connected with a        *)
(* refresh token stays refreshable, however many nodes refresh it at once, *)
(* whether the provider rotates its tokens, and whether it accepts each    *)
(* once only; a lost answer is the one exception.                          *)
StaysRefreshable ==
  row # None =>
    LET g == row.access.grant IN
    policy[g].refresh # "none" /\ ~Pending(g) /\ g \notin dropped =>
      row.refresh # None /\ row.refresh.grant = g /\ Accepts(row.refresh)

(* app.py 1257, "avoids leaving a stored token orphaned once its           *)
(* connection is gone".                                                    *)
NoOrphanToken == ~exists /\ ~deleting => row = None

-----------------------------------------------------------------------------
(* The inductive invariant behind FreshWithinSkew and StaysRefreshable.    *)

(* A row, wherever it is: its expiry is counted from when it was stored,   *)
(* and it holds a refresh token of its own grant, once that is connected.  *)
GoodRow(r) ==
  LET g == r.access.grant IN
  /\ r \in TokenRow
  /\ r.expiresAt = None <=> r.access.exp = None
  /\ r.expiresAt # None => r.expiresAt = r.updatedAt + Life
  /\ r.refresh # None => r.refresh.grant = g /\ r.refresh.n <= issued[g]
  /\ policy[g].refresh # "none" => r.refresh # None
  /\ flow[g].step = "over"

(* An answer that is still to be stored.                                   *)
GoodReply(reply, g) ==
  /\ reply \in Reply /\ reply.access.grant = g
  /\ reply.expiresIn = None <=> reply.access.exp = None
  /\ reply.refresh # None => reply.refresh.grant = g /\ reply.refresh.n <= issued[g]
  /\ Rotates(g) => reply.refresh # None

RowIsGood == row # None => GoodRow(row)

FlowIsGood(g) ==
  /\ flow[g].step \in {"idle", "consent", "exchange"} => issued[g] = 0
  /\ flow[g].step = "save" =>
       /\ GoodReply(flow[g].reply, g)
       /\ policy[g].refresh # "none" => flow[g].reply.refresh # None

(* Its token was good by its own account when it was taken, or was stored  *)
(* just then.                                                              *)
CallIsGood(c) ==
  /\ caller[c].step \in {"refresh", "save", "hold"} => GoodRow(caller[c].row)
  /\ caller[c].step \in {"refresh", "save"} => caller[c].row.refresh # None
  /\ caller[c].step = "save" => GoodReply(caller[c].reply, caller[c].row.access.grant)
  /\ caller[c].step = "hold" /\ caller[c].row.expiresAt # None =>
       \/ caller[c].since + Skew < caller[c].row.expiresAt
       \/ caller[c].since = caller[c].row.updatedAt

(* Who waits to store the only refresh token that is accepted, where each  *)
(* is accepted once, waits alone: all other copies are old.                *)
Strict(g) == policy[g].refresh = "once only" /\ g \notin dropped

HoldsTheLast(c) ==
  LET g == caller[c].row.access.grant IN
  caller[c].step = "save" /\ Strict(g) =>
    /\ caller[c].reply.refresh.n = issued[g]
    /\ row # None /\ row.access.grant = g => row.refresh.n # issued[g]
    /\ \A d \in Callers \ {c} : caller[d].row # None /\ caller[d].row.access.grant = g =>
         /\ caller[d].step = "refresh" => caller[d].row.refresh.n # issued[g]
         /\ caller[d].step # "save"

IsTheFirst(g) == flow[g].step = "save" /\ Strict(g) => flow[g].reply.refresh.n = issued[g]

IInv ==
  /\ TypeOK
  /\ RowIsGood
  /\ \A g \in Grants : FlowIsGood(g) /\ IsTheFirst(g)
  /\ \A c \in Callers : CallIsGood(c) /\ ("revokes" \notin Ways => HoldsTheLast(c))
  /\ "revokes" \notin Ways => StaysRefreshable
=============================================================================
