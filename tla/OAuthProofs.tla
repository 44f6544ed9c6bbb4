----------------------------- MODULE OAuthProofs -----------------------------
(***************************************************************************)
(* What OAuth promises, for any number of callers and consents and however *)
(* long anything takes: a token that has spent no more than the skew on    *)
(* its way has not expired, and an account stays refreshable.  Both rest   *)
(* on IInv, which says what every copy of a row or an answer is still      *)
(* worth.                                                                  *)
(***************************************************************************)
EXTENDS OAuth, TLAPS

LEMMA TypeOKInit == Init => TypeOK
<1> SUFFICES ASSUME Init PROVE TypeOK
  OBVIOUS
<1>1. NoFlow \in FlowState /\ NoCall \in CallState
  BY DEF NoFlow, NoCall, FlowState, CallState
<1> QED BY <1>1 DEF Init, TypeOK

LEMMA IInvInit == Init => IInv
<1> SUFFICES ASSUME Init PROVE IInv
  OBVIOUS
<1>1. TypeOK
  BY TypeOKInit
<1>2. row = None /\ \A g \in Grants : flow[g].step = "idle" /\ issued[g] = 0
  BY DEF Init, NoFlow
<1>3. \A c \in Callers : caller[c].step = "idle"
  BY DEF Init, NoCall
<1> QED BY <1>1, <1>2, <1>3 DEF IInv, RowIsGood, FlowIsGood, IsTheFirst, CallIsGood,
             HoldsTheLast, StaysRefreshable

-----------------------------------------------------------------------------
(* Types *)

(* An answer of the provider, and what is stored of it, have their types.  *)
LEMMA AnswerType ==
  ASSUME TypeOK, NEW g \in Grants, NEW new \in BOOLEAN
  PROVE  /\ Answer(g, new) \in Reply
         /\ Answer(g, new).access.grant = g
         /\ Answer(g, new).expiresIn = None <=> Answer(g, new).access.exp = None
         /\ Answer(g, new).expiresIn # None =>
              Answer(g, new).expiresIn = Life /\ Answer(g, new).access.exp = now + Life
         /\ new => /\ Answer(g, new).refresh # None
                   /\ Answer(g, new).refresh.grant = g /\ Answer(g, new).refresh.n = issued[g] + 1
         /\ ~new => Answer(g, new).refresh = None
<1> DEFINE life == policy[g].life
           access == [grant |-> g, exp |-> From(life)]
           token == [grant |-> g, n |-> issued[g] + 1]
<1>1. life \in {Life, None} /\ Life # None /\ None \notin Nat
  BY TimeAssumption, CallersAssumption DEF TypeOK, Policies
<1>2. From(life) \in Nat \cup {None} /\ (From(life) = None <=> life = None)
      /\ (life # None => From(life) = now + Life)
  BY <1>1, TimeAssumption DEF From, TypeOK
<1>3. access \in Access
  BY <1>2 DEF Access
<1>4. token \in RefreshToken /\ token # None
  BY NoneAssumption DEF RefreshToken, TypeOK
<1>5. Answer(g, new) = [access |-> access, expiresIn |-> life, refresh |-> IF new THEN token ELSE None]
  BY DEF Answer
<1> HIDE DEF access, token, life
<1>6. access.grant = g /\ access.exp = From(life) /\ token.grant = g /\ token.n = issued[g] + 1
  BY DEF access, token
<1>7. Answer(g, new) \in Reply
  BY <1>1, <1>3, <1>4, <1>5 DEF Reply
<1> QED BY <1>1, <1>2, <1>4, <1>5, <1>6, <1>7

LEMMA StoredType ==
  ASSUME TypeOK, NEW reply \in Reply, NEW refresh \in RefreshToken \cup {None}
  PROVE  /\ Stored(reply, refresh) \in TokenRow
         /\ Stored(reply, refresh).access = reply.access
         /\ Stored(reply, refresh).refresh = refresh
         /\ Stored(reply, refresh).expiresAt = From(reply.expiresIn)
         /\ Stored(reply, refresh).updatedAt = now
<1>1. From(reply.expiresIn) \in Nat \cup {None}
  BY TimeAssumption DEF From, Reply, TypeOK
<1> QED BY <1>1 DEF Stored, TokenRow, Reply, TypeOK

(* What a caller that reads the row goes on with. *)
LEMMA ReadOutcomes ==
  ASSUME TypeOK, NEW c \in Callers, ReadToken(c)
  PROVE  \/ caller' = [caller EXCEPT ![c] = Over]
         \/ /\ row # None /\ (row.expiresAt = None \/ now + Skew < row.expiresAt)
            /\ caller' = [caller EXCEPT ![c].step = "hold", ![c].row = row, ![c].since = now]
         \/ /\ row # None /\ row.refresh # None
            /\ caller' = [caller EXCEPT ![c].step = "refresh", ![c].row = row]
<1>1. CASE row = None
  BY <1>1 DEF ReadToken
<1>2. CASE row # None /\ (row.expiresAt = None \/ ~IsExpiringSoon(row.expiresAt))
  <2>1. row.expiresAt # None => row.expiresAt \in Nat
    BY <1>2 DEF TypeOK, TokenRow
  <2>2. row.expiresAt = None \/ now + Skew < row.expiresAt
    BY <1>2, <2>1, TimeAssumption DEF IsExpiringSoon, TypeOK
  <2> QED BY <1>2, <2>2 DEF ReadToken
<1>3. CASE row # None /\ row.expiresAt # None /\ IsExpiringSoon(row.expiresAt)
  BY <1>3 DEF ReadToken
<1> QED BY <1>1, <1>2, <1>3

LEMMA TypeOKStep ==
  ASSUME IInv, [Next]_vars
  PROVE  TypeOK'
<1> USE DEF TypeOK
<1>t. TypeOK
  BY DEF IInv
<1>0. NoFlow \in FlowState /\ NoCall \in CallState /\ Over \in CallState
  BY DEF NoFlow, NoCall, FlowState, CallState, Over
<1>1. ASSUME NEW g \in Grants, StartFlow(g) PROVE TypeOK'
  BY <1>t, <1>0, <1>1 DEF StartFlow, FlowState, provider, NoFlow
<1>2. ASSUME NEW g \in Grants, Callback(g) PROVE TypeOK'
  BY <1>t, <1>0, <1>2 DEF Callback, FlowAt, FlowState, provider, NoFlow
<1>3. ASSUME NEW g \in Grants, ExchangeCode(g) PROVE TypeOK'
  <2>1. Answer(g, policy[g].refresh # "none") \in Reply
    BY <1>t, AnswerType
  <2> QED BY <1>t, <1>3, <2>1 DEF ExchangeCode, FlowState
<1>4. ASSUME NEW g \in Grants, ExchangeFails(g) PROVE TypeOK'
  BY <1>t, <1>0, <1>4 DEF ExchangeFails, FlowAt, FlowState, provider, NoFlow
<1>5. ASSUME NEW g \in Grants, SaveConsent(g) PROVE TypeOK'
  <2>1. flow[g].reply \in Reply
    BY <1>5 DEF IInv, FlowIsGood, GoodReply, SaveConsent
  <2>2. flow[g].reply.refresh \in RefreshToken \cup {None}
    BY <2>1 DEF Reply
  <2>3. row' \in TokenRow
    BY <1>t, <1>5, <2>1, <2>2, StoredType DEF SaveConsent
  <2> QED BY <1>t, <1>0, <1>5, <2>3 DEF SaveConsent, FlowAt, FlowState, provider, NoFlow
<1>6. ASSUME NEW c \in Callers, Begin(c) PROVE TypeOK'
  BY <1>t, <1>6 DEF Begin, CallAt, CallState, UNTOUCHED_BY_CALLS
<1>7. ASSUME NEW c \in Callers, ReadToken(c) PROVE TypeOK'
  <2>1. \/ caller' = [caller EXCEPT ![c] = Over]
        \/ row # None /\ caller' = [caller EXCEPT ![c].step = "hold", ![c].row = row, ![c].since = now]
        \/ row # None /\ caller' = [caller EXCEPT ![c].step = "refresh", ![c].row = row]
    BY <1>t, <1>7, ReadOutcomes
  <2>2. caller' \in [Callers -> CallState]
    BY <1>t, <1>0, <2>1 DEF CallState
  <2> QED BY <1>t, <1>7, <2>2 DEF ReadToken, UNTOUCHED_BY_CALLS
<1>8. ASSUME NEW c \in Callers, Refresh(c) PROVE TypeOK'
  <2> DEFINE g == caller[c].row.refresh.grant
  <2>1. g \in Grants
    BY <1>8 DEF IInv, CallIsGood, GoodRow, TokenRow, Refresh, RefreshToken
  <2>2. Answer(g, Rotates(g)) \in Reply
    <3>1. Rotates(g) \in BOOLEAN
      BY DEF Rotates
    <3> HIDE DEF g
    <3> QED BY <1>t, <2>1, <3>1, AnswerType
  <2>3. caller' \in [Callers -> CallState]
    BY <1>t, <1>8, <2>2 DEF Refresh, CallState
  <2> QED BY <1>t, <1>8, <2>1, <2>3 DEF Refresh, UNTOUCHED_BY_CALLS
<1>9. ASSUME NEW c \in Callers, RefreshFails(c) PROVE TypeOK'
  <2> DEFINE g == caller[c].row.refresh.grant
  <2>1. g \in Grants
    BY <1>9 DEF IInv, CallIsGood, GoodRow, TokenRow, RefreshFails, RefreshToken
  <2> QED BY <1>t, <1>0, <1>9, <2>1 DEF RefreshFails, Void, UNTOUCHED_BY_CALLS
<1>10. ASSUME NEW c \in Callers, SaveRefreshed(c) PROVE TypeOK'
  <2>1. caller[c].reply \in Reply /\ caller[c].row \in TokenRow
    BY <1>10 DEF IInv, CallIsGood, GoodRow, GoodReply, SaveRefreshed
  <2>2. KeptRefresh(caller[c].reply, caller[c].row.refresh) \in RefreshToken \cup {None}
    BY <2>1 DEF KeptRefresh, Reply, TokenRow
  <2>3. row' \in TokenRow
    BY <1>t, <1>10, <2>1, <2>2, StoredType DEF SaveRefreshed
  <2>4. caller' \in [Callers -> CallState]
    BY <1>t, <1>10, <2>3 DEF SaveRefreshed, CallState, NoCall
  <2> QED BY <1>t, <1>10, <2>3, <2>4 DEF SaveRefreshed, UNTOUCHED_BY_CALLS
<1>11. ASSUME NEW c \in Callers, Use(c) PROVE TypeOK'
  BY <1>t, <1>0, <1>11 DEF Use, UNTOUCHED_BY_CALLS
<1>12. CASE DeleteConnection \/ DeleteToken
  BY <1>t, <1>12 DEF DeleteConnection, DeleteToken, provider
<1>13. CASE Crash
  <2>1. \A c \in Callers : caller[c].step = "save" => caller[c].reply.access.grant \in Grants
    BY DEF IInv, CallIsGood, GoodReply, Reply, Access
  <2>2. caller' \in [Callers -> CallState]
    BY <1>t, <1>0, <1>13 DEF Crash
  <2>3. flow' \in [Grants -> FlowState]
    BY <1>t, <1>13 DEF Crash, FlowState, NoFlow
  <2>4. dropped' \in SUBSET Grants
    BY <1>t, <1>13, <2>1 DEF Crash
  <2> QED BY <1>t, <1>13, <2>2, <2>3, <2>4 DEF Crash, provider
<1>14. CASE Tick
  BY <1>t, <1>14 DEF Tick, provider
<1>15. CASE UNCHANGED vars
  BY <1>t, <1>15 DEF vars, provider
<1> QED BY <1>1, <1>2, <1>3, <1>4, <1>5, <1>6, <1>7, <1>8, <1>9, <1>10, <1>11, <1>12, <1>13, <1>14, <1>15
     DEF Next

(* What no step takes back. *)
LEMMA Grows ==
  ASSUME IInv, [Next]_vars
  PROVE  /\ policy' = policy /\ now' \in {now, now + 1} /\ dropped \subseteq dropped'
         /\ \A g \in Grants : /\ issued[g] <= issued'[g]
                              /\ flow[g].step = "over" => flow'[g].step = "over"
<1> USE DEF TypeOK
<1>t. TypeOK
  BY DEF IInv
<1>i. \A g \in Grants : issued[g] \in Nat
  BY <1>t
<1>1. ASSUME NEW g \in Grants, StartFlow(g) \/ Callback(g) \/ ExchangeFails(g) \/ SaveConsent(g)
      PROVE  /\ UNCHANGED <<policy, now, dropped, issued>>
             /\ \A h \in Grants : flow[h].step = "over" => flow'[h].step = "over"
  BY <1>t, <1>1 DEF StartFlow, Callback, ExchangeFails, SaveConsent, FlowAt, provider, FlowState, NoFlow
<1>2. ASSUME NEW g \in Grants, ExchangeCode(g)
      PROVE  /\ UNCHANGED <<policy, now, dropped>>
             /\ \A h \in Grants : issued[h] <= issued'[h] /\ (flow[h].step = "over" => flow'[h].step = "over")
  <2>1. issued[g] = 0
    BY <1>2 DEF IInv, FlowIsGood, ExchangeCode
  <2> QED BY <1>t, <1>i, <1>2, <2>1 DEF ExchangeCode
<1>3. ASSUME NEW c \in Callers, Begin(c) \/ ReadToken(c) \/ Refresh(c) \/ RefreshFails(c) \/ SaveRefreshed(c) \/ Use(c)
      PROVE  /\ UNCHANGED <<policy, now, flow>> /\ dropped \subseteq dropped'
             /\ \A h \in Grants : issued[h] <= issued'[h]
  <2>1. UNCHANGED <<policy, now, flow>>
    BY <1>3 DEF Begin, ReadToken, Refresh, RefreshFails, SaveRefreshed, Use, UNTOUCHED_BY_CALLS
  <2>2. dropped \subseteq dropped'
    BY <1>3 DEF Begin, ReadToken, Refresh, RefreshFails, SaveRefreshed, Use
  <2>3. issued' = issued \/ \E g : issued' = [issued EXCEPT ![g] = @ + 1]
    BY <1>3 DEF Begin, ReadToken, Refresh, RefreshFails, SaveRefreshed, Use, Void
  <2> QED BY <1>t, <1>i, <2>1, <2>2, <2>3
<1>4. CASE DeleteConnection \/ DeleteToken \/ UNCHANGED vars
  BY <1>i, <1>4 DEF DeleteConnection, DeleteToken, vars, provider
<1>5. CASE Crash
  BY <1>t, <1>i, <1>5 DEF Crash, provider
<1>6. CASE Tick
  BY <1>t, <1>i, <1>6 DEF Tick, provider
<1> QED BY <1>i, <1>1, <1>2, <1>3, <1>4, <1>5, <1>6 DEF Next

(* What a row is worth is not lost. *)
LEMMA RowStays ==
  ASSUME IInv, [Next]_vars, NEW r, GoodRow(r)
  PROVE  GoodRow(r)'
<1>1. r.access.grant \in Grants /\ (r.refresh # None => r.refresh.n \in Nat)
  BY DEF GoodRow, TokenRow, Access, RefreshToken
<1>2. issued[r.access.grant] \in Nat /\ issued'[r.access.grant] \in Nat
  BY <1>1, TypeOKStep DEF TypeOK, IInv
<1> QED BY <1>1, <1>2, Grows DEF GoodRow

-----------------------------------------------------------------------------
(* Rows and answers *)

(* What is stored of a good answer is a good row.                          *)
LEMMA StoredIsGood ==
  ASSUME IInv, NEW reply, NEW g \in Grants, GoodReply(reply, g),
         NEW refresh \in RefreshToken \cup {None},
         refresh # None => refresh.grant = g /\ refresh.n <= issued[g],
         policy[g].refresh # "none" => refresh # None,
         row' = Stored(reply, refresh), UNCHANGED provider, flow'[g].step = "over"
  PROVE  GoodRow(row)'
<1>1. /\ row' \in TokenRow
      /\ row'.access = reply.access /\ row'.refresh = refresh /\ row'.expiresAt = From(reply.expiresIn)
      /\ row'.updatedAt = now
  BY StoredType DEF GoodReply, IInv
<1>2. row'.expiresAt = None <=> row'.access.exp = None
  <2>1. CASE reply.expiresIn = None
    BY <1>1, <2>1 DEF GoodReply, From
  <2>2. CASE reply.expiresIn # None
    <3>0. Life \in Nat /\ now \in Nat
      BY TimeAssumption DEF IInv, TypeOK
    <3>1. now + Life \in Nat
      BY <3>0
    <3>2. None \notin Nat
      BY CallersAssumption
    <3>3. reply.expiresIn = Life /\ reply.access.exp # None
      BY <2>2 DEF GoodReply, Reply
    <3> QED BY <1>1, <2>2, <3>1, <3>2, <3>3 DEF From
  <2> QED BY <2>1, <2>2
<1>3. row'.expiresAt # None => row'.expiresAt = row'.updatedAt + Life
  BY <1>1 DEF GoodReply, Reply, From
<1>4. row'.access.grant = g
  BY <1>1 DEF GoodReply
<1> QED BY <1>1, <1>2, <1>3, <1>4 DEF GoodRow, provider

LEMMA RowIsGoodStep ==
  ASSUME IInv, [Next]_vars
  PROVE  RowIsGood'
<1>t. TypeOK
  BY DEF IInv
<1>1. CASE row' = row
  BY <1>1, RowStays DEF RowIsGood, IInv, GoodRow
<1>2. CASE row' = None
  BY <1>2 DEF RowIsGood
<1>3. ASSUME NEW g \in Grants, SaveConsent(g) PROVE RowIsGood'
  <2> DEFINE reply == flow[g].reply
  <2>1. GoodReply(reply, g) /\ (policy[g].refresh # "none" => reply.refresh # None)
    BY <1>3 DEF IInv, FlowIsGood, SaveConsent
  <2>2. reply.refresh \in RefreshToken \cup {None}
        /\ (reply.refresh # None => reply.refresh.grant = g /\ reply.refresh.n <= issued[g])
    BY <2>1 DEF GoodReply, Reply
  <2>3. row' = Stored(reply, reply.refresh) /\ UNCHANGED provider
    BY <1>3 DEF SaveConsent
  <2>4. flow'[g].step = "over"
    BY <1>t, <1>3 DEF SaveConsent, FlowAt, NoFlow, TypeOK
  <2> HIDE DEF reply
  <2>5. GoodRow(row)'
    BY <2>1, <2>2, <2>3, <2>4, StoredIsGood
  <2> QED BY <2>5 DEF RowIsGood
<1>4. ASSUME NEW c \in Callers, SaveRefreshed(c) PROVE RowIsGood'
  <2> DEFINE reply == caller[c].reply
             old == caller[c].row
             g == old.access.grant
             refresh == KeptRefresh(reply, old.refresh)
  <2>1. GoodReply(reply, g) /\ GoodRow(old) /\ old.refresh # None
    BY <1>4 DEF IInv, CallIsGood, SaveRefreshed
  <2>2. g \in Grants /\ flow'[g].step = "over" /\ UNCHANGED provider
    BY <1>4, <2>1 DEF GoodRow, TokenRow, Access, SaveRefreshed, UNTOUCHED_BY_CALLS, provider
  <2>3. refresh \in RefreshToken \cup {None} /\ refresh # None
        /\ refresh.grant = g /\ refresh.n <= issued[g]
    BY <2>1 DEF GoodReply, GoodRow, Reply, TokenRow, KeptRefresh
  <2>4. row' = Stored(reply, refresh)
    BY <1>4 DEF SaveRefreshed
  <2> HIDE DEF reply, old, g, refresh
  <2>5. GoodRow(row)'
    BY <2>1, <2>2, <2>3, <2>4, StoredIsGood
  <2> QED BY <2>5 DEF RowIsGood
<1>5. row' = row \/ row' = None \/ (\E g \in Grants : SaveConsent(g)) \/ (\E c \in Callers : SaveRefreshed(c))
  BY DEF Next, vars, StartFlow, Callback, ExchangeCode, ExchangeFails, Begin, ReadToken, Refresh, RefreshFails,
     Use, DeleteConnection, DeleteToken, Crash, Tick
<1> QED BY <1>1, <1>2, <1>3, <1>4, <1>5

(* What an execution holds is worth as much as before, unless it moves.    *)
LEMMA CallStays ==
  ASSUME IInv, [Next]_vars, NEW c \in Callers, caller'[c] = caller[c]
  PROVE  CallIsGood(c)'
<1>1. CallIsGood(c)
  BY DEF IInv
<1>2. caller[c].step \in {"refresh", "save", "hold"} => GoodRow(caller[c].row)'
  <2> HAVE caller[c].step \in {"refresh", "save", "hold"}
  <2>1. GoodRow(caller[c].row)
    BY <1>1 DEF CallIsGood
  <2> QED BY <2>1, RowStays DEF GoodRow
<1>3. caller[c].step = "save" => GoodReply(caller[c].reply, caller[c].row.access.grant)'
  <2> SUFFICES ASSUME caller[c].step = "save"
               PROVE  GoodReply(caller[c].reply, caller[c].row.access.grant)'
    OBVIOUS
  <2> DEFINE g == caller[c].row.access.grant
             reply == caller[c].reply
  <2>1. GoodReply(reply, g) /\ g \in Grants
    BY <1>1 DEF CallIsGood, GoodRow, TokenRow, Access
  <2>2. issued[g] \in Nat /\ issued'[g] \in Nat /\ issued[g] <= issued'[g] /\ policy' = policy
    BY <2>1, Grows, TypeOKStep DEF IInv, TypeOK
  <2>3. reply.refresh # None => reply.refresh.n \in Nat
    BY <2>1 DEF GoodReply, Reply, RefreshToken
  <2>4. reply.refresh # None => reply.refresh.grant = g /\ reply.refresh.n <= issued'[g]
    BY <2>1, <2>2, <2>3 DEF GoodReply
  <2>5. policy'[g].refresh \in {"rotates", "once only", "revokes"} => reply.refresh # None
    BY <2>1, <2>2 DEF GoodReply, Rotates
  <2>6. reply \in Reply /\ reply.access.grant = g /\ (reply.expiresIn = None <=> reply.access.exp = None)
    BY <2>1 DEF GoodReply
  <2>7. reply' = reply /\ g' = g
    OBVIOUS
  <2> HIDE DEF reply, g
  <2>8. GoodReply(reply, g)'
    BY <2>4, <2>5, <2>6, <2>7 DEF GoodReply, Rotates
  <2> QED BY <2>8 DEF reply, g
<1> QED BY <1>1, <1>2, <1>3 DEF CallIsGood

LEMMA CallIsGoodStep ==
  ASSUME IInv, [Next]_vars, NEW c \in Callers
  PROVE  CallIsGood(c)'
<1>t. TypeOK /\ caller[c] \in CallState
  BY DEF IInv, TypeOK
<1>1. CASE caller'[c] = caller[c]
  BY <1>1, CallStays
<1>2. CASE caller'[c].step \in {"idle", "read", "over"}
  BY <1>2 DEF CallIsGood
<1>3. CASE ReadToken(c)
  <2>1. CASE caller' = [caller EXCEPT ![c] = Over]
    BY <1>t, <1>2, <2>1 DEF Over, NoCall, TypeOK
  <2>2. CASE /\ row # None /\ (row.expiresAt = None \/ now + Skew < row.expiresAt)
             /\ caller' = [caller EXCEPT ![c].step = "hold", ![c].row = row, ![c].since = now]
    <3>1. caller'[c].step = "hold" /\ caller'[c].row = row /\ caller'[c].since = now
      BY <1>t, <2>2 DEF TypeOK, CallState
    <3>2. GoodRow(row)' /\ row' = row
      BY <1>3, <2>2, RowIsGoodStep DEF RowIsGood, ReadToken
    <3> QED BY <2>2, <3>1, <3>2 DEF CallIsGood, GoodRow
  <2>3. CASE /\ row # None /\ row.refresh # None
             /\ caller' = [caller EXCEPT ![c].step = "refresh", ![c].row = row]
    <3>1. caller'[c].step = "refresh" /\ caller'[c].row = row
      BY <1>t, <2>3 DEF TypeOK, CallState
    <3>2. GoodRow(row)' /\ row' = row
      BY <1>3, <2>3, RowIsGoodStep DEF RowIsGood, ReadToken
    <3> QED BY <2>3, <3>1, <3>2 DEF CallIsGood, GoodRow
  <2> QED BY <1>t, <1>3, <2>1, <2>2, <2>3, ReadOutcomes
<1>4. CASE Refresh(c)
  <2> DEFINE g == caller[c].row.refresh.grant
             new == Rotates(g)
  <2>1. GoodRow(caller[c].row) /\ caller[c].row.refresh # None
    BY <1>4 DEF IInv, CallIsGood, Refresh
  <2>2. g \in Grants /\ g = caller[c].row.access.grant /\ new \in BOOLEAN
    BY <2>1 DEF GoodRow, TokenRow, RefreshToken, Rotates
  <2>3. caller'[c].step = "save" /\ caller'[c].reply = Answer(g, new)
        /\ caller'[c].row = caller[c].row
    BY <1>t, <1>4 DEF Refresh, TypeOK, CallState
  <2>4. issued' = (IF new THEN [issued EXCEPT ![g] = @ + 1] ELSE issued) /\ UNCHANGED <<now, policy>>
    BY <1>4 DEF Refresh, UNTOUCHED_BY_CALLS
  <2>5. issued[g] \in Nat /\ (new => issued'[g] = issued[g] + 1)
    BY <1>t, <2>2, <2>4 DEF TypeOK, CallState
  <2> HIDE DEF g, new
  <2>6. /\ Answer(g, new) \in Reply /\ Answer(g, new).access.grant = g
        /\ Answer(g, new).expiresIn = None <=> Answer(g, new).access.exp = None
        /\ Answer(g, new).expiresIn # None =>
             Answer(g, new).expiresIn = Life /\ Answer(g, new).access.exp = now + Life
        /\ new => /\ Answer(g, new).refresh # None
                  /\ Answer(g, new).refresh.grant = g /\ Answer(g, new).refresh.n = issued[g] + 1
        /\ ~new => Answer(g, new).refresh = None
    BY <1>t, <2>2, AnswerType
  <2>7. GoodRow(caller[c].row)'
    BY <2>1, <2>3, RowStays DEF GoodRow
  <2>8. new <=> policy'[g].refresh \in {"rotates", "once only", "revokes"}
    BY <2>4 DEF new, Rotates
  <2>9. GoodReply(caller[c].reply, caller[c].row.access.grant)'
    <3> DEFINE reply == Answer(g, new)
    <3>1. reply.refresh # None => reply.refresh.grant = g /\ reply.refresh.n <= issued'[g]
      BY <2>5, <2>6
    <3>2. policy'[g].refresh \in {"rotates", "once only", "revokes"} => reply.refresh # None
      BY <2>6, <2>8
    <3>3. reply \in Reply /\ reply.access.grant = g /\ (reply.expiresIn = None <=> reply.access.exp = None)
      BY <2>6
    <3> HIDE DEF reply
    <3>4. caller'[c].reply = reply /\ caller'[c].row.access.grant = g
      BY <2>2, <2>3 DEF reply
    <3> QED BY <3>1, <3>2, <3>3, <3>4 DEF GoodReply, Rotates
  <2> QED BY <2>1, <2>3, <2>7, <2>9 DEF CallIsGood
<1>5. CASE SaveRefreshed(c)
  <2>1. caller'[c] = [NoCall EXCEPT !.step = "hold", !.row = row', !.since = now]
    BY <1>t, <1>5 DEF SaveRefreshed, TypeOK
  <2>2. caller'[c].step = "hold" /\ caller'[c].row = row' /\ caller'[c].since = now
    BY <2>1 DEF NoCall
  <2>3. row' = Stored(caller[c].reply, KeptRefresh(caller[c].reply, caller[c].row.refresh))
    BY <1>5 DEF SaveRefreshed
  <2>4. row'.updatedAt = now
    BY <2>3 DEF Stored
  <2>5. GoodRow(row)'
    <3>1. GoodReply(caller[c].reply, caller[c].row.access.grant) /\ GoodRow(caller[c].row)
      BY <1>5 DEF IInv, CallIsGood, SaveRefreshed
    <3>2. KeptRefresh(caller[c].reply, caller[c].row.refresh) \in RefreshToken \cup {None}
      BY <3>1 DEF KeptRefresh, Reply, TokenRow, GoodReply, GoodRow
    <3>3. row' # None
      BY <1>t, <2>3, <3>1, <3>2, StoredType, NoneAssumption DEF GoodReply
    <3> QED BY <3>3, RowIsGoodStep DEF RowIsGood
  <2> QED BY <2>2, <2>4, <2>5 DEF CallIsGood, GoodRow
<1>6. CASE Tick
  BY <1>1, <1>6 DEF Tick
<1>7. CASE UNCHANGED caller
  BY <1>1, <1>7
<1>8. ASSUME NEW d \in Callers, Begin(d) \/ ReadToken(d) \/ Refresh(d) \/ RefreshFails(d) \/ SaveRefreshed(d) \/ Use(d),
             d # c
      PROVE  CallIsGood(c)'
  <2>1. caller'[c] = caller[c]
    BY <1>t, <1>8, ReadOutcomes DEF Begin, CallAt, Refresh, RefreshFails, SaveRefreshed, Use, TypeOK
  <2> QED BY <1>1, <2>1
<1>9. CASE Begin(c) \/ RefreshFails(c) \/ Use(c)
  <2>1. caller' = [caller EXCEPT ![c].step = "read"] \/ caller' = [caller EXCEPT ![c] = Over]
    BY <1>9 DEF Begin, CallAt, RefreshFails, Use
  <2> QED BY <1>t, <1>2, <2>1 DEF Over, NoCall, TypeOK, CallState
<1>10. CASE Crash
  <2>1. caller'[c] = caller[c] \/ caller'[c] = Over
    BY <1>t, <1>10 DEF Crash, TypeOK
  <2> QED BY <1>1, <1>2, <2>1 DEF Over, NoCall
<1>11. (\E g \in Grants : StartFlow(g) \/ Callback(g) \/ ExchangeCode(g) \/ ExchangeFails(g) \/ SaveConsent(g))
       \/ DeleteConnection \/ DeleteToken \/ UNCHANGED vars => UNCHANGED caller
  BY DEF StartFlow, Callback, ExchangeCode, ExchangeFails, SaveConsent, DeleteConnection, DeleteToken, vars
<1> QED BY <1>3, <1>4, <1>5, <1>6, <1>7, <1>8, <1>9, <1>10, <1>11 DEF Next

LEMMA AnswerInFlow ==
  ASSUME IInv, [Next]_vars, NEW g \in Grants, ExchangeCode(g)
  PROVE  FlowIsGood(g)' /\ IsTheFirst(g)'
<1> DEFINE new == policy[g].refresh # "none"
<1>1. TypeOK /\ issued[g] = 0 /\ new \in BOOLEAN
  BY DEF IInv, FlowIsGood, ExchangeCode
<1>2. /\ flow'[g].step = "save" /\ flow'[g].reply = Answer(g, new)
      /\ UNCHANGED policy
      /\ new => issued'[g] = 1
  BY <1>1 DEF ExchangeCode, TypeOK, FlowState
<1>3. policy[g].refresh \in {"rotates", "once only", "revokes"} => new
  OBVIOUS
<1>4. policy[g].refresh = "once only" => new
  OBVIOUS
<1> DEFINE reply == Answer(g, new)
<1>5. /\ reply \in Reply /\ reply.access.grant = g
      /\ reply.expiresIn = None <=> reply.access.exp = None
      /\ reply.expiresIn # None => reply.expiresIn = Life /\ reply.access.exp = now + Life
      /\ new => reply.refresh # None /\ reply.refresh.grant = g /\ reply.refresh.n = issued[g] + 1
      /\ ~new => reply.refresh = None
  BY <1>1, AnswerType
<1> HIDE DEF reply
<1>6. reply.refresh # None => reply.refresh.grant = g /\ reply.refresh.n <= issued'[g]
  BY <1>1, <1>2, <1>5
<1>7. GoodReply(flow[g].reply, g)'
  BY <1>2, <1>3, <1>5, <1>6 DEF GoodReply, Rotates, reply
<1>8. IsTheFirst(g)'
  <2>1. new => flow'[g].reply.refresh.n = issued'[g]
    BY <1>1, <1>2, <1>5 DEF reply
  <2>2. Strict(g)' => new
    BY <1>2, <1>4 DEF Strict
  <2> QED BY <2>1, <2>2 DEF IsTheFirst
<1> QED BY <1>2, <1>5, <1>7, <1>8 DEF FlowIsGood, reply

LEMMA FlowIsGoodStep ==
  ASSUME IInv, [Next]_vars, NEW g \in Grants
  PROVE  FlowIsGood(g)' /\ IsTheFirst(g)'
<1>t. TypeOK /\ FlowIsGood(g) /\ IsTheFirst(g) /\ flow[g] \in FlowState /\ issued[g] \in Nat
  BY DEF IInv, TypeOK
<1>1. CASE flow'[g].step = "over"
  BY <1>1 DEF FlowIsGood, IsTheFirst
<1>2. CASE UNCHANGED <<flow[g], issued[g]>>
  <2>1. IsTheFirst(g)'
    BY <1>t, <1>2, Grows DEF IsTheFirst, Strict
  <2> QED BY <1>t, <1>2, <2>1, Grows DEF FlowIsGood, GoodReply, Rotates
<1>3. CASE UNCHANGED flow /\ (flow[g].step = "over" \/ issued'[g] = issued[g])
  BY <1>t, <1>1, <1>2, <1>3
<1>4. CASE StartFlow(g)
  <2>1. flow'[g].step = "consent" /\ UNCHANGED issued /\ flow[g].step = "idle"
    BY <1>t, <1>4 DEF StartFlow, NoFlow, provider, TypeOK
  <2> QED BY <1>t, <2>1 DEF FlowIsGood, IsTheFirst
<1>5. CASE Callback(g)
  <2>1. flow'[g].step \in {"exchange", "over"} /\ UNCHANGED issued /\ flow[g].step = "consent"
    BY <1>t, <1>5 DEF Callback, FlowAt, NoFlow, provider, TypeOK
  <2> QED BY <1>t, <2>1 DEF FlowIsGood, IsTheFirst
<1>6. CASE ExchangeCode(g)
  BY <1>6, AnswerInFlow
<1>7. CASE ExchangeFails(g) \/ SaveConsent(g)
  BY <1>t, <1>1, <1>7 DEF ExchangeFails, SaveConsent, FlowAt, NoFlow, TypeOK
<1>8. ASSUME NEW h \in Grants, h # g,
             StartFlow(h) \/ Callback(h) \/ ExchangeCode(h) \/ ExchangeFails(h) \/ SaveConsent(h)
      PROVE  FlowIsGood(g)' /\ IsTheFirst(g)'
  <2>1. UNCHANGED <<flow[g], issued[g]>>
    BY <1>t, <1>8 DEF StartFlow, Callback, ExchangeCode, ExchangeFails, SaveConsent, FlowAt, provider, TypeOK
  <2> QED BY <1>2, <2>1
<1>9. ASSUME NEW c \in Callers, Begin(c) \/ ReadToken(c) \/ Refresh(c) \/ RefreshFails(c) \/ SaveRefreshed(c) \/ Use(c)
      PROVE  FlowIsGood(g)' /\ IsTheFirst(g)'
  <2>1. UNCHANGED flow
    BY <1>9 DEF Begin, ReadToken, Refresh, RefreshFails, SaveRefreshed, Use, UNTOUCHED_BY_CALLS
  <2>2. \/ issued' = issued
        \/ /\ caller[c].step = "refresh"
           /\ issued' = [issued EXCEPT ![caller[c].row.refresh.grant] = @ + 1]
    BY <1>9 DEF Begin, ReadToken, Refresh, RefreshFails, SaveRefreshed, Use, Void
  <2>3. caller[c].step = "refresh" => flow[caller[c].row.refresh.grant].step = "over"
    BY DEF IInv, CallIsGood, GoodRow
  <2>4. flow[g].step = "over" \/ issued'[g] = issued[g]
    BY <1>t, <2>2, <2>3 DEF TypeOK
  <2> QED BY <1>3, <2>1, <2>4
<1>10. CASE DeleteConnection \/ DeleteToken \/ UNCHANGED vars
  BY <1>3, <1>10 DEF DeleteConnection, DeleteToken, vars, provider
<1>11. CASE Crash
  <2>1. UNCHANGED issued /\ (flow'[g] = flow[g] \/ flow'[g].step = "over")
    BY <1>t, <1>11 DEF Crash, provider, NoFlow, TypeOK
  <2> QED BY <1>1, <1>2, <2>1
<1>12. CASE Tick
  BY <1>3, <1>12 DEF Tick, provider
<1> QED BY <1>4, <1>5, <1>6, <1>7, <1>8, <1>9, <1>10, <1>11, <1>12 DEF Next

-----------------------------------------------------------------------------
(* Refresh tokens that are accepted once *)

(* Once a grant is connected, nothing but an accepted refresh with its     *)
(* last token has a new one issued.                                        *)
LEMMA IssuedOnce ==
  ASSUME IInv, [Next]_vars, "revokes" \notin Ways,
         NEW g \in Grants, flow[g].step = "over", Strict(g)', issued'[g] # issued[g]
  PROVE  \E c \in Callers :
           /\ Refresh(c) /\ caller[c].row.access.grant = g
           /\ caller[c].row.refresh.grant = g /\ caller[c].row.refresh.n = issued[g]
           /\ issued'[g] = issued[g] + 1
<1>t. TypeOK /\ policy' = policy /\ Strict(g)
  BY Grows DEF IInv, Strict
<1>1. \A c \in Callers : caller[c].step = "refresh" =>
        caller[c].row.refresh.grant \in Grants /\ caller[c].row.refresh.grant = caller[c].row.access.grant
  BY DEF IInv, CallIsGood, GoodRow, TokenRow, RefreshToken
<1>2. ASSUME NEW c \in Callers, Refresh(c)
      PROVE  /\ caller[c].row.access.grant = g /\ caller[c].row.refresh.grant = g
             /\ caller[c].row.refresh.n = issued[g] /\ issued'[g] = issued[g] + 1
  <2>1. caller[c].row.refresh.grant = g /\ issued'[g] = issued[g] + 1
    BY <1>t, <1>1, <1>2 DEF Refresh, TypeOK
  <2>2. caller[c].row.refresh.n = issued[g]
    BY <1>t, <1>2, <2>1 DEF Refresh, Accepts, Strict
  <2> QED BY <1>1, <1>2, <2>1, <2>2 DEF Refresh
<1>3. ASSUME NEW c \in Callers, RefreshFails(c) PROVE FALSE
  <2>1. caller[c].row.refresh.grant = g /\ caller[c].row.refresh.grant \in Grants
    BY <1>t, <1>1, <1>3 DEF RefreshFails, Void, TypeOK
  <2>2. policy[g].refresh \in Ways
    BY <1>t DEF TypeOK, Policies
  <2>3. dropped' = dropped \cup {g}
    BY <1>3, <2>1, <2>2 DEF RefreshFails
  <2> QED BY <2>3 DEF Strict
<1>4. ASSUME NEW h \in Grants,
             StartFlow(h) \/ Callback(h) \/ ExchangeCode(h) \/ ExchangeFails(h) \/ SaveConsent(h)
      PROVE  FALSE
  BY <1>t, <1>4 DEF StartFlow, Callback, ExchangeCode, ExchangeFails, SaveConsent, provider, TypeOK
<1>5. CASE DeleteConnection \/ DeleteToken \/ Crash \/ Tick \/ UNCHANGED vars
  BY <1>5 DEF DeleteConnection, DeleteToken, Crash, Tick, vars, provider
<1>6. ASSUME NEW c \in Callers, Begin(c) \/ ReadToken(c) \/ SaveRefreshed(c) \/ Use(c) PROVE FALSE
  BY <1>6 DEF Begin, ReadToken, SaveRefreshed, Use
<1> QED BY <1>2, <1>3, <1>4, <1>5, <1>6 DEF Next

(* What another execution's step leaves of an execution's state: all, but  *)
(* that a crash ends it.                                                   *)
LEMMA OthersStay ==
  ASSUME IInv, [Next]_vars, NEW c \in Callers, ~ReadToken(c), ~Refresh(c)
  PROVE  \/ caller'[c].step \notin {"refresh", "save"}
         \/ UNCHANGED <<caller[c].step, caller[c].row, caller[c].reply>>
<1>t. TypeOK /\ caller[c] \in CallState
  BY DEF IInv, TypeOK
<1>1. ASSUME NEW d \in Callers, d # c, Begin(d) \/ ReadToken(d) \/ Refresh(d) \/ RefreshFails(d) \/ SaveRefreshed(d) \/ Use(d)
      PROVE  caller'[c] = caller[c]
  BY <1>t, <1>1, ReadOutcomes DEF Begin, CallAt, Refresh, RefreshFails, SaveRefreshed, Use, TypeOK
<1>2. CASE Begin(c) \/ RefreshFails(c) \/ Use(c)
  <2>1. caller' = [caller EXCEPT ![c].step = "read"] \/ caller' = [caller EXCEPT ![c] = Over]
    BY <1>2 DEF Begin, CallAt, RefreshFails, Use
  <2> QED BY <1>t, <2>1 DEF Over, NoCall, TypeOK, CallState
<1>3. CASE SaveRefreshed(c)
  <2>1. caller'[c] = [NoCall EXCEPT !.step = "hold", !.row = row', !.since = now]
    BY <1>t, <1>3 DEF SaveRefreshed, TypeOK
  <2> QED BY <2>1 DEF NoCall
<1>4. CASE Crash
  <2>1. caller'[c] = caller[c] \/ caller'[c] = Over
    BY <1>t, <1>4 DEF Crash, TypeOK
  <2> QED BY <2>1 DEF Over, NoCall
<1>5. CASE Tick
  BY <1>5 DEF Tick
<1>6. (\E g \in Grants : StartFlow(g) \/ Callback(g) \/ ExchangeCode(g) \/ ExchangeFails(g) \/ SaveConsent(g))
       \/ DeleteConnection \/ DeleteToken \/ UNCHANGED vars => UNCHANGED caller
  BY DEF StartFlow, Callback, ExchangeCode, ExchangeFails, SaveConsent, DeleteConnection, DeleteToken, vars
<1> QED BY <1>1, <1>2, <1>3, <1>4, <1>5, <1>6 DEF Next

(* What the row is after a step. *)
LEMMA RowSteps ==
  ASSUME IInv, [Next]_vars
  PROVE  \/ row' = row
         \/ row' = None
         \/ \E g \in Grants :
              /\ SaveConsent(g) /\ flow[g].step = "save" /\ row'.access.grant = g
              /\ row'.refresh = flow[g].reply.refresh /\ issued' = issued
         \/ \E c \in Callers :
              /\ SaveRefreshed(c) /\ caller[c].step = "save"
              /\ row'.access.grant = caller[c].row.access.grant
              /\ row'.refresh = KeptRefresh(caller[c].reply, caller[c].row.refresh) /\ issued' = issued
<1>1. ASSUME NEW g \in Grants, SaveConsent(g)
      PROVE  /\ flow[g].step = "save" /\ row'.access.grant = g
             /\ row'.refresh = flow[g].reply.refresh /\ issued' = issued
  <2>1. GoodReply(flow[g].reply, g)
    BY <1>1 DEF IInv, FlowIsGood, SaveConsent
  <2> QED BY <1>1, <2>1 DEF SaveConsent, Stored, GoodReply, provider
<1>2. ASSUME NEW c \in Callers, SaveRefreshed(c)
      PROVE  /\ caller[c].step = "save" /\ row'.access.grant = caller[c].row.access.grant
             /\ row'.refresh = KeptRefresh(caller[c].reply, caller[c].row.refresh) /\ issued' = issued
  <2>1. GoodReply(caller[c].reply, caller[c].row.access.grant)
    BY <1>2 DEF IInv, CallIsGood, SaveRefreshed
  <2> QED BY <1>2, <2>1 DEF SaveRefreshed, Stored, GoodReply
<1>3. row' = row \/ row' = None \/ (\E g \in Grants : SaveConsent(g)) \/ (\E c \in Callers : SaveRefreshed(c))
  BY DEF Next, vars, StartFlow, Callback, ExchangeCode, ExchangeFails, Begin, ReadToken, Refresh, RefreshFails,
     Use, DeleteConnection, DeleteToken, Crash, Tick
<1> QED BY <1>1, <1>2, <1>3

LEMMA RowFacts ==
  ASSUME IInv, NEW r, GoodRow(r)
  PROVE  LET g == r.access.grant IN
         /\ r # None /\ g \in Grants /\ issued[g] \in Nat /\ flow[g].step = "over"
         /\ policy[g].refresh # "none" =>
              r.refresh # None /\ r.refresh.grant = g /\ r.refresh.n \in Nat /\ r.refresh.n <= issued[g]
BY NoneAssumption DEF IInv, TypeOK, GoodRow, TokenRow, Access, RefreshToken

LEMMA HoldsTheLastStep ==
  ASSUME IInv, [Next]_vars, "revokes" \notin Ways, NEW c \in Callers
  PROVE  HoldsTheLast(c)'
<1> DEFINE g == caller[c].row.access.grant
<1> SUFFICES ASSUME caller'[c].step = "save", Strict(g)'
             PROVE  /\ caller'[c].reply.refresh.n = issued'[g']
                    /\ row' # None /\ row'.access.grant = g' => row'.refresh.n # issued'[g']
                    /\ \A d \in Callers \ {c} : caller'[d].row # None /\ caller'[d].row.access.grant = g' =>
                         /\ caller'[d].step = "refresh" => caller'[d].row.refresh.n # issued'[g']
                         /\ caller'[d].step # "save"
  BY DEF HoldsTheLast
<1>t. TypeOK /\ policy' = policy /\ \A d \in Callers : HoldsTheLast(d)
  BY Grows DEF IInv
<1>p. policy'[g'].refresh = "once only" /\ g' \notin dropped /\ policy[g'].refresh = "once only"
  BY <1>t, Grows DEF Strict
<1>1. CASE Refresh(c)
  <2>1. /\ caller[c].step = "refresh" /\ caller'[c].row = caller[c].row /\ row' = row /\ g' = g
        /\ \A d \in Callers \ {c} : caller'[d] = caller[d]
    BY <1>t, <1>1 DEF Refresh, TypeOK, CallState
  <2>2. GoodRow(caller[c].row)
    BY <2>1 DEF IInv, CallIsGood
  <2>3. /\ caller[c].row # None /\ g \in Grants /\ caller[c].row.refresh.grant = g
        /\ caller[c].row.refresh.n = issued[g] /\ issued[g] \in Nat
    BY <1>1, <1>p, <2>1, <2>2, RowFacts DEF Refresh, Accepts
  <2>4. Rotates(g)
    BY <1>p, <2>1 DEF Rotates
  <2>5. issued'[g] = issued[g] + 1 /\ caller'[c].reply = Answer(g, TRUE)
    <3>1. issued' = [issued EXCEPT ![g] = @ + 1] /\ caller'[c].reply = Answer(g, Rotates(g))
      BY <1>t, <1>1, <2>3, <2>4 DEF Refresh, TypeOK, CallState
    <3>2. Rotates(g) = TRUE
      BY <2>4 DEF Rotates
    <3> QED BY <1>t, <2>3, <3>1, <3>2 DEF TypeOK
  <2>6. caller'[c].reply.refresh.n = issued'[g]
    BY <1>t, <2>3, <2>5, AnswerType
  <2>7. row # None /\ row.access.grant = g => row.refresh.n # issued'[g]
    <3> HAVE row # None /\ row.access.grant = g
    <3>1. GoodRow(row)
      BY DEF IInv, RowIsGood
    <3>2. row.refresh.n \in Nat /\ row.refresh.n <= issued[g]
      BY <1>p, <2>1, <3>1, RowFacts
    <3> QED BY <2>3, <2>5, <3>2
  <2>8. ASSUME NEW d \in Callers \ {c}, caller[d].row # None, caller[d].row.access.grant = g
        PROVE  /\ caller[d].step = "refresh" => caller[d].row.refresh.n # issued'[g]
               /\ caller[d].step # "save"
    <3>1. ASSUME caller[d].step = "refresh" PROVE caller[d].row.refresh.n # issued'[g]
      <4>1. GoodRow(caller[d].row)
        BY <3>1 DEF IInv, CallIsGood
      <4>2. caller[d].row.refresh.n \in Nat /\ caller[d].row.refresh.n <= issued[g]
        BY <1>p, <2>1, <2>8, <4>1, RowFacts
      <4> QED BY <2>3, <2>5, <4>2
    <3>2. ASSUME caller[d].step = "save" PROVE FALSE
      <4>1. HoldsTheLast(d) /\ Strict(caller[d].row.access.grant) /\ c \in Callers \ {d}
        BY <1>t, <1>p, <2>1, <2>8 DEF Strict
      <4> QED BY <2>1, <2>3, <2>8, <3>2, <4>1 DEF HoldsTheLast
    <3> QED BY <3>1, <3>2
  <2> HIDE DEF g
  <2> QED BY <2>1, <2>6, <2>7, <2>8
<1>2. CASE ~Refresh(c)
  <2>1. ~ReadToken(c) /\ ~SaveRefreshed(c)
    <3>1. ASSUME ReadToken(c) PROVE FALSE
      <4>1. CASE caller' = [caller EXCEPT ![c] = Over]
        BY <1>t, <4>1 DEF Over, NoCall, TypeOK
      <4>2. CASE \/ caller' = [caller EXCEPT ![c].step = "hold", ![c].row = row, ![c].since = now]
                 \/ caller' = [caller EXCEPT ![c].step = "refresh", ![c].row = row]
        BY <1>t, <4>2 DEF TypeOK, CallState
      <4> QED BY <1>t, <3>1, <4>1, <4>2, ReadOutcomes
    <3>2. ASSUME SaveRefreshed(c) PROVE FALSE
      <4>1. caller'[c] = [NoCall EXCEPT !.step = "hold", !.row = row', !.since = now]
        BY <1>t, <3>2 DEF SaveRefreshed, TypeOK
      <4> QED BY <4>1 DEF NoCall
    <3> QED BY <3>1, <3>2
  <2>2. caller[c].step = "save" /\ g' = g /\ caller'[c].reply = caller[c].reply
    BY <1>2, <2>1, OthersStay
  <2>3. GoodRow(caller[c].row) /\ HoldsTheLast(c) /\ Strict(g)
    BY <1>t, <1>p, <2>2 DEF IInv, CallIsGood, Strict
  <2>4. g \in Grants /\ flow[g].step = "over"
    BY <2>3, RowFacts
  <2> HIDE DEF g
  <2>5. /\ caller[c].reply.refresh.n = issued[g]
        /\ row # None /\ row.access.grant = g => row.refresh.n # issued[g]
        /\ \A d \in Callers \ {c} : caller[d].row # None /\ caller[d].row.access.grant = g =>
             /\ caller[d].step = "refresh" => caller[d].row.refresh.n # issued[g]
             /\ caller[d].step # "save"
    BY <2>2, <2>3 DEF HoldsTheLast, g
  <2>6. ASSUME NEW d \in Callers, Refresh(d), caller[d].row.access.grant = g,
               caller[d].row.refresh.n = issued[g]
        PROVE  FALSE
    <3>1. d # c /\ caller[d].step = "refresh"
      BY <2>2, <2>6 DEF Refresh
    <3>2. caller[d].row # None
      BY <3>1, RowFacts DEF IInv, CallIsGood
    <3> QED BY <2>5, <2>6, <3>1, <3>2
  <2>7. issued'[g] = issued[g]
    <3>1. policy'[g].refresh = "once only" /\ g \notin dropped'
      BY <2>2 DEF Strict, g
    <3> QED BY <2>4, <2>6, <3>1, IssuedOnce DEF Strict
  <2>8. row' # None /\ row'.access.grant = g => row'.refresh.n # issued[g]
    <3>1. ASSUME NEW h \in Grants, flow[h].step = "save", row'.access.grant = h PROVE row'.access.grant # g
      BY <2>4, <3>1
    <3>2. ASSUME NEW d \in Callers, SaveRefreshed(d), caller[d].step = "save",
                 row'.access.grant = caller[d].row.access.grant
          PROVE  row'.access.grant # g
      <4>1. d # c /\ caller[d].row # None
        BY <2>1, <3>2, RowFacts DEF IInv, CallIsGood
      <4> QED BY <2>5, <3>2, <4>1
    <3> QED BY <2>5, <3>1, <3>2, RowSteps
  <2>9. ASSUME NEW d \in Callers \ {c}, caller'[d].row # None, caller'[d].row.access.grant = g
        PROVE  /\ caller'[d].step = "refresh" => caller'[d].row.refresh.n # issued[g]
               /\ caller'[d].step # "save"
    <3>1. CASE ReadToken(d)
      <4>1. CASE caller' = [caller EXCEPT ![d] = Over]
        BY <1>t, <4>1 DEF Over, NoCall, TypeOK
      <4>2. CASE caller' = [caller EXCEPT ![d].step = "hold", ![d].row = row, ![d].since = now]
        BY <1>t, <4>2 DEF TypeOK, CallState
      <4>3. CASE row # None /\ caller' = [caller EXCEPT ![d].step = "refresh", ![d].row = row]
        BY <1>t, <2>5, <2>9, <4>3 DEF TypeOK, CallState
      <4> QED BY <1>t, <3>1, <4>1, <4>2, <4>3, ReadOutcomes
    <3>2. CASE Refresh(d)
      <4>1. caller'[d].row = caller[d].row /\ caller[d].step = "refresh"
        BY <1>t, <3>2 DEF Refresh, TypeOK, CallState
      <4>2. GoodRow(caller[d].row) /\ policy[g].refresh = "once only"
        BY <2>3, <4>1 DEF IInv, CallIsGood, Strict
      <4>3. caller[d].row.refresh.n = issued[g]
        BY <2>9, <3>2, <4>1, <4>2, RowFacts DEF Refresh, Accepts
      <4> QED BY <2>6, <2>9, <3>2, <4>1, <4>3
    <3>3. CASE ~ReadToken(d) /\ ~Refresh(d)
      BY <2>5, <2>9, <3>3, OthersStay
    <3> QED BY <3>1, <3>2, <3>3
  <2> QED BY <2>2, <2>5, <2>7, <2>8, <2>9
<1> QED BY <1>1, <1>2

LEMMA StaysRefreshableStep ==
  ASSUME IInv, [Next]_vars, "revokes" \notin Ways
  PROVE  StaysRefreshable'
<1> DEFINE g == row.access.grant
<1> SUFFICES ASSUME row' # None, policy'[g'].refresh # "none", ~Pending(g)', g' \notin dropped'
             PROVE  row'.refresh # None /\ row'.refresh.grant = g' /\ Accepts(row.refresh)'
  BY DEF StaysRefreshable
<1>t. TypeOK /\ TypeOK' /\ policy' = policy /\ g' \notin dropped
  BY TypeOKStep, Grows DEF IInv
<1>1. GoodRow(row)'
  BY RowIsGoodStep DEF RowIsGood
<1>2. row'.refresh # None /\ row'.refresh.grant = g' /\ g' \in Grants
  BY <1>1 DEF GoodRow, TokenRow, Access
<1>3. policy[g'].refresh # "revokes"
  BY <1>t, <1>2 DEF TypeOK, Policies
<1>4. policy[g'].refresh = "once only" => row'.refresh.n = issued'[g']
  <2> HAVE policy[g'].refresh = "once only"
  <2>s. Strict(g') /\ Strict(g)'
    BY <1>t DEF Strict
  <2>1. CASE row' = row
    <3> USE <2>1
    <3>1. GoodRow(row) /\ g' = g
      BY DEF IInv, RowIsGood
    <3>2. flow[g].step = "over" /\ g \in Grants
      BY <3>1, RowFacts
    <3>3. ASSUME NEW c \in Callers, caller[c].step = "save", caller[c].reply.access.grant = g PROVE FALSE
      <4>1. caller[c].row.access.grant = g
        BY <3>3 DEF IInv, CallIsGood, GoodReply
      <4>2. SaveRefreshed(c) \/ Crash \/ UNCHANGED <<caller[c].step, caller[c].reply>>
        <5>1. ~ReadToken(c) /\ ~Refresh(c) /\ ~Begin(c) /\ ~RefreshFails(c) /\ ~Use(c)
          BY <3>3 DEF ReadToken, Refresh, Begin, RefreshFails, Use
        <5>2. ASSUME NEW d \in Callers, d # c, Begin(d) \/ ReadToken(d) \/ Refresh(d) \/ RefreshFails(d) \/ SaveRefreshed(d) \/ Use(d)
              PROVE  caller'[c] = caller[c]
          BY <1>t, <5>2, ReadOutcomes DEF Begin, CallAt, Refresh, RefreshFails, SaveRefreshed, Use, TypeOK
        <5>3. CASE Tick
          BY <1>t, <5>3 DEF Tick, TypeOK, CallState
        <5>4. (\E h \in Grants : StartFlow(h) \/ Callback(h) \/ ExchangeCode(h) \/ ExchangeFails(h) \/ SaveConsent(h))
              \/ DeleteConnection \/ DeleteToken \/ UNCHANGED vars => UNCHANGED caller
          BY DEF StartFlow, Callback, ExchangeCode, ExchangeFails, SaveConsent, DeleteConnection, DeleteToken, vars
        <5> QED BY <5>1, <5>2, <5>3, <5>4 DEF Next
      <4>3. CASE SaveRefreshed(c)
        <5>1. HoldsTheLast(c) /\ Strict(g)
          BY <2>s, <3>1 DEF IInv
        <5>2. row.refresh.n # issued[g] /\ caller[c].reply.refresh.n = issued[g]
          BY <3>3, <4>1, <5>1 DEF HoldsTheLast
        <5>3. row'.refresh = KeptRefresh(caller[c].reply, caller[c].row.refresh)
          <6>1. row' = Stored(caller[c].reply, KeptRefresh(caller[c].reply, caller[c].row.refresh))
            BY <4>3 DEF SaveRefreshed
          <6>2. \A reply, refresh : Stored(reply, refresh).refresh = refresh
            BY DEF Stored
          <6> QED BY <6>1, <6>2
        <5>4. caller[c].reply.refresh # None
          BY <2>s, <3>1, <3>3, <4>1 DEF IInv, CallIsGood, GoodReply, Rotates, Strict
        <5> QED BY <5>2, <5>3, <5>4 DEF KeptRefresh
      <4>4. CASE Crash
        BY <1>t, <3>1, <3>3, <4>4 DEF Crash
      <4>5. CASE UNCHANGED <<caller[c].step, caller[c].reply>>
        BY <3>1, <3>3, <4>5 DEF Pending
      <4> QED BY <4>2, <4>3, <4>4, <4>5
    <3>4. ~Pending(g)
      BY <3>2, <3>3 DEF Pending
    <3>5. Accepts(row.refresh) /\ row.refresh.grant = g
      BY <1>t, <3>1, <3>4 DEF IInv, StaysRefreshable
    <3>6. row.refresh.n = issued[g]
      BY <2>s, <3>1, <3>5 DEF Accepts, Strict
    <3>7. issued'[g] = issued[g]
      <4>1. ASSUME NEW c \in Callers, Refresh(c), caller[c].row.access.grant = g, caller[c].row.refresh.grant = g
            PROVE  FALSE
        <5>1. caller'[c].step = "save" /\ caller'[c].reply = Answer(g, Rotates(g))
          BY <1>t, <4>1 DEF Refresh, TypeOK, CallState
        <5>2. Rotates(g) \in BOOLEAN
          BY DEF Rotates
        <5>3. Answer(g, Rotates(g)).access.grant = g
          BY DEF Answer
        <5> QED BY <3>1, <5>1, <5>3 DEF Pending
      <4>2. Strict(g)'
        BY <2>s
      <4> QED BY <3>1, <3>2, <4>1, <4>2, IssuedOnce
    <3> QED BY <3>1, <3>6, <3>7
  <2>2. ASSUME NEW h \in Grants, flow[h].step = "save", row'.access.grant = h,
               row'.refresh = flow[h].reply.refresh, issued' = issued
        PROVE  row'.refresh.n = issued'[g']
    BY <2>2, <2>s DEF IInv, IsTheFirst
  <2>3. ASSUME NEW c \in Callers, caller[c].step = "save", row'.access.grant = caller[c].row.access.grant,
               row'.refresh = KeptRefresh(caller[c].reply, caller[c].row.refresh), issued' = issued
        PROVE  row'.refresh.n = issued'[g']
    <3>1. HoldsTheLast(c) /\ GoodReply(caller[c].reply, g')
      BY <2>3 DEF IInv, CallIsGood
    <3>2. caller[c].reply.refresh # None
      BY <2>s, <3>1 DEF GoodReply, Rotates, Strict
    <3> QED BY <2>3, <2>s, <3>1, <3>2 DEF HoldsTheLast, KeptRefresh
  <2> HIDE DEF g
  <2> QED BY <2>1, <2>2, <2>3, RowSteps
<1> QED BY <1>t, <1>2, <1>3, <1>4 DEF Accepts

-----------------------------------------------------------------------------
LEMMA IInvStep == IInv /\ [Next]_vars => IInv'
<1> SUFFICES ASSUME IInv, [Next]_vars PROVE IInv'
  OBVIOUS
<1>1. TypeOK' /\ RowIsGood'
  BY TypeOKStep, RowIsGoodStep
<1>2. \A g \in Grants : FlowIsGood(g)' /\ IsTheFirst(g)'
  BY FlowIsGoodStep
<1>3. \A c \in Callers : CallIsGood(c)' /\ ("revokes" \notin Ways => HoldsTheLast(c)')
  BY CallIsGoodStep, HoldsTheLastStep
<1>4. "revokes" \notin Ways => StaysRefreshable'
  BY StaysRefreshableStep
<1> QED BY <1>1, <1>2, <1>3, <1>4 DEF IInv

(* Everything below follows from this. *)
THEOREM OAuthInvariant == Spec => []IInv
BY IInvInit, IInvStep, PTL DEF Spec

(* oauth_flow.py, REFRESH_SKEW_SECONDS: whatever each step takes, a token  *)
(* goes out before it expires as long as the storing of the answer it came *)
(* with and the way from taking it to its use took the skew at most.       *)
THEOREM OAuthFresh == Spec => []FreshWithinSkew
<1>1. IInv => FreshWithinSkew
  <2> SUFFICES ASSUME IInv, NEW c \in Callers, caller[c].step = "hold", caller[c].row.access.exp # None,
                      (caller[c].row.updatedAt - AnsweredAt(caller[c].row.access)) + (now - caller[c].since) <= Skew,
                      (caller[c].row.updatedAt - AnsweredAt(caller[c].row.access)) + (now - caller[c].since) < Life
               PROVE  ~Expired(caller[c].row.access)
    BY DEF FreshWithinSkew
  <2> DEFINE r == caller[c].row
  <2>1. GoodRow(r)
    BY DEF IInv, CallIsGood
  <2>2. r.access.exp \in Nat /\ r.updatedAt \in Nat /\ r.expiresAt # None
    BY <2>1 DEF GoodRow, TokenRow, Access
  <2>3. r.expiresAt = r.updatedAt + Life
    BY <2>1, <2>2 DEF GoodRow
  <2>4. caller[c].since + Skew < r.expiresAt \/ caller[c].since = r.updatedAt
    BY <2>2 DEF IInv, CallIsGood
  <2>5. caller[c].since \in Nat /\ now \in Nat /\ Life \in Nat /\ Skew \in Nat
    BY TimeAssumption DEF IInv, TypeOK, CallState
  <2>6. now < r.access.exp
    BY <2>2, <2>3, <2>4, <2>5 DEF AnsweredAt
  <2> QED BY <2>2, <2>5, <2>6 DEF Expired
<1> QED BY <1>1, OAuthInvariant, PTL

(* However many callers refresh an account at once, the row holds a        *)
(* refresh token that the provider accepts, once every answer is stored    *)
(* and unless one was lost, with every provider but those that take the    *)
(* whole account away when they see an old token.                          *)
THEOREM OAuthRefreshable ==
  ASSUME "revokes" \notin Ways
  PROVE  Spec => []StaysRefreshable
<1>1. IInv => StaysRefreshable
  BY DEF IInv
<1> QED BY <1>1, OAuthInvariant, PTL
=============================================================================
