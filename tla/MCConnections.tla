---------------------------- MODULE MCConnections ----------------------------
(***************************************************************************)
(* An admin and a member with private and global connections of one name,  *)
(* and two requests at a time.                                             *)
(***************************************************************************)
EXTENDS Connections, TLC

CONSTANTS a, u, w1, w2

Sent(op, caller, auth) == [op |-> op, caller |-> caller, auth |-> auth]

ByAdmin  == {Sent("create", a, "key"), Sent("api_key", a, "open"), Sent("promote", a, "open"),
             Sent("bootstrap", a, "open"), Sent("delete", a, "open")}
ByMember == {Sent("create", u, "open"), Sent("oauth_start", u, "open"), Sent("update", u, "open"),
             Sent("refresh", u, "open"), Sent("api_key", u, "open"), Sent("delete", u, "open")}

EachTheirOwn == w1 :> ByAdmin @@ w2 :> ByMember

TwoRefreshes == w1 :> {Sent("create", u, "open"), Sent("refresh", u, "open")} @@ w2 :> {Sent("refresh", u, "open")}

(* A server lists its two tools in one order. *)
TwoTools == {{1, 2}}
=============================================================================
