------------------------------ MODULE MCSharing ------------------------------
(***************************************************************************)
(* An author and a runner.  The graph refers to one connection by name and *)
(* uses a generated type of the same connection.                           *)
(***************************************************************************)
EXTENDS Sharing, TLC

CONSTANTS author, runner, x, y, w1, w2

Tools == [refs |-> {x}, gens |-> {<<x, author>>}]

Ask(kind, user) == [kind |-> kind, user |-> user, body |-> None, sharing |-> None,
                    decl |-> None, slot |-> None, name |-> None]

Save(kind, body, sharing, decl) ==
  [Ask(kind, author) EXCEPT !.body = body, !.sharing = sharing, !.decl = decl]

Map(slot, name) == [Ask("map", runner) EXCEPT !.slot = slot, !.name = name]

OneEach == {<<x, author>>, <<x, None>>, <<y, runner>>}
PrivateOnes == {<<x, author>>, <<y, runner>>}
TwoOfThem == {<<x, None>>, <<y, runner>>}

OneBody == {Tools}

Saves == {Save("post", Tools, "shared", {x}), Save("put", None, "shared", {x}),
          Save("put", None, "private", None), Ask("delete", author)}

AuthorAndRunner ==
  w1 :> Saves \cup {[Ask("activate", author) EXCEPT !.body = Tools], Ask("deactivate", author)} @@
  w2 :> {Map(x, y), [Ask("run", runner) EXCEPT !.body = Tools], Ask("invoke", None), Ask("fire", None)}
=============================================================================
