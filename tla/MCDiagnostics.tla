--------------------------- MODULE MCDiagnostics ---------------------------
(***************************************************************************)
(* An instance of Diagnostics: one stream and the temperatures, a window   *)
(* of two updates, and namespaces a to e with a group g.                   *)
(***************************************************************************)
EXTENDS Diagnostics

Leaves == {"a", "b", "c", "d"}
Kinds == [l \in Leaves |-> IF l = "b" THEN "discard" ELSE "generic"]
MatchesOf == "a" :> {"depth"} @@ "b" :> {"temp"} @@ "c" :> {} @@ "d" :> {"depth", "temp"}
Timeouts == [l \in Leaves |-> 1]
Discarding == [l \in Leaves |-> l = "d"]
Expected == [l \in Leaves |-> IF l = "d" THEN 2 ELSE -1]
(* The first parameter of b is its path. *)
EarlyOf == {"a", "c", "d", "g"}
MembersOf == "g" :> <<"a", "d">>

(* One that is broken between two, one beside a group, and none that loads. *)
Configs == {<<"a", "c", "b">>, <<"d", "g">>, <<"c">>}
=============================================================================
