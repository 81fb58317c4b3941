------------------------------ MODULE MCThrow ------------------------------
(***************************************************************************)
(* An instance of Throw: full scale is 2, an int holds -4 .. 3.            *)
(***************************************************************************)
EXTENDS Throw

(* A landing that comes to <<1, -3, -1, 3>>: two wheels beyond full scale, *)
(* and fractions to cut off; and a landing in the hole.                    *)
Messages == {<<2, 5>>, <<0, 0>>}

(* Wheels at 45, 135, -135 and -45 degrees. *)
WheelSine == <<1, 1, -1, -1>>
WheelCosine == <<1, -1, -1, 1>>

(* A drive, a query, a line cut short, one that wraps, the tail of a long one. *)
MonitorLines ==
  {[kind |-> "values", values |-> <<1, -1, 1, -1, 2>>], [kind |-> "p", values |-> <<>>],
   [kind |-> "values", values |-> <<1, 2>>], [kind |-> "values", values |-> <<5, 0, 0, 0>>],
   [kind |-> "long", values |-> <<2, 2, 2, 2>>]}
=============================================================================
