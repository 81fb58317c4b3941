-------------------------- MODULE MCBridgeMecanum --------------------------
(***************************************************************************)
(* Instances of BridgeMecanum.                                             *)
(***************************************************************************)
EXTENDS BridgeMecanum

OneCommand == {<<1, 1, 1, 1>>}

Word(k) == [kind |-> k, arg |-> <<>>]
Set(k, v) == [kind |-> k, arg |-> <<v>>]
Raw(a, b, c, d) == [kind |-> "m", arg |-> <<a, b, c, d>>]

(* Every pulse, both settings beyond their ranges, a raw command beyond    *)
(* full scale and beyond an int, one that is short, one that stops, and    *)
(* garbage.                                                                *)
AnyHost ==
  {Word(d) : d \in Direction} \union
  {Word("s"), Word("e"), Word("STOP"), Set("p", -3), Set("p", 3), Set("t", 0), Set("t", 3),
   Raw(3, -4, 9, 1), Set("m", 2), Raw(0, 0, 0, 0)}
=============================================================================
