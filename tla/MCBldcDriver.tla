--------------------------- MODULE MCBldcDriver ---------------------------
(***************************************************************************)
(* Two wheels, duties scaled to 2..4 of 0..4, and requests on both sides   *)
(* of zero, of the stall floor and of the clamp.                           *)
(***************************************************************************)
EXTENDS BldcDriver

MCRequests == {-5, -3, -1, 0, 1, 4}
=============================================================================
