--------------------------- MODULE MCSerialBridge ---------------------------
(***************************************************************************)
(* Instances of SerialBridge.                                              *)
(***************************************************************************)
EXTENDS SerialBridge

OneTarget == {1}
=============================================================================
