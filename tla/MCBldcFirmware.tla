-------------------------- MODULE MCBldcFirmware --------------------------
(***************************************************************************)
(* Instances of BldcFirmware: hosts that differ in the lines they send.    *)
(***************************************************************************)
EXTENDS BldcFirmware

CONSTANT w1

(* A terminal that sends each key and no line end: moves begin early. *)
TypedHost == {<<"d">>, <<",">>}

(* Every line ends in a newline; angles of one and of two digits. *)
NewlineHost ==
  {<<"d", ",", "d", "nl">>, <<"d", "d", ",", "d", "d", "nl">>, <<"STOP", "nl">>,
   <<"PING", "nl">>, <<"x", "nl">>}

(* A tool that sends no newline after a move, as the banner allows. *)
NoNewlineHost == {<<"d", ",", "d", "d">>, <<"STOP", "nl">>}
=============================================================================
