---------------------------- MODULE BldcWheels ----------------------------
(***************************************************************************)
(* The wheels of arduino/omni_bldc_firmware and the pin of theirs that     *)
(* both BldcDriver and BldcOdometry follow: one writes F/R, the other      *)
(* reads from it the sign of a wheel's pulses.                             *)
(***************************************************************************)
EXTENDS Integers

CONSTANT NumWheels  \* NUM_WHEELS

ASSUME WheelsAssumption == NumWheels \in Nat \ {0}

Wheel == 0 .. NumWheels - 1

VARIABLE fr  \* fr[w]: F/R is HIGH, forward
=============================================================================
