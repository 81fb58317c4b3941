-------------------------- MODULE MCBldcOdometry --------------------------
(***************************************************************************)
(* Two wheels with counters of two one-bit halves, which wrap after four   *)
(* pulses, and moves of up to MaxSeen pulses a wheel.                      *)
(***************************************************************************)
EXTENDS BldcOdometry
=============================================================================
