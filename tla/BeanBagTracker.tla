--------------------------- MODULE BeanBagTracker ---------------------------
(***************************************************************************)
(* ros2_bag_sense_fast.py: the node that watches a throw and publishes     *)
(* where the bag will land.  After every capture it waits for the operator *)
(* to press Enter.  rclpy.spin runs the image callback and the poll timer  *)
(* one at a time; only the thread that reads stdin runs beside them.       *)
(* A frame without a bag at a usable depth changes nothing and is no step. *)
(***************************************************************************)
EXTENDS Integers

CONSTANTS
  Thread,     \* threads that may read stdin
  Required,   \* required_points
  Interval    \* min_publish_interval_sec

(* Assumed where the module is composed, in Throw. *)
TrackerAssumption ==
  /\ Thread # {}
  /\ Required \in Nat /\ Required > 1
  /\ Interval \in Nat

VARIABLES
  intrinsics,    \* fx is not None
  state,         \* state
  points,        \* len(points)
  sincePublish,  \* time since _last_publish_mono, up to Interval
  pending,       \* _pending_keyboard_reset
  arm,           \* what each stdin thread does
  armLeft        \* what is left of its sleep

trackerVars == <<intrinsics, state, points, sincePublish, pending, arm, armLeft>>

Alive == {t \in Thread : arm[t] # "off"}

Spawn(t) == arm[t] = "off" /\ arm' = [arm EXCEPT ![t] = "input"]

-----------------------------------------------------------------------------
Init ==
  /\ intrinsics = FALSE
  /\ state = "WAIT"
  /\ points = 0
  /\ sincePublish = Interval   \* the last publication is at minus infinity
  /\ pending = FALSE
  /\ \E t \in Thread : arm = [s \in Thread |-> IF s = t THEN "input" ELSE "off"]
  /\ armLeft = [t \in Thread |-> 0]

CameraInfo ==
  /\ ~intrinsics
  /\ intrinsics' = TRUE
  /\ UNCHANGED <<state, points, sincePublish, pending, arm, armLeft>>

(* image_callback with a bag in view. *)
StartCapture ==
  /\ intrinsics /\ state = "IDLE"
  /\ sincePublish >= Interval
  /\ points' = 1
  /\ state' = "COLLECTING"
  /\ UNCHANGED <<intrinsics, sincePublish, pending, arm, armLeft>>

AddPoint ==
  /\ intrinsics /\ state = "COLLECTING"
  /\ points + 1 < Required
  /\ points' = points + 1
  /\ UNCHANGED <<intrinsics, state, sincePublish, pending, arm, armLeft>>

(* compute_and_publish: (published, arm_keyboard). *)
Verdicts == IF sincePublish < Interval THEN {"cooldown"} ELSE {"published", "rejected"}

Finish(verdict) ==
  /\ intrinsics /\ state = "COLLECTING"
  /\ points + 1 >= Required
  /\ verdict \in Verdicts
  /\ sincePublish' = IF verdict = "published" THEN 0 ELSE sincePublish
  /\ IF verdict = "cooldown"
       THEN state' = "IDLE" /\ points' = 0 /\ UNCHANGED arm
       ELSE state' = "WAIT" /\ points' = points + 1 /\ \E t \in Thread : Spawn(t)
  /\ UNCHANGED <<intrinsics, pending, armLeft>>

-----------------------------------------------------------------------------
(* The stdin thread: a line, or the end of stdin, then the cooldown.       *)
Enter(t) ==
  /\ arm[t] = "input"
  /\ arm' = [arm EXCEPT ![t] = "sleep"]
  /\ armLeft' = [armLeft EXCEPT ![t] = Interval - sincePublish]
  /\ UNCHANGED <<intrinsics, state, points, sincePublish, pending>>

(* Mutant: the thread goes round again. *)
SetPendingAgain(t) ==
  /\ arm[t] = "sleep" /\ armLeft[t] = 0
  /\ pending' = TRUE
  /\ UNCHANGED <<intrinsics, state, points, sincePublish, arm, armLeft>>

(* Mutant: the thread ends and leaves no flag. *)
SetPendingLost(t) ==
  /\ arm[t] = "sleep" /\ armLeft[t] = 0
  /\ arm' = [arm EXCEPT ![t] = "off"]
  /\ UNCHANGED <<intrinsics, state, points, sincePublish, pending, armLeft>>

SetPending(t) ==
  /\ arm[t] = "sleep" /\ armLeft[t] = 0
  /\ arm' = [arm EXCEPT ![t] = "off"]
  /\ pending' = TRUE
  /\ UNCHANGED <<intrinsics, state, points, sincePublish, armLeft>>

(* Mutant: the flag is not cleared. *)
PollForgetful ==
  /\ pending
  /\ state' = "IDLE"
  /\ points' = 0
  /\ UNCHANGED <<intrinsics, sincePublish, pending, arm, armLeft>>

Poll ==
  /\ pending
  /\ pending' = FALSE
  /\ state' = "IDLE"
  /\ points' = 0
  /\ UNCHANGED <<intrinsics, sincePublish, arm, armLeft>>

(* One unit of time. *)
Age ==
  /\ sincePublish' = IF sincePublish < Interval THEN sincePublish + 1 ELSE sincePublish
  /\ armLeft' = [t \in Thread |-> IF armLeft[t] > 0 THEN armLeft[t] - 1 ELSE 0]
  /\ UNCHANGED <<intrinsics, state, points, pending, arm>>

-----------------------------------------------------------------------------
TypeOK ==
  /\ intrinsics \in BOOLEAN
  /\ state \in {"IDLE", "COLLECTING", "WAIT"}
  /\ points \in 0 .. Required
  /\ sincePublish \in 0 .. Interval
  /\ pending \in BOOLEAN
  /\ arm \in [Thread -> {"off", "input", "sleep"}]
  /\ armLeft \in [Thread -> 0 .. Interval]

(* A capture that was begun is brought to a verdict: neither a late Enter  *)
(* nor the cooldown check in compute_and_publish throws its points away.   *)
NoCaptureLost == [][state = "COLLECTING" => state' # "IDLE"]_trackerVars
=============================================================================
