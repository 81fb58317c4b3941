------------------------------- MODULE Motion -------------------------------
(***************************************************************************)
(* omni_motion_control as its launch file starts it: the kinematics node   *)
(* feeds /motion/wheel_cmd to the serial bridge.  Safety stops, targets on *)
(* the bridge's own topic and changes of its mode come from outside.       *)
(***************************************************************************)
EXTENDS SerialBridge

CONSTANTS
  Aims, MaxBody, Unit, MaxCmd, ControlPeriod, ControlLate, AimTimeout,
  StaleAgeCap  \* staleAge is counted up to this

VARIABLES
  aim, aimAge, sinceControl, running, robotCmd, wheelPub,
  staleAge     \* history: how long the target has been stale in mode
               \* raw_wheels, with none on the bridge's own topic

Kinematics == INSTANCE OmniKinematics

ASSUME MotionAssumption == Kinematics!KinematicsAssumption /\ StaleAgeCap \in Nat

kinematicsVars == <<aim, aimAge, sinceControl, running, robotCmd, wheelPub>>
motionVars == <<vars, kinematicsVars, staleAge>>

StaleInRaw == Kinematics!Stale /\ mode = "raw_wheels"

-----------------------------------------------------------------------------
MotionInit == Init /\ Kinematics!Init /\ staleAge = 0

(* A wheel command the kinematics node publishes, as the bridge takes it. *)
Control ==
  /\ Kinematics!ControlLoop
  /\ WheelCmd
  /\ wheelCmd' = [w \in Motor |-> Clamp(wheelPub'[w])]

KinematicsStep ==
  \/ Control
  \/ Kinematics!TargetCallback /\ UNCHANGED vars
  \/ Kinematics!Exit /\ UNCHANGED vars

BridgeStep ==
  /\ Safety \/ SetMode \/ IoLoop \/ Carry
  /\ UNCHANGED kinematicsVars

(* A target on the bridge's own topic refreshes last_cmd_time for both.    *)
BridgeTarget ==
  /\ Target
  /\ UNCHANGED kinematicsVars
  /\ staleAge' = 0

Step ==
  /\ KinematicsStep \/ BridgeStep
  /\ staleAge' = IF StaleInRaw' THEN staleAge ELSE 0

MotionTick ==
  /\ Tick /\ Kinematics!Age
  /\ staleAge' = IF StaleInRaw THEN Older(staleAge, StaleAgeCap) ELSE 0

MotionNext == Step \/ BridgeTarget \/ MotionTick

MotionSpec == MotionInit /\ [][MotionNext]_motionVars

-----------------------------------------------------------------------------
(* "If any wheel would exceed max command, scale all equally": whatever    *)
(* line of wheel commands went out last, through the common scale, the     *)
(* rounding, the topic, the clamp of the bridge and its reconnections,     *)
(* moves the robot on the heading of a target, as the limits of vx, vy and *)
(* omega leave it: a target within the limits keeps its own heading; one   *)
(* beyond them is turned, as each axis is cut by itself (lines 108-110).   *)
(* If max_wheel_cmd is raised above the 255 of the bridge, its clamp cuts  *)
(* each wheel by itself, and nothing is promised.                          *)
HeadingKept ==
  MaxCmd <= MaxPwm /\ delivered.kind = "m" =>
    \E b \in Aims \union {Kinematics!Rest} :
      Kinematics!Along(delivered.arg, Kinematics!ClampBody(b))

(* The longest a wheel command can go on after its target: the node's next *)
(* tick sends zero, and once the node has died the bridge's timeout does.  *)
Grace ==
  LET tick == ControlPeriod + ControlLate
  IN (IF running /\ tick < Timeout THEN tick ELSE Timeout) + IoPeriod + IoLate

(* omni_kinematics_node, line 78: "If the target is stale, command zero    *)
(* motion to avoid runaway behavior."  In mode raw_wheels, with the port   *)
(* open and no write lost, a stale target drives the wheels no longer than *)
(* Grace, whether the kinematics node goes on or dies: so long as nobody   *)
(* else refreshes the one last_cmd_time that the bridge keeps.             *)
StaleTargetStops ==
  connected /\ ~lost /\ staleAge > Grace => ~Drives(delivered)
=============================================================================
