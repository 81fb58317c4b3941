--------------------------- MODULE OmniKinematics ---------------------------
(***************************************************************************)
(* omni_kinematics_node: turns the latest target into a body command and   *)
(* that into four wheel commands, at the control rate, for ever; a target  *)
(* that is stale counts as "no motion".  Quantities are whole multiples of *)
(* a small unit: Unit of them make one step of a wheel command.            *)
(***************************************************************************)
EXTENDS Integers

CONSTANTS
  Aims,           \* targets, each the body command it comes to before clamping
  MaxBody,        \* max_vx_mps, max_vy_mps, and max_omega_radps times k_geom
  Unit,           \* what rounds to a wheel command of 1
  MaxCmd,         \* max_wheel_cmd
  ControlPeriod,  \* period of control_timer
  ControlLate,    \* bound on its lateness, the delivery of the message included
  AimTimeout      \* command_timeout_sec

Axis == {"vx", "vy", "omega"}

(* Assumed where the module is composed, in Motion. *)
KinematicsAssumption ==
  /\ Aims \subseteq [Axis -> Int]
  /\ MaxBody \in [Axis -> Nat]
  /\ Unit \in Nat \ {0} /\ MaxCmd \in Nat
  /\ ControlPeriod \in Nat \ {0} /\ ControlLate \in Nat
  /\ AimTimeout \in Nat

VARIABLES
  aim,           \* latest_distance_in, latest_angle_rad
  aimAge,        \* time since last_target_time, up to one beyond AimTimeout
  sinceControl,  \* time since control_timer fired
  running,       \* the node has not been stopped
  robotCmd,      \* what /motion/robot_cmd shows
  wheelPub       \* what was last published on /motion/wheel_cmd

aimVars == <<aim, aimAge>>
outVars == <<robotCmd, wheelPub>>
kinematicsVars == <<aimVars, sinceControl, running, outVars>>

Rest == [a \in Axis |-> 0]
Wheels == 1 .. 4   \* FL, FR, RL, RR

Abs(v) == IF v < 0 THEN -v ELSE v

(* to_body_command: each axis within its limit. *)
ClampBody(b) ==
  [a \in Axis |-> IF b[a] > MaxBody[a] THEN MaxBody[a]
                  ELSE IF b[a] < -MaxBody[a] THEN -MaxBody[a] ELSE b[a]]

(* inverse_kinematics_to_pwm, before the scale: wheel_vals. *)
WheelVals(b) ==
  [w \in Wheels |->
     CASE w = 1 -> b["vx"] - b["vy"] - b["omega"]
       [] w = 2 -> b["vx"] + b["vy"] + b["omega"]
       [] w = 3 -> b["vx"] + b["vy"] - b["omega"]
       [] w = 4 -> b["vx"] - b["vy"] + b["omega"]]

MaxAbs(vals) ==
  CHOOSE m \in {Abs(vals[w]) : w \in Wheels} : \A w \in Wheels : Abs(vals[w]) <= m

(* round(a / b) for b > 0: the nearest integer, the even one of two. *)
Round(a, b) ==
  LET floor == a \div b
      twice == 2 * (a % b)
  IN IF twice < b \/ (twice = b /\ floor % 2 = 0) THEN floor ELSE floor + 1

(* Mutant: each wheel is cut off on its own. *)
ScaleEach(vals) ==
  [w \in Wheels |->
     IF Abs(vals[w]) > MaxCmd * Unit THEN (IF vals[w] < 0 THEN -MaxCmd ELSE MaxCmd)
     ELSE Round(vals[w], Unit)]

(* "If any wheel would exceed max command, scale all equally." *)
Scale(vals) ==
  LET m == MaxAbs(vals)
  IN [w \in Wheels |-> IF m > MaxCmd * Unit THEN Round(vals[w] * MaxCmd, m)
                       ELSE Round(vals[w], Unit)]

(* Four wheel commands have the signs of the wheel speeds of a body        *)
(* command, and their proportions up to the rounding.                      *)
Along(cmds, b) ==
  LET v == WheelVals(b)
  IN /\ \A i \in Wheels : (v[i] >= 0 => cmds[i] >= 0) /\ (v[i] <= 0 => cmds[i] <= 0)
     /\ \A i, j \in Wheels :
          2 * Abs(cmds[i] * v[j] - cmds[j] * v[i]) <= Abs(v[i]) + Abs(v[j])

Stale == aimAge > AimTimeout

-----------------------------------------------------------------------------
Init ==
  /\ aim = Rest /\ aimAge = 0
  /\ sinceControl = 0
  /\ running = TRUE
  /\ robotCmd = Rest /\ wheelPub = [w \in Wheels |-> 0]

TargetCallback ==
  /\ running
  /\ aim' \in Aims /\ aimAge' = 0
  /\ UNCHANGED <<sinceControl, running, outVars>>

(* Mutant: the last target is repeated. *)
ControlStale ==
  /\ running
  /\ sinceControl >= ControlPeriod
  /\ sinceControl' = 0
  /\ robotCmd' = ClampBody(aim)
  /\ wheelPub' = Scale(WheelVals(robotCmd'))
  /\ UNCHANGED <<aimVars, running>>

ControlLoop ==
  /\ running
  /\ sinceControl >= ControlPeriod
  /\ sinceControl' = 0
  /\ robotCmd' = IF Stale THEN Rest ELSE ClampBody(aim)
  /\ wheelPub' = Scale(WheelVals(robotCmd'))
  /\ UNCHANGED <<aimVars, running>>

(* The process ends: Ctrl-C, or a message of fewer than two numbers. *)
Exit ==
  /\ running
  /\ running' = FALSE
  /\ UNCHANGED <<aimVars, sinceControl, outVars>>

(* One unit of time. *)
Age ==
  /\ running => sinceControl < ControlPeriod + ControlLate
  /\ sinceControl' = IF running THEN sinceControl + 1 ELSE sinceControl
  /\ aimAge' = IF aimAge > AimTimeout THEN aimAge ELSE aimAge + 1
  /\ UNCHANGED <<aim, running, outVars>>

-----------------------------------------------------------------------------
Cmds == -MaxCmd .. MaxCmd

TypeOK ==
  /\ aim \in Aims \union {Rest}
  /\ aimAge \in 0 .. AimTimeout + 1
  /\ sinceControl \in 0 .. ControlPeriod + ControlLate
  /\ running \in BOOLEAN
  /\ robotCmd \in [Axis -> Int]
  /\ wheelPub \in [Wheels -> Cmds]
=============================================================================
