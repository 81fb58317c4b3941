---------------------------- MODULE BldcDriver ----------------------------
(***************************************************************************)
(* The output stage of arduino/omni_bldc_firmware: the four lines the      *)
(* Mega drives to each BLD-515C (EN, F/R, BK, SV) and the two routines     *)
(* that write them, applyWheelCommand (called for every wheel by           *)
(* applyInverseKinematics) and stopAllMotors.  The motor driver sees every *)
(* intermediate level, so each pin write is a step of its own.             *)
(***************************************************************************)
EXTENDS BldcWheels

CONSTANTS
  MaxWheelCmd,       \* MAX_WHEEL_CMD, full PWM duty
  MinEffectiveCmd,   \* MIN_EFFECTIVE_CMD, floor of a nonzero duty
  BrakeWhenStopped,  \* BRAKE_WHEN_STOPPED
  Requests           \* the signed wheel commands a caller may pass

ASSUME DriverAssumption ==
  /\ MinEffectiveCmd \in Nat \ {0}
  /\ MaxWheelCmd \in Nat
  /\ MinEffectiveCmd <= MaxWheelCmd
  /\ BrakeWhenStopped \in BOOLEAN
  /\ Requests \subseteq Int

VARIABLES
  en,              \* en[w]: EN is at EN_ACTIVE_LEVEL
  bk,              \* bk[w]: BK is grounded, brake asserted
  sv,              \* sv[w]: PWM duty on SV, and its copy lastSvDuty[w]
  lastDirForward,  \* shadow of F/R
  lastEnOn,        \* shadow of EN, reported by OUT and STATUS
  energised,       \* wheels whose output stage has not settled since EN was on
  pc,              \* the next pin write; "idle" between calls
  i,               \* wheel index of the running loop
  cmd              \* wheelCmd[] of the last applyInverseKinematics

pins == <<en, fr, bk, sv>>
shadows == <<lastDirForward, lastEnOn>>
vars == <<en, fr, bk, sv, lastDirForward, lastEnOn, energised, pc, i, cmd>>

ApplyPc == {"direction", "delay", "switch", "brake", "enable", "pwm"}
StopPc == {"stopEnable", "stopPwm", "stopBrake"}

-----------------------------------------------------------------------------
Clamp(v) ==
  CASE v < -MaxWheelCmd -> -MaxWheelCmd
    [] v > MaxWheelCmd  -> MaxWheelCmd
    [] OTHER            -> v

Forward(v) == Clamp(v) >= 0

(* Mutant: the stall floor is left out. *)
MagnitudeNoFloor(v) == IF Clamp(v) < 0 THEN -Clamp(v) ELSE Clamp(v)

(* The duty written for a request: clamped, and lifted off the stall floor. *)
Magnitude(v) ==
  LET m == IF Clamp(v) < 0 THEN -Clamp(v) ELSE Clamp(v)
  IN  IF m > 0 /\ m < MinEffectiveCmd THEN MinEffectiveCmd ELSE m

(* The for loops of both routines: on to the next wheel, or return. *)
NextWheel(first) ==
  IF i + 1 < NumWheels
    THEN i' = i + 1 /\ pc' = first
    ELSE i' = 0 /\ pc' = "idle"

(* The state setup() leaves behind. *)
Init ==
  /\ en = [w \in Wheel |-> FALSE]
  /\ fr = [w \in Wheel |-> TRUE]
  /\ bk = [w \in Wheel |-> BrakeWhenStopped]
  /\ sv = [w \in Wheel |-> 0]
  /\ lastDirForward = [w \in Wheel |-> TRUE]
  /\ lastEnOn = [w \in Wheel |-> FALSE]
  /\ energised = {}
  /\ pc = "idle"
  /\ i = 0
  /\ cmd = [w \in Wheel |-> 0]

-----------------------------------------------------------------------------
(* applyInverseKinematics hands one signed command to every wheel in turn. *)
ApplyCommands ==
  /\ pc = "idle"
  /\ \E c \in [Wheel -> Requests] : cmd' = c
  /\ pc' = "direction"
  /\ UNCHANGED <<pins, shadows, energised, i>>

DropEnable ==
  /\ pc = "direction"
  /\ Forward(cmd[i]) # lastDirForward[i]
  /\ en' = [en EXCEPT ![i] = FALSE]
  /\ pc' = "delay"
  /\ UNCHANGED <<fr, bk, sv, shadows, energised, i, cmd>>

KeepDirection ==
  /\ pc = "direction"
  /\ Forward(cmd[i]) = lastDirForward[i]
  /\ pc' = "brake"
  /\ UNCHANGED <<pins, shadows, energised, i, cmd>>

(* Mutant: no delay between EN off and F/R. *)
WaitNothing ==
  /\ pc = "delay"
  /\ pc' = "switch"
  /\ UNCHANGED <<pins, shadows, energised, i, cmd>>

(* delayMicroseconds(FR_EN_OFF_DELAY_US): stages that are off settle. *)
WaitEnableOff ==
  /\ pc = "delay"
  /\ energised' = {w \in energised : en[w]}
  /\ pc' = "switch"
  /\ UNCHANGED <<pins, shadows, i, cmd>>

(* Mutant: the new direction is not recorded in lastDirForward. *)
SwitchUnrecorded ==
  /\ pc = "switch"
  /\ fr' = [fr EXCEPT ![i] = Forward(cmd[i])]
  /\ pc' = "brake"
  /\ UNCHANGED <<en, bk, sv, shadows, energised, i, cmd>>

SwitchDirection ==
  /\ pc = "switch"
  /\ fr' = [fr EXCEPT ![i] = Forward(cmd[i])]
  /\ lastDirForward' = [lastDirForward EXCEPT ![i] = Forward(cmd[i])]
  /\ pc' = "brake"
  /\ UNCHANGED <<en, bk, sv, lastEnOn, energised, i, cmd>>

SetBrake ==
  /\ pc = "brake"
  /\ bk' = [bk EXCEPT ![i] = Magnitude(cmd[i]) = 0 /\ BrakeWhenStopped]
  /\ pc' = "enable"
  /\ UNCHANGED <<en, fr, sv, shadows, energised, i, cmd>>

SetEnable ==
  /\ pc = "enable"
  /\ en' = [en EXCEPT ![i] = Magnitude(cmd[i]) > 0]
  /\ energised' = IF en'[i] THEN energised \union {i} ELSE energised
  /\ pc' = "pwm"
  /\ UNCHANGED <<fr, bk, sv, shadows, i, cmd>>

WriteDuty ==
  /\ pc = "pwm"
  /\ sv' = [sv EXCEPT ![i] = Magnitude(cmd[i])]
  /\ lastEnOn' = [lastEnOn EXCEPT ![i] = Magnitude(cmd[i]) > 0]
  /\ NextWheel("direction")
  /\ UNCHANGED <<en, fr, bk, lastDirForward, energised, cmd>>

-----------------------------------------------------------------------------
StopAllMotors ==
  /\ pc = "idle"
  /\ pc' = "stopEnable"
  /\ UNCHANGED <<pins, shadows, energised, i, cmd>>

StopEnable ==
  /\ pc = "stopEnable"
  /\ en' = [en EXCEPT ![i] = FALSE]
  /\ pc' = "stopPwm"
  /\ UNCHANGED <<fr, bk, sv, shadows, energised, i, cmd>>

(* Mutant: stopAllMotors leaves lastEnOn behind. *)
StopDutyStaleShadow ==
  /\ pc = "stopPwm"
  /\ sv' = [sv EXCEPT ![i] = 0]
  /\ pc' = "stopBrake"
  /\ UNCHANGED <<en, fr, bk, shadows, energised, i, cmd>>

StopDuty ==
  /\ pc = "stopPwm"
  /\ sv' = [sv EXCEPT ![i] = 0]
  /\ lastEnOn' = [lastEnOn EXCEPT ![i] = FALSE]
  /\ pc' = "stopBrake"
  /\ UNCHANGED <<en, fr, bk, lastDirForward, energised, i, cmd>>

(* Mutant: the loop of stopAllMotors ends one wheel early. *)
StopBrakeShort ==
  /\ pc = "stopBrake"
  /\ bk' = [bk EXCEPT ![i] = BrakeWhenStopped]
  /\ IF i + 2 < NumWheels
       THEN i' = i + 1 /\ pc' = "stopEnable"
       ELSE i' = 0 /\ pc' = "idle"
  /\ UNCHANGED <<en, fr, sv, shadows, energised, cmd>>

StopBrake ==
  /\ pc = "stopBrake"
  /\ bk' = [bk EXCEPT ![i] = BrakeWhenStopped]
  /\ NextWheel("stopEnable")
  /\ UNCHANGED <<en, fr, sv, shadows, energised, cmd>>

Next ==
  \/ ApplyCommands \/ DropEnable \/ KeepDirection \/ WaitEnableOff
  \/ SwitchDirection \/ SetBrake \/ SetEnable \/ WriteDuty
  \/ StopAllMotors \/ StopEnable \/ StopDuty \/ StopBrake

Spec == Init /\ [][Next]_vars

-----------------------------------------------------------------------------
(* Every line, shadow and loop index stays in its range: a duty is zero or *)
(* between the stall floor and full scale.                                 *)
TypeOK ==
  /\ en \in [Wheel -> BOOLEAN]
  /\ fr \in [Wheel -> BOOLEAN]
  /\ bk \in [Wheel -> BOOLEAN]
  /\ sv \in [Wheel -> {0} \union (MinEffectiveCmd .. MaxWheelCmd)]
  /\ lastDirForward \in [Wheel -> BOOLEAN]
  /\ lastEnOn \in [Wheel -> BOOLEAN]
  /\ energised \subseteq Wheel
  /\ pc \in {"idle"} \union ApplyPc \union StopPc
  /\ i \in Wheel
  /\ cmd \in [Wheel -> Int]

(* The four lines of wheel w and the EN shadow agree with each other. *)
Settled(w) ==
  /\ en[w] <=> sv[w] > 0
  /\ bk[w] <=> (sv[w] = 0 /\ BrakeWhenStopped)
  /\ lastEnOn[w] <=> en[w]

(* Whichever way calls of the two routines follow each other, once a call  *)
(* returns no wheel is left braked and enabled, enabled without a duty, or *)
(* reported wrongly by OUT and STATUS.                                     *)
SettledBetweenCalls ==
  pc = "idle" => \A w \in Wheel : Settled(w)

(* A wheel that is enabled between calls turns the way the last command    *)
(* asked: the shadow that lets applyWheelCommand skip the F/R sequence has *)
(* never drifted from the pin, through any mix of stops and reversals.     *)
EnabledAsRequested ==
  pc = "idle" => \A w \in Wheel : en[w] => (fr[w] <=> cmd[w] >= 0)

(* Header of the sketch: "When switching F/R, EN is turned off first,      *)
(* short delay, then F/R updated": F/R never moves on a wheel whose output *)
(* stage may still be energised.                                           *)
NeverSwitchesEnergised ==
  [][\A w \in Wheel : fr'[w] # fr[w] => w \notin energised]_vars

(* When stopAllMotors returns every wheel is disabled, at zero duty and    *)
(* braked if that is the policy, and BK is never grounded on a wheel that  *)
(* this routine has left enabled.                                          *)
StopReachesEveryWheel ==
  [][/\ pc = "stopBrake" /\ pc' = "idle" =>
          \A w \in Wheel : ~en'[w] /\ sv'[w] = 0 /\ (BrakeWhenStopped => bk'[w])
     /\ \A w \in Wheel : pc \in StopPc /\ ~bk[w] /\ bk'[w] => ~en[w]]_vars
=============================================================================
