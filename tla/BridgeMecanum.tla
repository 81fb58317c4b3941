--------------------------- MODULE BridgeMecanum ---------------------------
(***************************************************************************)
(* The mecanum firmware on the bench and then on the robot.  On the bench  *)
(* any line is typed at a serial monitor.  On the robot, which is switched *)
(* on with the serial bridge in front of it, a line the bridge writes is   *)
(* in the firmware's receive ring, and both run on the same time.          *)
(***************************************************************************)
EXTENDS MecanumFirmware

CONSTANTS
  Modes, Commands, Targets, IoPeriod, IoLate, Timeout, Reconnect, CmdAgeCap, RestAgeCap

VARIABLES
  mode, wheelCmd, target, cmdAge, safetyStop, connected, attemptAge, lastTx, sinceIo,
  restAge, delivered, lost,
  onRobot      \* the bridge runs

Bridge == INSTANCE SerialBridge WITH wire <- rx, WireSize <- RxSize

bridgeVars == <<mode, wheelCmd, target, cmdAge, safetyStop, connected, attemptAge, lastTx,
                sinceIo, restAge, delivered, lost>>
robotVars == <<vars, bridgeVars, onRobot>>

-----------------------------------------------------------------------------
RobotInit == Init /\ Bridge!Init /\ onRobot = FALSE

Bench == ~onRobot /\ (Receive \/ Tick) /\ UNCHANGED <<bridgeVars, onRobot>>

SwitchOn ==
  /\ ~onRobot
  /\ onRobot' = TRUE
  /\ rx' = <<>>
  /\ motors' = Still /\ rawActive' = FALSE
  /\ pulse' = "none" /\ pulseLeft' = 0
  /\ pulsePwm' = DefaultPwm /\ pulseDuration' = DefaultPulse
  /\ now' = 0 /\ lastCommand' = 0 /\ lineAge' = 0
  /\ sincePass' = 0 /\ pc' = "drain"
  /\ UNCHANGED bridgeVars

BridgeStep ==
  /\ onRobot
  /\ Bridge!Inputs \/ Bridge!IoLoop
  /\ UNCHANGED <<motors, delaying, config, rawActive, now, lastCommand, sincePass, pc,
                 lineAge, onRobot>>

FirmwareStep == Loop /\ UNCHANGED <<bridgeVars, onRobot>>

RobotTick == onRobot /\ Bridge!Tick /\ Tick /\ UNCHANGED onRobot

RobotNext == Bench \/ SwitchOn \/ BridgeStep \/ FirmwareStep \/ RobotTick

RobotSpec == RobotInit /\ [][RobotNext]_robotVars

-----------------------------------------------------------------------------
(* A line that is sent is handled within two passes, and a wheel that runs *)
(* has heard a line within the watchdog and one pass.                      *)
Heard == 2 * MaxPass
Silence == Watchdog + MaxPass

(* Both parts' constants, and 2 s: no drive outlives the time between two  *)
(* attempts to open the port.                                              *)
ASSUME RobotAssumption == Bridge!BridgeAssumption
ASSUME PacedAssumption == Heard + Silence < Reconnect

(* README of omni_motion_control: on a safety stop the "bridge sends stop  *)
(* commands".  After a safety stop, or when every node upstream has died,  *)
(* the wheels come to rest, wherever the link fails and comes back, though *)
(* this firmware knows no STOP line: when no line of the timeout's gets    *)
(* through, its watchdog stops them.  At most two STOPs refresh it first,  *)
(* one before and one after a reconnection.                                *)
WheelsRest == onRobot /\ restAge > Heard + 3 * Silence => motors = Still
=============================================================================
