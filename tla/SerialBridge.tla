---------------------------- MODULE SerialBridge ----------------------------
(***************************************************************************)
(* serial_motor_bridge_node: the ROS node that turns wheel commands,       *)
(* targets and safety stops into lines for a motor firmware.  The node has *)
(* a single-threaded executor: each callback, and each io_loop (connect,   *)
(* read, write), is one step.  Any of them may find the port gone.  What   *)
(* is read from the firmware is published and changes nothing here.        *)
(***************************************************************************)
EXTENDS Integers, Sequences

CONSTANTS
  Modes,       \* values of the parameter command_mode: da, raw_wheels, any other
  Commands,    \* wheel commands other nodes publish
  Targets,     \* targets they publish, numbered; 0 is distance 0, angle 0
  MaxPwm,      \* 255
  IoPeriod,    \* period of io_timer
  IoLate,      \* bound on its lateness, the transmission of a line included
  Timeout,     \* command_timeout_sec
  Reconnect,   \* reconnect_interval_sec
  WireSize,    \* lines that fit between the port and the firmware
  CmdAgeCap,   \* cmdAge is counted up to this,
  RestAgeCap   \* and restAge up to this

Motor == 1 .. 4

ASSUME BridgeAssumption ==
  /\ Modes \subseteq STRING /\ Modes # {}
  /\ Commands \subseteq [Motor -> Int]
  /\ Targets \subseteq Int
  /\ MaxPwm \in Nat
  /\ IoPeriod \in Nat \ {0} /\ IoLate \in Nat /\ Timeout \in Nat /\ Reconnect \in Nat
  /\ WireSize \in Nat
  /\ CmdAgeCap \in Nat /\ Timeout < CmdAgeCap
  /\ RestAgeCap \in Nat

VARIABLES
  mode,        \* command_mode, read anew by every io_loop
  wheelCmd,    \* last_wheel_cmd
  target,      \* last_distance_in, last_angle_rad
  cmdAge,      \* time since last_cmd_time
  safetyStop,  \* safety_stop_active
  connected,   \* _serial is not None and is open
  attemptAge,  \* time since _last_connect_attempt_ns
  lastTx,      \* _last_tx_line
  sinceIo,     \* time since io_timer fired
  wire,        \* lines on their way to the firmware
  restAge,     \* history: how long the wheels have been due to rest
  delivered,   \* history: the last line that went out
  lost         \* history: the last line handed to write_line did not

inputs == <<mode, wheelCmd, target, cmdAge, safetyStop, restAge>>
link == <<connected, attemptAge, lastTx, sinceIo, wire, delivered, lost>>
vars == <<inputs, link>>

-----------------------------------------------------------------------------
StopLine == [kind |-> "STOP", arg |-> <<>>]
RawLine(cmd) == [kind |-> "m", arg |-> <<cmd[1], cmd[2], cmd[3], cmd[4]>>]
DaLine(t) == [kind |-> "DA", arg |-> <<t>>]
NoLine == [kind |-> "", arg |-> <<>>]

Zero == [w \in Motor |-> 0]

(* Mutant: bounded above only. *)
ClampAbove(v) == IF v > MaxPwm THEN MaxPwm ELSE v

Clamp(v) ==
  CASE v < -MaxPwm -> -MaxPwm
    [] v > MaxPwm  -> MaxPwm
    [] OTHER       -> v

(* "Priority order: safety stop -> timeout stop -> active command mode." *)
NextLine ==
  IF safetyStop THEN StopLine
  ELSE IF cmdAge > Timeout
         THEN IF mode = "raw_wheels" THEN RawLine(Zero) ELSE StopLine
         ELSE IF mode = "da" THEN DaLine(target) ELSE RawLine(wheelCmd)

(* Mutant: every line is sent, repeated or not. *)
DuplicateNever == FALSE

Duplicate == NextLine = lastTx /\ NextLine = StopLine

(* The wheels are due to rest. *)
Rest == safetyStop \/ cmdAge > Timeout

-----------------------------------------------------------------------------
Init ==
  /\ mode \in Modes
  /\ wheelCmd = Zero /\ target = 0
  /\ cmdAge = 0
  /\ safetyStop = FALSE /\ restAge = 0
  /\ connected = FALSE
  /\ attemptAge = Reconnect   \* the last attempt was at time 0 of the epoch
  /\ lastTx = NoLine
  /\ sinceIo = 0
  /\ wire = <<>>
  /\ delivered = NoLine /\ lost = FALSE

(* The inputs; each ends a rest, or leaves it as it was. *)
Received == restAge' = IF Rest' THEN restAge ELSE 0

WheelCmd ==
  /\ \E cmd \in Commands : wheelCmd' = [w \in Motor |-> Clamp(cmd[w])]
  /\ cmdAge' = 0
  /\ UNCHANGED <<mode, target, safetyStop, link>>
  /\ Received

Target ==
  /\ target' \in Targets
  /\ cmdAge' = 0
  /\ UNCHANGED <<mode, wheelCmd, safetyStop, link>>
  /\ Received

Safety ==
  /\ safetyStop' \in BOOLEAN
  /\ UNCHANGED <<mode, wheelCmd, target, cmdAge, link>>
  /\ Received

SetMode ==
  /\ mode' \in Modes
  /\ UNCHANGED <<wheelCmd, target, cmdAge, safetyStop, restAge, link>>

Inputs == WheelCmd \/ Target \/ Safety \/ SetMode

-----------------------------------------------------------------------------
(* io_loop, by how far it gets.                                            *)
IoTimer ==
  /\ sinceIo >= IoPeriod
  /\ sinceIo' = 0
  /\ UNCHANGED inputs

MayAttempt == attemptAge >= Reconnect

(* ensure_serial leaves the port closed, or finds it open, or opens it. *)
StaysClosed ==
  /\ ~connected
  /\ attemptAge' \in IF MayAttempt THEN {0} ELSE {attemptAge}

FindsOpen ==
  \/ connected /\ UNCHANGED attemptAge
  \/ ~connected /\ MayAttempt /\ attemptAge' = 0

IoDown ==
  /\ IoTimer
  /\ StaysClosed
  /\ UNCHANGED <<connected, lastTx, wire, delivered, lost>>

ReadFails ==
  /\ IoTimer
  /\ FindsOpen
  /\ connected' = FALSE
  /\ UNCHANGED <<lastTx, wire, delivered, lost>>

SkipStop ==
  /\ IoTimer
  /\ FindsOpen
  /\ connected' = TRUE
  /\ Duplicate
  /\ UNCHANGED <<lastTx, wire, delivered, lost>>

(* Mutant: only a STOP is remembered. *)
WriteRemembersStop ==
  /\ IoTimer
  /\ FindsOpen
  /\ connected' = TRUE
  /\ ~Duplicate
  /\ lastTx' = IF NextLine = StopLine THEN NextLine ELSE lastTx
  /\ wire' = IF Len(wire) < WireSize THEN Append(wire, NextLine) ELSE wire
  /\ delivered' = NextLine
  /\ lost' = FALSE

(* A line that finds the receiver full is dropped there. *)
Write ==
  /\ IoTimer
  /\ FindsOpen
  /\ connected' = TRUE
  /\ ~Duplicate
  /\ lastTx' = NextLine
  /\ wire' = IF Len(wire) < WireSize THEN Append(wire, NextLine) ELSE wire
  /\ delivered' = NextLine
  /\ lost' = FALSE

WriteFails ==
  /\ IoTimer
  /\ FindsOpen
  /\ connected' = FALSE
  /\ ~Duplicate
  /\ lastTx' = NextLine
  /\ lost' = TRUE
  /\ UNCHANGED <<wire, delivered>>

IoLoop == IoDown \/ ReadFails \/ SkipStop \/ Write \/ WriteFails

-----------------------------------------------------------------------------
(* The firmware takes a line. *)
Carry ==
  /\ wire # <<>>
  /\ wire' = Tail(wire)
  /\ UNCHANGED <<inputs, connected, attemptAge, lastTx, sinceIo, delivered, lost>>

(* One unit of time; an age beyond its cap no longer matters. *)
Older(age, cap) == IF age < cap THEN age + 1 ELSE age

Tick ==
  /\ sinceIo < IoPeriod + IoLate
  /\ sinceIo' = sinceIo + 1
  /\ cmdAge' = Older(cmdAge, CmdAgeCap)
  /\ attemptAge' = Older(attemptAge, Reconnect)
  /\ restAge' = IF Rest THEN Older(restAge, RestAgeCap) ELSE 0
  /\ UNCHANGED <<mode, wheelCmd, target, safetyStop, connected, lastTx, wire, delivered, lost>>

Next == Inputs \/ IoLoop \/ Carry \/ Tick

Spec == Init /\ [][Next]_vars

-----------------------------------------------------------------------------
Pwm == -MaxPwm .. MaxPwm
BridgeLine == {StopLine} \union {DaLine(t) : t \in Targets \union {0}}
           \union {RawLine(c) : c \in [Motor -> Pwm]}

(* Every variable stays in its range: in particular every wheel command    *)
(* that is sent, whatever was published.                                   *)
TypeOK ==
  /\ mode \in Modes
  /\ wheelCmd \in [Motor -> Pwm]
  /\ target \in Targets \union {0}
  /\ cmdAge \in 0 .. CmdAgeCap
  /\ safetyStop \in BOOLEAN
  /\ connected \in BOOLEAN
  /\ attemptAge \in 0 .. Reconnect
  /\ lastTx \in BridgeLine \union {NoLine}
  /\ sinceIo \in 0 .. IoPeriod + IoLate
  /\ wire \in Seq(BridgeLine)
  /\ restAge \in 0 .. RestAgeCap
  /\ delivered \in BridgeLine \union {NoLine}
  /\ lost \in BOOLEAN

Drives(line) ==
  \/ line.kind = "m" /\ line.arg # <<0, 0, 0, 0>>
  \/ line.kind = "DA" /\ line.arg # <<0>>

(* With the port open and no write lost, the firmware's last line drives   *)
(* the wheels for no longer than one io_loop after a safety stop or the    *)
(* timeout, through any number of reconnections and changes of the mode.   *)
StopsInTime ==
  connected /\ ~lost /\ Drives(delivered) => restAge <= IoPeriod + IoLate

(* README, Topic Contracts: on a safety stop the "bridge sends stop        *)
(* commands": with the port open, the last line that went out is no drive. *)
StopDelivered ==
  connected /\ safetyStop /\ restAge > IoPeriod + IoLate => ~Drives(delivered)
=============================================================================
