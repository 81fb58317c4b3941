--------------------------- MODULE BldcFirmware ---------------------------
(***************************************************************************)
(* arduino/omni_bldc_firmware: loop() and everything it calls, as seen     *)
(* from the serial line and from the mission.  One pass of loop() drains   *)
(* the UART, runs at most one control tick and refreshes the status pins;  *)
(* bytes arrive and milliseconds pass between any two of these steps.      *)
(*                                                                         *)
(* The pin sequences of applyWheelCommand and stopAllMotors are in         *)
(* BldcDriver, the pulse counters in BldcOdometry; here a wheel is driven  *)
(* or not, and the outcome of the PID (at goal, which wheels turn) is any. *)
(***************************************************************************)
EXTENDS Integers, Sequences

CONSTANTS
  Wheel,          \* the wheels
  Messages,       \* what the host sends: sequences of Symbol
  RxSize,         \* size of the UART receive ring
  Lossy,          \* may a byte arrive at a full ring?
  BufSize,        \* CMD_BUF_SIZE
  ClockMod,       \* millis() counts modulo this
  ControlPeriod,  \* CONTROL_PERIOD_MS
  MoveTimeout,    \* MOVE_TIMEOUT_MS
  DoneHold,       \* DONE_HOLD_CYCLES
  MaxPass         \* bound on the milliseconds from one tick check to the next

(* One digit, decimal point, comma, newline, anything else, and the two    *)
(* words strcmp looks for (PING stands for HELP and STATUS too).           *)
Symbol == {"d", ".", ",", "nl", "x", "STOP", "PING"}

ASSUME FirmwareAssumption ==
  /\ Messages \subseteq Seq(Symbol) \ {<<>>}
  /\ RxSize \in Nat \ {0}
  /\ Lossy \in BOOLEAN
  /\ BufSize \in Nat /\ BufSize > 1
  /\ ControlPeriod \in Nat
  /\ MoveTimeout \in Nat
  /\ DoneHold \in Nat \ {0}
  /\ MaxPass \in Nat
  /\ ClockMod \in Nat
  /\ MoveTimeout + ControlPeriod + MaxPass < ClockMod

VARIABLES
  wire,         \* bytes of the current message the host has still to send
  rx,           \* UART receive ring
  afterStop,    \* history: the last byte loop() read ended the word STOP
  cmdBuf,       \* cmdBuf[0 .. cmdLen-1]
  moveState,    \* STATE_IDLE or STATE_MOVING
  goal,         \* text of distanceGoal_m and of the angle behind (ux, uy)
  driven,       \* wheels with lastSvDuty > 0
  doneStable,   \* doneStableCycles
  armedPin,     \* STATUS_PIN_ARMED
  drivePin,     \* STATUS_PIN_DRIVE
  reply,        \* the last protocol line printed
  now,          \* millis()
  lastControl,  \* lastControlMillis
  moveStart,    \* moveStartMillis
  moveAge,      \* history: true age of the running move
  sincePass,    \* milliseconds since the last tick check
  pc            \* "drain", "control" or "status"

link == <<wire, rx, afterStop>>
mission == <<moveState, goal, driven, doneStable, armedPin, drivePin, reply>>
timers == <<lastControl, moveStart, moveAge>>
vars == <<wire, rx, afterStop, cmdBuf, moveState, goal, driven, doneStable, armedPin,
          drivePin, reply, now, lastControl, moveStart, moveAge, sincePass, pc>>

-----------------------------------------------------------------------------
(* What strtod and the two comma parsers make of a buffer.                 *)

IsNumber(s) ==
  /\ \A k \in DOMAIN s : s[k] \in {"d", "."}
  /\ \E k \in DOMAIN s : s[k] = "d"
  /\ \A k, m \in DOMAIN s : s[k] = "." /\ s[m] = "." => k = m

(* strtod consumes s[a..b] when it is asked to start at a. *)
Consumes(s, a, b) ==
  /\ b \in a .. Len(s)
  /\ IsNumber(SubSeq(s, a, b))
  /\ \A c \in b + 1 .. Len(s) : ~IsNumber(SubSeq(s, a, c))

(* parseCommaPair: a number, a comma at once, a number, anything. *)
Splits(s, k, b) ==
  /\ k \in DOMAIN s /\ s[k] = ","
  /\ Consumes(s, 1, k - 1)
  /\ Consumes(s, k + 1, b)

ParsesAsPair(s) == \E k, b \in DOMAIN s : Splits(s, k, b)

(* omniCommaMoveLineComplete: the same with nothing left over. *)
IsCompletePair(s) == \E k \in DOMAIN s : Splits(s, k, Len(s))

(* The distance and the angle parseCommaPair returns, as text. *)
GoalOf(s) ==
  LET kb == CHOOSE p \in (DOMAIN s) \X (DOMAIN s) : Splits(s, p[1], p[2])
  IN  [dist |-> SubSeq(s, 1, kb[1] - 1), angle |-> SubSeq(s, kb[1] + 1, kb[2])]

NoGoal == [dist |-> <<>>, angle |-> <<>>]

-----------------------------------------------------------------------------
(* Unsigned arithmetic on millis().                                        *)

Elapsed(since) == IF now >= since THEN now - since ELSE now - since + ClockMod

Earlier(d) == IF now >= d THEN now - d ELSE now - d + ClockMod

(* Mutant: compared with an absolute deadline. *)
ExpiredAbsolute ==
  LET deadline == moveStart + MoveTimeout
  IN  now > IF deadline >= ClockMod THEN deadline - ClockMod ELSE deadline

(* Mutant: measured from the last tick, not from the start of the move. *)
ExpiredSinceTick == Elapsed(lastControl) > MoveTimeout

(* runControlTick: now - moveStartMillis > MOVE_TIMEOUT_MS. *)
Expired == Elapsed(moveStart) > MoveTimeout

TickDue == moveState = "MOVING" /\ Elapsed(lastControl) >= ControlPeriod

-----------------------------------------------------------------------------
Init ==
  /\ wire = <<>> /\ rx = <<>> /\ afterStop = FALSE
  /\ cmdBuf = <<>>
  /\ moveState = "IDLE"
  /\ goal = NoGoal
  /\ driven = {}
  /\ doneStable = 0
  /\ armedPin = FALSE /\ drivePin = FALSE
  /\ reply = "none"
  /\ now = 0 /\ lastControl = 0 /\ moveStart = 0
  /\ moveAge = 0 /\ sincePass = 0
  /\ pc = "drain"

(* updateStatusOutputs, for a move state and a set of driven wheels. *)
UpdateStatusOutputs(state, wheels) ==
  /\ armedPin' = (state = "MOVING")
  /\ drivePin' = (wheels # {})

(* stopAllMotors; every caller changes moveState only afterwards. *)
StopAllMotors ==
  /\ driven' = {}
  /\ UpdateStatusOutputs(moveState, {})

(* The assignments that follow stopAllMotors when a move ends. *)
EndMove(verdict) ==
  /\ moveState' = "IDLE"
  /\ reply' = verdict
  /\ moveAge' = 0

(* Mutant: no updateStatusOutputs after ACK MOVE. *)
StartMoveDark(line) ==
  /\ goal' = GoalOf(line)
  /\ doneStable' = 0
  /\ moveStart' = now
  /\ moveState' = "MOVING"
  /\ lastControl' = Earlier(ControlPeriod)
  /\ moveAge' = 0
  /\ reply' = "ACK MOVE"
  /\ cmdBuf' = <<>>
  /\ UNCHANGED <<driven, armedPin, drivePin>>

(* Mutant: moveStartMillis keeps the start of the previous move. *)
StartMoveStaleClock(line) ==
  /\ goal' = GoalOf(line)
  /\ doneStable' = 0
  /\ moveState' = "MOVING"
  /\ lastControl' = Earlier(ControlPeriod)
  /\ moveAge' = 0
  /\ reply' = "ACK MOVE"
  /\ UpdateStatusOutputs("MOVING", driven)
  /\ cmdBuf' = <<>>
  /\ UNCHANGED <<driven, moveStart>>

(* Mutant: doneStableCycles keeps the count of the previous move. *)
StartMoveStaleCount(line) ==
  /\ goal' = GoalOf(line)
  /\ moveStart' = now
  /\ moveState' = "MOVING"
  /\ lastControl' = Earlier(ControlPeriod)
  /\ moveAge' = 0
  /\ reply' = "ACK MOVE"
  /\ UpdateStatusOutputs("MOVING", driven)
  /\ cmdBuf' = <<>>
  /\ UNCHANGED <<driven, doneStable>>

(* The accepting half of tryProcessIdleLine. *)
StartMove(line) ==
  /\ goal' = GoalOf(line)
  /\ doneStable' = 0
  /\ moveStart' = now
  /\ moveState' = "MOVING"
  /\ lastControl' = Earlier(ControlPeriod)
  /\ moveAge' = 0
  /\ reply' = "ACK MOVE"
  /\ UpdateStatusOutputs("MOVING", driven)
  /\ cmdBuf' = <<>>
  /\ UNCHANGED driven

-----------------------------------------------------------------------------
(* The host and the UART hardware.                                         *)

Send ==
  /\ wire = <<>>
  /\ wire' \in Messages
  /\ UNCHANGED <<rx, afterStop, cmdBuf, mission, timers, now, sincePass, pc>>

Arrive ==
  /\ wire # <<>> /\ Len(rx) < RxSize
  /\ rx' = Append(rx, Head(wire))
  /\ wire' = Tail(wire)
  /\ UNCHANGED <<afterStop, cmdBuf, mission, timers, now, sincePass, pc>>

Overrun ==
  /\ Lossy
  /\ wire # <<>> /\ Len(rx) = RxSize
  /\ wire' = Tail(wire)
  /\ UNCHANGED <<rx, afterStop, cmdBuf, mission, timers, now, sincePass, pc>>

-----------------------------------------------------------------------------
(* loop(): while (Serial.available() > 0).                                 *)

Read(c) ==
  /\ pc = "drain"
  /\ rx # <<>> /\ c = Head(rx)
  /\ rx' = Tail(rx)
  /\ afterStop' = (c = "STOP")
  /\ UNCHANGED <<wire, now, sincePass, pc>>

(* Mutant: the last byte of cmdBuf is not kept for the NUL. *)
HasRoomForOneMore == Len(cmdBuf) < BufSize

HasRoom == Len(cmdBuf) < BufSize - 1

BufferByte ==
  \E c \in Symbol \ {"nl"} :
    /\ Read(c)
    /\ HasRoom
    /\ moveState = "MOVING" \/ ~IsCompletePair(Append(cmdBuf, c))
    /\ cmdBuf' = Append(cmdBuf, c)
    /\ UNCHANGED <<mission, timers>>

(* A second number has begun: the move starts without waiting for newline. *)
AcceptEarly ==
  \E c \in Symbol \ {"nl"} :
    /\ Read(c)
    /\ HasRoom
    /\ moveState = "IDLE" /\ IsCompletePair(Append(cmdBuf, c))
    /\ StartMove(Append(cmdBuf, c))

Overflow ==
  \E c \in Symbol \ {"nl"} :
    /\ Read(c)
    /\ ~HasRoom
    /\ cmdBuf' = <<>>
    /\ reply' = IF moveState = "IDLE" THEN "ERR CMD_OVERFLOW" ELSE reply
    /\ UNCHANGED <<moveState, goal, driven, doneStable, armedPin, drivePin, timers>>

EmptyLine ==
  /\ Read("nl")
  /\ cmdBuf = <<>>
  /\ UNCHANGED <<cmdBuf, mission, timers>>

(* Mutant: STOP goes IDLE without stopAllMotors. *)
StopLineCoasting ==
  /\ Read("nl")
  /\ moveState = "MOVING" /\ cmdBuf = <<"STOP">>
  /\ EndMove("ACK STOP")
  /\ cmdBuf' = <<>>
  /\ UNCHANGED <<goal, driven, doneStable, armedPin, drivePin, lastControl, moveStart>>

StopLine ==
  /\ Read("nl")
  /\ moveState = "MOVING" /\ cmdBuf = <<"STOP">>
  /\ StopAllMotors
  /\ EndMove("ACK STOP")
  /\ cmdBuf' = <<>>
  /\ UNCHANGED <<goal, doneStable, lastControl, moveStart>>

(* Mutant: the refused line stays in cmdBuf. *)
RefuseLineKept ==
  /\ Read("nl")
  /\ moveState = "MOVING" /\ cmdBuf \notin {<<>>, <<"STOP">>}
  /\ reply' = "ERR USE_STOP_THEN_RETRY"
  /\ UNCHANGED <<cmdBuf, moveState, goal, driven, doneStable, armedPin, drivePin, timers>>

RefuseLine ==
  /\ Read("nl")
  /\ moveState = "MOVING" /\ cmdBuf \notin {<<>>, <<"STOP">>}
  /\ reply' = "ERR USE_STOP_THEN_RETRY"
  /\ cmdBuf' = <<>>
  /\ UNCHANGED <<moveState, goal, driven, doneStable, armedPin, drivePin, timers>>

(* Mutant: the early returns forget cmdLen = 0. *)
AnswerLineKept ==
  /\ Read("nl")
  /\ moveState = "IDLE" /\ cmdBuf # <<>> /\ ~ParsesAsPair(cmdBuf)
  /\ reply' = CASE cmdBuf = <<"PING">> -> "PONG"
                [] cmdBuf = <<"STOP">> -> "ACK STOP"
                [] OTHER -> "ERR BAD_LINE"
  /\ UNCHANGED <<cmdBuf, moveState, goal, driven, doneStable, armedPin, drivePin, timers>>

(* tryProcessIdleLine on a line that is not a move. *)
AnswerLine ==
  /\ Read("nl")
  /\ moveState = "IDLE" /\ cmdBuf # <<>> /\ ~ParsesAsPair(cmdBuf)
  /\ reply' = CASE cmdBuf = <<"PING">> -> "PONG"
                [] cmdBuf = <<"STOP">> -> "ACK STOP"
                [] OTHER -> "ERR BAD_LINE"
  /\ cmdBuf' = <<>>
  /\ UNCHANGED <<moveState, goal, driven, doneStable, armedPin, drivePin, timers>>

AcceptLine ==
  /\ Read("nl")
  /\ moveState = "IDLE" /\ ParsesAsPair(cmdBuf)
  /\ StartMove(cmdBuf)

EndDrain ==
  /\ pc = "drain" /\ rx = <<>>
  /\ pc' = "control"
  /\ UNCHANGED <<link, cmdBuf, mission, timers, now, sincePass>>

ReadByte ==
  BufferByte \/ AcceptEarly \/ Overflow \/ EmptyLine \/ StopLine \/ RefuseLine
    \/ AnswerLine \/ AcceptLine

-----------------------------------------------------------------------------
(* loop(): the control period, and runControlTick.                         *)

CheckPeriod ==
  /\ pc = "control"
  /\ pc' = "status"
  /\ sincePass' = 0
  /\ UNCHANGED <<link, cmdBuf, goal, now>>

NoTick ==
  /\ CheckPeriod
  /\ ~TickDue
  /\ UNCHANGED <<mission, timers>>

(* Odometry, PID and inverse kinematics; not yet stable at the goal. *)
Steer ==
  /\ CheckPeriod
  /\ TickDue /\ ~Expired
  /\ lastControl' = now
  /\ doneStable' \in {0} \union {n \in {doneStable + 1} : n < DoneHold}
  /\ driven' \in SUBSET Wheel
  /\ UNCHANGED <<moveState, armedPin, drivePin, reply, moveStart, moveAge>>

(* The tick that finds the wheels stable at the goal for DoneHold cycles. *)
Done ==
  /\ CheckPeriod
  /\ TickDue /\ ~Expired
  /\ lastControl' = now
  /\ doneStable' = doneStable + 1
  /\ doneStable' >= DoneHold
  /\ StopAllMotors
  /\ EndMove("ACK DONE")
  /\ UNCHANGED moveStart

(* Mutant: the timeout path forgets stopAllMotors. *)
TimedOutCoasting ==
  /\ CheckPeriod
  /\ TickDue /\ Expired
  /\ lastControl' = now
  /\ UpdateStatusOutputs("IDLE", driven)
  /\ EndMove("ERR TIMEOUT")
  /\ UNCHANGED <<driven, doneStable, moveStart>>

TimedOut ==
  /\ CheckPeriod
  /\ TickDue /\ Expired
  /\ lastControl' = now
  /\ driven' = {}
  /\ UpdateStatusOutputs("IDLE", {})
  /\ EndMove("ERR TIMEOUT")
  /\ UNCHANGED <<doneStable, moveStart>>

Control == NoTick \/ Steer \/ Done \/ TimedOut

(* The last statement of loop(). *)
Status ==
  /\ pc = "status"
  /\ UpdateStatusOutputs(moveState, driven)
  /\ pc' = "drain"
  /\ UNCHANGED <<link, cmdBuf, moveState, goal, driven, doneStable, reply, timers,
                 now, sincePass>>

(* A millisecond passes; a pass of loop() is never longer than MaxPass.    *)
(* The history moveAge saturates at ClockMod, to keep the states finite; a *)
(* move never gets that old (MoveBounded).                                 *)
Tick ==
  /\ sincePass < MaxPass
  /\ sincePass' = sincePass + 1
  /\ now' = IF now + 1 = ClockMod THEN 0 ELSE now + 1
  /\ moveAge' = IF moveState = "MOVING" /\ moveAge < ClockMod THEN moveAge + 1 ELSE moveAge
  /\ UNCHANGED <<link, cmdBuf, mission, lastControl, moveStart, pc>>

Next ==
  Send \/ Arrive \/ Overrun \/ ReadByte \/ EndDrain \/ Control \/ Status \/ Tick

Spec == Init /\ [][Next]_vars

(* The processor runs loop() for ever and the clock never stops.  The ring *)
(* is tested only after a whole handler has run, and a handler that prints *)
(* may take longer than the next short line takes to arrive: a drain ends  *)
(* when the ring stays empty (weak fairness), not because it was empty now *)
(* and then.  Nothing makes the host send.                                 *)
Fairness ==
  /\ WF_vars(ReadByte) /\ WF_vars(EndDrain)
  /\ WF_vars(Control) /\ WF_vars(Status) /\ WF_vars(Tick)

FairSpec == Spec /\ Fairness

-----------------------------------------------------------------------------
GoalOK == goal = NoGoal \/ (IsNumber(goal.dist) /\ IsNumber(goal.angle))

(* Every variable stays in its range; in particular cmdBuf always leaves   *)
(* room for the terminating NUL the parsers write, and a goal is made of   *)
(* two numbers strtod accepted.                                            *)
TypeOK ==
  /\ wire \in Seq(Symbol)
  /\ rx \in Seq(Symbol) /\ Len(rx) <= RxSize
  /\ afterStop \in BOOLEAN
  /\ cmdBuf \in Seq(Symbol) /\ Len(cmdBuf) < BufSize
  /\ moveState \in {"IDLE", "MOVING"}
  /\ GoalOK
  /\ driven \subseteq Wheel
  /\ doneStable \in 0 .. DoneHold
  /\ armedPin \in BOOLEAN /\ drivePin \in BOOLEAN
  /\ now \in 0 .. ClockMod - 1
  /\ lastControl \in 0 .. ClockMod - 1
  /\ moveStart \in 0 .. ClockMod - 1
  /\ moveAge \in Nat
  /\ sincePass \in 0 .. MaxPass
  /\ pc \in {"drain", "control", "status"}

(* No wheel ever has a duty while the ARMED light is off: the light is lit *)
(* when a move is accepted, before the control tick of the same pass can   *)
(* drive a wheel, and it goes out only after the wheels have stopped.      *)
DrivenOnlyWhenArmed == driven # {} => armedPin

(* MOVE_TIMEOUT_MS: whatever arrives on the serial line and wherever       *)
(* millis() wraps, a move is over at most one control period and one pass  *)
(* of loop() after its timeout.                                            *)
MoveBounded ==
  moveState = "MOVING" => moveAge <= MoveTimeout + ControlPeriod + MaxPass

(* ERR TIMEOUT is never printed early, wherever millis() wraps. *)
TimeoutNotEarly ==
  [][moveState = "MOVING" /\ moveState' = "IDLE" /\ reply' = "ERR TIMEOUT"
       => moveAge > MoveTimeout]_vars

(* "Consecutive OK ticks before declaring done": a mission is not reported *)
(* done before DONE_HOLD_CYCLES ticks of its own, so never on the strength *)
(* of what an earlier mission counted.                                     *)
DoneNotBeforeHold ==
  [][moveState = "MOVING" /\ moveState' = "IDLE" /\ reply' = "ACK DONE"
       => moveAge >= (DoneHold - 1) * ControlPeriod]_vars

(* The firmware keeps the promise of MoveService. *)
Service == INSTANCE MoveService
             WITH busy <- (moveState = "MOVING"), driving <- (driven # {})

ServiceSpec == Service!Spec

(* Every accepted mission ends, if from some time on the host is silent:   *)
(* the timeout is tested only when the UART drain has come to an end, and  *)
(* a host that goes on sending, however short its lines, may keep it going.*)
MoveEnds ==
  <>[](rx = <<>>) => (moveState = "MOVING" ~> moveState = "IDLE")

(* README_omni_bldc.md, While moving: "Only STOP is accepted; it aborts    *)
(* the move": the newline of a STOP line read while MOVING ends the move.  *)
StopHonoured ==
  [][rx # <<>> /\ rx' = Tail(rx) /\ Head(rx) = "nl" /\ afterStop
       /\ moveState = "MOVING" => moveState' = "IDLE"]_vars

SentGoals == {GoalOf(m) : m \in {n \in Messages : ParsesAsPair(n)}}

(* Header: 'Host sends one line: "distance_in,angle_rad"': the distance    *)
(* the robot runs is the distance of a line the host sent.                 *)
DistanceAsSent == goal = NoGoal \/ \E g \in SentGoals : goal.dist = g.dist
=============================================================================
