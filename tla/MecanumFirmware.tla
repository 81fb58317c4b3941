-------------------------- MODULE MecanumFirmware --------------------------
(***************************************************************************)
(* arduino/mecanum_firmware: the line-driven controller of four brushed    *)
(* motors.  One pass of loop() handles every line that has arrived and     *)
(* then runs the watchdog of the raw wheel commands; a pulse command holds *)
(* loop() for its whole duration.  Lines arrive and milliseconds pass      *)
(* between any two steps.  A line is received whole or not at all, and the *)
(* encoders, which drive nothing, are left out.                            *)
(***************************************************************************)
EXTENDS Integers, Sequences

CONSTANTS
  Lines,         \* the lines the host may send
  RxSize,        \* lines the receive ring holds
  IntMod,        \* 2^16: the range of int on the Mega
  MaxPwm,        \* 255
  DefaultPwm,    \* DEFAULT_PULSE_PWM
  DefaultPulse,  \* DEFAULT_PULSE_DURATION
  MinPulse,      \* shortest pulse the t command accepts
  MaxPulse,      \* longest
  Watchdog,      \* WATCHDOG_TIMEOUT_MS
  ClockMod,      \* millis() counts modulo this
  MaxPass        \* bound on the milliseconds from one watchdog check to the
                 \* next, those of a pulse not counted

Motor == 1 .. 4  \* FL, FR, RL, RR
Still == [w \in Motor |-> 0]

(* Mutant: the rows of the two turns exchanged. *)
KinematicTableSwapped ==
  [F  |-> << 1,  1,  1,  1>>, B   |-> <<-1, -1, -1, -1>>,
   L  |-> <<-1,  1,  1, -1>>, R   |-> << 1, -1, -1,  1>>,
   FL |-> << 0,  1,  1,  0>>, FR  |-> << 1,  0,  0,  1>>,
   BL |-> <<-1,  0,  0, -1>>, BR  |-> << 0, -1, -1,  0>>,
   CW |-> <<-1,  1, -1,  1>>, CCW |-> << 1, -1,  1, -1>>]

KinematicTable ==
  [F  |-> << 1,  1,  1,  1>>, B   |-> <<-1, -1, -1, -1>>,
   L  |-> <<-1,  1,  1, -1>>, R   |-> << 1, -1, -1,  1>>,
   FL |-> << 0,  1,  1,  0>>, FR  |-> << 1,  0,  0,  1>>,
   BL |-> <<-1,  0,  0, -1>>, BR  |-> << 0, -1, -1,  0>>,
   CW |-> << 1, -1,  1, -1>>, CCW |-> <<-1,  1, -1,  1>>]

Direction == DOMAIN KinematicTable

(* A line: the word it begins with and its numbers. *)
Line == [kind : STRING, arg : Seq(Int)]

ASSUME MecanumAssumption ==
  /\ Lines \subseteq Line
  /\ RxSize \in Nat /\ IntMod \in Nat \ {0}
  /\ MaxPwm \in Nat /\ DefaultPwm \in 0 .. MaxPwm
  /\ MinPulse \in Nat /\ MaxPulse \in Nat /\ MinPulse <= MaxPulse
  /\ DefaultPulse \in MinPulse .. MaxPulse
  /\ Watchdog \in Nat /\ MaxPass \in Nat
  /\ ClockMod \in Nat /\ Watchdog + MaxPass < ClockMod

VARIABLES
  rx,             \* lines received and not yet handled
  motors,         \* signed PWM of every motor
  pulse,          \* the direction whose delay is running, or "none"
  pulseLeft,      \* milliseconds left of that delay
  pulsePwm,       \* pulsePWM
  pulseDuration,  \* pulseDuration
  rawActive,      \* rawMotorsActive
  now,            \* millis()
  lastCommand,    \* lastCommandTime
  sincePass,      \* milliseconds since the last watchdog check
  pc,             \* "drain" or "watchdog"
  lineAge         \* history: milliseconds since a line was handled

config == <<pulsePwm, pulseDuration>>
delaying == <<pulse, pulseLeft>>
vars == <<rx, motors, pulse, pulseLeft, pulsePwm, pulseDuration, rawActive, now,
          lastCommand, sincePass, pc, lineAge>>

-----------------------------------------------------------------------------
Constrain(v, lo, hi) ==
  CASE v < lo -> lo
    [] v > hi -> hi
    [] OTHER  -> v

(* Mutant: compared with an absolute deadline. *)
ExpiredAbsolute ==
  LET deadline == lastCommand + Watchdog
  IN  now > IF deadline >= ClockMod THEN deadline - ClockMod ELSE deadline

Elapsed(since) == IF now >= since THEN now - since ELSE now - since + ClockMod

Expired == Elapsed(lastCommand) > Watchdog

Init ==
  /\ rx = <<>>
  /\ motors = Still
  /\ pulse = "none" /\ pulseLeft = 0
  /\ pulsePwm = DefaultPwm /\ pulseDuration = DefaultPulse
  /\ rawActive = FALSE
  /\ now = 0 /\ lastCommand = 0
  /\ sincePass = 0
  /\ pc = "drain"
  /\ lineAge = 0

Receive ==
  /\ Len(rx) < RxSize
  /\ \E line \in Lines : rx' = Append(rx, line)
  /\ UNCHANGED <<motors, delaying, config, rawActive, now, lastCommand, sincePass, pc,
                 lineAge>>

-----------------------------------------------------------------------------
(* loop(): a line is complete; processCommand begins.                      *)
cmd == Head(rx)  \* cmdBuf

Int16(v) == ((v + IntMod \div 2) % IntMod) - IntMod \div 2

(* atoi of the k-th number; of one that is missing it is 0. *)
Number(k) == IF k \in DOMAIN cmd.arg THEN Int16(cmd.arg[k]) ELSE 0

Take ==
  /\ pc = "drain" /\ pulse = "none"
  /\ rx # <<>>
  /\ rx' = Tail(rx)
  /\ lastCommand' = now
  /\ lineAge' = 0
  /\ UNCHANGED <<now, sincePass, pc>>

(* executePulse, up to its delay. *)
StartPulse ==
  /\ Take
  /\ cmd.kind \in Direction
  /\ motors' = [w \in Motor |-> KinematicTable[cmd.kind][w] * pulsePwm]
  /\ pulse' = cmd.kind
  /\ pulseLeft' = pulseDuration
  /\ UNCHANGED <<config, rawActive>>

(* Mutant: the pulse ends without stopAllMotors. *)
EndPulseCoasting ==
  /\ pulse # "none" /\ pulseLeft = 0
  /\ pulse' = "none"
  /\ UNCHANGED <<rx, motors, pulseLeft, config, rawActive, now, lastCommand, sincePass, pc,
                 lineAge>>

EndPulse ==
  /\ pulse # "none" /\ pulseLeft = 0
  /\ motors' = Still
  /\ pulse' = "none"
  /\ UNCHANGED <<rx, pulseLeft, config, rawActive, now, lastCommand, sincePass, pc,
                 lineAge>>

EmergencyStop ==
  /\ Take
  /\ cmd.kind = "s"
  /\ motors' = Still
  /\ rawActive' = FALSE
  /\ UNCHANGED <<delaying, config>>

SetPulsePwm ==
  /\ Take
  /\ cmd.kind = "p"
  /\ pulsePwm' = Constrain(Number(1), 0, MaxPwm)
  /\ UNCHANGED <<motors, delaying, pulseDuration, rawActive>>

SetPulseDuration ==
  /\ Take
  /\ cmd.kind = "t"
  /\ pulseDuration' = Constrain(Number(1), MinPulse, MaxPulse)
  /\ UNCHANGED <<motors, delaying, pulsePwm, rawActive>>

RawCommand ==
  /\ Take
  /\ cmd.kind = "m"
  /\ motors' = [w \in Motor |-> Constrain(Number(w), -MaxPwm, MaxPwm)]
  /\ rawActive' = TRUE
  /\ UNCHANGED <<delaying, config>>

(* e and r touch only the encoders; anything else is answered "Unknown". *)
OtherLine ==
  /\ Take
  /\ cmd.kind \notin Direction \union {"s", "p", "t", "m"}
  /\ UNCHANGED <<motors, delaying, config, rawActive>>

EndDrain ==
  /\ pc = "drain" /\ pulse = "none"
  /\ rx = <<>>
  /\ pc' = "watchdog"
  /\ UNCHANGED <<rx, motors, delaying, config, rawActive, now, lastCommand, sincePass,
                 lineAge>>

-----------------------------------------------------------------------------
(* The end of loop().                                                      *)
CheckWatchdog ==
  /\ pc = "watchdog"
  /\ pc' = "drain"
  /\ sincePass' = 0
  /\ UNCHANGED <<rx, delaying, config, now, lastCommand, lineAge>>

WatchdogStop ==
  /\ CheckWatchdog
  /\ rawActive /\ Expired
  /\ motors' = Still
  /\ rawActive' = FALSE

WatchdogPass ==
  /\ CheckWatchdog
  /\ ~(rawActive /\ Expired)
  /\ UNCHANGED <<motors, rawActive>>

(* A millisecond passes, in delay() or in the rest of loop().  The         *)
(* history saturates at ClockMod, to keep the states finite.               *)
Older(age) == IF age < ClockMod THEN age + 1 ELSE age

Tick ==
  /\ IF pulse = "none"
       THEN sincePass < MaxPass /\ sincePass' = sincePass + 1 /\ UNCHANGED pulseLeft
       ELSE pulseLeft > 0 /\ pulseLeft' = pulseLeft - 1 /\ UNCHANGED sincePass
  /\ now' = IF now + 1 = ClockMod THEN 0 ELSE now + 1
  /\ lineAge' = Older(lineAge)
  /\ UNCHANGED <<rx, motors, pulse, config, rawActive, lastCommand, pc>>

Loop ==
  StartPulse \/ EndPulse \/ EmergencyStop \/ SetPulsePwm \/ SetPulseDuration
    \/ RawCommand \/ OtherLine \/ EndDrain \/ WatchdogStop \/ WatchdogPass

Next == Loop \/ Receive \/ Tick

Spec == Init /\ [][Next]_vars

-----------------------------------------------------------------------------
(* Every variable stays in its range; in particular no motor is ever given *)
(* a duty beyond full scale, whatever the host asked for.                  *)
TypeOK ==
  /\ rx \in Seq(Lines)
  /\ motors \in [Motor -> -MaxPwm .. MaxPwm]
  /\ pulse \in Direction \union {"none"}
  /\ pulseLeft \in 0 .. MaxPulse
  /\ pulsePwm \in 0 .. MaxPwm
  /\ pulseDuration \in MinPulse .. MaxPulse
  /\ rawActive \in BOOLEAN
  /\ now \in 0 .. ClockMod - 1
  /\ lastCommand \in 0 .. ClockMod - 1
  /\ sincePass \in 0 .. MaxPass
  /\ pc \in {"drain", "watchdog"}
  /\ lineAge \in 0 .. ClockMod

(* Outside a pulse a motor runs only under the watchdog, whatever order of *)
(* pulses, raw commands and stops led there.                               *)
WatchdogArmed == motors # Still /\ pulse = "none" => rawActive

(* "Raw motor commands (m) auto-stop after 500 ms": outside a pulse a      *)
(* motor that runs has heard a line within the timeout and one pass of     *)
(* loop(), wherever millis() wraps and however long a pulse held loop().   *)
RunBounded ==
  motors # Still /\ pulse = "none" => lineAge <= Watchdog + MaxPass

(* The body motion a pulse command is named for: forward, left and         *)
(* counter-clockwise are positive.                                         *)
Twist ==
  [F  |-> [vx |->  1, vy |->  0, omega |-> 0], B   |-> [vx |-> -1, vy |->  0, omega |->  0],
   L  |-> [vx |->  0, vy |->  1, omega |-> 0], R   |-> [vx |->  0, vy |-> -1, omega |->  0],
   FL |-> [vx |->  1, vy |->  1, omega |-> 0], FR  |-> [vx |->  1, vy |-> -1, omega |->  0],
   BL |-> [vx |-> -1, vy |->  1, omega |-> 0], BR  |-> [vx |-> -1, vy |-> -1, omega |->  0],
   CW |-> [vx |->  0, vy |->  0, omega |-> -1], CCW |-> [vx |-> 0, vy |->  0, omega |->  1]]

WheelSpeeds(t) ==
  <<t.vx - t.vy - t.omega, t.vx + t.vy + t.omega,
    t.vx + t.vy - t.omega, t.vx - t.vy + t.omega>>

Sign(v) == IF v > 0 THEN 1 ELSE IF v < 0 THEN -1 ELSE 0

(* commands.h: "Derived from inverted-V (/ \) roller pattern": while a     *)
(* pulse runs every motor turns the way the inverse kinematics asks for    *)
(* the motion the command is named for.                                    *)
PulseFollowsKinematics ==
  pulse # "none" /\ pulsePwm > 0 =>
    \A w \in Motor : Sign(motors[w]) = Sign(WheelSpeeds(Twist[pulse])[w])
=============================================================================
