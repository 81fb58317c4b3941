------------------------ MODULE BridgeMecanum_proofs ------------------------
(***************************************************************************)
(* Proofs about MecanumFirmware and about BridgeMecanum, for every host,   *)
(* every choice of the periods and every failure of the link: raw commands *)
(* run under the watchdog and no longer than it allows, pulses follow the  *)
(* kinematics, and behind the serial bridge the wheels come to rest.       *)
(***************************************************************************)
EXTENDS BridgeMecanum, SequenceTheorems, TLAPS

(* The times and the place in loop(), whatever the lines are.              *)
TimesOK ==
  /\ now \in 0 .. ClockMod - 1
  /\ lastCommand \in 0 .. ClockMod - 1
  /\ sincePass \in 0 .. MaxPass
  /\ pc \in {"drain", "watchdog"}
  /\ lineAge \in 0 .. ClockMod

(* Outside a pulse a running motor is watched, its timestamp still measures *)
(* true time, and the last check found it in time.                         *)
RunInv ==
  motors # Still /\ pulse = "none" =>
    /\ rawActive
    /\ lineAge = Elapsed(lastCommand)
    /\ lineAge <= Watchdog + sincePass

Drive(d) == [w \in Motor |-> KinematicTable[d][w] * pulsePwm]

(* loop() handles nothing else while a pulse runs, so its power stays.     *)
PulseInv == pulse # "none" => motors = Drive(pulse) /\ pc = "drain"

IInv == TypeOK /\ RunInv /\ PulseInv

-----------------------------------------------------------------------------
LEMMA ConstantFacts ==
  /\ MaxPwm \in Nat /\ DefaultPwm \in 0 .. MaxPwm
  /\ MinPulse \in Nat /\ MaxPulse \in Nat /\ MinPulse <= MaxPulse
  /\ DefaultPulse \in MinPulse .. MaxPulse
  /\ Watchdog \in Nat /\ MaxPass \in Nat
  /\ ClockMod \in Nat /\ ClockMod > 0 /\ Watchdog + MaxPass < ClockMod
BY MecanumAssumption

LEMMA ConstrainRange ==
  ASSUME NEW v \in Int, NEW lo \in Int, NEW hi \in Int, lo <= hi
  PROVE  Constrain(v, lo, hi) \in lo .. hi
BY DEF Constrain

LEMMA TableEntries ==
  ASSUME NEW d \in Direction, NEW w \in Motor
  PROVE  KinematicTable[d][w] \in {-1, 0, 1}
BY DEF Direction, KinematicTable, Motor

LEMMA DriveTyped ==
  ASSUME NEW d \in Direction, pulsePwm \in 0 .. MaxPwm
  PROVE  Drive(d) \in [Motor -> -MaxPwm .. MaxPwm]
<1>1. ASSUME NEW w \in Motor
      PROVE  KinematicTable[d][w] * pulsePwm \in -MaxPwm .. MaxPwm
  <2>1. KinematicTable[d][w] \in {-1, 0, 1}
    BY TableEntries
  <2>2. CASE KinematicTable[d][w] = -1
    BY <2>2, ConstantFacts
  <2>3. CASE KinematicTable[d][w] = 0
    BY <2>3, ConstantFacts
  <2>4. CASE KinematicTable[d][w] = 1
    BY <2>4, ConstantFacts
  <2> QED
    BY <2>1, <2>2, <2>3, <2>4
<1> QED
  BY <1>1 DEF Drive

LEMMA StillTyped == Still \in [Motor -> -MaxPwm .. MaxPwm]
BY ConstantFacts DEF Still

LEMMA Int16Facts ==
  /\ \A v \in Int : Int16(v) \in Int
  /\ Int16(0) = 0
<1>1. IntMod \in Nat /\ IntMod > 0
  BY MecanumAssumption
<1>2. PICK half \in Nat : half = IntMod \div 2 /\ half < IntMod
  BY <1>1
<1>3. half % IntMod = half
  BY <1>1, <1>2
<1> QED
  BY <1>1, <1>2, <1>3 DEF Int16

(* What atoi makes of a number, or of none, is an int. *)
LEMMA NumberTyped ==
  ASSUME TypeOK, Take, NEW k \in Nat
  PROVE  Number(k) \in Int
<1>1. cmd \in Lines
  BY HeadTailProperties DEF TypeOK, Take, cmd
<1>2. cmd.arg \in Seq(Int)
  BY <1>1, MecanumAssumption DEF Line
<1>3. k \in DOMAIN cmd.arg => cmd.arg[k] \in Int
  BY <1>2
<1> QED
  BY <1>3, Int16Facts DEF Number

-----------------------------------------------------------------------------
(* What Take establishes, for every command.                               *)
LEMMA TakeTyped ==
  ASSUME TypeOK, Take
  PROVE  /\ rx' \in Seq(Lines)
         /\ now' \in 0 .. ClockMod - 1
         /\ lastCommand' \in 0 .. ClockMod - 1
         /\ sincePass' \in 0 .. MaxPass
         /\ pc' \in {"drain", "watchdog"}
         /\ lineAge' \in 0 .. ClockMod
<1>1. rx' \in Seq(Lines)
  BY HeadTailProperties DEF TypeOK, Take
<1> QED
  BY <1>1, ConstantFacts DEF TypeOK, Take

(* A command that was just handled is no age old. *)
LEMMA TakeFresh ==
  ASSUME TimesOK, Take
  PROVE  /\ lineAge' = Elapsed(lastCommand)'
         /\ lineAge' <= Watchdog + sincePass'
BY ConstantFacts DEF TimesOK, Take, Elapsed

LEMMA TypeInit == Init => TypeOK
<1> SUFFICES ASSUME Init PROVE TypeOK
  OBVIOUS
<1>1. rx \in Seq(Lines)
  BY DEF Init
<1>2. motors \in [Motor -> -MaxPwm .. MaxPwm]
  BY StillTyped DEF Init
<1>3. pulseLeft \in 0 .. MaxPulse /\ pulsePwm \in 0 .. MaxPwm
      /\ pulseDuration \in MinPulse .. MaxPulse
  BY ConstantFacts DEF Init
<1>4. /\ now \in 0 .. ClockMod - 1 /\ lastCommand \in 0 .. ClockMod - 1
      /\ sincePass \in 0 .. MaxPass
      /\ lineAge \in 0 .. ClockMod
  BY ConstantFacts DEF Init
<1> QED
  BY <1>1, <1>2, <1>3, <1>4 DEF Init, TypeOK

LEMMA TypeStep == TypeOK /\ [Next]_vars => TypeOK'
<1> SUFFICES ASSUME TypeOK, [Next]_vars PROVE TypeOK'
  OBVIOUS
<1>1. CASE StartPulse
  <2>1. motors' = Drive(cmd.kind) /\ cmd.kind \in Direction
    BY <1>1 DEF StartPulse, Drive
  <2>2. motors' \in [Motor -> -MaxPwm .. MaxPwm]
    BY <2>1, DriveTyped DEF TypeOK
  <2> QED
    BY <1>1, <2>1, <2>2, TakeTyped, ConstantFacts DEF StartPulse, TypeOK, config
<1>2. CASE EndPulse
  BY <1>2, StillTyped DEF EndPulse, TypeOK, config
<1>3. CASE EmergencyStop
  BY <1>3, StillTyped, TakeTyped DEF EmergencyStop, TypeOK, config, delaying
<1>4. CASE SetPulsePwm
  <2>1. Number(1) \in Int
    BY <1>4, NumberTyped DEF SetPulsePwm
  <2>2. Constrain(Number(1), 0, MaxPwm) \in 0 .. MaxPwm
    <3>1. 0 \in Int /\ MaxPwm \in Int /\ 0 <= MaxPwm
      BY ConstantFacts
    <3> QED
      BY <2>1, <3>1, ConstrainRange
  <2> QED
    BY <1>4, <2>2, TakeTyped DEF SetPulsePwm, TypeOK, delaying
<1>5. CASE SetPulseDuration
  <2>1. Number(1) \in Int
    BY <1>5, NumberTyped DEF SetPulseDuration
  <2>2. Constrain(Number(1), MinPulse, MaxPulse) \in MinPulse .. MaxPulse
    <3>1. MinPulse \in Int /\ MaxPulse \in Int /\ MinPulse <= MaxPulse
      BY ConstantFacts
    <3> QED
      BY <2>1, <3>1, ConstrainRange
  <2> QED
    BY <1>5, <2>2, TakeTyped DEF SetPulseDuration, TypeOK, delaying
<1>6. CASE RawCommand
  <2>1. ASSUME NEW w \in Motor
        PROVE  Constrain(Number(w), -MaxPwm, MaxPwm) \in -MaxPwm .. MaxPwm
    <3>1. Number(w) \in Int
      BY <1>6, NumberTyped DEF RawCommand, Motor
    <3>2. -MaxPwm \in Int /\ MaxPwm \in Int /\ -MaxPwm <= MaxPwm
      BY ConstantFacts
    <3> QED
      BY <3>1, <3>2, ConstrainRange
  <2>2. motors' \in [Motor -> -MaxPwm .. MaxPwm]
    BY <1>6, <2>1 DEF RawCommand
  <2> QED
    BY <1>6, <2>2, TakeTyped DEF RawCommand, TypeOK, delaying, config
<1>7. CASE OtherLine
  BY <1>7, TakeTyped DEF OtherLine, TypeOK, delaying, config
<1>8. CASE EndDrain
  BY <1>8 DEF EndDrain, TypeOK, delaying, config
<1>9. CASE WatchdogStop
  <2>1. motors' \in [Motor -> -MaxPwm .. MaxPwm]
    BY <1>9, StillTyped DEF WatchdogStop
  <2>2. sincePass' \in 0 .. MaxPass
    BY <1>9, ConstantFacts DEF WatchdogStop, CheckWatchdog
  <2> QED
    BY <1>9, <2>1, <2>2 DEF WatchdogStop, CheckWatchdog, TypeOK, delaying, config
<1>10. CASE WatchdogPass
  BY <1>10, ConstantFacts DEF WatchdogPass, CheckWatchdog, TypeOK, delaying, config
<1>11. CASE Receive
  BY <1>11, AppendProperties DEF Receive, TypeOK, delaying, config
<1>12. CASE Tick
  BY <1>12, ConstantFacts DEF Tick, Older, TypeOK, config
<1>13. CASE UNCHANGED vars
  BY <1>13 DEF vars, TypeOK
<1> QED
  BY <1>1, <1>2, <1>3, <1>4, <1>5, <1>6, <1>7, <1>8, <1>9, <1>10, <1>11, <1>12, <1>13
     DEF Next, Loop

(* Every variable stays in its range: in particular the duty of a motor.   *)
THEOREM TypeCorrect == Spec => []TypeOK
BY TypeInit, TypeStep, PTL DEF Spec

-----------------------------------------------------------------------------
(* The age of the last line against the wrapping clock.                    *)
LEMMA AgeTick ==
  ASSUME TimesOK, Tick, pulse = "none", lineAge = Elapsed(lastCommand),
         lineAge <= Watchdog + sincePass
  PROVE  /\ lineAge' = Elapsed(lastCommand)'
         /\ lineAge' <= Watchdog + sincePass'
<1>1. sincePass < MaxPass /\ sincePass' = sincePass + 1
  BY DEF Tick
<1>2. lineAge + 1 < ClockMod
  BY <1>1, ConstantFacts DEF TimesOK
<1>3. lineAge' = lineAge + 1
  BY <1>2, ConstantFacts DEF TimesOK, Tick, Older
<1>4. Elapsed(lastCommand)' = Elapsed(lastCommand) + 1
  BY <1>2, ConstantFacts DEF TimesOK, Tick, Elapsed
<1> QED
  BY <1>1, <1>3, <1>4, ConstantFacts DEF TimesOK

LEMMA RunStep == TimesOK /\ RunInv /\ [Next]_vars => RunInv'
<1> SUFFICES ASSUME TimesOK, RunInv, [Next]_vars PROVE RunInv'
  OBVIOUS
<1>1. CASE StartPulse
  <2>1. pulse' # "none"
    BY <1>1 DEF StartPulse, Direction, KinematicTable
  <2> QED
    BY <2>1 DEF RunInv
<1>2. CASE EndPulse
  BY <1>2 DEF EndPulse, RunInv, Still
<1>3. CASE EmergencyStop
  BY <1>3 DEF EmergencyStop, RunInv, Still
<1>4. CASE SetPulsePwm
  BY <1>4, TakeFresh DEF SetPulsePwm, RunInv, delaying, Take, Still
<1>5. CASE SetPulseDuration
  BY <1>5, TakeFresh DEF SetPulseDuration, RunInv, delaying, Take, Still
<1>6. CASE RawCommand
  BY <1>6, TakeFresh DEF RawCommand, RunInv
<1>7. CASE OtherLine
  BY <1>7, TakeFresh DEF OtherLine, RunInv, delaying, Take, Still
<1>8. CASE EndDrain
  BY <1>8 DEF EndDrain, RunInv, delaying, Still, Elapsed
<1>9. CASE WatchdogStop
  BY <1>9 DEF WatchdogStop, RunInv, Still
<1>10. CASE WatchdogPass
  BY <1>10, ConstantFacts
     DEF WatchdogPass, CheckWatchdog, RunInv, TimesOK, delaying, Still, Expired, Elapsed
<1>11. CASE Receive
  BY <1>11 DEF Receive, RunInv, delaying, Still, Elapsed
<1>12. CASE Tick
  BY <1>12, AgeTick DEF Tick, RunInv, Still
<1>13. CASE UNCHANGED vars
  BY <1>13 DEF vars, RunInv, Still, Elapsed
<1> QED
  BY <1>1, <1>2, <1>3, <1>4, <1>5, <1>6, <1>7, <1>8, <1>9, <1>10, <1>11, <1>12, <1>13
     DEF Next, Loop

LEMMA PulseStep == PulseInv /\ [Next]_vars => PulseInv'
<1> SUFFICES ASSUME PulseInv, [Next]_vars PROVE PulseInv'
  OBVIOUS
<1>1. CASE StartPulse
  BY <1>1 DEF StartPulse, Take, PulseInv, Drive, config
<1>2. CASE EndPulse
  BY <1>2 DEF EndPulse, PulseInv
<1>3. CASE EmergencyStop \/ SetPulsePwm \/ SetPulseDuration \/ RawCommand \/ OtherLine
  BY <1>3 DEF EmergencyStop, SetPulsePwm, SetPulseDuration, RawCommand, OtherLine, Take,
              PulseInv, delaying
<1>4. CASE EndDrain
  BY <1>4 DEF EndDrain, PulseInv, delaying
<1>5. CASE WatchdogStop \/ WatchdogPass
  BY <1>5 DEF WatchdogStop, WatchdogPass, CheckWatchdog, PulseInv, delaying
<1>6. CASE Receive
  BY <1>6 DEF Receive, PulseInv, Drive, delaying, config
<1>7. CASE Tick
  BY <1>7 DEF Tick, PulseInv, Drive, config
<1>8. CASE UNCHANGED vars
  BY <1>8 DEF vars, PulseInv, Drive
<1> QED
  BY <1>1, <1>2, <1>3, <1>4, <1>5, <1>6, <1>7, <1>8 DEF Next, Loop

LEMMA InvInit == Init => IInv
BY TypeInit DEF Init, IInv, RunInv, PulseInv

THEOREM Inductive == Spec => []IInv
<1>1. Init => IInv
  BY InvInit
<1>2. IInv /\ [Next]_vars => IInv'
  <2>1. TypeOK => TimesOK
    BY DEF TypeOK, TimesOK
  <2> QED
    BY <2>1, TypeStep, RunStep, PulseStep DEF IInv
<1> QED
  BY <1>1, <1>2, PTL DEF Spec

(* Outside a pulse a motor runs only under the watchdog.                   *)
THEOREM RawRunsWatched == Spec => []WatchdogArmed
<1>1. IInv => WatchdogArmed
  BY DEF IInv, RunInv, WatchdogArmed
<1> QED
  BY <1>1, Inductive, PTL

(* Outside a pulse a motor that runs has heard a line within the timeout   *)
(* and one pass of loop(), wherever millis() wraps.                        *)
THEOREM RawRunsBounded == Spec => []RunBounded
<1>1. IInv => RunBounded
  BY ConstantFacts DEF IInv, RunInv, RunBounded, TypeOK
<1> QED
  BY <1>1, Inductive, PTL

-----------------------------------------------------------------------------
(* Every pulse turns the wheels the way its name asks for.                 *)

LEMMA TableMatches ==
  ASSUME NEW d \in Direction, NEW w \in Motor
  PROVE  KinematicTable[d][w] = Sign(WheelSpeeds(Twist[d])[w])
BY DEF Direction, KinematicTable, Motor, Sign, WheelSpeeds, Twist

LEMMA SignOfDrive ==
  ASSUME NEW k \in {-1, 0, 1}, NEW p \in Nat, p > 0
  PROVE  Sign(k * p) = k
<1>1. CASE k = -1
  BY <1>1 DEF Sign
<1>2. CASE k = 0
  BY <1>2 DEF Sign
<1>3. CASE k = 1
  BY <1>3 DEF Sign
<1> QED
  BY <1>1, <1>2, <1>3

LEMMA FollowsState == IInv => PulseFollowsKinematics
<1>1. ASSUME IInv, pulse # "none", pulsePwm > 0, NEW w \in Motor
      PROVE  Sign(motors[w]) = Sign(WheelSpeeds(Twist[pulse])[w])
  <2>1. pulse \in Direction /\ pulsePwm \in Nat
    BY <1>1, ConstantFacts DEF IInv, TypeOK
  <2>2. motors[w] = KinematicTable[pulse][w] * pulsePwm
    BY <1>1 DEF IInv, PulseInv, Drive
  <2>3. Sign(motors[w]) = KinematicTable[pulse][w]
    BY <1>1, <2>1, <2>2, TableEntries, SignOfDrive
  <2> QED
    BY <2>1, <2>3, TableMatches
<1> QED
  BY <1>1 DEF PulseFollowsKinematics

(* While a pulse runs every motor turns the way the inverse kinematics     *)
(* asks for the motion the command is named for, at every power.           *)
THEOREM PulsesFollow == Spec => []PulseFollowsKinematics
BY FollowsState, Inductive, PTL

-----------------------------------------------------------------------------
(* Behind the serial bridge.  While the wheels run and nothing in the ring *)
(* drives, only a STOP can put the watchdog off, and a bridge that knows   *)
(* it has sent a STOP sends no other.  How many may still come is what the *)
(* invariant counts, over the ring, what the bridge remembers as sent and  *)
(* the time to its next attempt to open the port.                          *)

(* No line is lost: the receive ring of 64 bytes holds two lines of at     *)
(* most 22 bytes, written 20 ms apart, and two passes of loop() take less  *)
(* than the 40 ms.                                                         *)
RingHolds == Heard < RxSize * IoPeriod

Stop == Bridge!StopLine
ZeroLine == Bridge!RawLine(Bridge!Zero)
Resting == {Stop, ZeroLine}

(* Nothing in the ring drives.                                             *)
Quiet == \A i \in DOMAIN rx : rx[i] \in Resting

(* How long the oldest line in the ring may have waited, how long it may   *)
(* still wait, and how long the wheels may run if no other line comes.     *)
PassAge == sincePass + IF pc = "drain" THEN MaxPass ELSE 0
Left == Heard - PassAge
RunsOn == IF rx = <<>> THEN Silence - lineAge ELSE Left + Silence

(* The wheels stop before the bridge may try to open the port again.       *)
Safe == attemptAge + RunsOn < Reconnect

(* The STOPs at the head of the ring, at most two.                         *)
LeadingOf(q) ==
  IF q = <<>> \/ q[1] # Stop THEN 0
  ELSE IF Len(q) = 1 \/ q[2] # Stop THEN 1
  ELSE 2

(* The STOPs the bridge may still write before the wheels stop: one now if *)
(* it did not remember a STOP as sent, and one if it can lose the port and *)
(* open it again.                                                          *)
LaterOf(open, last, safe) ==
  IF last = Stop THEN IF open /\ ~safe THEN 1 ELSE 0
  ELSE IF open THEN 2
  ELSE IF safe THEN 0 ELSE 1

(* All that may refresh the watchdog while the wheels run: behind a line   *)
(* that is no STOP, nothing does.                                          *)
RefreshesOf(q, later) == LeadingOf(q) + IF LeadingOf(q) = Len(q) THEN later ELSE 0

Later == LaterOf(connected, lastTx, Safe)
Refreshes == RefreshesOf(rx, Later)

RobotTypes ==
  /\ pulse = "none"
  /\ rx \in Seq(Bridge!BridgeLine)
  /\ wheelCmd \in [Motor -> Bridge!Pwm]
  /\ target \in Targets \union {0}
  /\ cmdAge \in Nat /\ restAge \in Nat /\ sinceIo \in Nat
  /\ attemptAge \in 0 .. Reconnect
  /\ connected \in BOOLEAN

(* Lines are an io_loop apart and none waits longer than two passes, so    *)
(* the ring never fills.                                                   *)
Backlog == rx # <<>> => (Len(rx) - 1) * IoPeriod + sinceIo <= PassAge

(* A line that drives was written before the wheels were due to rest.      *)
RestInv ==
  /\ ~Bridge!Rest => restAge = 0
  /\ ~Quiet => restAge <= PassAge

(* With the port open, the line remembered as sent is the last in the ring *)
(* or has been obeyed.                                                     *)
LastInv ==
  connected /\ lastTx # Stop =>
    /\ rx # <<>> => rx[Len(rx)] = lastTx
    /\ rx = <<>> /\ lastTx = ZeroLine => motors = Still

(* Two STOPs in a row were written on either side of a reconnection, so    *)
(* there are never three.                                                  *)
Twice(q, i) == q[i] = Stop /\ q[i + 1] = Stop
NoThree(q) == \A i \in 1 .. Len(q) - 2 : ~(Twice(q, i) /\ Twice(q, i + 1))

StopsInv ==
  /\ \A i \in 1 .. Len(rx) - 1 : Twice(rx, i) => attemptAge <= PassAge
  /\ NoThree(rx)

(* Wheels that still run have spent one watchdog period for each refresh   *)
(* that can no longer come, and the age of the last line.                  *)
SpentInv ==
  motors # Still /\ Quiet => restAge <= Heard + (2 - Refreshes) * Silence + lineAge

Ground == TimesOK /\ RobotTypes /\ RunInv
RingInv == Backlog /\ RestInv /\ LastInv /\ StopsInv /\ SpentInv

(* The bridge before the robot is switched on.                             *)
BridgeFresh ==
  /\ wheelCmd = Bridge!Zero /\ target = 0
  /\ cmdAge = 0 /\ restAge = 0 /\ sinceIo = 0
  /\ attemptAge = Reconnect /\ connected = FALSE

BaseInv ==
  /\ TimesOK /\ RunInv /\ PulseInv
  /\ IF onRobot THEN RobotTypes ELSE TypeOK /\ BridgeFresh

RobotInv == BaseInv /\ (onRobot => RingInv)

-----------------------------------------------------------------------------
LEMMA PeriodFacts ==
  /\ MaxPass \in Nat /\ Watchdog \in Nat /\ ClockMod \in Nat
  /\ Heard \in Nat /\ Heard = 2 * MaxPass
  /\ Silence \in Nat /\ Silence = Watchdog + MaxPass
  /\ Reconnect \in Nat /\ Heard + Silence < Reconnect
  /\ IoPeriod \in Nat /\ IoLate \in Nat
  /\ CmdAgeCap \in Nat /\ RestAgeCap \in Nat /\ RxSize \in Nat
BY ConstantFacts, MecanumAssumption, RobotAssumption, PacedAssumption
   DEF Heard, Silence, Bridge!BridgeAssumption

LEMMA PassFacts ==
  ASSUME TimesOK
  PROVE  /\ PassAge \in Nat /\ PassAge <= Heard
         /\ Left \in Nat /\ Left = Heard - PassAge
         /\ lineAge \in Nat
BY PeriodFacts DEF TimesOK, PassAge, Left

LEMMA LineFacts ==
  /\ Stop.kind = "STOP" /\ ZeroLine.kind = "m" /\ Stop # ZeroLine
  /\ ZeroLine.arg = <<0, 0, 0, 0>>
  /\ Stop \in Bridge!BridgeLine /\ ZeroLine \in Bridge!BridgeLine
<1>1. Bridge!Zero \in [Bridge!Motor -> Bridge!Pwm]
  BY ConstantFacts DEF Bridge!Zero, Bridge!Motor, Bridge!Pwm
<1>2. Stop \in Bridge!BridgeLine /\ ZeroLine \in Bridge!BridgeLine
  BY <1>1 DEF Stop, ZeroLine, Bridge!BridgeLine
<1>3. Stop.kind = "STOP" /\ ZeroLine.kind = "m"
  BY DEF Stop, ZeroLine, Bridge!StopLine, Bridge!RawLine
<1>4. ZeroLine.arg = <<0, 0, 0, 0>>
  BY DEF ZeroLine, Bridge!RawLine, Bridge!Zero, Bridge!Motor
<1> QED
  BY <1>2, <1>3, <1>4

LEMMA KindFacts ==
  ASSUME NEW line \in Bridge!BridgeLine
  PROVE  /\ line.kind \notin Direction \union {"s", "p", "t"}
         /\ line.kind = "m" => \A w \in Motor : line.arg[w] \in Int
<1>1. CASE line = Bridge!StopLine
  BY <1>1 DEF Bridge!StopLine, Direction, KinematicTable
<1>2. CASE \E t \in Targets \union {0} : line = Bridge!DaLine(t)
  BY <1>2 DEF Bridge!DaLine, Direction, KinematicTable
<1>3. CASE \E c \in [Bridge!Motor -> Bridge!Pwm] : line = Bridge!RawLine(c)
  <2>1. PICK c \in [Bridge!Motor -> Bridge!Pwm] : line = Bridge!RawLine(c)
    BY <1>3
  <2>2. \A w \in Motor : c[w] \in Int
    BY ConstantFacts DEF Bridge!Motor, Bridge!Pwm, Motor
  <2>3. line.kind = "m" /\ line.arg = <<c[1], c[2], c[3], c[4]>>
    BY <2>1 DEF Bridge!RawLine
  <2>4. \A w \in Motor : line.arg[w] = c[w]
    BY <2>3 DEF Motor
  <2> QED
    BY <2>2, <2>3, <2>4 DEF Direction, KinematicTable
<1> QED
  BY <1>1, <1>2, <1>3 DEF Bridge!BridgeLine

LEMMA NextFacts ==
  ASSUME RobotTypes
  PROVE  /\ Bridge!NextLine \in Bridge!BridgeLine
         /\ Bridge!Rest => Bridge!NextLine \in Resting
<1>1. Bridge!DaLine(target) \in Bridge!BridgeLine
  BY DEF RobotTypes, Bridge!BridgeLine
<1>2. Bridge!RawLine(wheelCmd) \in Bridge!BridgeLine
  BY DEF RobotTypes, Bridge!BridgeLine, Motor, Bridge!Motor
<1> QED
  BY <1>1, <1>2, LineFacts DEF Bridge!NextLine, Bridge!Rest, Resting, Stop, ZeroLine

-----------------------------------------------------------------------------
(* What a step on the robot does to what the invariant is about.           *)
Handles ==
  /\ pc = "drain" /\ pc' = pc
  /\ rx # <<>> /\ rx' = Tail(rx)
  /\ lineAge' = 0 /\ sincePass' = sincePass
  /\ \/ Head(rx).kind # "m" /\ motors' = motors
     \/ /\ Head(rx).kind = "m"
        /\ motors' = [w \in Motor |-> Constrain(Number(w), -MaxPwm, MaxPwm)]
  /\ UNCHANGED bridgeVars

Passes ==
  /\ rx' = rx /\ lineAge' = lineAge
  /\ motors' = motors \/ motors' = Still
  /\ \/ rx = <<>> /\ pc = "drain" /\ pc' = "watchdog" /\ sincePass' = sincePass
     \/ pc = "watchdog" /\ pc' = "drain" /\ sincePass' = 0
  /\ UNCHANGED bridgeVars

Ages ==
  /\ sincePass < MaxPass /\ sincePass' = sincePass + 1
  /\ lineAge' = Older(lineAge)
  /\ sinceIo' = sinceIo + 1
  /\ attemptAge' = IF attemptAge < Reconnect THEN attemptAge + 1 ELSE attemptAge
  /\ restAge' \in {0, restAge, restAge + 1}
  /\ ~(Bridge!Rest)' => restAge' = 0
  /\ UNCHANGED <<motors, pc, rx, connected, lastTx>>

Listens ==
  /\ restAge' \in {0, restAge}
  /\ ~(Bridge!Rest)' => restAge' = 0
  /\ UNCHANGED <<motors, pc, sincePass, lineAge, rx, connected, attemptAge, lastTx, sinceIo>>

(* An io_loop: what it writes, and what becomes of the link.               *)
Serves ==
  /\ sinceIo >= IoPeriod /\ sinceIo' = 0
  /\ UNCHANGED <<motors, pc, sincePass, lineAge, restAge>>
  /\ (Bridge!Rest)' = Bridge!Rest
  /\ \/ attemptAge' = attemptAge
     \/ ~connected /\ attemptAge >= Reconnect /\ attemptAge' = 0

Opened == connected \/ (attemptAge >= Reconnect /\ attemptAge' = 0)

Silent ==
  /\ Serves /\ UNCHANGED <<rx, lastTx>>
  /\ connected' \in BOOLEAN
  /\ connected' => lastTx = Stop /\ Opened

Writes(line) ==
  /\ Serves /\ Opened
  /\ ~(line = Stop /\ lastTx = Stop)
  /\ lastTx' = line
  /\ connected' = TRUE
  /\ rx' = IF Len(rx) < RxSize THEN Append(rx, line) ELSE rx

Fails(line) ==
  /\ Serves /\ Opened
  /\ ~(line = Stop /\ lastTx = Stop)
  /\ lastTx' = line
  /\ connected' = FALSE
  /\ rx' = rx

LEMMA LoopMoves ==
  ASSUME RobotTypes, FirmwareStep
  PROVE  Handles \/ Passes
<1> USE DEF bridgeVars
<1>1. CASE Take
  <2>1. Head(rx) \in Bridge!BridgeLine
    BY <1>1, HeadTailProperties DEF RobotTypes, Take
  <2>2. Head(rx).kind \notin Direction \union {"s", "p", "t"}
    BY <2>1, KindFacts
  <2>3. CASE RawCommand
    BY <1>1, <2>3 DEF RawCommand, Take, Handles, FirmwareStep, cmd
  <2>4. CASE OtherLine
    <3>1. Head(rx).kind # "m"
      BY <2>4 DEF OtherLine, cmd
    <3> QED
      BY <1>1, <2>4, <3>1 DEF OtherLine, Take, Handles, FirmwareStep
  <2>5. CASE EndPulse
    BY <2>5 DEF EndPulse, RobotTypes
  <2>6. CASE EndDrain \/ WatchdogStop \/ WatchdogPass
    BY <1>1, <2>6 DEF EndDrain, WatchdogStop, WatchdogPass, CheckWatchdog, Take
  <2> QED
    BY <2>2, <2>3, <2>4, <2>5, <2>6
       DEF FirmwareStep, Loop, StartPulse, EmergencyStop, SetPulsePwm, SetPulseDuration, cmd
<1>2. CASE EndPulse
  BY <1>2 DEF EndPulse, RobotTypes
<1>3. CASE EndDrain
  BY <1>3 DEF EndDrain, Passes, FirmwareStep
<1>4. CASE WatchdogStop
  BY <1>4 DEF WatchdogStop, CheckWatchdog, Passes, FirmwareStep
<1>5. CASE WatchdogPass
  BY <1>5 DEF WatchdogPass, CheckWatchdog, Passes, FirmwareStep
<1> QED
  BY <1>1, <1>2, <1>3, <1>4, <1>5
     DEF FirmwareStep, Loop, StartPulse, EmergencyStop, SetPulsePwm, SetPulseDuration,
         RawCommand, OtherLine

LEMMA TickMoves ==
  ASSUME RobotTypes, RobotTick
  PROVE  Ages
<1>1. /\ sincePass < MaxPass /\ sincePass' = sincePass + 1
      /\ lineAge' = Older(lineAge)
      /\ UNCHANGED <<motors, pc, rx, connected, lastTx>>
  BY DEF RobotTypes, RobotTick, Tick, Bridge!Tick
<1>2. /\ sinceIo' = sinceIo + 1
      /\ attemptAge' = IF attemptAge < Reconnect THEN attemptAge + 1 ELSE attemptAge
  BY DEF RobotTick, Bridge!Tick, Bridge!Older
<1>3. restAge' \in {0, restAge, restAge + 1}
  BY DEF RobotTick, Bridge!Tick, Bridge!Older
<1>4. ~(Bridge!Rest)' => ~Bridge!Rest
  BY PeriodFacts, RobotAssumption
     DEF RobotTypes, RobotTick, Bridge!Tick, Bridge!Older, Bridge!Rest, Bridge!BridgeAssumption
<1>5. ~Bridge!Rest => restAge' = 0
  BY DEF RobotTick, Bridge!Tick
<1> QED
  BY <1>1, <1>2, <1>3, <1>4, <1>5 DEF Ages

LEMMA InputMoves ==
  ASSUME ~Bridge!Rest => restAge = 0, BridgeStep, Bridge!Inputs
  PROVE  Listens
<1>1. UNCHANGED <<motors, pc, sincePass, lineAge>>
  BY DEF BridgeStep
<1>2. CASE Bridge!WheelCmd
  BY <1>1, <1>2 DEF Bridge!WheelCmd, Bridge!Received, Bridge!link, Listens
<1>3. CASE Bridge!Target
  BY <1>1, <1>3 DEF Bridge!Target, Bridge!Received, Bridge!link, Listens
<1>4. CASE Bridge!Safety
  BY <1>1, <1>4 DEF Bridge!Safety, Bridge!Received, Bridge!link, Listens
<1>5. CASE Bridge!SetMode
  <2>1. (Bridge!Rest)' = Bridge!Rest
    BY <1>5 DEF Bridge!SetMode, Bridge!Rest
  <2> QED
    BY <1>1, <1>5, <2>1 DEF Bridge!SetMode, Bridge!link, Listens
<1> QED
  BY <1>2, <1>3, <1>4, <1>5 DEF Bridge!Inputs

LEMMA IoMoves ==
  ASSUME RobotTypes, BridgeStep, Bridge!IoLoop
  PROVE  Silent \/ Writes(Bridge!NextLine) \/ Fails(Bridge!NextLine)
<1> USE DEF RobotTypes
<1>1. UNCHANGED <<motors, pc, sincePass, lineAge>>
  BY DEF BridgeStep
<1>2. Bridge!IoTimer
  BY DEF Bridge!IoLoop, Bridge!IoDown, Bridge!ReadFails, Bridge!SkipStop, Bridge!Write,
         Bridge!WriteFails
<1>3. sinceIo >= IoPeriod /\ sinceIo' = 0 /\ restAge' = restAge
  BY <1>2 DEF Bridge!IoTimer, Bridge!inputs
<1>4. (Bridge!Rest)' = Bridge!Rest
  BY <1>2 DEF Bridge!IoTimer, Bridge!inputs, Bridge!Rest
<1>5. Bridge!FindsOpen => Opened
  BY DEF Bridge!FindsOpen, Bridge!MayAttempt, Opened
<1>6. \/ attemptAge' = attemptAge
      \/ ~connected /\ attemptAge >= Reconnect /\ attemptAge' = 0
  BY DEF Bridge!IoLoop, Bridge!IoDown, Bridge!ReadFails, Bridge!SkipStop, Bridge!Write,
         Bridge!WriteFails, Bridge!FindsOpen, Bridge!StaysClosed, Bridge!MayAttempt
<1>7. Serves
  BY <1>1, <1>3, <1>4, <1>6 DEF Serves
<1>8. CASE Bridge!IoDown
  BY <1>7, <1>8 DEF Bridge!IoDown, Bridge!StaysClosed, Silent
<1>9. CASE Bridge!ReadFails
  BY <1>7, <1>9 DEF Bridge!ReadFails, Silent
<1>10. CASE Bridge!SkipStop
  BY <1>5, <1>7, <1>10 DEF Bridge!SkipStop, Bridge!Duplicate, Silent, Stop
<1>11. CASE Bridge!Write
  BY <1>5, <1>7, <1>11 DEF Bridge!Write, Bridge!Duplicate, Writes, Stop
<1>12. CASE Bridge!WriteFails
  BY <1>5, <1>7, <1>12 DEF Bridge!WriteFails, Bridge!Duplicate, Fails, Stop
<1> QED
  BY <1>8, <1>9, <1>10, <1>11, <1>12 DEF Bridge!IoLoop

-----------------------------------------------------------------------------
LEMMA PulseStays ==
  ASSUME RobotTypes, FirmwareStep
  PROVE  pulse' = "none"
<1>1. CASE StartPulse
  <2>1. Head(rx) \in Bridge!BridgeLine
    BY <1>1, HeadTailProperties DEF RobotTypes, StartPulse, Take
  <2> QED
    BY <1>1, <2>1, KindFacts DEF StartPulse, cmd
<1>2. CASE EndPulse
  BY <1>2 DEF EndPulse
<1>3. CASE ~StartPulse /\ ~EndPulse
  BY <1>3 DEF FirmwareStep, Loop, EmergencyStop, SetPulsePwm, SetPulseDuration, RawCommand,
              OtherLine, EndDrain, WatchdogStop, WatchdogPass, CheckWatchdog, delaying,
              RobotTypes
<1> QED
  BY <1>1, <1>2, <1>3

LEMMA InputTypes ==
  ASSUME RobotTypes, BridgeStep, Bridge!Inputs
  PROVE  RobotTypes'
<1> USE DEF RobotTypes, BridgeStep
<1>1. UNCHANGED <<pulse, rx, connected, attemptAge, sinceIo>> /\ restAge' \in Nat
  BY DEF delaying, Bridge!Inputs, Bridge!WheelCmd, Bridge!Target, Bridge!Safety, Bridge!SetMode,
         Bridge!Received, Bridge!link
<1>2. CASE Bridge!WheelCmd
  <2>1. PICK c \in Commands : wheelCmd' = [w \in Bridge!Motor |-> Bridge!Clamp(c[w])]
    BY <1>2 DEF Bridge!WheelCmd
  <2>2. c \in [Bridge!Motor -> Int]
    BY RobotAssumption DEF Bridge!BridgeAssumption
  <2>3. \A w \in Bridge!Motor : Bridge!Clamp(c[w]) \in Bridge!Pwm
    BY <2>2, ConstantFacts DEF Bridge!Clamp, Bridge!Pwm
  <2>4. wheelCmd' \in [Motor -> Bridge!Pwm]
    BY <2>1, <2>3 DEF Motor, Bridge!Motor
  <2> QED
    BY <1>1, <1>2, <2>4 DEF Bridge!WheelCmd
<1>3. CASE Bridge!Target
  BY <1>1, <1>3 DEF Bridge!Target
<1>4. CASE Bridge!Safety
  BY <1>1, <1>4 DEF Bridge!Safety
<1>5. CASE Bridge!SetMode
  BY <1>1, <1>5 DEF Bridge!SetMode
<1> QED
  BY <1>2, <1>3, <1>4, <1>5 DEF Bridge!Inputs

LEMMA IoTypes ==
  ASSUME RobotTypes, BridgeStep, Bridge!IoLoop
  PROVE  RobotTypes'
<1>1. UNCHANGED <<pulse, wheelCmd, target, cmdAge>>
  BY DEF BridgeStep, delaying, Bridge!IoLoop, Bridge!IoDown, Bridge!ReadFails, Bridge!SkipStop,
         Bridge!Write, Bridge!WriteFails, Bridge!IoTimer, Bridge!inputs
<1>2. /\ sinceIo' = 0 /\ restAge' = restAge
      /\ attemptAge' \in {0, attemptAge}
      /\ connected' \in BOOLEAN
      /\ rx' \in {rx, Append(rx, Bridge!NextLine)}
  BY IoMoves DEF Silent, Writes, Fails, Serves
<1>3. rx' \in Seq(Bridge!BridgeLine)
  BY <1>2, NextFacts, AppendProperties DEF RobotTypes
<1> QED
  BY <1>1, <1>2, <1>3, PeriodFacts DEF RobotTypes

LEMMA TickTypes ==
  ASSUME RobotTypes, RobotTick
  PROVE  RobotTypes'
<1>1. UNCHANGED <<pulse, wheelCmd, target>> /\ cmdAge' \in Nat
  BY DEF RobotTypes, RobotTick, Tick, Bridge!Tick, Bridge!Older
<1>2. /\ sinceIo' = sinceIo + 1 /\ restAge' \in {0, restAge, restAge + 1}
      /\ attemptAge' = IF attemptAge < Reconnect THEN attemptAge + 1 ELSE attemptAge
      /\ rx' = rx /\ connected' = connected
  BY TickMoves DEF Ages
<1> QED
  BY <1>1, <1>2, PeriodFacts DEF RobotTypes

LEMMA LoopTypes ==
  ASSUME RobotTypes, FirmwareStep
  PROVE  RobotTypes'
<1>1. (rx # <<>> /\ rx' = Tail(rx)) \/ rx' = rx
  BY LoopMoves DEF Handles, Passes
<1>2. rx' \in Seq(Bridge!BridgeLine)
  BY <1>1, HeadTailProperties DEF RobotTypes
<1> QED
  BY <1>2, PulseStays DEF RobotTypes, FirmwareStep, bridgeVars

-----------------------------------------------------------------------------
(* What the head and the end of a ring tell of the refreshes to come.      *)
LEMMA SeqLength ==
  ASSUME NEW S, NEW q \in Seq(S)
  PROVE  /\ Len(q) \in Nat /\ DOMAIN q = 1 .. Len(q)
         /\ q = <<>> <=> Len(q) = 0
BY EmptySeq, LenProperties

LEMMA TailFacts ==
  ASSUME NEW S, NEW q \in Seq(S), q # <<>>
  PROVE  /\ Tail(q) \in Seq(S) /\ Len(Tail(q)) = Len(q) - 1 /\ Len(q) >= 1
         /\ \A i \in 1 .. Len(q) - 1 : Tail(q)[i] = q[i + 1]
         /\ Head(q) = q[1] /\ q[1] \in S
BY HeadTailProperties, SeqLength, ElementOfSeq

LEMMA AppendFacts ==
  ASSUME NEW S, NEW q \in Seq(S), NEW e \in S
  PROVE  /\ Append(q, e) \in Seq(S) /\ Len(Append(q, e)) = Len(q) + 1
         /\ \A i \in 1 .. Len(q) : Append(q, e)[i] = q[i]
         /\ Append(q, e)[Len(q) + 1] = e
BY AppendProperties, SeqLength

LEMMA LaterRange ==
  ASSUME NEW open, NEW last, NEW safe
  PROVE  LaterOf(open, last, safe) \in 0 .. 2
BY DEF LaterOf

LEMMA RefreshesRange ==
  ASSUME NEW S, NEW q \in Seq(S), NEW later \in 0 .. 2
  PROVE  /\ LeadingOf(q) \in 0 .. 2 /\ LeadingOf(q) <= Len(q)
         /\ RefreshesOf(q, later) \in 0 .. 4
         /\ RefreshesOf(q, later) >= LeadingOf(q)
<1>1. PICK n \in Nat : Len(q) = n /\ (q = <<>> <=> n = 0)
  BY SeqLength
<1>2. LeadingOf(q) \in 0 .. 2 /\ LeadingOf(q) <= n
  BY <1>1 DEF LeadingOf
<1>3. PICK k \in 0 .. 2 : k = LeadingOf(q)
  BY <1>2
<1>4. RefreshesOf(q, later) = k + IF k = n THEN later ELSE 0
  BY <1>1, <1>3 DEF RefreshesOf
<1> QED
  BY <1>1, <1>2, <1>3, <1>4

(* Fewer to come later are fewer in all.                                   *)
LEMMA FewerLater ==
  ASSUME NEW S, NEW q \in Seq(S), NEW l \in 0 .. 2, NEW m \in 0 .. 2, m <= l
  PROVE  RefreshesOf(q, m) <= RefreshesOf(q, l)
BY RefreshesRange DEF RefreshesOf

(* The firmware takes a STOP: one refresh less.                            *)
LEMMA FewerTaken ==
  ASSUME NEW S, NEW q \in Seq(S), NEW l \in 0 .. 2, NEW m \in 0 .. 2, m <= l,
         q # <<>>, q[1] = Stop, NoThree(q)
  PROVE  RefreshesOf(Tail(q), m) <= RefreshesOf(q, l) - 1
<1> DEFINE t == Tail(q)
<1>1. PICK n \in Nat : Len(q) = n /\ n >= 1
  BY TailFacts, SeqLength
<1>2. t \in Seq(S) /\ Len(t) = n - 1 /\ (t = <<>> <=> n = 1)
  <2>1. t \in Seq(S) /\ Len(t) = n - 1
    BY <1>1, TailFacts
  <2>2. t = <<>> <=> Len(t) = 0
    BY <2>1, SeqLength
  <2> QED
    BY <1>1, <2>1, <2>2
<1>3. \A i \in 1 .. n - 1 : t[i] = q[i + 1]
  BY <1>1, TailFacts
<1> HIDE DEF t
<1> SUFFICES RefreshesOf(t, m) <= RefreshesOf(q, l) - 1
  BY DEF t
<1>4. CASE n = 1
  <2>1. LeadingOf(q) = 1 /\ LeadingOf(t) = 0
    BY <1>1, <1>2, <1>4 DEF LeadingOf
  <2> QED
    BY <1>1, <1>2, <1>4, <2>1 DEF RefreshesOf
<1>5. CASE n > 1 /\ q[2] # Stop
  <2>1. t[1] # Stop /\ t # <<>>
    BY <1>2, <1>3, <1>5
  <2> QED
    BY <1>1, <1>2, <1>5, <2>1 DEF RefreshesOf, LeadingOf
<1>6. CASE n = 2 /\ q[2] = Stop
  <2>1. t[1] = Stop /\ t # <<>>
    BY <1>2, <1>3, <1>6
  <2> QED
    BY <1>1, <1>2, <1>6, <2>1 DEF RefreshesOf, LeadingOf
<1>7. CASE n > 2 /\ q[2] = Stop
  <2>1. t[1] = Stop /\ t # <<>> /\ t[2] = q[3]
    BY <1>2, <1>3, <1>7
  <2>2. q[3] # Stop
    BY <1>1, <1>7 DEF NoThree, Twice
  <2> QED
    BY <1>1, <1>2, <1>7, <2>1, <2>2 DEF RefreshesOf, LeadingOf
<1> QED
  BY <1>1, <1>4, <1>5, <1>6, <1>7

(* The bridge adds a STOP it had to spare, or a line that is no STOP.      *)
LEMMA FewerAdded ==
  ASSUME NEW S, NEW q \in Seq(S), NEW e \in S, NEW l \in 0 .. 2, NEW m \in 0 .. 2,
         LeadingOf(q) # Len(q) \/ e # Stop \/ m + 1 <= l
  PROVE  RefreshesOf(Append(q, e), m) <= RefreshesOf(q, l)
<1> DEFINE t == Append(q, e)
<1>1. PICK n \in Nat : Len(q) = n /\ (q = <<>> <=> n = 0)
  BY SeqLength
<1>2. t \in Seq(S) /\ Len(t) = n + 1 /\ t # <<>>
  BY <1>1, AppendFacts, SeqLength
<1>3. (\A i \in 1 .. n : t[i] = q[i]) /\ t[n + 1] = e
  BY <1>1, AppendFacts
<1> HIDE DEF t
<1> SUFFICES RefreshesOf(t, m) <= RefreshesOf(q, l)
  BY DEF t
<1>4. CASE n = 0
  <2>1. t[1] = e
    BY <1>3, <1>4
  <2> QED
    BY <1>1, <1>2, <1>4, <2>1 DEF RefreshesOf, LeadingOf
<1>5. CASE n = 1
  <2>1. t[1] = q[1] /\ t[2] = e
    BY <1>3, <1>5
  <2>2. CASE q[1] # Stop
    <3>1. LeadingOf(q) = 0 /\ LeadingOf(t) = 0
      BY <1>1, <1>2, <1>5, <2>1, <2>2 DEF LeadingOf
    <3> QED
      BY <1>1, <1>2, <1>5, <3>1 DEF RefreshesOf
  <2>3. CASE q[1] = Stop
    <3>1. LeadingOf(q) = 1 /\ LeadingOf(t) = IF e = Stop THEN 2 ELSE 1
      BY <1>1, <1>2, <1>5, <2>1, <2>3 DEF LeadingOf
    <3> QED
      BY <1>1, <1>2, <1>5, <3>1 DEF RefreshesOf
  <2> QED
    BY <2>2, <2>3
<1>6. CASE n > 1
  <2>1. t[1] = q[1] /\ t[2] = q[2]
    BY <1>3, <1>6
  <2> QED
    BY <1>1, <1>2, <1>6, <2>1 DEF RefreshesOf, LeadingOf
<1> QED
  BY <1>4, <1>5, <1>6, <1>1

(* At most two in all.                                                     *)
LEMMA AtMostTwo ==
  ASSUME NEW S, NEW q \in Seq(S), NEW open, NEW last, NEW safe,
         open /\ last # Stop /\ q # <<>> => q[Len(q)] = last,
         \A i \in 1 .. Len(q) - 1 : Twice(q, i) => safe
  PROVE  RefreshesOf(q, LaterOf(open, last, safe)) \in 0 .. 2
<1>1. PICK n \in Nat : Len(q) = n /\ (q = <<>> <=> n = 0)
  BY SeqLength
<1>2. PICK l \in 0 .. 2 : l = LaterOf(open, last, safe)
  BY LaterRange
<1>3. CASE LeadingOf(q) # n
  BY <1>1, <1>2, <1>3, RefreshesRange DEF RefreshesOf
<1>4. CASE n = 0
  BY <1>1, <1>2, <1>4 DEF RefreshesOf, LeadingOf
<1>5. CASE n = 1 /\ LeadingOf(q) = n
  <2>1. q[1] = Stop
    BY <1>1, <1>5 DEF LeadingOf
  <2>2. l <= 1
    BY <1>1, <1>2, <1>5, <2>1 DEF LaterOf
  <2> QED
    BY <1>1, <1>2, <1>5, <2>2 DEF RefreshesOf
<1>6. CASE n >= 2 /\ LeadingOf(q) = n
  <2>1. n = 2 /\ q[1] = Stop /\ q[2] = Stop
    BY <1>1, <1>6 DEF LeadingOf
  <2>2. safe
    BY <1>1, <2>1 DEF Twice
  <2>3. l = 0
    BY <1>1, <1>2, <2>1, <2>2 DEF LaterOf
  <2> QED
    BY <1>1, <1>2, <1>6, <2>1, <2>3 DEF RefreshesOf
<1> QED
  BY <1>3, <1>4, <1>5, <1>6

LEMMA LaterMono ==
  ASSUME NEW open, NEW last, NEW s, NEW t, s => t
  PROVE  LaterOf(open, last, t) <= LaterOf(open, last, s)
BY DEF LaterOf

LEMMA Budget ==
  ASSUME NEW a \in 0 .. 2, NEW b \in Nat, NEW s \in Nat
  PROVE  /\ b <= a => (2 - a) * s <= (2 - b) * s
         /\ b <= a - 1 => (2 - a) * s + s <= (2 - b) * s
         /\ b <= 2 => 0 <= (2 - b) * s
<1>1. CASE b > 2
  BY <1>1
<1>2. CASE b \in 0 .. 2
  <2>1. a \in {0, 1, 2} /\ b \in {0, 1, 2}
    BY <1>2
  <2>2. 0 * s = 0 /\ 1 * s = s /\ 2 * s = s + s
    OBVIOUS
  <2> QED
    BY <2>1, <2>2
<1> QED
  BY <1>1, <1>2

LEMMA RefreshesFew ==
  ASSUME Ground, LastInv, StopsInv
  PROVE  Refreshes \in 0 .. 2
<1>1. ASSUME NEW i \in 1 .. Len(rx) - 1, Twice(rx, i) PROVE Safe
  <2>1. attemptAge <= PassAge /\ attemptAge \in Nat
    BY <1>1, PeriodFacts DEF StopsInv, Ground, RobotTypes
  <2>2. rx # <<>>
    BY <1>1, EmptySeq
  <2>3. PassAge \in Nat /\ Left = Heard - PassAge
    BY PassFacts DEF Ground
  <2> QED
    BY <2>1, <2>2, <2>3, PeriodFacts DEF Safe, RunsOn
<1>2. connected /\ lastTx # Stop /\ rx # <<>> => rx[Len(rx)] = lastTx
  BY DEF LastInv
<1> QED
  BY <1>1, <1>2, AtMostTwo DEF Refreshes, Later, Ground, RobotTypes

LEMMA ZeroStops ==
  ASSUME Handles, Head(rx) = ZeroLine
  PROVE  motors' = Still
<1>1. motors' = [w \in Motor |-> Constrain(Number(w), -MaxPwm, MaxPwm)]
  BY LineFacts DEF Handles
<1>2. ASSUME NEW w \in Motor PROVE Number(w) = 0
  <2>1. cmd.arg = <<0, 0, 0, 0>>
    BY LineFacts DEF cmd
  <2>2. w \in DOMAIN cmd.arg /\ cmd.arg[w] = 0
    BY <2>1 DEF Motor
  <2> QED
    BY <2>2, Int16Facts DEF Number
<1>3. Constrain(0, -MaxPwm, MaxPwm) = 0
  BY ConstantFacts DEF Constrain
<1> QED
  BY <1>1, <1>2, <1>3 DEF Still

(* A line is handled.                                                      *)
LEMMA HandlesKeeps ==
  ASSUME Ground, RingInv, Handles
  PROVE  RingInv'
<1>1. PICK n \in Nat : /\ Len(rx) = n /\ n >= 1 /\ Len(rx') = n - 1
                       /\ rx' = <<>> <=> n = 1
                       /\ DOMAIN rx = 1 .. n /\ DOMAIN rx' = 1 .. n - 1
  <2>1. rx \in Seq(Bridge!BridgeLine) /\ rx # <<>> /\ rx' = Tail(rx)
    BY DEF Ground, RobotTypes, Handles
  <2>2. Tail(rx) \in Seq(Bridge!BridgeLine) /\ Len(Tail(rx)) = Len(rx) - 1 /\ Len(rx) >= 1
    BY <2>1, TailFacts
  <2>3. Len(rx) \in Nat /\ DOMAIN rx = 1 .. Len(rx)
    BY <2>1, SeqLength
  <2>4. /\ Len(rx') \in Nat /\ DOMAIN rx' = 1 .. Len(rx')
        /\ rx' = <<>> <=> Len(rx') = 0
    BY <2>1, <2>2, SeqLength
  <2>5. PICK k \in Nat : k = Len(rx)
    BY <2>3
  <2>6. /\ Len(rx) = k /\ k >= 1 /\ Len(rx') = k - 1
        /\ rx' = <<>> <=> k = 1
        /\ DOMAIN rx = 1 .. k /\ DOMAIN rx' = 1 .. k - 1
    BY <2>1, <2>2, <2>3, <2>4, <2>5
  <2> QED
    BY <2>6
<1>2. (\A i \in 1 .. n - 1 : rx'[i] = rx[i + 1]) /\ Head(rx) = rx[1]
  BY <1>1, TailFacts DEF Ground, RobotTypes, Handles
<1>3. /\ PassAge' = PassAge /\ Left' = Left
      /\ UNCHANGED <<connected, attemptAge, lastTx, sinceIo, restAge>>
      /\ (Bridge!Rest)' = Bridge!Rest /\ rx # <<>> /\ lineAge' = 0
  BY DEF Handles, bridgeVars, PassAge, Left, Bridge!Rest, Heard
<1>4. /\ PassAge \in Nat /\ PassAge <= Heard /\ Left \in Nat /\ Left = Heard - PassAge
      /\ lineAge \in Nat /\ sinceIo \in Nat /\ restAge \in Nat /\ attemptAge \in Nat
  BY PassFacts, PeriodFacts DEF Ground, RobotTypes
<1>5. Backlog'
  <2>1. CASE n = 1
    BY <1>1, <2>1 DEF Backlog
  <2>2. CASE n > 1
    <3>1. (n - 1) * IoPeriod + sinceIo <= PassAge
      BY <1>1, <1>3 DEF RingInv, Backlog
    <3>2. (n - 1 - 1) * IoPeriod <= (n - 1) * IoPeriod
      BY <1>1, PeriodFacts
    <3>3. (n - 1 - 1) * IoPeriod \in Int /\ (n - 1) * IoPeriod \in Int
      BY PeriodFacts
    <3>4. (n - 1 - 1) * IoPeriod + sinceIo <= PassAge
      BY <1>4, <3>1, <3>2, <3>3
    <3> QED
      BY <1>1, <1>3, <3>4 DEF Backlog
  <2> QED
    BY <1>1, <2>1, <2>2
<1>6. Quiet => Quiet'
  BY <1>1, <1>2 DEF Quiet
<1>7. RestInv'
  BY <1>3, <1>6 DEF RingInv, RestInv
<1>8. LastInv'
  <2> SUFFICES ASSUME connected, lastTx # Stop
      PROVE  /\ rx' # <<>> => rx'[Len(rx')] = lastTx
             /\ rx' = <<>> /\ lastTx = ZeroLine => motors' = Still
    BY <1>3 DEF LastInv
  <2>1. rx[n] = lastTx
    BY <1>1, <1>3 DEF RingInv, LastInv
  <2>2. CASE n = 1
    BY <1>1, <1>2, <2>1, <2>2, ZeroStops
  <2>3. CASE n > 1
    BY <1>1, <1>2, <2>1, <2>3
  <2> QED
    BY <1>1, <2>2, <2>3
<1>9. StopsInv'
  <2>1. ASSUME NEW i \in 1 .. n - 2 PROVE Twice(rx', i) <=> Twice(rx, i + 1)
    BY <1>1, <1>2 DEF Twice
  <2>2. \A i \in 1 .. n - 2 : Twice(rx', i) => attemptAge <= PassAge
    BY <1>1, <2>1 DEF RingInv, StopsInv
  <2>3. ASSUME NEW i \in 1 .. n - 3 PROVE ~(Twice(rx', i) /\ Twice(rx', i + 1))
    <3>1. Twice(rx', i) <=> Twice(rx, i + 1)
      BY <1>1, <2>1
    <3>2. i + 1 \in 1 .. n - 2 /\ i + 1 \in Int
      BY <1>1
    <3>3. Twice(rx', i + 1) <=> Twice(rx, i + 1 + 1)
      BY <2>1, <3>2
    <3> QED
      BY <1>1, <3>1, <3>2, <3>3 DEF RingInv, StopsInv, NoThree
  <2>4. NoThree(rx')
    BY <1>1, <2>3 DEF NoThree
  <2> QED
    BY <1>1, <1>3, <2>2, <2>4 DEF StopsInv
<1>10. SpentInv'
  <2> SUFFICES ASSUME motors' # Still, Quiet'
      PROVE  restAge <= Heard + (2 - Refreshes') * Silence + 0
    BY <1>3 DEF SpentInv, Heard, Silence
  <2>1. PICK r \in 0 .. 2 : r = Refreshes
    BY RefreshesFew DEF RingInv
  <2>2. CASE rx[1] = Stop
    <3>1. motors # Still /\ Quiet
      <4>1. Head(rx).kind # "m"
        BY <1>2, <2>2, LineFacts
      <4>2. motors' = motors
        BY <4>1 DEF Handles
      <4>3. ASSUME NEW i \in 1 .. n PROVE rx[i] \in Resting
        <5>1. CASE i = 1
          BY <2>2, <5>1 DEF Resting
        <5>2. CASE i > 1
          <6>1. i - 1 \in 1 .. n - 1 /\ rx'[i - 1] = rx[i]
            BY <1>1, <1>2, <5>2
          <6> QED
            BY <1>1, <6>1 DEF Quiet
        <5> QED
          BY <5>1, <5>2
      <4> QED
        BY <1>1, <4>2, <4>3 DEF Quiet, Still
    <3>2. restAge <= Heard + (2 - r) * Silence + lineAge
      BY <2>1, <3>1 DEF RingInv, SpentInv
    <3>3. lineAge <= Silence
      BY <3>1, PeriodFacts DEF Ground, RunInv, RobotTypes, TimesOK
    <3>4. Safe => Safe'
      BY <1>1, <1>3, <1>4, PeriodFacts DEF Safe, RunsOn, Heard, Silence
    <3>5. Later' <= Later
      BY <1>3, <3>4, LaterMono DEF Later
    <3>6. PICK k : k = Refreshes' /\ k \in Nat /\ k <= r - 1
      <4>1. Later \in 0 .. 2 /\ Later' \in 0 .. 2
        BY LaterRange DEF Later
      <4>2. RefreshesOf(Tail(rx), Later') <= RefreshesOf(rx, Later) - 1
        <5>1. rx \in Seq(Bridge!BridgeLine) /\ NoThree(rx)
          BY DEF Ground, RobotTypes, RingInv, StopsInv
        <5> QED
          BY <1>3, <2>2, <3>5, <4>1, <5>1, FewerTaken
      <4>3. RefreshesOf(Tail(rx), Later') \in Nat
        <5>1. rx \in Seq(Bridge!BridgeLine)
          BY DEF Ground, RobotTypes
        <5>2. Tail(rx) \in Seq(Bridge!BridgeLine)
          BY <1>3, <5>1, TailFacts
        <5>3. RefreshesOf(Tail(rx), Later') \in 0 .. 4
          BY <4>1, <5>2, RefreshesRange
        <5> QED
          BY <5>3
      <4> QED
        BY <2>1, <4>2, <4>3 DEF Refreshes, Handles
    <3>7. (2 - r) * Silence + Silence <= (2 - k) * Silence
      BY <3>6, Budget, PeriodFacts
    <3>8. (2 - r) * Silence \in Int /\ (2 - k) * Silence \in Int
      BY <3>6, PeriodFacts
    <3>9. restAge <= Heard + (2 - k) * Silence + 0
      BY <1>4, <3>2, <3>3, <3>7, <3>8, PeriodFacts
    <3> QED
      BY <3>6, <3>9
  <2>3. CASE rx[1] = ZeroLine
    BY <1>2, <2>3, ZeroStops
  <2>4. CASE rx[1] \notin Resting
    <3>1. restAge <= Heard
      <4>1. ~Quiet
        BY <1>1, <2>4 DEF Quiet
      <4> QED
        BY <1>4, <4>1, PeriodFacts DEF RingInv, RestInv
    <3>2. ASSUME NEW i \in 1 .. Len(rx') - 1, Twice(rx', i) PROVE Safe'
      <4>1. attemptAge <= PassAge
        BY <1>3, <1>9, <3>2 DEF StopsInv
      <4>2. rx' # <<>>
        BY <1>1, <3>2
      <4> QED
        BY <1>3, <1>4, <4>1, <4>2, PeriodFacts DEF Safe, RunsOn, Heard, Silence
    <3>3. connected' /\ lastTx' # Stop /\ rx' # <<>> => rx'[Len(rx')] = lastTx'
      BY <1>8 DEF LastInv
    <3>4. rx' \in Seq(Bridge!BridgeLine)
      BY TailFacts DEF Ground, RobotTypes, Handles
    <3>5. PICK k \in 0 .. 2 : k = Refreshes'
      BY <3>2, <3>3, <3>4, AtMostTwo DEF Refreshes, Later
    <3>6. 0 <= (2 - k) * Silence
      <4>1. k \in Nat /\ k <= 2 /\ 0 \in 0 .. 2
        BY <3>5
      <4> QED
        BY <4>1, Budget, PeriodFacts
    <3>7. (2 - k) * Silence \in Int
      BY <3>5, PeriodFacts
    <3>8. restAge <= Heard + (2 - k) * Silence + 0
      BY <1>4, <3>1, <3>6, <3>7, PeriodFacts
    <3> QED
      BY <3>5, <3>8
  <2> QED
    BY <2>2, <2>3, <2>4 DEF Resting
<1> QED
  BY <1>5, <1>7, <1>8, <1>9, <1>10 DEF RingInv

-----------------------------------------------------------------------------
LEMMA Shifted ==
  ASSUME NEW r \in Nat, NEW u \in Nat, NEW l \in Nat, NEW m \in Nat, NEW h \in Nat,
         NEW a \in Int, NEW b \in Int, a <= b, u + l <= r + m, r <= h + a + l
  PROVE  u <= h + b + m
OBVIOUS

(* A step that leaves the ring alone.                                      *)
LEMMA SpentKept ==
  ASSUME Ground, Ground', RingInv, rx' = rx,
         motors' # Still => motors # Still /\ Later' <= Later,
         restAge' + lineAge <= restAge + lineAge'
  PROVE  SpentInv'
<1> SUFFICES ASSUME motors' # Still, Quiet'
    PROVE  restAge' <= Heard + (2 - Refreshes') * Silence + lineAge'
  BY DEF SpentInv, Heard, Silence
<1>1. PICK r \in 0 .. 2 : r = Refreshes
  BY RefreshesFew DEF RingInv
<1>2. motors # Still /\ Quiet
  BY DEF Quiet, Still
<1>3. restAge <= Heard + (2 - r) * Silence + lineAge
  BY <1>1, <1>2 DEF RingInv, SpentInv
<1>4. PICK k : k = Refreshes' /\ k \in Nat /\ k <= r
  <2>1. Later \in 0 .. 2 /\ Later' \in 0 .. 2 /\ Later' <= Later
    BY LaterRange DEF Later, Still
  <2>2. rx \in Seq(Bridge!BridgeLine)
    BY DEF Ground, RobotTypes
  <2>3. /\ RefreshesOf(rx, Later') <= RefreshesOf(rx, Later)
        /\ RefreshesOf(rx, Later') \in 0 .. 4
    BY <2>1, <2>2, FewerLater, RefreshesRange
  <2> QED
    BY <1>1, <2>3 DEF Refreshes
<1>5. (2 - r) * Silence <= (2 - k) * Silence
  BY <1>4, Budget, PeriodFacts
<1>6. PICK a \in Int, b \in Int : a = (2 - r) * Silence /\ b = (2 - k) * Silence
  <2>1. (2 - r) * Silence \in Int /\ (2 - k) * Silence \in Int
    BY <1>1, <1>4, PeriodFacts
  <2> QED
    BY <2>1
<1>7. restAge \in Nat /\ restAge' \in Nat /\ lineAge \in Nat /\ lineAge' \in Nat
  BY PeriodFacts DEF Ground, RobotTypes, TimesOK
<1>8. restAge <= Heard + a + lineAge /\ a <= b
  BY <1>3, <1>5, <1>6
<1>9. restAge' <= Heard + b + lineAge'
  BY <1>6, <1>7, <1>8, PeriodFacts, Shifted
<1> QED
  BY <1>4, <1>6, <1>9

LEMMA GroundFacts ==
  ASSUME Ground
  PROVE  /\ PassAge \in Nat /\ PassAge <= Heard /\ Left \in Nat /\ Left = Heard - PassAge
         /\ lineAge \in Nat /\ sinceIo \in Nat /\ restAge \in Nat /\ attemptAge \in Nat
         /\ Len(rx) \in Nat /\ DOMAIN rx = 1 .. Len(rx)
         /\ rx = <<>> <=> Len(rx) = 0
         /\ motors # Still => lineAge <= Silence /\ lineAge < ClockMod
<1>1. PassAge \in Nat /\ PassAge <= Heard /\ Left \in Nat /\ Left = Heard - PassAge
  BY PassFacts DEF Ground
<1>2. lineAge \in Nat /\ sinceIo \in Nat /\ restAge \in Nat /\ attemptAge \in Nat
  BY PeriodFacts DEF Ground, RobotTypes, TimesOK
<1>3. rx \in Seq(Bridge!BridgeLine)
  BY DEF Ground, RobotTypes
<1>4. motors # Still => lineAge <= Silence /\ lineAge < ClockMod
  BY PeriodFacts, ConstantFacts DEF Ground, RobotTypes, RunInv, TimesOK
<1> QED
  BY <1>1, <1>2, <1>3, <1>4, SeqLength

(* The end of the drain, the watchdog.                                     *)
LEMMA PassesKeeps ==
  ASSUME Ground, Ground', RingInv, Passes
  PROVE  RingInv'
<1>1. /\ UNCHANGED <<connected, attemptAge, lastTx, sinceIo, restAge>>
      /\ (Bridge!Rest)' = Bridge!Rest /\ rx' = rx /\ lineAge' = lineAge
      /\ motors' # Still => motors # Still
  BY DEF Passes, bridgeVars, Bridge!Rest
<1>2. rx = <<>> \/ (PassAge' \in Nat /\ PassAge <= PassAge' /\ Left' <= Left /\ Left' \in Nat)
  <2> SUFFICES ASSUME rx # <<>>
      PROVE  PassAge' \in Nat /\ PassAge <= PassAge' /\ Left' <= Left /\ Left' \in Nat
    OBVIOUS
  <2>1. pc = "watchdog" /\ pc' = "drain" /\ sincePass' = 0
    BY DEF Passes
  <2>2. PassAge = sincePass /\ PassAge' = MaxPass
    BY <2>1, PeriodFacts DEF PassAge, Ground, TimesOK
  <2>3. sincePass \in Nat /\ sincePass <= MaxPass
    BY PeriodFacts DEF Ground, TimesOK
  <2>4. Left' = Heard - PassAge'
    BY DEF Left, Heard
  <2> QED
    BY <2>2, <2>3, <2>4, GroundFacts, PeriodFacts
<1>3. Quiet' <=> Quiet
  BY <1>1 DEF Quiet
<1>4. rx = <<>> => Quiet
  BY GroundFacts DEF Quiet
<1>5. Backlog'
  <2>1. CASE rx = <<>>
    BY <1>1, <2>1 DEF Backlog
  <2>2. CASE rx # <<>>
    <3>1. (Len(rx) - 1) * IoPeriod + sinceIo <= PassAge
      BY <2>2 DEF RingInv, Backlog
    <3>2. PICK b \in Int : b = (Len(rx) - 1) * IoPeriod
      BY GroundFacts, PeriodFacts
    <3>3. b + sinceIo <= PassAge'
      BY <1>2, <2>2, <3>1, <3>2, GroundFacts
    <3> QED
      BY <1>1, <3>2, <3>3 DEF Backlog
  <2> QED
    BY <2>1, <2>2
<1>6. RestInv'
  BY <1>1, <1>2, <1>3, <1>4, GroundFacts DEF RingInv, RestInv
<1>7. LastInv'
  BY <1>1 DEF RingInv, LastInv, Passes
<1>8. StopsInv'
  <2>1. ASSUME NEW i \in 1 .. Len(rx) - 1, Twice(rx, i) PROVE attemptAge <= PassAge'
    BY <1>2, <2>1, GroundFacts DEF RingInv, StopsInv
  <2> QED
    BY <1>1, <2>1 DEF RingInv, StopsInv
<1>9. SpentInv'
  <2>1. Safe => Safe'
    BY <1>1, <1>2, GroundFacts, PeriodFacts DEF Safe, RunsOn, Heard, Silence
  <2>2. Later' <= Later
    BY <1>1, <2>1, LaterMono DEF Later
  <2> QED
    BY <1>1, <2>2, GroundFacts, SpentKept
<1> QED
  BY <1>5, <1>6, <1>7, <1>8, <1>9 DEF RingInv

(* A millisecond.                                                          *)
LEMMA AgesKeeps ==
  ASSUME Ground, Ground', RingInv, Ages
  PROVE  RingInv'
<1>1. /\ rx' = rx /\ motors' = motors /\ UNCHANGED <<connected, lastTx>>
      /\ sinceIo' = sinceIo + 1
      /\ ~(Bridge!Rest)' => restAge' = 0
  BY DEF Ages
<1>2. PassAge' = PassAge + 1 /\ Left' = Left - 1
  BY PeriodFacts, GroundFacts DEF Ages, PassAge, Left, Heard, Ground, TimesOK
<1>3. /\ restAge' \in Nat /\ restAge' <= restAge + 1
      /\ attemptAge' \in Nat /\ attemptAge' <= attemptAge + 1
      /\ attemptAge < Reconnect => attemptAge' = attemptAge + 1
  <2>1. restAge' \in {0, restAge, restAge + 1}
    BY DEF Ages
  <2>2. attemptAge' = IF attemptAge < Reconnect THEN attemptAge + 1 ELSE attemptAge
    BY DEF Ages
  <2> QED
    BY <2>1, <2>2, GroundFacts, PeriodFacts
<1>4. motors # Still => lineAge' = lineAge + 1
  BY GroundFacts DEF Ages, Older
<1>5. Quiet' <=> Quiet
  BY <1>1 DEF Quiet
<1>6. Backlog'
  <2>1. PICK b \in Int : b = (Len(rx) - 1) * IoPeriod
    BY GroundFacts, PeriodFacts
  <2>2. rx # <<>> => b + sinceIo <= PassAge
    BY <2>1 DEF RingInv, Backlog
  <2>3. rx # <<>> => b + (sinceIo + 1) <= PassAge + 1
    BY <2>2, GroundFacts
  <2> QED
    BY <1>1, <1>2, <2>1, <2>3 DEF Backlog
<1>7. RestInv'
  BY <1>1, <1>2, <1>3, <1>5, GroundFacts DEF RingInv, RestInv
<1>8. LastInv'
  BY <1>1 DEF RingInv, LastInv, Still
<1>9. StopsInv'
  <2>1. ASSUME NEW i \in 1 .. Len(rx) - 1, Twice(rx, i) PROVE attemptAge' <= PassAge'
    BY <1>2, <1>3, <2>1, GroundFacts DEF RingInv, StopsInv
  <2> QED
    BY <1>1, <2>1 DEF RingInv, StopsInv
<1>10. SpentInv'
  <2> SUFFICES ASSUME motors # Still PROVE SpentInv'
    BY <1>1 DEF SpentInv, Still
  <2>1. RunsOn' = RunsOn - 1 /\ RunsOn \in Nat
    <3>1. CASE rx = <<>>
      <4>1. RunsOn = Silence - lineAge /\ RunsOn' = Silence - lineAge'
        BY <1>1, <3>1 DEF RunsOn, Silence
      <4> QED
        BY <1>4, <4>1, GroundFacts, PeriodFacts
    <3>2. CASE rx # <<>>
      <4>1. RunsOn = Left + Silence /\ RunsOn' = Left' + Silence
        BY <1>1, <3>2 DEF RunsOn, Silence
      <4> QED
        <5>1. Left \in Nat /\ Left' = Left - 1 /\ Silence \in Nat
          BY <1>2, GroundFacts, PeriodFacts
        <5> QED
          BY <4>1, <5>1
    <3> QED
      BY <3>1, <3>2
  <2>2. Safe => Safe'
    <3>1. Safe => attemptAge < Reconnect
      BY <2>1, GroundFacts, PeriodFacts DEF Safe
    <3> QED
      BY <1>3, <2>1, <3>1, GroundFacts, PeriodFacts DEF Safe
  <2>3. Later' <= Later
    BY <1>1, <2>2, LaterMono DEF Later
  <2>4. restAge' + lineAge <= restAge + lineAge'
    BY <1>3, <1>4, GroundFacts
  <2> QED
    BY <1>1, <2>3, <2>4, SpentKept
<1> QED
  BY <1>6, <1>7, <1>8, <1>9, <1>10 DEF RingInv

(* A message to the bridge.                                                *)
LEMMA ListensKeeps ==
  ASSUME Ground, Ground', RingInv, Listens
  PROVE  RingInv'
<1>1. /\ UNCHANGED <<rx, motors, lineAge, connected, attemptAge, lastTx, sinceIo>>
      /\ PassAge' = PassAge /\ Safe' = Safe /\ Later' = Later
      /\ ~(Bridge!Rest)' => restAge' = 0
  BY DEF Listens, PassAge, Safe, RunsOn, Left, Heard, Silence, Later
<1>2. restAge' \in Nat /\ restAge' <= restAge
  BY GroundFacts DEF Listens
<1>3. Quiet' <=> Quiet
  BY <1>1 DEF Quiet
<1>4. Backlog' /\ LastInv' /\ StopsInv'
  BY <1>1 DEF RingInv, Backlog, LastInv, StopsInv, Still
<1>5. RestInv'
  BY <1>1, <1>2, <1>3, GroundFacts DEF RingInv, RestInv
<1>6. SpentInv'
  <2>1. Later' <= Later
    BY <1>1, LaterRange DEF Later
  <2> QED
    BY <1>1, <1>2, <2>1, GroundFacts, SpentKept
<1> QED
  BY <1>4, <1>5, <1>6 DEF RingInv

(* What every io_loop leaves.                                              *)
LEMMA ServesFacts ==
  ASSUME Ground, Serves
  PROVE  /\ UNCHANGED <<motors, lineAge, restAge>> /\ PassAge' = PassAge /\ Left' = Left
         /\ (Bridge!Rest)' = Bridge!Rest
         /\ sinceIo >= IoPeriod /\ sinceIo' = 0
         /\ attemptAge' \in {0, attemptAge}
BY DEF Serves, PassAge, Left, Heard

LEMMA Below ==
  ASSUME NEW a \in Int, NEW b \in Int, NEW c \in Int, a <= b, b < c
  PROVE  0 + a < c
OBVIOUS

(* After an attempt to open the port the wheels stop before the next.      *)
LEMMA AttemptIsSafe ==
  ASSUME Ground, Serves, attemptAge' = 0
  PROVE  Safe'
<1>1. PICK l \in Nat, s \in Nat : l = Left /\ s = Silence /\ l + s < Reconnect
  <2>1. Left \in Nat /\ Silence \in Nat /\ Left + Silence < Reconnect
    BY GroundFacts, PeriodFacts
  <2> QED
    BY <2>1
<1>2. PICK a \in Nat : a = lineAge
  BY GroundFacts
<1>3. RunsOn' = IF rx' = <<>> THEN s - a ELSE l + s
  BY <1>1, <1>2, ServesFacts DEF RunsOn, Silence
<1>4. RunsOn' <= l + s /\ RunsOn' \in Int
  BY <1>1, <1>2, <1>3
<1>5. l + s \in Int /\ Reconnect \in Int
  BY <1>1, PeriodFacts
<1>6. 0 + RunsOn' < Reconnect
  BY <1>1, <1>4, <1>5, Below
<1> QED
  BY <1>6 DEF Safe

(* While the wheels run a port that may be tried again is not safe.        *)
LEMMA LateIsUnsafe ==
  ASSUME Ground, motors # Still, attemptAge >= Reconnect
  PROVE  ~Safe
<1>1. RunsOn \in Nat
  BY GroundFacts, PeriodFacts DEF RunsOn
<1> QED
  BY <1>1, GroundFacts, PeriodFacts DEF Safe

LEMMA SafeKept ==
  ASSUME Ground, Serves, rx' = rx, attemptAge' = attemptAge
  PROVE  Safe' = Safe
BY ServesFacts DEF Safe, RunsOn, Silence

(* Nothing is added to the ring.                                           *)
LEMMA UnsentKeeps ==
  ASSUME Ground, Ground', RingInv, Serves, rx' = rx,
         connected' => lastTx' = Stop,
         motors # Still => Later' <= Later
  PROVE  RingInv'
<1>1. Quiet' <=> Quiet
  BY DEF Quiet
<1>2. Backlog'
  <2>1. PICK b \in Int : b = (Len(rx) - 1) * IoPeriod
    BY GroundFacts, PeriodFacts
  <2>2. rx # <<>> => b + sinceIo <= PassAge
    BY <2>1 DEF RingInv, Backlog
  <2>3. rx # <<>> => b + 0 <= PassAge
    BY <2>1, <2>2, GroundFacts
  <2> QED
    BY <2>1, <2>3, ServesFacts DEF Backlog
<1>3. RestInv'
  BY <1>1, ServesFacts DEF RingInv, RestInv
<1>4. LastInv'
  BY DEF LastInv
<1>5. StopsInv'
  <2>1. attemptAge' <= attemptAge
    BY ServesFacts, GroundFacts
  <2>2. ASSUME NEW i \in 1 .. Len(rx) - 1, Twice(rx, i) PROVE attemptAge' <= PassAge
    BY <2>2, ServesFacts, GroundFacts DEF RingInv, StopsInv
  <2> QED
    BY <2>2, ServesFacts DEF RingInv, StopsInv
<1>6. SpentInv'
  <2>1. motors' = motors /\ restAge' = restAge /\ lineAge' = lineAge
    BY ServesFacts
  <2>2. restAge' + lineAge <= restAge + lineAge'
    BY <2>1, GroundFacts
  <2>3. motors' # Still => motors # Still /\ Later' <= Later
    BY <2>1 DEF Still
  <2> QED
    BY <2>2, <2>3, SpentKept
<1> QED
  BY <1>2, <1>3, <1>4, <1>5, <1>6 DEF RingInv

LEMMA SilentKeeps ==
  ASSUME Ground, Ground', RingInv, Silent
  PROVE  RingInv'
<1>1. Serves /\ rx' = rx /\ lastTx' = lastTx /\ connected' \in BOOLEAN
  BY DEF Silent
<1>2. connected' => lastTx' = Stop
  BY <1>1 DEF Silent
<1>3. Later' <= Later
  <2>1. Later' = LaterOf(connected', lastTx, Safe')
    BY <1>1 DEF Later
  <2>2. CASE attemptAge' = 0 /\ lastTx = Stop
    <3>1. Safe'
      BY <1>1, <2>2, AttemptIsSafe
    <3>2. Later' = 0
      BY <2>1, <2>2, <3>1 DEF LaterOf
    <3> QED
      BY <3>2, LaterRange DEF Later
  <2>3. CASE attemptAge' = 0 /\ lastTx # Stop
    <3>1. Safe' /\ ~connected'
      BY <1>1, <1>2, <2>3, AttemptIsSafe
    <3>2. Later' = 0
      BY <2>1, <2>3, <3>1 DEF LaterOf
    <3> QED
      BY <3>2, LaterRange DEF Later
  <2>4. CASE attemptAge' = attemptAge /\ attemptAge' # 0
    <3>1. Safe' = Safe
      BY <1>1, <2>4, SafeKept
    <3>2. connected' => connected
      BY <2>4 DEF Silent, Opened
    <3> QED
      BY <1>2, <1>1, <2>1, <3>1, <3>2 DEF LaterOf, Later
  <2> QED
    BY <1>1, <2>2, <2>3, <2>4, ServesFacts
<1> QED
  BY <1>1, <1>2, <1>3, UnsentKeeps

LEMMA FailsKeeps ==
  ASSUME Ground, Ground', RingInv, NEW line, Fails(line)
  PROVE  RingInv'
<1>1. Serves /\ rx' = rx /\ lastTx' = line /\ connected' = FALSE
  BY DEF Fails
<1>2. Later' <= Later
  <2>1. Later' = LaterOf(FALSE, line, Safe')
    BY <1>1 DEF Later
  <2>2. CASE connected
    <3>1. attemptAge' = attemptAge
      BY <1>1, <2>2 DEF Serves
    <3>2. Safe' = Safe
      BY <1>1, <3>1, SafeKept
    <3> QED
      BY <2>1, <2>2, <3>2 DEF LaterOf, Later, Fails
  <2>3. CASE ~connected
    <3>1. attemptAge' = 0
      BY <2>3 DEF Fails, Opened
    <3>2. Later' = 0
      BY <1>1, <2>1, <3>1, AttemptIsSafe DEF LaterOf
    <3> QED
      BY <3>2, LaterRange DEF Later
  <2> QED
    BY <2>2, <2>3
<1> QED
  BY <1>1, <1>2, UnsentKeeps

-----------------------------------------------------------------------------
(* A line that is written finds room.                                      *)
LEMMA MoreTimes ==
  ASSUME NEW a \in Nat, NEW b \in Nat, NEW p \in Nat, a * p < b * p
  PROVE  a < b
<1>1. CASE b <= a
  <2>1. PICK d \in Nat : a = b + d
    BY <1>1
  <2>2. a * p = b * p + d * p /\ d * p \in Nat /\ b * p \in Nat
    BY <2>1
  <2> QED
    BY <2>2
<1> QED
  BY <1>1

LEMMA RoomLeft ==
  ASSUME Ground, Backlog, Serves, RingHolds
  PROVE  Len(rx) < RxSize /\ Len(rx) * IoPeriod <= PassAge
<1>1. PICK n \in Nat : n = Len(rx)
  BY GroundFacts
<1>2. n * IoPeriod <= PassAge
  <2>1. CASE n = 0
    BY <2>1, GroundFacts, PeriodFacts
  <2>2. CASE n > 0
    <3>1. (n - 1) * IoPeriod + sinceIo <= PassAge
      BY <1>1, <2>2, GroundFacts DEF Backlog
    <3>2. PICK b \in Int : b = (n - 1) * IoPeriod
      BY PeriodFacts
    <3>3. n * IoPeriod = b + IoPeriod
      BY <3>2, PeriodFacts
    <3>4. b + IoPeriod <= PassAge
      BY <3>1, <3>2, ServesFacts, GroundFacts, PeriodFacts
    <3> QED
      BY <3>3, <3>4
  <2> QED
    BY <2>1, <2>2
<1>3. n * IoPeriod < RxSize * IoPeriod
  <2>1. PICK b \in Nat, c \in Nat : b = n * IoPeriod /\ c = RxSize * IoPeriod
    BY PeriodFacts
  <2> QED
    BY <1>2, <2>1, GroundFacts, PeriodFacts DEF RingHolds
<1> QED
  BY <1>1, <1>2, <1>3, MoreTimes, PeriodFacts

LEMMA AllStops ==
  ASSUME NEW S, NEW q \in Seq(S), q # <<>>, LeadingOf(q) = Len(q)
  PROVE  q[Len(q)] = Stop
<1>1. PICK n \in Nat : n = Len(q) /\ n >= 1
  BY SeqLength
<1>2. n \in {1, 2} /\ q[1] = Stop /\ (n = 2 => q[2] = Stop)
  BY <1>1 DEF LeadingOf
<1> QED
  BY <1>1, <1>2

(* A line is written: the only io_loop that adds to the ring.              *)
LEMMA WritesKeeps ==
  ASSUME Ground, Ground', RingInv, RingHolds,
         NEW line \in Bridge!BridgeLine, Bridge!Rest => line \in Resting, Writes(line)
  PROVE  RingInv'
<1>1. /\ Serves /\ Opened /\ lastTx' = line /\ connected' = TRUE
      /\ ~(line = Stop /\ lastTx = Stop)
  BY DEF Writes
<1>2. PICK n \in Nat : n = Len(rx) /\ n < RxSize /\ n * IoPeriod <= PassAge
  BY <1>1, RoomLeft, GroundFacts DEF RingInv
<1>3. rx' = Append(rx, line) /\ rx \in Seq(Bridge!BridgeLine)
  BY <1>2 DEF Writes, Ground, RobotTypes
<1>4. /\ Len(rx') = n + 1 /\ rx' # <<>>
      /\ \A i \in 1 .. n : rx'[i] = rx[i]
      /\ rx'[n + 1] = line
      /\ DOMAIN rx = 1 .. n /\ DOMAIN rx' = 1 .. n + 1
  <2>1. /\ Append(rx, line) \in Seq(Bridge!BridgeLine)
        /\ Len(Append(rx, line)) = Len(rx) + 1
        /\ \A i \in 1 .. Len(rx) : Append(rx, line)[i] = rx[i]
        /\ Append(rx, line)[Len(rx) + 1] = line
    BY <1>3, AppendFacts
  <2>2. rx' \in Seq(Bridge!BridgeLine)
    BY <1>3, <2>1
  <2>3. /\ DOMAIN rx' = 1 .. Len(rx')
        /\ rx' = <<>> <=> Len(rx') = 0
    BY <2>2, SeqLength
  <2> QED
    BY <1>2, <1>3, <2>1, <2>3, GroundFacts
<1>5. connected /\ lastTx # Stop /\ n >= 1 => rx[n] = lastTx
  BY <1>2, GroundFacts DEF RingInv, LastInv
<1>6. attemptAge' <= attemptAge /\ attemptAge' \in Nat
  BY <1>1, ServesFacts, GroundFacts
<1>7. Backlog'
  <2>1. (n + 1 - 1) * IoPeriod + 0 <= PassAge
    <3>1. PICK b \in Nat : b = n * IoPeriod /\ b <= PassAge
      BY <1>2, PeriodFacts
    <3>2. (n + 1 - 1) * IoPeriod = b
      BY <3>1, PeriodFacts
    <3> QED
      BY <3>1, <3>2, GroundFacts
  <2> QED
    BY <1>1, <1>4, <2>1, ServesFacts DEF Backlog
<1>8. RestInv'
  <2>1. ASSUME ~Quiet' PROVE restAge <= PassAge
    <3>1. CASE ~Quiet
      BY <3>1 DEF RingInv, RestInv
    <3>2. CASE Quiet
      <4>1. line \notin Resting
        <5>1. PICK i \in 1 .. n + 1 : rx'[i] \notin Resting
          BY <1>4, <2>1 DEF Quiet
        <5>2. CASE i <= n
          BY <1>4, <3>2, <5>1, <5>2 DEF Quiet
        <5>3. CASE i = n + 1
          BY <1>4, <5>1, <5>3
        <5> QED
          BY <5>1, <5>2, <5>3
      <4>2. restAge = 0
        BY <4>1 DEF RingInv, RestInv
      <4> QED
        BY <4>2, GroundFacts
    <3> QED
      BY <3>1, <3>2
  <2> QED
    BY <1>1, <2>1, ServesFacts DEF RingInv, RestInv
<1>9. LastInv'
  BY <1>1, <1>4 DEF LastInv
<1>10. StopsInv'
  <2>1. ASSUME NEW i \in 1 .. n - 1 PROVE Twice(rx', i) <=> Twice(rx, i)
    BY <1>4 DEF Twice
  <2>2. ASSUME NEW i \in 1 .. n - 1, Twice(rx', i) PROVE attemptAge <= PassAge
    BY <1>2, <2>1, <2>2 DEF RingInv, StopsInv
  <2>3. ASSUME n >= 1, Twice(rx', n)
        PROVE  ~connected /\ attemptAge' = 0 /\ attemptAge >= Reconnect
    <3>1. rx[n] = Stop /\ line = Stop
      BY <1>4, <2>3 DEF Twice
    <3> QED
      BY <1>1, <1>5, <2>3, <3>1 DEF Opened
  <2>4. ASSUME NEW i \in 1 .. n, Twice(rx', i) PROVE attemptAge' <= PassAge
    <3>1. CASE i < n
      BY <1>6, <2>2, <2>4, <3>1, GroundFacts
    <3>2. CASE i = n
      BY <2>3, <2>4, <3>2, GroundFacts
    <3> QED
      BY <3>1, <3>2
  <2>5. ASSUME NEW i \in 1 .. n - 1, Twice(rx', i), Twice(rx', i + 1) PROVE FALSE
    <3>1. CASE i < n - 1
      <4>1. Twice(rx, i) /\ Twice(rx, i + 1)
        BY <2>1, <2>5, <3>1
      <4> QED
        BY <1>2, <3>1, <4>1 DEF RingInv, StopsInv, NoThree
    <3>2. CASE i = n - 1
      <4>1. attemptAge <= PassAge
        BY <2>2, <2>5
      <4>2. attemptAge >= Reconnect
        BY <2>3, <2>5, <3>2
      <4> QED
        BY <4>1, <4>2, GroundFacts, PeriodFacts
    <3> QED
      BY <3>1, <3>2
  <2>6. NoThree(rx')
    BY <1>4, <2>5 DEF NoThree
  <2> QED
    BY <1>1, <1>4, <2>4, <2>6, ServesFacts DEF StopsInv
<1>11. SpentInv'
  <2> SUFFICES ASSUME motors # Still, Quiet'
      PROVE  restAge <= Heard + (2 - Refreshes') * Silence + lineAge
    BY <1>1, ServesFacts DEF SpentInv, Heard, Silence, Still
  <2>1. line \in Resting
    BY <1>4 DEF Quiet
  <2>2. Quiet
    BY <1>4 DEF Quiet
  <2>3. PICK r \in 0 .. 2 : r = Refreshes
    BY RefreshesFew DEF RingInv
  <2>4. restAge <= Heard + (2 - r) * Silence + lineAge
    BY <2>2, <2>3 DEF RingInv, SpentInv
  <2>5. LeadingOf(rx) # Len(rx) \/ line # Stop \/ Later' + 1 <= Later
    <3> SUFFICES ASSUME LeadingOf(rx) = Len(rx), line = Stop PROVE Later' + 1 <= Later
      OBVIOUS
    <3>1. lastTx # Stop
      BY <1>1
    <3>2. CASE connected
      <4>1. Later = 2
        BY <3>1, <3>2 DEF Later, LaterOf
      <4>2. Later' = 0 \/ Later' = 1
        BY <1>1 DEF Later, LaterOf
      <4> QED
        BY <4>1, <4>2
    <3>3. CASE ~connected
      <4>1. attemptAge >= Reconnect /\ attemptAge' = 0
        BY <1>1, <3>3 DEF Opened
      <4>2. ~Safe /\ Safe'
        BY <1>1, <4>1, AttemptIsSafe, LateIsUnsafe
      <4>3. Later = 1
        BY <3>1, <3>3, <4>2 DEF Later, LaterOf
      <4>4. Later' = 0
        BY <1>1, <4>2 DEF Later, LaterOf
      <4> QED
        BY <4>3, <4>4
    <3> QED
      BY <3>2, <3>3
  <2>6. PICK k : k = Refreshes' /\ k \in Nat /\ k <= r
    <3>1. PICK l \in 0 .. 2, m \in 0 .. 2 : l = Later /\ m = Later'
      BY LaterRange DEF Later
    <3>2. RefreshesOf(Append(rx, line), m) <= RefreshesOf(rx, l)
      BY <1>3, <2>5, <3>1, FewerAdded
    <3>3. RefreshesOf(rx', m) \in 0 .. 4
      BY <1>3, <3>1, AppendFacts, RefreshesRange
    <3> QED
      BY <1>3, <2>3, <3>1, <3>2, <3>3 DEF Refreshes
  <2>7. (2 - r) * Silence <= (2 - k) * Silence
    BY <2>6, Budget, PeriodFacts
  <2>8. PICK a \in Int, b \in Int : a = (2 - r) * Silence /\ b = (2 - k) * Silence
    <3>1. (2 - r) * Silence \in Int /\ (2 - k) * Silence \in Int
      BY <2>3, <2>6, PeriodFacts
    <3> QED
      BY <3>1
  <2>9. restAge <= Heard + b + lineAge
    BY <2>4, <2>7, <2>8, GroundFacts, PeriodFacts
  <2> QED
    BY <2>6, <2>8, <2>9
<1> QED
  BY <1>7, <1>8, <1>9, <1>10, <1>11 DEF RingInv

LEMMA TimesStep == TimesOK /\ [Next]_vars => TimesOK'
<1> SUFFICES ASSUME TimesOK, [Next]_vars PROVE TimesOK'
  OBVIOUS
<1> USE DEF TimesOK
<1>1. CASE Take
  BY <1>1, ConstantFacts DEF Take
<1>2. CASE EndPulse \/ EndDrain
  BY <1>2 DEF EndPulse, EndDrain
<1>3. CASE CheckWatchdog
  BY <1>3, ConstantFacts DEF CheckWatchdog
<1>4. CASE Receive
  BY <1>4 DEF Receive
<1>5. CASE Tick
  BY <1>5, ConstantFacts DEF Tick, Older
<1>6. CASE UNCHANGED vars
  BY <1>6 DEF vars
<1> QED
  BY <1>1, <1>2, <1>3, <1>4, <1>5, <1>6
     DEF Next, Loop, StartPulse, EmergencyStop, SetPulsePwm, SetPulseDuration, RawCommand,
         OtherLine, WatchdogStop, WatchdogPass

(* What does not depend on the lines is the firmware's own invariant.      *)
LEMMA FirmwareKeeps ==
  ASSUME TimesOK, RunInv, PulseInv, [RobotNext]_robotVars
  PROVE  TimesOK' /\ RunInv' /\ PulseInv'
<1>1. CASE [Next]_vars
  BY <1>1, TimesStep, RunStep, PulseStep
<1>2. CASE SwitchOn
  <2>1. TimesOK'
    BY <1>2, ConstantFacts DEF SwitchOn, TimesOK
  <2>2. RunInv' /\ PulseInv'
    BY <1>2 DEF SwitchOn, RunInv, PulseInv, Still
  <2> QED
    BY <2>1, <2>2
<1>3. CASE BridgeStep
  BY <1>3 DEF BridgeStep, TimesOK, RunInv, PulseInv, Drive, Still, Elapsed, delaying, config
<1> QED
  BY <1>1, <1>2, <1>3 DEF RobotNext, Bench, FirmwareStep, RobotTick, Next, robotVars

LEMMA SwitchOnTypes ==
  ASSUME BridgeFresh, SwitchOn
  PROVE  RobotTypes'
<1>1. Bridge!Zero \in [Motor -> Bridge!Pwm]
  BY ConstantFacts DEF Bridge!Zero, Bridge!Motor, Motor, Bridge!Pwm
<1>2. Reconnect \in 0 .. Reconnect
  BY PeriodFacts
<1>3. rx' \in Seq(Bridge!BridgeLine)
  BY EmptySeq DEF SwitchOn
<1> QED
  BY <1>1, <1>2, <1>3 DEF SwitchOn, BridgeFresh, RobotTypes, bridgeVars

LEMMA BaseInit == RobotInit => BaseInv
<1> SUFFICES ASSUME RobotInit PROVE BaseInv
  OBVIOUS
<1>1. TypeOK /\ RunInv /\ PulseInv
  BY InvInit DEF RobotInit, IInv
<1>2. TimesOK
  BY <1>1 DEF TypeOK, TimesOK
<1>3. BridgeFresh /\ ~onRobot
  BY DEF RobotInit, Bridge!Init, BridgeFresh
<1> QED
  BY <1>1, <1>2, <1>3 DEF BaseInv

LEMMA BaseStep == BaseInv /\ [RobotNext]_robotVars => BaseInv'
<1> SUFFICES ASSUME BaseInv, [RobotNext]_robotVars PROVE BaseInv'
  OBVIOUS
<1>1. TimesOK' /\ RunInv' /\ PulseInv'
  BY FirmwareKeeps DEF BaseInv
<1>2. CASE Bench
  <2>1. TypeOK' /\ BridgeFresh' /\ ~onRobot'
    BY <1>2, TypeStep
       DEF Bench, Next, BaseInv, BridgeFresh, bridgeVars, Bridge!Zero, Bridge!Motor
  <2> QED
    BY <1>1, <2>1 DEF BaseInv
<1>3. CASE SwitchOn
  <2>1. BridgeFresh /\ onRobot'
    BY <1>3 DEF SwitchOn, BaseInv
  <2> QED
    BY <1>1, <1>3, <2>1, SwitchOnTypes DEF BaseInv
<1>4. CASE BridgeStep
  <2>1. onRobot /\ onRobot' /\ RobotTypes
    BY <1>4 DEF BridgeStep, BaseInv
  <2>2. RobotTypes'
    BY <1>4, <2>1, InputTypes, IoTypes DEF BridgeStep
  <2> QED
    BY <1>1, <2>1, <2>2 DEF BaseInv
<1>5. CASE FirmwareStep
  <2>1. CASE onRobot
    <3>1. RobotTypes' /\ onRobot'
      BY <1>5, <2>1, LoopTypes DEF BaseInv, FirmwareStep
    <3> QED
      BY <1>1, <3>1 DEF BaseInv
  <2>2. CASE ~onRobot
    <3>1. TypeOK' /\ BridgeFresh' /\ ~onRobot'
      BY <1>5, <2>2, TypeStep
         DEF FirmwareStep, Next, BaseInv, BridgeFresh, bridgeVars, Bridge!Zero, Bridge!Motor
    <3> QED
      BY <1>1, <3>1 DEF BaseInv
  <2> QED
    BY <2>1, <2>2
<1>6. CASE RobotTick
  <2>1. RobotTypes' /\ onRobot'
    BY <1>6, TickTypes DEF RobotTick, BaseInv
  <2> QED
    BY <1>1, <2>1 DEF BaseInv
<1>7. CASE UNCHANGED robotVars
  <2>1. /\ TypeOK => TypeOK'
        /\ RobotTypes => RobotTypes'
        /\ BridgeFresh => BridgeFresh'
        /\ onRobot' = onRobot
    BY <1>7 DEF robotVars, vars, bridgeVars, TypeOK, RobotTypes, BridgeFresh
  <2> QED
    BY <1>1, <2>1 DEF BaseInv
<1> QED
  BY <1>2, <1>3, <1>4, <1>5, <1>6, <1>7 DEF RobotNext

(* On the bench and on the robot: raw commands run under the watchdog and  *)
(* pulses follow the kinematics.                                           *)
THEOREM RobotIsWatched == RobotSpec => [](RunBounded /\ PulseFollowsKinematics)
<1>1. BaseInv => RunBounded
  BY ConstantFacts DEF BaseInv, RunInv, RunBounded, TimesOK
<1>2. BaseInv => PulseFollowsKinematics
  <2>1. BaseInv /\ pulse # "none" => IInv
    BY DEF BaseInv, IInv, RobotTypes
  <2> QED
    BY <2>1, FollowsState DEF PulseFollowsKinematics
<1> QED
  BY <1>1, <1>2, BaseInit, BaseStep, PTL DEF RobotSpec

-----------------------------------------------------------------------------
LEMMA RobotInitial == RobotInit => RobotInv
BY BaseInit DEF RobotInit, RobotInv

LEMMA SwitchOnRing ==
  ASSUME BridgeFresh, SwitchOn
  PROVE  RingInv'
<1>1. rx' = <<>> /\ motors' = Still /\ connected' = FALSE /\ restAge' = 0
  BY DEF SwitchOn, BridgeFresh, bridgeVars
<1>2. Quiet' /\ Len(rx') = 0
  BY <1>1, EmptySeq DEF Quiet
<1>3. Backlog' /\ RestInv' /\ LastInv' /\ SpentInv'
  BY <1>1, <1>2 DEF Backlog, RestInv, LastInv, SpentInv, Still
<1>4. StopsInv'
  BY <1>2 DEF StopsInv, NoThree
<1> QED
  BY <1>3, <1>4 DEF RingInv

LEMMA RobotStep ==
  ASSUME RingHolds, RobotInv, [RobotNext]_robotVars
  PROVE  RobotInv'
<1>1. BaseInv'
  BY BaseStep DEF RobotInv
<1> SUFFICES ASSUME onRobot' PROVE RingInv'
  BY <1>1 DEF RobotInv
<1>2. CASE SwitchOn
  BY <1>2, SwitchOnRing DEF SwitchOn, RobotInv, BaseInv
<1>3. CASE onRobot
  <2>1. Ground /\ Ground' /\ RingInv /\ RobotTypes
    BY <1>1, <1>3 DEF RobotInv, BaseInv, Ground
  <2>2. CASE BridgeStep /\ Bridge!Inputs
    <3>1. ~Bridge!Rest => restAge = 0
      BY <2>1 DEF RingInv, RestInv
    <3> QED
      BY <2>1, <2>2, <3>1, InputMoves, ListensKeeps
  <2>3. CASE BridgeStep /\ Bridge!IoLoop
    <3>1. CASE Silent
      BY <2>1, <3>1, SilentKeeps
    <3>2. CASE Fails(Bridge!NextLine)
      BY <2>1, <3>2, FailsKeeps
    <3>3. CASE Writes(Bridge!NextLine)
      BY <2>1, <3>3, NextFacts, WritesKeeps
    <3> QED
      BY <2>1, <2>3, <3>1, <3>2, <3>3, IoMoves
  <2>4. CASE FirmwareStep
    BY <2>1, <2>4, LoopMoves, HandlesKeeps, PassesKeeps
  <2>5. CASE RobotTick
    BY <2>1, <2>5, TickMoves, AgesKeeps
  <2>6. CASE UNCHANGED robotVars
    <3>1. /\ UNCHANGED <<rx, motors, pc, sincePass, lineAge, connected, attemptAge, lastTx,
                         sinceIo, restAge>>
          /\ (Bridge!Rest)' = Bridge!Rest
      BY <2>6 DEF robotVars, vars, bridgeVars, Bridge!Rest
    <3>2. Listens
      BY <2>1, <3>1 DEF Listens, RingInv, RestInv
    <3> QED
      BY <2>1, <3>2, ListensKeeps
  <2> QED
    BY <1>3, <2>2, <2>3, <2>4, <2>5, <2>6 DEF RobotNext, Bench, SwitchOn, BridgeStep
<1> QED
  BY <1>2, <1>3 DEF RobotNext, Bench, BridgeStep, FirmwareStep, RobotTick, robotVars

LEMMA RestsState == RobotInv => WheelsRest
<1> SUFFICES ASSUME RobotInv, onRobot, motors # Still PROVE ~(restAge > Heard + 3 * Silence)
  BY DEF WheelsRest
<1>1. Ground /\ RingInv
  BY DEF RobotInv, BaseInv, Ground
<1>2. PICK h \in Nat, s \in Nat : h = Heard /\ s = Silence
  BY PeriodFacts
<1>3. PICK a \in Nat, l \in Nat : a = restAge /\ l = lineAge /\ l <= s
  BY <1>1, <1>2, GroundFacts
<1>4. CASE ~Quiet
  BY <1>1, <1>2, <1>3, <1>4, GroundFacts DEF RingInv, RestInv
<1>5. CASE Quiet
  <2>1. PICK r \in 0 .. 2 : r = Refreshes
    BY <1>1, RefreshesFew DEF RingInv
  <2>2. a <= h + (2 - r) * s + l
    BY <1>1, <1>2, <1>3, <1>5, <2>1 DEF RingInv, SpentInv
  <2>3. (2 - r) * s <= 2 * s /\ (2 - r) * s \in Int
    <3>1. r \in {0, 1, 2}
      BY <2>1
    <3>2. 0 * s = 0 /\ 1 * s = s
      OBVIOUS
    <3> QED
      BY <3>1, <3>2
  <2> QED
    BY <1>2, <1>3, <2>2, <2>3
<1> QED
  BY <1>4, <1>5

(* When a safety stop or a silence upstream lasts, the wheels rest within  *)
(* the time a line may take and three watchdog periods, wherever the link  *)
(* fails and comes back, for every period, mode and command.               *)
THEOREM ComesToRest ==
  ASSUME RingHolds
  PROVE  RobotSpec => []WheelsRest
<1>1. RobotInv /\ [RobotNext]_robotVars => RobotInv'
  BY RobotStep
<1> QED
  BY <1>1, RobotInitial, RestsState, PTL DEF RobotSpec
=============================================================================
