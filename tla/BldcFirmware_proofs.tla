------------------------ MODULE BldcFirmware_proofs ------------------------
(***************************************************************************)
(* Proofs about BldcFirmware for every host, every buffer size and every   *)
(* choice of periods: its mission state machine implements MoveService,    *)
(* the ARMED light covers the motors, and timeout and hold are respected;  *)
(* and for every host that ends its lines, STOP aborts and distances are   *)
(* those sent.                                                             *)
(***************************************************************************)
EXTENDS BldcFirmware, SequenceTheorems, WellFoundedInduction, TLAPS

(* The wheels stand still when IDLE, and ARMED is lit when MOVING. *)
ArmedInv ==
  /\ moveState = "IDLE" => driven = {}
  /\ moveState = "MOVING" => armedPin

(* The two timestamps still measure true time while a move runs, the last  *)
(* tick was in time, and no pass between ticks was longer than MaxPass.    *)
AgeInv ==
  moveState = "MOVING" =>
    /\ moveAge = Elapsed(moveStart)
    /\ Elapsed(lastControl) <= ControlPeriod + sincePass
    /\ moveAge <= MoveTimeout + Elapsed(lastControl)

(* The ticks counted stable all belong to this move. *)
HoldInv ==
  moveState = "MOVING" =>
    /\ doneStable < DoneHold
    /\ doneStable * ControlPeriod + Elapsed(lastControl) <= moveAge + ControlPeriod

IInv == TypeOK /\ ArmedInv /\ AgeInv /\ HoldInv

-----------------------------------------------------------------------------
(* Facts about the parsers: only a pair of numbers becomes a goal.         *)

LEMMA CompleteParses ==
  ASSUME NEW s \in Seq(Symbol), IsCompletePair(s)
  PROVE  ParsesAsPair(s)
<1>1. PICK k \in DOMAIN s : Splits(s, k, Len(s))
  BY DEF IsCompletePair
<1>2. Len(s) \in DOMAIN s
  BY <1>1
<1> QED
  BY <1>1, <1>2 DEF ParsesAsPair

LEMMA GoalIsNumeric ==
  ASSUME NEW s \in Seq(Symbol), ParsesAsPair(s)
  PROVE  IsNumber(GoalOf(s).dist) /\ IsNumber(GoalOf(s).angle)
<1> DEFINE kb == CHOOSE p \in (DOMAIN s) \X (DOMAIN s) : Splits(s, p[1], p[2])
<1>1. \E p \in (DOMAIN s) \X (DOMAIN s) : Splits(s, p[1], p[2])
  <2>1. PICK k \in DOMAIN s, b \in DOMAIN s : Splits(s, k, b)
    BY DEF ParsesAsPair
  <2>2. <<k, b>> \in (DOMAIN s) \X (DOMAIN s) /\ <<k, b>>[1] = k /\ <<k, b>>[2] = b
    OBVIOUS
  <2> QED
    BY <2>1, <2>2
<1>2. Splits(s, kb[1], kb[2])
  BY <1>1
<1>3. /\ GoalOf(s).dist = SubSeq(s, 1, kb[1] - 1)
      /\ GoalOf(s).angle = SubSeq(s, kb[1] + 1, kb[2])
  BY DEF GoalOf
<1> QED
  BY <1>2, <1>3 DEF Splits, Consumes

(* Facts about unsigned time. *)

LEMMA ClockFacts ==
  /\ ClockMod \in Nat /\ ClockMod > 0
  /\ ControlPeriod \in Nat /\ MoveTimeout \in Nat /\ MaxPass \in Nat
  /\ DoneHold \in Nat /\ DoneHold > 0
  /\ MoveTimeout + ControlPeriod + MaxPass < ClockMod
BY FirmwareAssumption

LEMMA ElapsedRange ==
  ASSUME now \in 0 .. ClockMod - 1, NEW t \in 0 .. ClockMod - 1
  PROVE  Elapsed(t) \in 0 .. ClockMod - 1
BY ClockFacts DEF Elapsed

LEMMA ElapsedSinceEarlier ==
  ASSUME now \in 0 .. ClockMod - 1
  PROVE  /\ Earlier(ControlPeriod) \in 0 .. ClockMod - 1
         /\ Elapsed(Earlier(ControlPeriod)) = ControlPeriod
         /\ Elapsed(now) = 0
BY ClockFacts DEF Elapsed, Earlier

(* One millisecond later every stamp is one millisecond older, until the   *)
(* clock has gone all the way round to it.                                 *)
LEMMA ElapsedTick ==
  ASSUME now \in 0 .. ClockMod - 1, Tick, NEW t \in 0 .. ClockMod - 1,
         Elapsed(t) + 1 < ClockMod
  PROVE  (IF now' >= t THEN now' - t ELSE now' - t + ClockMod) = Elapsed(t) + 1
BY ClockFacts DEF Elapsed, Tick

LEMMA HoldStep ==
  ASSUME NEW n \in Nat
  PROVE  /\ (n + 1) * ControlPeriod = n * ControlPeriod + ControlPeriod
         /\ n * ControlPeriod \in Nat
         /\ 0 * ControlPeriod = 0
BY ClockFacts

LEMMA Longer ==
  ASSUME NEW m \in Nat, NEW n \in Nat, m <= n
  PROVE  m * ControlPeriod <= n * ControlPeriod
BY ClockFacts
-----------------------------------------------------------------------------
(* Type correctness.                                                       *)

LEMMA ReadTyped ==
  ASSUME TypeOK, NEW c \in Symbol, Read(c)
  PROVE  /\ wire' \in Seq(Symbol)
         /\ rx' \in Seq(Symbol) /\ Len(rx') <= RxSize
         /\ afterStop' \in BOOLEAN
         /\ now' \in 0 .. ClockMod - 1
         /\ sincePass' \in 0 .. MaxPass
         /\ pc' \in {"drain", "control", "status"}
<1>1. rx' \in Seq(Symbol) /\ Len(rx') = Len(rx) - 1
  BY HeadTailProperties DEF TypeOK, Read
<1>2. Len(rx) \in Nat /\ RxSize \in Nat
  BY FirmwareAssumption DEF TypeOK
<1> QED
  BY <1>1, <1>2 DEF TypeOK, Read

LEMMA BufferTyped ==
  ASSUME TypeOK, NEW c \in Symbol, HasRoom
  PROVE  Append(cmdBuf, c) \in Seq(Symbol) /\ Len(Append(cmdBuf, c)) < BufSize
<1>1. Append(cmdBuf, c) \in Seq(Symbol) /\ Len(Append(cmdBuf, c)) = Len(cmdBuf) + 1
  BY AppendProperties DEF TypeOK
<1> QED
  BY <1>1, FirmwareAssumption DEF TypeOK, HasRoom

LEMMA EmptyTyped == <<>> \in Seq(Symbol) /\ Len(<<>>) < BufSize
BY FirmwareAssumption

LEMMA GoalKept ==
  ASSUME GoalOK, goal' = goal
  PROVE  GoalOK'
BY DEF GoalOK, NoGoal, IsNumber

LEMMA StatusTyped ==
  ASSUME NEW state, NEW wheels, UpdateStatusOutputs(state, wheels)
  PROVE  armedPin' \in BOOLEAN /\ drivePin' \in BOOLEAN
BY DEF UpdateStatusOutputs

LEMMA StartTyped ==
  ASSUME TypeOK, NEW c \in Symbol, Read(c), NEW line \in Seq(Symbol),
         ParsesAsPair(line), StartMove(line)
  PROVE  TypeOK'
<1>1. GoalOK'
  BY GoalIsNumeric DEF StartMove, IsNumber, GoalOK
<1>2. lastControl' \in 0 .. ClockMod - 1 /\ moveStart' \in 0 .. ClockMod - 1
  BY ElapsedSinceEarlier DEF TypeOK, StartMove
<1>3. /\ wire' \in Seq(Symbol)
      /\ rx' \in Seq(Symbol) /\ Len(rx') <= RxSize
      /\ afterStop' \in BOOLEAN
      /\ now' \in 0 .. ClockMod - 1
      /\ sincePass' \in 0 .. MaxPass
      /\ pc' \in {"drain", "control", "status"}
  BY ReadTyped
<1>4. cmdBuf' \in Seq(Symbol) /\ Len(cmdBuf') < BufSize
  BY EmptyTyped DEF StartMove
<1>5. /\ moveState' \in {"IDLE", "MOVING"}
      /\ driven' \subseteq Wheel
      /\ doneStable' \in 0 .. DoneHold
      /\ moveAge' \in Nat
  <2>1. moveState' = "MOVING" /\ driven' = driven /\ doneStable' = 0 /\ moveAge' = 0
    BY DEF StartMove
  <2> QED
    BY <2>1, ClockFacts DEF TypeOK
<1>6. armedPin' \in BOOLEAN /\ drivePin' \in BOOLEAN
  BY StatusTyped DEF StartMove
<1> QED
  BY <1>1, <1>2, <1>3, <1>4, <1>5, <1>6 DEF TypeOK

LEMMA TypeStep == TypeOK /\ HoldInv /\ [Next]_vars => TypeOK'
<1> SUFFICES ASSUME TypeOK, HoldInv, [Next]_vars PROVE TypeOK'
  OBVIOUS
<1> USE GoalKept DEF mission, timers, link
<1>1. CASE Send
  BY <1>1, FirmwareAssumption DEF Send, TypeOK
<1>2. CASE Arrive
  <2>1. Head(wire) \in Symbol /\ wire' \in Seq(Symbol)
    BY <1>2, HeadTailProperties DEF Arrive, TypeOK
  <2>2. rx' \in Seq(Symbol) /\ Len(rx') = Len(rx) + 1
    BY <1>2, <2>1, AppendProperties DEF Arrive, TypeOK
  <2>3. Len(rx') <= RxSize
    BY <1>2, <2>2, FirmwareAssumption DEF Arrive, TypeOK
  <2> QED
    BY <1>2, <2>1, <2>2, <2>3 DEF Arrive, TypeOK
<1>3. CASE Overrun
  <2>1. wire' \in Seq(Symbol)
    BY <1>3, HeadTailProperties DEF Overrun, TypeOK
  <2> QED
    BY <1>3, <2>1 DEF Overrun, TypeOK
<1>4. CASE BufferByte
  BY <1>4, ReadTyped, BufferTyped DEF BufferByte, TypeOK
<1>5. CASE AcceptEarly
  BY <1>5, StartTyped, BufferTyped, CompleteParses DEF AcceptEarly
<1>6. CASE Overflow
  BY <1>6, ReadTyped, EmptyTyped DEF Overflow, TypeOK
<1>7. CASE EmptyLine
  BY <1>7, ReadTyped DEF EmptyLine, TypeOK, Symbol
<1>8. CASE StopLine
  BY <1>8, ReadTyped, EmptyTyped
     DEF StopLine, TypeOK, Symbol, StopAllMotors, EndMove, UpdateStatusOutputs
<1>9. CASE RefuseLine
  BY <1>9, ReadTyped, EmptyTyped DEF RefuseLine, TypeOK, Symbol
<1>10. CASE AnswerLine
  BY <1>10, ReadTyped, EmptyTyped DEF AnswerLine, TypeOK, Symbol
<1>11. CASE AcceptLine
  BY <1>11, StartTyped DEF AcceptLine, Symbol, TypeOK
<1>12. CASE EndDrain
  BY <1>12 DEF EndDrain, TypeOK
<1>13. CASE NoTick
  BY <1>13, ClockFacts DEF NoTick, CheckPeriod, TypeOK
<1>14. CASE Steer
  BY <1>14, ClockFacts DEF Steer, CheckPeriod, TypeOK
<1>15. CASE Done
  <2>1. doneStable' = doneStable + 1 /\ lastControl' = now /\ sincePass' = 0
    BY <1>15 DEF Done, CheckPeriod
  <2>2. doneStable < DoneHold
    BY <1>15 DEF Done, HoldInv, TickDue
  <2>3. doneStable' \in 0 .. DoneHold /\ lastControl' \in 0 .. ClockMod - 1
        /\ sincePass' \in 0 .. MaxPass
    BY <2>1, <2>2, ClockFacts DEF TypeOK
  <2>4. moveAge' \in Nat /\ armedPin' \in BOOLEAN /\ drivePin' \in BOOLEAN
    BY <1>15, StatusTyped DEF Done, StopAllMotors, EndMove
  <2> QED
    BY <1>15, <2>3, <2>4 DEF Done, CheckPeriod, TypeOK, StopAllMotors, EndMove
<1>16. CASE TimedOut
  <2>1. lastControl' = now /\ sincePass' = 0
    BY <1>16 DEF TimedOut, CheckPeriod
  <2>2. lastControl' \in 0 .. ClockMod - 1 /\ sincePass' \in 0 .. MaxPass
    BY <2>1, ClockFacts DEF TypeOK
  <2>3. moveAge' \in Nat /\ armedPin' \in BOOLEAN /\ drivePin' \in BOOLEAN
    BY <1>16, StatusTyped DEF TimedOut, EndMove
  <2> QED
    BY <1>16, <2>2, <2>3 DEF TimedOut, CheckPeriod, TypeOK, EndMove
<1>17. CASE Status
  BY <1>17 DEF Status, TypeOK, UpdateStatusOutputs
<1>18. CASE Tick
  BY <1>18, ClockFacts DEF Tick, TypeOK
<1>19. CASE UNCHANGED vars
  BY <1>19 DEF vars, TypeOK
<1> QED
  BY <1>1, <1>2, <1>3, <1>4, <1>5, <1>6, <1>7, <1>8, <1>9, <1>10, <1>11, <1>12, <1>13,
     <1>14, <1>15, <1>16, <1>17, <1>18, <1>19 DEF Next, ReadByte, Control
-----------------------------------------------------------------------------
(* Time: the actions that leave the clock and the mission alone, those     *)
(* that end a move, and the four that need an argument.                    *)

LEMMA TimeFrame ==
  ASSUME AgeInv, HoldInv,
         UNCHANGED <<moveState, doneStable, now, lastControl, moveStart, moveAge, sincePass>>
  PROVE  AgeInv' /\ HoldInv'
BY DEF AgeInv, HoldInv, Elapsed

LEMMA TimeIdle ==
  ASSUME moveState' = "IDLE"
  PROVE  AgeInv' /\ HoldInv'
BY DEF AgeInv, HoldInv

LEMMA TimeStart ==
  ASSUME TypeOK, NEW c \in Symbol, Read(c), NEW line, StartMove(line)
  PROVE  AgeInv' /\ HoldInv'
<1>1. /\ now' = now /\ sincePass' = sincePass
      /\ lastControl' = Earlier(ControlPeriod)
      /\ moveStart' = now /\ moveAge' = 0 /\ doneStable' = 0
  BY DEF Read, StartMove
<1>2. Elapsed(moveStart)' = 0 /\ Elapsed(lastControl)' = ControlPeriod
  <2>1. Elapsed(moveStart)' = Elapsed(now) /\ Elapsed(lastControl)' = Elapsed(Earlier(ControlPeriod))
    BY <1>1 DEF Elapsed
  <2> QED
    BY <2>1, ElapsedSinceEarlier DEF TypeOK
<1>3. sincePass \in Nat
  BY ClockFacts DEF TypeOK
<1>4. AgeInv'
  BY <1>1, <1>2, <1>3, ClockFacts DEF AgeInv
<1>5. HoldInv'
  BY <1>1, <1>2, <1>3, HoldStep, ClockFacts DEF HoldInv
<1> QED
  BY <1>4, <1>5

LEMMA TimeNoTick ==
  ASSUME TypeOK, AgeInv, HoldInv, NoTick
  PROVE  AgeInv' /\ HoldInv'
<1> SUFFICES ASSUME moveState = "MOVING"
             PROVE  AgeInv' /\ HoldInv'
  BY TimeIdle DEF NoTick, mission, TypeOK
<1>1. /\ UNCHANGED <<moveState, doneStable, now, lastControl, moveStart, moveAge>>
      /\ sincePass' = 0
      /\ ~(Elapsed(lastControl) >= ControlPeriod)
  BY DEF NoTick, CheckPeriod, mission, timers, TickDue
<1>2. Elapsed(lastControl)' = Elapsed(lastControl) /\ Elapsed(moveStart)' = Elapsed(moveStart)
  BY <1>1 DEF Elapsed
<1>3. Elapsed(lastControl) \in Nat
  BY ElapsedRange, ClockFacts DEF TypeOK
<1> QED
  BY <1>1, <1>2, <1>3, ClockFacts DEF AgeInv, HoldInv

LEMMA TimeSteer ==
  ASSUME TypeOK, AgeInv, HoldInv, Steer
  PROVE  AgeInv' /\ HoldInv'
<1>1. /\ moveState = "MOVING"
      /\ UNCHANGED <<moveState, now, moveStart, moveAge>>
      /\ lastControl' = now /\ sincePass' = 0
      /\ Elapsed(lastControl) >= ControlPeriod
      /\ ~(Elapsed(moveStart) > MoveTimeout)
      /\ doneStable' \in {0} \union {n \in {doneStable + 1} : n < DoneHold}
  BY DEF Steer, CheckPeriod, TickDue, Expired
<1>2. Elapsed(lastControl)' = 0 /\ Elapsed(moveStart)' = Elapsed(moveStart)
  <2>1. Elapsed(lastControl)' = Elapsed(now)
    BY <1>1 DEF Elapsed
  <2> QED
    BY <1>1, <2>1, ElapsedSinceEarlier DEF TypeOK, Elapsed
<1>3. /\ Elapsed(lastControl) \in Nat /\ Elapsed(moveStart) \in Nat
      /\ doneStable \in Nat /\ moveAge \in Nat
  BY ElapsedRange, ClockFacts DEF TypeOK
<1>4. AgeInv'
  BY <1>1, <1>2, <1>3, ClockFacts DEF AgeInv
<1>5. doneStable' < DoneHold
  BY <1>1, ClockFacts
<1>6. doneStable' * ControlPeriod <= moveAge + ControlPeriod
  <2>1. doneStable * ControlPeriod + Elapsed(lastControl) <= moveAge + ControlPeriod
    BY <1>1 DEF HoldInv
  <2>2. /\ doneStable * ControlPeriod \in Nat
        /\ (doneStable + 1) * ControlPeriod = doneStable * ControlPeriod + ControlPeriod
        /\ 0 * ControlPeriod = 0
    BY <1>3, HoldStep
  <2>3. CASE doneStable' = 0
    BY <2>2, <2>3, <1>3, ClockFacts
  <2>4. CASE doneStable' = doneStable + 1
    BY <2>1, <2>2, <2>4, <1>1, <1>3, ClockFacts
  <2> QED
    BY <1>1, <2>3, <2>4
<1>7. HoldInv'
  <2>1. doneStable' * ControlPeriod \in Nat
    BY <1>1, <1>3, HoldStep
  <2> QED
    BY <1>1, <1>2, <1>5, <1>6, <2>1 DEF HoldInv
<1> QED
  BY <1>4, <1>7

LEMMA TimeTick ==
  ASSUME TypeOK, AgeInv, HoldInv, Tick
  PROVE  AgeInv' /\ HoldInv'
<1> SUFFICES ASSUME moveState = "MOVING"
             PROVE  AgeInv' /\ HoldInv'
  BY TimeIdle DEF Tick, mission, TypeOK
<1>1. /\ UNCHANGED <<moveState, doneStable, lastControl, moveStart>>
      /\ sincePass' = sincePass + 1
      /\ sincePass < MaxPass
      /\ moveAge < ClockMod => moveAge' = moveAge + 1
  BY DEF Tick, mission
<1>2. /\ moveAge = Elapsed(moveStart)
      /\ Elapsed(lastControl) <= ControlPeriod + sincePass
      /\ moveAge <= MoveTimeout + Elapsed(lastControl)
  BY DEF AgeInv
<1>3. /\ Elapsed(lastControl) \in Nat /\ Elapsed(moveStart) \in Nat
      /\ doneStable \in Nat /\ moveAge \in Nat /\ sincePass \in Nat
  BY ElapsedRange, ClockFacts DEF TypeOK
<1>4. /\ Elapsed(lastControl) + 1 < ClockMod /\ Elapsed(moveStart) + 1 < ClockMod
      /\ moveAge < ClockMod
  BY <1>1, <1>2, <1>3, ClockFacts
<1>5. /\ Elapsed(lastControl)' = Elapsed(lastControl) + 1
      /\ Elapsed(moveStart)' = Elapsed(moveStart) + 1
  <2>1. /\ (IF now' >= lastControl THEN now' - lastControl ELSE now' - lastControl + ClockMod)
             = Elapsed(lastControl) + 1
        /\ (IF now' >= moveStart THEN now' - moveStart ELSE now' - moveStart + ClockMod)
             = Elapsed(moveStart) + 1
    BY <1>4, ElapsedTick DEF TypeOK
  <2> QED
    BY <1>1, <2>1 DEF Elapsed
<1>6. AgeInv'
  BY <1>1, <1>2, <1>3, <1>4, <1>5, ClockFacts DEF AgeInv
<1>7. HoldInv'
  <2>1. doneStable * ControlPeriod \in Nat
    BY <1>3, HoldStep
  <2> QED
    BY <1>1, <1>3, <1>4, <1>5, <2>1, ClockFacts DEF HoldInv
<1> QED
  BY <1>6, <1>7

LEMMA TimeStep == TypeOK /\ AgeInv /\ HoldInv /\ [Next]_vars => AgeInv' /\ HoldInv'
<1> SUFFICES ASSUME TypeOK, AgeInv, HoldInv, [Next]_vars PROVE AgeInv' /\ HoldInv'
  OBVIOUS
<1>1. CASE Send \/ Arrive \/ Overrun \/ EndDrain \/ Status \/ UNCHANGED vars
  BY <1>1, TimeFrame DEF Send, Arrive, Overrun, EndDrain, Status, vars, mission, timers
<1>2. CASE BufferByte \/ Overflow \/ EmptyLine \/ RefuseLine \/ AnswerLine
  BY <1>2, TimeFrame
     DEF BufferByte, Overflow, EmptyLine, RefuseLine, AnswerLine, Read, mission, timers
<1>3. CASE StopLine \/ Done \/ TimedOut
  BY <1>3, TimeIdle DEF StopLine, Done, TimedOut, EndMove
<1>4. CASE AcceptEarly \/ AcceptLine
  BY <1>4, TimeStart DEF AcceptEarly, AcceptLine, Symbol
<1> QED
  BY <1>1, <1>2, <1>3, <1>4, TimeNoTick, TimeSteer, TimeTick DEF Next, ReadByte, Control

-----------------------------------------------------------------------------
(* The ARMED light. *)
LEMMA ArmedStep == TypeOK /\ ArmedInv /\ [Next]_vars => ArmedInv'
<1> SUFFICES ASSUME TypeOK, ArmedInv, [Next]_vars PROVE ArmedInv'
  OBVIOUS
<1> USE DEF ArmedInv, TypeOK, mission, UpdateStatusOutputs
<1>1. CASE Send \/ Arrive \/ Overrun \/ EndDrain \/ Status \/ Tick \/ NoTick \/ UNCHANGED vars
  BY <1>1 DEF Send, Arrive, Overrun, EndDrain, Status, Tick, NoTick, CheckPeriod, vars
<1>2. CASE BufferByte \/ Overflow \/ EmptyLine \/ RefuseLine \/ AnswerLine
  BY <1>2 DEF BufferByte, Overflow, EmptyLine, RefuseLine, AnswerLine
<1>3. CASE StopLine \/ Done \/ TimedOut
  BY <1>3 DEF StopLine, Done, TimedOut, EndMove, StopAllMotors
<1>4. CASE AcceptEarly \/ AcceptLine
  BY <1>4 DEF AcceptEarly, AcceptLine, StartMove
<1>5. CASE Steer
  BY <1>5 DEF Steer, TickDue
<1> QED
  BY <1>1, <1>2, <1>3, <1>4, <1>5 DEF Next, ReadByte, Control

LEMMA InitInv == Init => IInv
<1> SUFFICES ASSUME Init PROVE IInv
  OBVIOUS
<1>1. /\ wire \in Seq(Symbol) /\ rx \in Seq(Symbol) /\ Len(rx) <= RxSize
      /\ cmdBuf \in Seq(Symbol) /\ Len(cmdBuf) < BufSize
  BY FirmwareAssumption DEF Init
<1>2. /\ now \in 0 .. ClockMod - 1 /\ lastControl \in 0 .. ClockMod - 1
      /\ moveStart \in 0 .. ClockMod - 1 /\ moveAge \in Nat
      /\ sincePass \in 0 .. MaxPass /\ doneStable \in 0 .. DoneHold
  BY ClockFacts DEF Init
<1>3. TypeOK
  <2>1. GoalOK
    <3>1. goal = NoGoal
      BY DEF Init
    <3> QED
      BY <3>1 DEF GoalOK
  <2>2. driven \subseteq Wheel
    <3>1. driven = {}
      BY DEF Init
    <3> QED
      BY <3>1
  <2>3. /\ moveState \in {"IDLE", "MOVING"} /\ pc \in {"drain", "control", "status"}
        /\ afterStop \in BOOLEAN /\ armedPin \in BOOLEAN /\ drivePin \in BOOLEAN
    BY DEF Init
  <2> QED
    BY <1>1, <1>2, <2>1, <2>2, <2>3 DEF TypeOK
<1> QED
  BY <1>3 DEF Init, IInv, ArmedInv, AgeInv, HoldInv

LEMMA Inductive == Spec => []IInv
<1>1. IInv /\ [Next]_vars => IInv'
  BY TypeStep, TimeStep, ArmedStep DEF IInv
<1> QED
  BY <1>1, InitInv, PTL DEF Spec

-----------------------------------------------------------------------------
(* Every variable stays in its range: the line buffer never overflows its  *)
(* terminating NUL and only a pair of numbers ever becomes a goal.         *)
THEOREM TypeCorrect == Spec => []TypeOK
<1>1. IInv => TypeOK
  BY DEF IInv
<1> QED
  BY <1>1, Inductive, PTL

(* No wheel has a duty while the ARMED light is off. *)
THEOREM LightCoversMotors == Spec => []DrivenOnlyWhenArmed
<1>1. IInv => DrivenOnlyWhenArmed
  BY DEF IInv, ArmedInv, DrivenOnlyWhenArmed, TypeOK
<1> QED
  BY <1>1, Inductive, PTL

(* A move is over at most one control period and one pass of loop() after  *)
(* MOVE_TIMEOUT_MS, wherever millis() wraps.                               *)
THEOREM MovesAreBounded == Spec => []MoveBounded
<1>1. IInv => MoveBounded
  <2> SUFFICES ASSUME IInv, moveState = "MOVING"
               PROVE  moveAge <= MoveTimeout + ControlPeriod + MaxPass
    BY DEF MoveBounded
  <2>1. /\ Elapsed(lastControl) \in Nat /\ moveAge \in Nat
        /\ sincePass \in 0 .. MaxPass
    BY ElapsedRange, ClockFacts DEF IInv, TypeOK
  <2> QED
    BY <2>1, ClockFacts DEF IInv, AgeInv
<1> QED
  BY <1>1, Inductive, PTL

(* What a step that ends a move knows of it. *)
LEMMA MoveEndsBy ==
  ASSUME [Next]_vars, moveState = "MOVING", moveState' = "IDLE"
  PROVE  \/ StopLine /\ reply' = "ACK STOP"
         \/ Done /\ reply' = "ACK DONE"
         \/ TimedOut /\ reply' = "ERR TIMEOUT"
BY DEF Next, ReadByte, Control, vars, mission, Send, Arrive, Overrun, EndDrain, Status,
   Tick, NoTick, Steer, BufferByte, Overflow, EmptyLine, RefuseLine, AnswerLine,
   AcceptEarly, AcceptLine, StartMove, StopLine, Done, TimedOut, EndMove

(* ERR TIMEOUT is never printed before MOVE_TIMEOUT_MS have passed. *)
THEOREM NoEarlyTimeout == Spec => TimeoutNotEarly
<1>1. ASSUME IInv, [Next]_vars, moveState = "MOVING", moveState' = "IDLE",
             reply' = "ERR TIMEOUT"
      PROVE  moveAge > MoveTimeout
  <2>1. TimedOut
    BY <1>1, MoveEndsBy
  <2> QED
    BY <1>1, <2>1 DEF TimedOut, Expired, IInv, AgeInv
<1>2. IInv /\ [Next]_vars =>
        [moveState = "MOVING" /\ moveState' = "IDLE" /\ reply' = "ERR TIMEOUT"
           => moveAge > MoveTimeout]_vars
  BY <1>1
<1> QED
  BY <1>2, Inductive, PTL DEF Spec, TimeoutNotEarly

(* ACK DONE is never printed before DONE_HOLD_CYCLES ticks of the move     *)
(* itself, the first of which comes at once.                               *)
THEOREM DoneTakesItsHold == Spec => DoneNotBeforeHold
<1>1. ASSUME IInv, [Next]_vars, moveState = "MOVING", moveState' = "IDLE",
             reply' = "ACK DONE"
      PROVE  moveAge >= (DoneHold - 1) * ControlPeriod
  <2>1. /\ doneStable + 1 >= DoneHold
        /\ Elapsed(lastControl) >= ControlPeriod
    BY <1>1, MoveEndsBy DEF Done, CheckPeriod, TickDue
  <2>2. doneStable * ControlPeriod + Elapsed(lastControl) <= moveAge + ControlPeriod
    BY <1>1 DEF IInv, HoldInv
  <2> TypeOK
    BY <1>1 DEF IInv
  <2>3. /\ doneStable \in Nat /\ DoneHold - 1 \in Nat /\ moveAge \in Nat
        /\ Elapsed(lastControl) \in Nat
    BY ElapsedRange, ClockFacts DEF TypeOK
  <2>4. DoneHold - 1 <= doneStable
    BY <2>1, <2>3, ClockFacts
  <2>5. (DoneHold - 1) * ControlPeriod <= doneStable * ControlPeriod
    BY <2>3, <2>4, Longer
  <2>6. /\ (DoneHold - 1) * ControlPeriod \in Nat
        /\ doneStable * ControlPeriod \in Nat
    BY <2>3, HoldStep
  <2> QED
    BY <2>1, <2>2, <2>3, <2>5, <2>6, ClockFacts
<1>2. IInv /\ [Next]_vars =>
        [moveState = "MOVING" /\ moveState' = "IDLE" /\ reply' = "ACK DONE"
           => moveAge >= (DoneHold - 1) * ControlPeriod]_vars
  BY <1>1
<1> QED
  BY <1>2, Inductive, PTL DEF Spec, DoneNotBeforeHold

(* The firmware implements MoveService: every step is a step of the        *)
(* service or leaves it as it was.                                         *)
THEOREM ImplementsService == Spec => ServiceSpec
<1>1. Init => Service!Init
  BY DEF Init, Service!Init
<1>2. ASSUME IInv, [Next]_vars
      PROVE  [Service!Next]_Service!vars
  <2> USE DEF IInv, TypeOK, ArmedInv, mission, Service!vars
  <2>1. CASE Send \/ Arrive \/ Overrun \/ EndDrain \/ Status \/ Tick \/ NoTick \/ UNCHANGED vars
    <3>1. UNCHANGED <<moveState, driven, reply>>
      BY <2>1 DEF Send, Arrive, Overrun, EndDrain, Status, Tick, NoTick, vars
    <3> QED
      BY <3>1
  <2>2. CASE BufferByte \/ EmptyLine
    BY <2>2 DEF BufferByte, EmptyLine
  <2>3. CASE Overflow \/ RefuseLine \/ AnswerLine
    <3>1. \/ Service!Remark
          \/ UNCHANGED <<moveState, driven, reply>>
      BY <1>2, <2>3 DEF Overflow, RefuseLine, AnswerLine, Service!Remark, Service!Remarks
    <3> QED
      BY <3>1 DEF Service!Next
  <2>4. CASE AcceptEarly \/ AcceptLine
    <3>1. Service!Accept
      BY <1>2, <2>4 DEF AcceptEarly, AcceptLine, StartMove, Service!Accept
    <3> QED
      BY <3>1 DEF Service!Next
  <2>5. CASE StopLine \/ Done \/ TimedOut
    <3>1. Service!End
      BY <1>2, <2>5 DEF StopLine, Done, TimedOut, StopAllMotors, EndMove, TickDue,
         Service!End, Service!Verdicts
    <3> QED
      BY <3>1 DEF Service!Next
  <2>6. CASE Steer
    <3>1. Service!Steer
      BY <1>2, <2>6 DEF Steer, TickDue, Service!Steer
    <3> QED
      BY <3>1 DEF Service!Next
  <2> QED
    BY <1>2, <2>1, <2>2, <2>3, <2>4, <2>5, <2>6 DEF Next, ReadByte, Control
<1> QED
  BY <1>1, <1>2, Inductive, PTL DEF Spec, ServiceSpec, Service!Spec

-----------------------------------------------------------------------------
(* The line, seen as what the host has sent and loop() has not read.       *)
Unread == rx \o wire

NoComma(t) == \A k \in DOMAIN t : t[k] # ","

(* s[i .. j] is a line, with its newline. *)
IsLine(s, i, j) ==
  /\ s[j] = "nl" /\ \A k \in i .. j - 1 : s[k] # "nl"
  /\ i = 1 \/ s[i - 1] = "nl"

(* Every line still to be read is a message; the first one is so together  *)
(* with what is buffered of it, unless it is the rest of a line whose move *)
(* has begun, and then it has no comma any more.                           *)
Framed(s, b) ==
  /\ \A i, j \in DOMAIN s : i # 1 /\ i <= j /\ IsLine(s, i, j) => SubSeq(s, i, j) \in Messages
  /\ \A j \in DOMAIN s : IsLine(s, 1, j) =>
       b \o SubSeq(s, 1, j) \in Messages \/ NoComma(b \o SubSeq(s, 1, j))

(* A line is buffered only if its newline is still to come. *)
Ended(s, b) == IF s = <<>> THEN b = <<>> ELSE s[Len(s)] = "nl"

(* The word STOP begins its line. *)
StopsFirst(s, b) ==
  \A i \in DOMAIN s : s[i] = "STOP" => IF i = 1 THEN b = <<>> ELSE s[i - 1] = "nl"

(* The hosts the two theorems below are about.  Every message ends in a    *)
(* newline and none of its bytes is lost; STOP begins its line; or a       *)
(* message is one line that fits the buffer, with one comma at most.       *)
EndedHost == ~Lossy /\ \A m \in Messages : m[Len(m)] = "nl"

StopsAlone ==
  /\ EndedHost
  /\ \A m \in Messages : \A i \in DOMAIN m : m[i] = "STOP" => i = 1 \/ m[i - 1] = "nl"

OneLineEach ==
  /\ EndedHost
  /\ \A m \in Messages :
       /\ Len(m) <= BufSize
       /\ \A i \in DOMAIN m : m[i] = "nl" => i = Len(m)
       /\ \A i, j \in DOMAIN m : m[i] = "," /\ m[j] = "," => i = j

(* A STOP that was just read is all there is in the buffer. *)
StopInv ==
  /\ Ended(Unread, cmdBuf) /\ StopsFirst(Unread, cmdBuf)
  /\ afterStop => cmdBuf = <<"STOP">>

FramingInv == Ended(Unread, cmdBuf) /\ Framed(Unread, cmdBuf)

-----------------------------------------------------------------------------
LEMMA SeqFacts ==
  ASSUME NEW s \in Seq(Symbol), s # <<>>
  PROVE  /\ Len(s) \in Nat /\ Len(s) >= 1 /\ DOMAIN s = 1 .. Len(s)
         /\ Head(s) = s[1] /\ Head(s) \in Symbol
         /\ Tail(s) \in Seq(Symbol) /\ Len(Tail(s)) = Len(s) - 1
         /\ DOMAIN Tail(s) = 1 .. Len(s) - 1
         /\ \A i \in 1 .. Len(s) - 1 : Tail(s)[i] = s[i + 1]
         /\ Tail(s) = <<>> <=> Len(s) = 1
<1>1. Len(s) \in Nat \ {0} /\ DOMAIN s = 1 .. Len(s)
  BY EmptySeq, LenProperties
<1>2. /\ Head(s) \in Symbol /\ Tail(s) \in Seq(Symbol) /\ Len(Tail(s)) = Len(s) - 1
      /\ \A i \in 1 .. Len(Tail(s)) : Tail(s)[i] = s[i + 1]
  BY HeadTailProperties
<1>3. DOMAIN Tail(s) = 1 .. Len(s) - 1
  BY <1>2, LenProperties
<1>4. Tail(s) = <<>> <=> Len(s) = 1
  BY <1>1, <1>2, EmptySeq
<1>5. Head(s) = s[1]
  OBVIOUS
<1> QED
  BY <1>1, <1>2, <1>3, <1>4, <1>5

(* A piece of the tail is the piece one further on of the whole. *)
LEMMA TailPiece ==
  ASSUME NEW s \in Seq(Symbol), s # <<>>,
         NEW i \in 1 .. Len(s) - 1, NEW j \in 1 .. Len(s) - 1
  PROVE  SubSeq(Tail(s), i, j) = SubSeq(s, i + 1, j + 1)
<1>1. PICK n \in Nat : n = Len(s) /\ n >= 1
  BY SeqFacts
<1>2. Tail(s) = SubSeq(s, 2, n) /\ Tail(s) \in Seq(Symbol)
  BY <1>1, TailIsSubSeq, SeqFacts
<1>3. 2 \in 1 .. Len(s) /\ n \in 1 .. Len(s) /\ i \in 1 .. n - 2 + 1 /\ j \in 1 .. n - 2 + 1
  BY <1>1
<1>4. SubSeq(SubSeq(s, 2, n), i, j) = SubSeq(s, 2 + i - 1, 2 + j - 1)
  BY <1>3, SubSeqOfSubSeq
<1> QED
  BY <1>2, <1>4

(* Reading one byte into the buffer moves it from one side to the other. *)
LEMMA ShiftPiece ==
  ASSUME NEW s \in Seq(Symbol), s # <<>>, NEW b \in Seq(Symbol), NEW j \in 1 .. Len(s) - 1
  PROVE  Append(b, Head(s)) \o SubSeq(Tail(s), 1, j) = b \o SubSeq(s, 1, j + 1)
<1>1. PICK n \in Nat : n = Len(s) /\ n >= 1
  BY SeqFacts
<1>2. SubSeq(Tail(s), 1, j) = SubSeq(s, 2, j + 1)
  BY <1>1, TailPiece
<1>3. SubSeq(s, 1, j + 1) = <<Head(s)>> \o SubSeq(s, 2, j + 1)
  BY <1>1, SubSeqRecursiveFirst, SeqFacts
<1>4. Append(b, Head(s)) = b \o <<Head(s)>>
  BY AppendIsConcat, SeqFacts
<1>5. <<Head(s)>> \in Seq(Symbol)
  BY SeqFacts
<1>6. SubSeq(s, 2, j + 1) \in Seq(Symbol)
  <2>1. \A i \in 2 .. j + 1 : s[i] \in Symbol
    BY <1>1, ElementOfSeq
  <2> QED
    BY <1>1, <2>1, SubSeqProperties
<1> QED
  BY <1>2, <1>3, <1>4, <1>5, <1>6, ConcatAssociative

(* The unread line only moves along when a byte arrives. *)
LEMMA ArriveFacts ==
  ASSUME rx \in Seq(Symbol), wire \in Seq(Symbol), Arrive
  PROVE  Unread' = Unread
<1>1. /\ Head(wire) \in Symbol /\ Tail(wire) \in Seq(Symbol)
      /\ wire # <<>> /\ rx' = Append(rx, Head(wire)) /\ wire' = Tail(wire)
  BY SeqFacts DEF Arrive
<1>2. wire = <<Head(wire)>> \o Tail(wire)
  <2>1. PICK n \in Nat : n = Len(wire) /\ n >= 1
    BY <1>1, SeqFacts
  <2>2. SubSeq(wire, 1, n) = <<wire[1]>> \o SubSeq(wire, 2, n)
    BY <2>1, SubSeqRecursiveFirst
  <2>3. SubSeq(wire, 1, n) = wire /\ SubSeq(wire, 2, n) = Tail(wire) /\ wire[1] = Head(wire)
    BY <1>1, <2>1, SubSeqFull, TailIsSubSeq, SeqFacts
  <2> QED
    BY <2>2, <2>3
<1>3. rx' = rx \o <<Head(wire)>>
  BY <1>1, AppendIsConcat
<1>4. <<Head(wire)>> \in Seq(Symbol)
  BY <1>1
<1> QED
  BY <1>1, <1>2, <1>3, <1>4, ConcatAssociative DEF Unread

(* Reading takes the first symbol of what is unread. *)
LEMMA ReadFacts ==
  ASSUME rx \in Seq(Symbol), wire \in Seq(Symbol), NEW c, Read(c)
  PROVE  /\ Unread \in Seq(Symbol) /\ Unread # <<>>
         /\ c = Head(Unread) /\ Unread' = Tail(Unread) /\ Unread' \in Seq(Symbol)
<1>1. rx # <<>> /\ c = Head(rx) /\ rx' = Tail(rx) /\ wire' = wire
  BY DEF Read
<1>2. /\ Unread \in Seq(Symbol) /\ Len(Unread) = Len(rx) + Len(wire)
      /\ \A i \in 1 .. Len(rx) + Len(wire) :
           Unread[i] = IF i <= Len(rx) THEN rx[i] ELSE wire[i - Len(rx)]
  BY ConcatProperties DEF Unread
<1>3. Len(rx) \in Nat /\ Len(rx) >= 1 /\ Len(wire) \in Nat
  BY <1>1, SeqFacts, LenProperties
<1>4. Unread # <<>>
  BY <1>2, <1>3, EmptySeq
<1>5. c = Head(Unread)
  BY <1>1, <1>2, <1>3, <1>4, SeqFacts
<1>6. Tail(rx) \in Seq(Symbol) /\ Len(Tail(rx)) = Len(rx) - 1
      /\ \A i \in 1 .. Len(rx) - 1 : Tail(rx)[i] = rx[i + 1]
  BY <1>1, SeqFacts
<1>7. /\ Unread' \in Seq(Symbol) /\ Len(Unread') = Len(rx) - 1 + Len(wire)
      /\ \A i \in 1 .. Len(rx) - 1 + Len(wire) :
           Unread'[i] = IF i <= Len(rx) - 1 THEN Tail(rx)[i] ELSE wire[i - (Len(rx) - 1)]
  BY <1>1, <1>6, ConcatProperties DEF Unread
<1>8. Tail(Unread) \in Seq(Symbol) /\ Len(Tail(Unread)) = Len(Unread) - 1
      /\ \A i \in 1 .. Len(Unread) - 1 : Tail(Unread)[i] = Unread[i + 1]
  BY <1>2, <1>4, SeqFacts
<1>9. \A i \in 1 .. Len(Unread') : Unread'[i] = Tail(Unread)[i]
  BY <1>2, <1>3, <1>6, <1>7, <1>8
<1>10. Unread' = Tail(Unread)
  BY <1>2, <1>3, <1>7, <1>8, <1>9, SeqEqual
<1> QED
  BY <1>2, <1>4, <1>5, <1>7, <1>10

(* A new message comes after all that is unread. *)
LEMMA SendFacts ==
  ASSUME rx \in Seq(Symbol), Send
  PROVE  /\ rx = Unread /\ Unread \in Seq(Symbol)
         /\ wire' \in Messages /\ wire' \in Seq(Symbol) /\ wire' # <<>>
         /\ Unread' = Unread \o wire'
<1>1. wire = <<>> /\ wire' \in Messages /\ rx' = rx
  BY DEF Send
<1>2. wire' \in Seq(Symbol) /\ wire' # <<>>
  BY <1>1, FirmwareAssumption
<1>3. rx \o <<>> = rx
  BY ConcatEmptySeq
<1> QED
  BY <1>1, <1>2, <1>3 DEF Unread

-----------------------------------------------------------------------------
(* A line is ended, and STOP comes first, whatever is sent and read.      *)
LEMMA EndedSend ==
  ASSUME NEW s \in Seq(Symbol), NEW m \in Messages, EndedHost, NEW b
  PROVE  Ended(s \o m, b)
<1>1. m \in Seq(Symbol) /\ m # <<>> /\ m[Len(m)] = "nl"
  BY FirmwareAssumption DEF EndedHost
<1>2. Len(m) \in Nat /\ Len(m) >= 1 /\ Len(s) \in Nat
  BY <1>1, SeqFacts, LenProperties
<1>3. /\ s \o m \in Seq(Symbol) /\ Len(s \o m) = Len(s) + Len(m)
      /\ (s \o m)[Len(s) + Len(m)] =
           IF Len(s) + Len(m) <= Len(s) THEN s[Len(s) + Len(m)] ELSE m[Len(s) + Len(m) - Len(s)]
  BY <1>1, <1>2, ConcatProperties
<1>4. (s \o m)[Len(s \o m)] = m[Len(m)]
  <2>1. ~(Len(s) + Len(m) <= Len(s)) /\ Len(s) + Len(m) - Len(s) = Len(m)
    BY <1>2
  <2> QED
    BY <1>3, <2>1
<1>5. s \o m # <<>>
  BY <1>2, <1>3, EmptySeq
<1> QED
  BY <1>1, <1>4, <1>5 DEF Ended

LEMMA EndedRead ==
  ASSUME NEW s \in Seq(Symbol), s # <<>>, NEW b, Ended(s, b), NEW d,
         Head(s) = "nl" => d = <<>>
  PROVE  Ended(Tail(s), d)
<1>1. CASE Len(s) = 1
  BY <1>1, SeqFacts DEF Ended
<1>2. CASE Len(s) # 1
  <2>1. Tail(s) # <<>> /\ Tail(s)[Len(s) - 1] = s[Len(s)] /\ Len(Tail(s)) = Len(s) - 1
    BY <1>2, SeqFacts
  <2> QED
    BY <2>1 DEF Ended
<1> QED
  BY <1>1, <1>2

LEMMA StopsSend ==
  ASSUME NEW s \in Seq(Symbol), NEW m \in Messages, NEW b,
         StopsAlone, Ended(s, b), StopsFirst(s, b)
  PROVE  StopsFirst(s \o m, b)
<1>1. /\ m \in Seq(Symbol) /\ m # <<>>
      /\ \A i \in DOMAIN m : m[i] = "STOP" => i = 1 \/ m[i - 1] = "nl"
  BY FirmwareAssumption DEF StopsAlone
<1>2. /\ Len(m) \in Nat /\ Len(m) >= 1 /\ DOMAIN m = 1 .. Len(m)
      /\ Len(s) \in Nat /\ DOMAIN s = 1 .. Len(s)
  BY <1>1, SeqFacts, LenProperties
<1>3. /\ s \o m \in Seq(Symbol) /\ DOMAIN (s \o m) = 1 .. Len(s) + Len(m)
      /\ \A i \in 1 .. Len(s) + Len(m) : (s \o m)[i] = IF i <= Len(s) THEN s[i] ELSE m[i - Len(s)]
  <2>1. s \o m \in Seq(Symbol) /\ Len(s \o m) = Len(s) + Len(m)
    BY <1>1, ConcatProperties
  <2> QED
    BY <1>1, <2>1, ConcatProperties, LenProperties
<1> SUFFICES ASSUME NEW i \in 1 .. Len(s) + Len(m), (s \o m)[i] = "STOP"
             PROVE  IF i = 1 THEN b = <<>> ELSE (s \o m)[i - 1] = "nl"
  BY <1>3 DEF StopsFirst
<1>4. CASE i <= Len(s)
  <2>1. s[i] = "STOP" /\ i \in DOMAIN s
    BY <1>2, <1>3, <1>4
  <2>2. i # 1 => (s \o m)[i - 1] = s[i - 1]
    BY <1>2, <1>3, <1>4
  <2> QED
    BY <2>1, <2>2 DEF StopsFirst
<1>5. CASE ~(i <= Len(s))
  <2>1. m[i - Len(s)] = "STOP" /\ i - Len(s) \in DOMAIN m
    BY <1>2, <1>3, <1>5
  <2>2. CASE i - Len(s) = 1
    <3>1. CASE i = 1
      <4>1. Len(s) = 0
        BY <1>2, <2>2, <3>1
      <4> QED
        BY <3>1, <4>1, EmptySeq DEF Ended
    <3>2. CASE i # 1
      <4>1. (s \o m)[i - 1] = s[Len(s)]
        BY <1>2, <1>3, <2>2, <3>2
      <4>2. s # <<>>
        BY <1>2, <2>2, <3>2, EmptySeq
      <4> QED
        BY <3>2, <4>1, <4>2 DEF Ended
    <3> QED
      BY <3>1, <3>2
  <2>3. CASE i - Len(s) # 1
    <3>1. m[i - Len(s) - 1] = "nl"
      BY <1>1, <2>1, <2>3
    <3>2. (s \o m)[i - 1] = m[i - Len(s) - 1] /\ i # 1
      <4>1. /\ i - 1 \in 1 .. Len(s) + Len(m) /\ ~(i - 1 <= Len(s)) /\ i # 1
            /\ i - 1 - Len(s) = i - Len(s) - 1
        BY <1>2, <1>5, <2>3
      <4> QED
        BY <1>3, <4>1
    <3> QED
      BY <3>1, <3>2
  <2> QED
    BY <2>2, <2>3
<1> QED
  BY <1>4, <1>5

LEMMA StopsRead ==
  ASSUME NEW s \in Seq(Symbol), s # <<>>, NEW b, StopsFirst(s, b), NEW d,
         Head(s) = "nl" => d = <<>>
  PROVE  StopsFirst(Tail(s), d)
<1>1. PICK n \in Nat : n = Len(s) /\ n >= 1
  BY SeqFacts
<1>2. DOMAIN s = 1 .. n /\ DOMAIN Tail(s) = 1 .. n - 1 /\ Head(s) = s[1]
      /\ \A i \in 1 .. n - 1 : Tail(s)[i] = s[i + 1]
  BY <1>1, SeqFacts
<1> SUFFICES ASSUME NEW i \in 1 .. n - 1, Tail(s)[i] = "STOP"
             PROVE  IF i = 1 THEN d = <<>> ELSE Tail(s)[i - 1] = "nl"
  BY <1>2 DEF StopsFirst
<1>3. s[i + 1] = "STOP" /\ i + 1 \in DOMAIN s /\ i + 1 # 1 /\ i + 1 - 1 = i
  BY <1>1, <1>2
<1>4. s[i] = "nl"
  BY <1>3 DEF StopsFirst
<1>5. i # 1 => Tail(s)[i - 1] = s[i]
  <2>1. i # 1 => i - 1 \in 1 .. n - 1 /\ i - 1 + 1 = i
    BY <1>1
  <2> QED
    BY <1>2, <2>1
<1> QED
  BY <1>2, <1>4, <1>5

-----------------------------------------------------------------------------
(* The lines stay framed: a message is sent, a byte is read.               *)
LEMMA FramedSend ==
  ASSUME NEW s \in Seq(Symbol), NEW m \in Messages, NEW b \in Seq(Symbol),
         OneLineEach, Ended(s, b), Framed(s, b)
  PROVE  Framed(s \o m, b)
<1> DEFINE t == s \o m
<1>1. /\ m \in Seq(Symbol) /\ m # <<>> /\ m[Len(m)] = "nl"
      /\ \A i \in DOMAIN m : m[i] = "nl" => i = Len(m)
  BY FirmwareAssumption DEF OneLineEach, EndedHost
<1>2. PICK p \in Nat, n \in Nat : p = Len(s) /\ n = Len(m) /\ n >= 1
  BY <1>1, SeqFacts, LenProperties
<1>3. DOMAIN m = 1 .. n /\ DOMAIN s = 1 .. p
  BY <1>1, <1>2, LenProperties
<1>4. /\ t \in Seq(Symbol) /\ Len(t) = p + n /\ DOMAIN t = 1 .. p + n
      /\ \A i \in 1 .. p + n : t[i] = IF i <= p THEN s[i] ELSE m[i - p]
  <2>1. s \o m \in Seq(Symbol) /\ Len(s \o m) = p + n
    BY <1>1, <1>2, ConcatProperties
  <2> QED
    BY <1>1, <1>2, <2>1, ConcatProperties, LenProperties
<1>5. p = 0 \/ s[p] = "nl"
  BY <1>2, EmptySeq DEF Ended
<1>6. p = 0 => b = <<>>
  BY <1>2, EmptySeq DEF Ended
<1> HIDE DEF t
<1>7. ASSUME NEW i \in 1 .. p + n, NEW j \in 1 .. p + n, i <= j, IsLine(t, i, j)
      PROVE  \/ j <= p /\ IsLine(s, i, j) /\ SubSeq(t, i, j) = SubSeq(s, i, j)
             \/ i = p + 1 /\ SubSeq(t, i, j) = m
  <2>1. /\ t[j] = "nl" /\ (\A k \in i .. j - 1 : t[k] # "nl")
        /\ (i = 1 \/ t[i - 1] = "nl")
    BY <1>7 DEF IsLine
  <2>2. CASE j <= p
    <3>1. /\ t[j] = s[j] /\ (\A k \in i .. j - 1 : t[k] = s[k])
          /\ (i # 1 => t[i - 1] = s[i - 1])
      BY <1>4, <1>7, <2>2
    <3>2. IsLine(s, i, j)
      BY <2>1, <3>1 DEF IsLine
    <3>3. SubSeq(t, i, j) = SubSeq(s, i, j)
      BY <1>1, <1>2, <1>7, <2>2, SubSeqOfConcat1 DEF t
    <3> QED
      BY <2>2, <3>2, <3>3
  <2>3. CASE ~(j <= p)
    <3>1. t[j] = m[j - p] /\ j - p \in DOMAIN m
      BY <1>3, <1>4, <2>3
    <3>2. j = p + n
      BY <1>1, <1>2, <2>1, <3>1
    <3>3. ~(i <= p)
      <4> SUFFICES ASSUME i <= p PROVE FALSE
        OBVIOUS
      <4>1. p \in i .. j - 1 /\ t[p] = s[p] /\ p # 0
        BY <1>4, <3>2, <1>2
      <4> QED
        BY <1>5, <2>1, <4>1
    <3>4. ~(i > p + 1)
      <4> SUFFICES ASSUME i > p + 1 PROVE FALSE
        OBVIOUS
      <4>1. i - 1 \in 1 .. p + n /\ ~(i - 1 <= p) /\ i # 1
        BY <1>7
      <4>2. t[i - 1] = m[i - 1 - p] /\ i - 1 - p \in DOMAIN m /\ i - 1 - p # n
        BY <1>3, <1>4, <4>1
      <4> QED
        BY <1>1, <1>2, <2>1, <4>1, <4>2
    <3>5. i = p + 1
      BY <3>3, <3>4
    <3>6. SubSeq(t, i, j) = SubSeq(m, 1, n)
      <4>1. SubSeq(s \o m, p + 1, p + n) = SubSeq(m, p + 1 - p, p + n - p)
        BY <1>1, <1>2, SubSeqOfConcat2
      <4>2. p + 1 - p = 1 /\ p + n - p = n
        OBVIOUS
      <4> QED
        BY <3>2, <3>5, <4>1, <4>2 DEF t
    <3>7. SubSeq(m, 1, n) = m
      BY <1>1, <1>2, SubSeqFull
    <3> QED
      BY <3>5, <3>6, <3>7
  <2> QED
    BY <2>2, <2>3
<1>8. \A i, j \in DOMAIN t : i # 1 /\ i <= j /\ IsLine(t, i, j) => SubSeq(t, i, j) \in Messages
  <2> SUFFICES ASSUME NEW i \in 1 .. p + n, NEW j \in 1 .. p + n, i # 1, i <= j, IsLine(t, i, j)
               PROVE  SubSeq(t, i, j) \in Messages
    BY <1>4
  <2>1. CASE j <= p /\ IsLine(s, i, j) /\ SubSeq(t, i, j) = SubSeq(s, i, j)
    <3>1. i \in DOMAIN s /\ j \in DOMAIN s
      BY <1>3, <2>1
    <3> QED
      BY <2>1, <3>1 DEF Framed
  <2> QED
    BY <1>7, <2>1
<1>9. \A j \in DOMAIN t : IsLine(t, 1, j) =>
        b \o SubSeq(t, 1, j) \in Messages \/ NoComma(b \o SubSeq(t, 1, j))
  <2> SUFFICES ASSUME NEW j \in 1 .. p + n, IsLine(t, 1, j)
               PROVE  b \o SubSeq(t, 1, j) \in Messages \/ NoComma(b \o SubSeq(t, 1, j))
    BY <1>4
  <2>0. 1 \in 1 .. p + n /\ 1 <= j
    BY <1>2
  <2>1. CASE j <= p /\ IsLine(s, 1, j) /\ SubSeq(t, 1, j) = SubSeq(s, 1, j)
    <3>1. j \in DOMAIN s
      BY <1>3, <2>1
    <3> QED
      BY <2>1, <3>1 DEF Framed
  <2>2. CASE 1 = p + 1 /\ SubSeq(t, 1, j) = m
    <3>1. b = <<>>
      BY <1>6, <2>2
    <3>2. <<>> \o m = m
      BY <1>1, ConcatEmptySeq
    <3>3. b \o SubSeq(t, 1, j) = m /\ m \in Messages
      BY <2>2, <3>1, <3>2
    <3> QED
      BY <3>3
  <2> QED
    BY <1>7, <2>0, <2>1, <2>2
<1> QED
  BY <1>8, <1>9 DEF Framed, t

(* Lines of the tail are lines of the whole. *)
LEMMA LineShift ==
  ASSUME NEW s \in Seq(Symbol), s # <<>>,
         NEW i \in 1 .. Len(s) - 1, NEW j \in 1 .. Len(s) - 1, i <= j, IsLine(Tail(s), i, j)
  PROVE  /\ i + 1 \in DOMAIN s /\ j + 1 \in DOMAIN s /\ i + 1 <= j + 1 /\ i + 1 # 1
         /\ i # 1 \/ Head(s) = "nl" => IsLine(s, i + 1, j + 1)
         /\ i = 1 /\ Head(s) # "nl" => IsLine(s, 1, j + 1)
<1>1. PICK n \in Nat : n = Len(s) /\ n >= 1
  BY SeqFacts
<1>2. DOMAIN s = 1 .. n /\ Head(s) = s[1] /\ \A k \in 1 .. n - 1 : Tail(s)[k] = s[k + 1]
  BY <1>1, SeqFacts
<1>3. /\ Tail(s)[j] = "nl" /\ (\A k \in i .. j - 1 : Tail(s)[k] # "nl")
      /\ (i = 1 \/ Tail(s)[i - 1] = "nl")
  BY DEF IsLine
<1>4. s[j + 1] = "nl"
  BY <1>1, <1>2, <1>3
<1>5. ASSUME NEW k \in i + 1 .. j + 1 - 1 PROVE s[k] # "nl"
  <2>1. k - 1 \in i .. j - 1 /\ k - 1 \in 1 .. n - 1 /\ k - 1 + 1 = k
    BY <1>1
  <2> QED
    BY <1>2, <1>3, <2>1
<1>6. i # 1 => s[i + 1 - 1] = "nl"
  <2> SUFFICES ASSUME i # 1 PROVE s[i + 1 - 1] = "nl"
    OBVIOUS
  <2>1. i - 1 \in 1 .. n - 1 /\ i - 1 + 1 = i + 1 - 1
    BY <1>1
  <2> QED
    BY <1>2, <1>3, <2>1
<1>7. i = 1 => s[i + 1 - 1] = Head(s)
  BY <1>2
<1>8. i + 1 \in 1 .. n /\ j + 1 \in 1 .. n /\ i + 1 <= j + 1 /\ i + 1 # 1
  BY <1>1
<1>9. i # 1 \/ Head(s) = "nl" => IsLine(s, i + 1, j + 1)
  BY <1>4, <1>5, <1>6, <1>7 DEF IsLine
<1>10. ASSUME i = 1, Head(s) # "nl" PROVE IsLine(s, 1, j + 1)
  <2>1. \A k \in 1 .. j + 1 - 1 : k = 1 \/ k \in i + 1 .. j + 1 - 1
    BY <1>10
  <2>2. \A k \in 1 .. j + 1 - 1 : s[k] # "nl"
    BY <1>2, <1>5, <1>10, <2>1
  <2> QED
    BY <1>4, <2>2 DEF IsLine
<1> QED
  BY <1>2, <1>8, <1>9, <1>10

(* The byte goes into the buffer, or the newline ends the line. *)
LEMMA FramedRead ==
  ASSUME NEW s \in Seq(Symbol), s # <<>>, NEW b \in Seq(Symbol), Framed(s, b), NEW d,
         IF Head(s) = "nl" THEN d = <<>> ELSE d = Append(b, Head(s))
  PROVE  Framed(Tail(s), d)
<1>1. DOMAIN Tail(s) = 1 .. Len(s) - 1 /\ Tail(s) \in Seq(Symbol) /\ Len(s) \in Nat
  BY SeqFacts
<1>2. \A i, j \in DOMAIN Tail(s) :
        i # 1 /\ i <= j /\ IsLine(Tail(s), i, j) => SubSeq(Tail(s), i, j) \in Messages
  <2> SUFFICES ASSUME NEW i \in 1 .. Len(s) - 1, NEW j \in 1 .. Len(s) - 1,
                      i # 1, i <= j, IsLine(Tail(s), i, j)
               PROVE  SubSeq(Tail(s), i, j) \in Messages
    BY <1>1
  <2>1. /\ i + 1 \in DOMAIN s /\ j + 1 \in DOMAIN s /\ i + 1 <= j + 1 /\ i + 1 # 1
        /\ IsLine(s, i + 1, j + 1)
    BY LineShift
  <2>2. SubSeq(Tail(s), i, j) = SubSeq(s, i + 1, j + 1)
    BY TailPiece
  <2> QED
    BY <2>1, <2>2 DEF Framed
<1>3. \A j \in DOMAIN Tail(s) : IsLine(Tail(s), 1, j) =>
        d \o SubSeq(Tail(s), 1, j) \in Messages \/ NoComma(d \o SubSeq(Tail(s), 1, j))
  <2> SUFFICES ASSUME NEW j \in 1 .. Len(s) - 1, IsLine(Tail(s), 1, j)
               PROVE  d \o SubSeq(Tail(s), 1, j) \in Messages \/ NoComma(d \o SubSeq(Tail(s), 1, j))
    BY <1>1
  <2>0. 1 \in 1 .. Len(s) - 1 /\ 1 <= j
    BY <1>1
  <2>1. CASE Head(s) = "nl"
    <3>1. 1 + 1 \in DOMAIN s /\ j + 1 \in DOMAIN s /\ 1 + 1 <= j + 1 /\ 1 + 1 # 1
          /\ IsLine(s, 1 + 1, j + 1)
      BY <2>0, <2>1, LineShift
    <3>2. SubSeq(Tail(s), 1, j) = SubSeq(s, 1 + 1, j + 1)
      BY <2>0, TailPiece
    <3>3. SubSeq(Tail(s), 1, j) \in Messages
      BY <3>1, <3>2 DEF Framed
    <3>4. SubSeq(Tail(s), 1, j) \in Seq(Symbol)
      BY <3>3, FirmwareAssumption
    <3> QED
      BY <2>1, <3>3, <3>4, ConcatEmptySeq
  <2>2. CASE Head(s) # "nl"
    <3>1. j + 1 \in DOMAIN s /\ IsLine(s, 1, j + 1)
      BY <2>0, <2>2, LineShift
    <3>2. d \o SubSeq(Tail(s), 1, j) = b \o SubSeq(s, 1, j + 1)
      BY <2>2, ShiftPiece
    <3> QED
      BY <3>1, <3>2 DEF Framed
  <2> QED
    BY <2>1, <2>2
<1> QED
  BY <1>2, <1>3 DEF Framed

(* What is buffered is forgotten in the middle of a line: the rest of the  *)
(* line has no comma.                                                      *)
LEMMA FramedForget ==
  ASSUME NEW t \in Seq(Symbol), NEW a \in Seq(Symbol), OneLineEach, Framed(t, a),
         Len(a) >= BufSize \/ ~NoComma(a)
  PROVE  Framed(t, <<>>)
<1>1. \A j \in DOMAIN t : IsLine(t, 1, j) =>
        <<>> \o SubSeq(t, 1, j) \in Messages \/ NoComma(<<>> \o SubSeq(t, 1, j))
  <2> SUFFICES ASSUME NEW j \in DOMAIN t, IsLine(t, 1, j)
               PROVE  NoComma(<<>> \o SubSeq(t, 1, j))
    OBVIOUS
  <2>1. j \in 1 .. Len(t) /\ \A i \in 1 .. j : t[i] \in Symbol
    BY LenProperties, ElementOfSeq
  <2>2. PICK q \in Seq(Symbol) : q = SubSeq(t, 1, j) /\ Len(q) = j
    <3>1. j \in Int /\ 1 <= j /\ j - 1 + 1 = j
      BY <2>1, LenProperties
    <3>2. SubSeq(t, 1, j) \in Seq(Symbol) /\ Len(SubSeq(t, 1, j)) = j
      BY <2>1, <3>1, SubSeqProperties
    <3> QED
      BY <3>2
  <2>3. a \o q \in Messages \/ NoComma(a \o q)
    BY <2>2 DEF Framed
  <2>4. PICK p \in Nat : p = Len(a) /\ DOMAIN a = 1 .. p /\ DOMAIN q = 1 .. j
    BY <2>2, LenProperties
  <2>5. /\ a \o q \in Seq(Symbol) /\ Len(a \o q) = p + j /\ DOMAIN (a \o q) = 1 .. p + j
        /\ \A i \in 1 .. p + j : (a \o q)[i] = IF i <= p THEN a[i] ELSE q[i - p]
    <3>1. a \o q \in Seq(Symbol) /\ Len(a \o q) = p + j
      BY <2>2, <2>4, ConcatProperties
    <3> QED
      BY <2>2, <2>4, <3>1, ConcatProperties, LenProperties
  <2>6. ASSUME NEW i \in 1 .. j PROVE i + p \in 1 .. p + j /\ (a \o q)[i + p] = q[i]
    <3>1. i + p \in 1 .. p + j /\ ~(i + p <= p) /\ i + p - p = i
      BY <2>1, <2>4
    <3> QED
      BY <2>5, <3>1
  <2>7. ASSUME NEW i \in 1 .. p PROVE i \in 1 .. p + j /\ (a \o q)[i] = a[i]
    <3>1. i \in 1 .. p + j /\ i <= p
      BY <2>1, <2>4
    <3> QED
      BY <2>5, <3>1
  <2>8. NoComma(q)
    <3>1. CASE NoComma(a \o q)
      BY <2>4, <2>5, <2>6, <3>1 DEF NoComma
    <3>2. CASE a \o q \in Messages
      <4>1. Len(a \o q) <= BufSize
        BY <3>2 DEF OneLineEach
      <4>2. ~(Len(a) >= BufSize)
        BY <2>1, <2>4, <2>5, <4>1, FirmwareAssumption
      <4>3. PICK k \in 1 .. p : a[k] = ","
        BY <2>4, <4>2 DEF NoComma
      <4>4. ASSUME NEW i \in 1 .. j, q[i] = "," PROVE FALSE
        <5>1. (a \o q)[k] = "," /\ (a \o q)[i + p] = ","
              /\ k \in DOMAIN (a \o q) /\ i + p \in DOMAIN (a \o q)
          BY <2>5, <2>6, <2>7, <4>3, <4>4
        <5>2. k = i + p
          BY <3>2, <5>1 DEF OneLineEach
        <5> QED
          BY <2>4, <5>2
      <4> QED
        BY <2>4, <4>4 DEF NoComma
    <3> QED
      BY <2>3, <3>1, <3>2
  <2> QED
    BY <2>2, <2>8, ConcatEmptySeq
<1> QED
  BY <1>1 DEF Framed

-----------------------------------------------------------------------------
(* Least and greatest elements; where a line and a number end.             *)
LEMMA Least ==
  ASSUME NEW set, set \subseteq Nat, set # {}
  PROVE  \E i \in set : \A j \in set : i <= j
<1>1. PICK i \in set : \A j \in set : ~(<<j, i>> \in OpToRel(<, Nat))
  BY NatLessThanWellFounded, WFMin
<1>2. \A j \in set : ~(j < i)
  BY <1>1 DEF OpToRel
<1> QED
  BY <1>2

LEMMA Greatest ==
  ASSUME NEW n \in Nat, NEW set, set \subseteq 0 .. n, set # {}
  PROVE  \E i \in set : \A j \in set : j <= i
<1>1. {n - i : i \in set} \subseteq Nat /\ {n - i : i \in set} # {}
  <2>1. \A i \in set : n - i \in Nat
    OBVIOUS
  <2> QED
    BY <2>1
<1>2. PICK k \in {n - i : i \in set} : \A j \in {n - i : i \in set} : k <= j
  BY <1>1, Least
<1>3. PICK i \in set : k = n - i
  OBVIOUS
<1>4. \A j \in set : n - i <= n - j
  BY <1>2, <1>3
<1>5. \A j \in set : j <= i
  BY <1>4
<1> QED
  BY <1>5

(* The rest of a line that has begun is still to come. *)
LEMMA LineEnds ==
  ASSUME NEW t \in Seq(Symbol), NEW a, Ended(t, a), t # <<>>
  PROVE  \E j \in DOMAIN t : IsLine(t, 1, j)
<1>1. PICK n \in Nat : n = Len(t) /\ n >= 1 /\ DOMAIN t = 1 .. n
  BY SeqFacts
<1> DEFINE ends == {j \in 1 .. n : t[j] = "nl"}
<1>2. n \in ends
  BY <1>1 DEF Ended
<1>3. ends \subseteq Nat
  OBVIOUS
<1>4. PICK j \in ends : \A i \in ends : j <= i
  BY <1>2, <1>3, Least
<1>5. \A k \in 1 .. j - 1 : t[k] # "nl"
  <2> SUFFICES ASSUME NEW k \in 1 .. j - 1, t[k] = "nl" PROVE FALSE
    OBVIOUS
  <2>1. k \in ends /\ ~(j <= k)
    BY <1>4
  <2> QED
    BY <1>4, <2>1
<1> QED
  BY <1>1, <1>4, <1>5 DEF IsLine

(* A pair has its comma, and the distance before it. *)
LEMMA PairFacts ==
  ASSUME NEW s \in Seq(Symbol), ParsesAsPair(s)
  PROVE  \E k, b \in DOMAIN s : Splits(s, k, b) /\ GoalOf(s).dist = SubSeq(s, 1, k - 1)
<1> DEFINE kb == CHOOSE p \in (DOMAIN s) \X (DOMAIN s) : Splits(s, p[1], p[2])
<1>1. \E p \in (DOMAIN s) \X (DOMAIN s) : Splits(s, p[1], p[2])
  <2>1. PICK k \in DOMAIN s, b \in DOMAIN s : Splits(s, k, b)
    BY DEF ParsesAsPair
  <2>2. <<k, b>> \in (DOMAIN s) \X (DOMAIN s) /\ <<k, b>>[1] = k /\ <<k, b>>[2] = b
    OBVIOUS
  <2> QED
    BY <2>1, <2>2
<1>2. Splits(s, kb[1], kb[2]) /\ kb[1] \in DOMAIN s /\ kb[2] \in DOMAIN s
  BY <1>1
<1>3. GoalOf(s).dist = SubSeq(s, 1, kb[1] - 1)
  BY DEF GoalOf
<1> QED
  BY <1>2, <1>3

(* The beginning of a message that is a pair has the message's distance. *)
LEMMA PrefixGoal ==
  ASSUME OneLineEach, NEW a \in Seq(Symbol), NEW q \in Seq(Symbol), a \o q \in Messages,
         ParsesAsPair(a)
  PROVE  ParsesAsPair(a \o q) /\ GoalOf(a \o q).dist = GoalOf(a).dist
<1> DEFINE m == a \o q
<1>1. PICK p \in Nat, n \in Nat : p = Len(a) /\ n = Len(q)
  BY LenProperties
<1>2. /\ m \in Seq(Symbol) /\ Len(m) = p + n /\ DOMAIN m = 1 .. p + n /\ DOMAIN a = 1 .. p
      /\ \A i \in 1 .. p : m[i] = a[i]
  <2>1. a \o q \in Seq(Symbol) /\ Len(a \o q) = p + n
    BY <1>1, ConcatProperties
  <2>2. \A i \in 1 .. p : (a \o q)[i] = a[i]
    <3>1. \A i \in 1 .. p : i \in 1 .. Len(a) + Len(q) /\ i <= Len(a)
      BY <1>1
    <3> QED
      BY <3>1, ConcatProperties
  <2> QED
    BY <1>1, <2>1, <2>2, LenProperties
<1>3. \A i \in 1 .. p, j \in 1 .. p : SubSeq(m, i, j) = SubSeq(a, i, j)
  BY <1>1, SubSeqOfConcat1
<1>4. \A i, j \in 1 .. p + n : m[i] = "," /\ m[j] = "," => i = j
  BY <1>2 DEF OneLineEach
<1>5. PICK k \in 1 .. p, b \in 1 .. p :
        Splits(a, k, b) /\ GoalOf(a).dist = SubSeq(a, 1, k - 1)
  BY <1>2, PairFacts
<1> HIDE DEF m
<1>5a. /\ a[k] = "," /\ IsNumber(SubSeq(a, 1, k - 1)) /\ IsNumber(SubSeq(a, k + 1, b))
       /\ k - 1 \in 1 .. p /\ b \in k + 1 .. p
  BY <1>1, <1>5 DEF Splits, Consumes
<1>6. k \in Nat /\ b \in Nat /\ 1 <= k - 1 /\ k + 1 <= b /\ b <= p
  <2>1. k - 1 \in 1 .. p /\ b \in k + 1 .. p
    BY <1>5a
  <2>2. k \in 1 .. p /\ b \in 1 .. p
    BY <1>5
  <2> QED
    BY <2>1, <2>2
<1>7. m[k] = "," /\ k \in 1 .. p + n
  <2>1. k \in 1 .. p + n
    BY <1>1, <1>6
  <2> QED
    BY <1>2, <1>5a, <2>1
<1>8. Consumes(m, 1, k - 1)
  <2>1. k - 1 \in 1 .. Len(m)
    <3>1. k - 1 \in 1 .. p + n
      BY <1>6
    <3> QED
      BY <1>2, <3>1
  <2>2. IsNumber(SubSeq(m, 1, k - 1))
    <3>1. 1 \in 1 .. p /\ k - 1 \in 1 .. p
      BY <1>6
    <3>2. SubSeq(m, 1, k - 1) = SubSeq(a, 1, k - 1)
      BY <1>3, <3>1
    <3> QED
      BY <1>5a, <3>2
  <2>3. ASSUME NEW c \in k - 1 + 1 .. Len(m) PROVE ~IsNumber(SubSeq(m, 1, c))
    <3>1. c \in 1 .. p + n /\ k \in 1 .. c
      <4>1. c \in k - 1 + 1 .. p + n
        BY <1>2, <2>3
      <4> QED
        BY <1>6, <4>1
    <3>2. \A i \in 1 .. c : m[i] \in Symbol
      BY <1>2, <3>1, ElementOfSeq
    <3>3. SubSeq(m, 1, c) \in Seq(Symbol) /\ Len(SubSeq(m, 1, c)) = c
          /\ \A i \in 1 .. c : SubSeq(m, 1, c)[i] = m[i]
      <4>1. c \in Int /\ 1 <= c /\ c - 1 + 1 = c /\ \A i \in 1 .. c : 1 + i - 1 = i
        BY <3>1
      <4> QED
        BY <3>2, <4>1, SubSeqProperties
    <3>4. k \in DOMAIN SubSeq(m, 1, c) /\ SubSeq(m, 1, c)[k] = ","
      BY <1>7, <3>1, <3>3, LenProperties
    <3>5. "," \notin {"d", "."}
      OBVIOUS
    <3> QED
      BY <3>4, <3>5 DEF IsNumber
  <2> QED
    BY <2>1, <2>2, <2>3 DEF Consumes
<1>9. \E e \in 1 .. p + n : Consumes(m, k + 1, e)
  <2> DEFINE fits == {e \in k + 1 .. p + n : IsNumber(SubSeq(m, k + 1, e))}
  <2>1. b \in fits
    <3>1. k + 1 \in 1 .. p /\ b \in 1 .. p /\ b \in k + 1 .. p + n
      BY <1>6
    <3>2. SubSeq(m, k + 1, b) = SubSeq(a, k + 1, b)
      BY <1>3, <3>1
    <3> QED
      BY <1>5a, <3>1, <3>2
  <2>2. fits \subseteq 0 .. p + n /\ p + n \in Nat
    OBVIOUS
  <2>3. PICK e \in fits : \A f \in fits : f <= e
    BY <2>1, <2>2, Greatest
  <2>4. ASSUME NEW c \in e + 1 .. Len(m) PROVE ~IsNumber(SubSeq(m, k + 1, c))
    <3>1. c \in k + 1 .. p + n /\ ~(c <= e)
      BY <1>2, <2>3, <2>4
    <3> QED
      BY <2>3, <3>1
  <2>5. e \in k + 1 .. Len(m) /\ e \in 1 .. p + n /\ IsNumber(SubSeq(m, k + 1, e))
    BY <1>2
  <2> QED
    BY <2>4, <2>5 DEF Consumes
<1>10. ParsesAsPair(m)
  BY <1>2, <1>7, <1>8, <1>9 DEF ParsesAsPair, Splits
<1>11. PICK l \in 1 .. p + n, e \in 1 .. p + n :
         Splits(m, l, e) /\ GoalOf(m).dist = SubSeq(m, 1, l - 1)
  BY <1>2, <1>10, PairFacts
<1>12. l = k
  BY <1>4, <1>7, <1>11 DEF Splits
<1>13. SubSeq(m, 1, k - 1) = SubSeq(a, 1, k - 1)
  <2>1. 1 \in 1 .. p /\ k - 1 \in 1 .. p
    BY <1>6
  <2> QED
    BY <1>3, <2>1
<1> QED
  BY <1>5, <1>10, <1>11, <1>12, <1>13 DEF m

-----------------------------------------------------------------------------
(* The steps that leave the line alone. *)
LEMMA LineKept ==
  ASSUME TypeOK, ~Lossy, [Next]_vars
  PROVE  \/ Unread' = Unread /\ cmdBuf' = cmdBuf /\ afterStop' = afterStop /\ goal' = goal
         \/ Send \/ ReadByte
<1>1. CASE Arrive
  BY <1>1, ArriveFacts DEF TypeOK, Arrive, mission
<1>2. CASE EndDrain \/ Control \/ Status \/ Tick \/ UNCHANGED vars
  BY <1>2 DEF EndDrain, Control, NoTick, Steer, Done, TimedOut, CheckPeriod, Status, Tick, vars,
     link, mission, Unread
<1>3. ~Overrun
  BY DEF Overrun
<1> QED
  BY <1>1, <1>2, <1>3 DEF Next

(* What a byte does to the buffer. *)
LEMMA ByteFacts ==
  ASSUME TypeOK, ReadByte
  PROVE  \E c \in Symbol : 
           /\ Read(c)
           /\ \/ BufferByte /\ c # "nl" /\ cmdBuf' = Append(cmdBuf, c) /\ goal' = goal
              \/ /\ AcceptEarly /\ c # "nl" /\ cmdBuf' = <<>>
                 /\ IsCompletePair(Append(cmdBuf, c)) /\ goal' = GoalOf(Append(cmdBuf, c))
              \/ /\ Overflow /\ c # "nl" /\ cmdBuf' = <<>>
                 /\ Len(cmdBuf) >= BufSize - 1 /\ goal' = goal
              \/ c = "nl" /\ cmdBuf' = <<>> /\ goal' = goal
              \/ c = "nl" /\ cmdBuf' = <<>> /\ ParsesAsPair(cmdBuf) /\ goal' = GoalOf(cmdBuf)
<1>1. CASE BufferByte
  BY <1>1 DEF BufferByte, mission
<1>2. CASE AcceptEarly
  BY <1>2 DEF AcceptEarly, StartMove
<1>3. CASE Overflow
  <2>1. PICK c \in Symbol \ {"nl"} : Read(c) /\ ~HasRoom /\ cmdBuf' = <<>> /\ goal' = goal
    BY <1>3 DEF Overflow
  <2>2. Len(cmdBuf) \in Nat /\ BufSize \in Nat
    BY FirmwareAssumption DEF TypeOK
  <2>3. Len(cmdBuf) >= BufSize - 1
    BY <2>1, <2>2 DEF HasRoom
  <2> QED
    BY <1>3, <2>1, <2>3
<1>4. CASE EmptyLine \/ StopLine \/ RefuseLine \/ AnswerLine
  <2>1. Read("nl") /\ cmdBuf' = <<>> /\ goal' = goal
    BY <1>4 DEF EmptyLine, StopLine, RefuseLine, AnswerLine, mission
  <2> QED
    BY <2>1 DEF Symbol
<1>5. CASE AcceptLine
  <2>1. Read("nl") /\ cmdBuf' = <<>> /\ ParsesAsPair(cmdBuf) /\ goal' = GoalOf(cmdBuf)
    BY <1>5 DEF AcceptLine, StartMove
  <2> QED
    BY <2>1 DEF Symbol
<1> QED
  BY <1>1, <1>2, <1>3, <1>4, <1>5 DEF ReadByte

(* A pair has a comma. *)
LEMMA PairHasComma ==
  ASSUME NEW s, ParsesAsPair(s) \/ IsCompletePair(s)
  PROVE  ~NoComma(s)
BY DEF ParsesAsPair, IsCompletePair, Splits, NoComma

LEMMA StopsStep ==
  ASSUME StopsAlone, TypeOK, StopInv, [Next]_vars
  PROVE  StopInv'
<1>0. ~Lossy /\ EndedHost
  BY DEF StopsAlone, EndedHost
<1>1. CASE Unread' = Unread /\ cmdBuf' = cmdBuf /\ afterStop' = afterStop
  BY <1>1 DEF StopInv
<1>2. CASE Send
  <2>1. /\ Unread \in Seq(Symbol) /\ wire' \in Messages
        /\ Unread' = Unread \o wire' /\ cmdBuf' = cmdBuf /\ afterStop' = afterStop
    BY <1>2, SendFacts DEF TypeOK, Send
  <2>2. Ended(Unread', cmdBuf)
    BY <1>0, <2>1, EndedSend
  <2>3. StopsFirst(Unread', cmdBuf)
    BY <2>1, StopsSend DEF StopInv
  <2> QED
    BY <2>1, <2>2, <2>3 DEF StopInv
<1>3. CASE ReadByte
  <2>1. PICK c \in Symbol :
           /\ Read(c)
           /\ c = "nl" => cmdBuf' = <<>>
           /\ \/ BufferByte /\ cmdBuf' = Append(cmdBuf, c)
              \/ IsCompletePair(Append(cmdBuf, c))
              \/ Len(cmdBuf) >= BufSize - 1
              \/ c = "nl"
    BY <1>3, ByteFacts
  <2>2. /\ Unread \in Seq(Symbol) /\ Unread # <<>>
        /\ c = Head(Unread) /\ Unread' = Tail(Unread) /\ afterStop' = (c = "STOP")
    BY <2>1, ReadFacts DEF TypeOK, Read
  <2>3. Ended(Tail(Unread), cmdBuf') /\ StopsFirst(Tail(Unread), cmdBuf')
    BY <2>1, <2>2, EndedRead, StopsRead DEF StopInv
  <2>4. ASSUME c = "STOP" PROVE cmdBuf' = <<"STOP">>
    <3>1. cmdBuf = <<>>
      <4>1. 1 \in DOMAIN Unread /\ Unread[1] = "STOP"
        BY <2>2, <2>4, SeqFacts
      <4> QED
        BY <4>1 DEF StopInv, StopsFirst
    <3>2. Append(cmdBuf, c) = <<"STOP">>
      BY <2>4, <3>1
    <3>3. ~IsCompletePair(<<"STOP">>)
      <4>1. NoComma(<<"STOP">>)
        <5>1. <<"STOP">>[1] = "STOP" /\ DOMAIN <<"STOP">> = {1}
          OBVIOUS
        <5> QED
          BY <5>1 DEF NoComma
      <4> QED
        BY <4>1, PairHasComma
    <3>4. ~(Len(cmdBuf) >= BufSize - 1)
      <4>1. Len(cmdBuf) = 0
        BY <3>1
      <4> QED
        BY <4>1, FirmwareAssumption
    <3> QED
      BY <2>1, <2>4, <3>2, <3>3, <3>4
  <2> QED
    BY <2>2, <2>3, <2>4 DEF StopInv
<1> QED
  BY <1>0, <1>1, <1>2, <1>3, LineKept

(* The framing. *)
LEMMA FramingStep ==
  ASSUME OneLineEach, TypeOK, FramingInv, [Next]_vars
  PROVE  FramingInv'
<1>0. ~Lossy /\ EndedHost
  BY DEF OneLineEach, EndedHost
<1>4. cmdBuf \in Seq(Symbol)
  BY DEF TypeOK
<1>1. CASE Unread' = Unread /\ cmdBuf' = cmdBuf
  BY <1>1 DEF FramingInv
<1>2. CASE Send
  <2>1. /\ Unread \in Seq(Symbol) /\ wire' \in Messages
        /\ Unread' = Unread \o wire' /\ cmdBuf' = cmdBuf
    BY <1>2, SendFacts DEF TypeOK, Send
  <2>2. Ended(Unread', cmdBuf)
    BY <1>0, <2>1, EndedSend
  <2>3. Framed(Unread', cmdBuf)
    BY <1>4, <2>1, FramedSend DEF FramingInv
  <2> QED
    BY <2>1, <2>2, <2>3 DEF FramingInv
<1>3. CASE ReadByte
  <2>1. PICK c \in Symbol :
           /\ Read(c)
           /\ \/ c # "nl" /\ cmdBuf' = Append(cmdBuf, c)
              \/ c # "nl" /\ cmdBuf' = <<>> /\ ~NoComma(Append(cmdBuf, c))
              \/ c # "nl" /\ cmdBuf' = <<>> /\ Len(cmdBuf) >= BufSize - 1
              \/ c = "nl" /\ cmdBuf' = <<>>
    BY <1>3, ByteFacts, PairHasComma
  <2>2. /\ Unread \in Seq(Symbol) /\ Unread # <<>>
        /\ c = Head(Unread) /\ Unread' = Tail(Unread) /\ Tail(Unread) \in Seq(Symbol)
    BY <2>1, ReadFacts DEF TypeOK
  <2>3. Ended(Tail(Unread), cmdBuf')
    BY <2>1, <2>2, EndedRead DEF FramingInv
  <2>4. CASE c = "nl" /\ cmdBuf' = <<>>
    <3>1. Framed(Tail(Unread), <<>>)
      BY <1>4, <2>2, <2>4, FramedRead DEF FramingInv
    <3> QED
      BY <2>2, <2>3, <2>4, <3>1 DEF FramingInv
  <2>5. CASE c # "nl"
    <3> DEFINE a == Append(cmdBuf, c)
    <3>1. a \in Seq(Symbol) /\ Len(a) = Len(cmdBuf) + 1
      BY <1>4, AppendProperties
    <3>2. Framed(Tail(Unread), a)
      BY <1>4, <2>2, <2>5, FramedRead DEF FramingInv
    <3>3. Len(cmdBuf) >= BufSize - 1 => Len(a) >= BufSize
      <4>1. Len(cmdBuf) \in Nat /\ BufSize \in Nat
        BY <1>4, LenProperties, FirmwareAssumption
      <4> QED
        BY <3>1, <4>1
    <3> HIDE DEF a
    <3>4. Len(a) >= BufSize \/ ~NoComma(a) => Framed(Tail(Unread), <<>>)
      BY <2>2, <3>1, <3>2, FramedForget
    <3>5. Framed(Tail(Unread), cmdBuf')
      BY <2>1, <2>5, <3>2, <3>3, <3>4 DEF a
    <3> QED
      BY <2>2, <2>3, <3>5 DEF FramingInv
  <2> QED
    BY <2>1, <2>4, <2>5
<1> QED
  BY <1>0, <1>1, <1>2, <1>3, LineKept

(* A move starts on the beginning of a message. *)
LEMMA BegunIsSent ==
  ASSUME OneLineEach, NEW a \in Seq(Symbol), NEW q \in Seq(Symbol), ParsesAsPair(a),
         a \o q \in Messages \/ NoComma(a \o q), goal' = GoalOf(a)
  PROVE  DistanceAsSent'
<1>1. ~NoComma(a \o q)
  <2>1. PICK k \in DOMAIN a : a[k] = ","
    BY PairHasComma DEF NoComma
  <2>2. k \in DOMAIN (a \o q) /\ (a \o q)[k] = a[k]
    <3>1. PICK p \in Nat, n \in Nat : p = Len(a) /\ n = Len(q) /\ DOMAIN a = 1 .. p
      BY LenProperties
    <3>2. a \o q \in Seq(Symbol) /\ Len(a \o q) = p + n
      BY <3>1, ConcatProperties
    <3>3. DOMAIN (a \o q) = 1 .. p + n
      BY <3>1, <3>2, LenProperties
    <3>4. k \in 1 .. p + n /\ k <= p
      <4>1. k \in 1 .. p
        BY <2>1, <3>1
      <4> QED
        BY <4>1
    <3> QED
      BY <3>1, <3>3, <3>4, ConcatProperties
  <2> QED
    BY <2>1, <2>2 DEF NoComma
<1>2. a \o q \in Messages /\ ParsesAsPair(a \o q) /\ GoalOf(a \o q).dist = GoalOf(a).dist
  BY <1>1, PrefixGoal
<1>3. GoalOf(a \o q) \in SentGoals
  BY <1>2 DEF SentGoals
<1> QED
  BY <1>2, <1>3 DEF DistanceAsSent

LEMMA Piece ==
  ASSUME NEW t \in Seq(Symbol), NEW j \in DOMAIN t
  PROVE  SubSeq(t, 1, j) \in Seq(Symbol)
<1>1. j \in 1 .. Len(t) /\ Len(t) \in Nat
  BY LenProperties
<1>2. \A i \in 1 .. j : t[i] \in Symbol
  BY <1>1, ElementOfSeq
<1> QED
  BY <1>1, <1>2, SubSeqProperties

LEMMA DistanceStep ==
  ASSUME OneLineEach, TypeOK, FramingInv, DistanceAsSent, [Next]_vars
  PROVE  DistanceAsSent'
<1>0. ~Lossy
  BY DEF OneLineEach, EndedHost
<1>4. cmdBuf \in Seq(Symbol)
  BY DEF TypeOK
<1>1. CASE goal' = goal
  BY <1>1 DEF DistanceAsSent, NoGoal, SentGoals
<1>2. CASE Send
  BY <1>1, <1>2 DEF Send, mission
<1>3. CASE ReadByte
  <2>1. PICK c \in Symbol :
           /\ Read(c)
           /\ \/ c # "nl" /\ IsCompletePair(Append(cmdBuf, c)) /\ goal' = GoalOf(Append(cmdBuf, c))
              \/ goal' = goal
              \/ c = "nl" /\ ParsesAsPair(cmdBuf) /\ goal' = GoalOf(cmdBuf)
    BY <1>3, ByteFacts
  <2>2. /\ Unread \in Seq(Symbol) /\ Unread # <<>>
        /\ c = Head(Unread) /\ Tail(Unread) \in Seq(Symbol)
    BY <2>1, ReadFacts DEF TypeOK
  <2>3. CASE c = "nl" /\ ParsesAsPair(cmdBuf) /\ goal' = GoalOf(cmdBuf)
    <3>1. 1 \in DOMAIN Unread /\ Unread[1] = "nl"
      BY <2>2, <2>3, SeqFacts
    <3>2. IsLine(Unread, 1, 1)
      BY <3>1 DEF IsLine
    <3> DEFINE q == SubSeq(Unread, 1, 1)
    <3>3. q \in Seq(Symbol)
      BY <2>2, <3>1, Piece
    <3>4. cmdBuf \o q \in Messages \/ NoComma(cmdBuf \o q)
      BY <3>1, <3>2 DEF FramingInv, Framed
    <3> HIDE DEF q
    <3> QED
      BY <1>4, <2>3, <3>3, <3>4, BegunIsSent
  <2>4. CASE c # "nl" /\ IsCompletePair(Append(cmdBuf, c)) /\ goal' = GoalOf(Append(cmdBuf, c))
    <3> DEFINE a == Append(cmdBuf, c)
               t == Tail(Unread)
    <3>1. a \in Seq(Symbol) /\ a # <<>>
      BY <1>4, AppendProperties
    <3>2. Framed(t, a) /\ Ended(t, a)
      BY <1>4, <2>2, <2>4, FramedRead, EndedRead DEF FramingInv
    <3>3. t # <<>>
      BY <3>1, <3>2 DEF Ended
    <3>4. ParsesAsPair(a) /\ goal' = GoalOf(a)
      BY <2>4, <3>1, CompleteParses
    <3> HIDE DEF a, t
    <3>5. t \in Seq(Symbol)
      BY <2>2 DEF t
    <3>6. PICK j \in DOMAIN t : IsLine(t, 1, j)
      BY <3>2, <3>3, <3>5, LineEnds
    <3> DEFINE q == SubSeq(t, 1, j)
    <3>7. q \in Seq(Symbol)
      BY <3>5, Piece
    <3>8. a \o q \in Messages \/ NoComma(a \o q)
      BY <3>2, <3>6 DEF Framed
    <3> HIDE DEF q
    <3> QED
      BY <3>1, <3>4, <3>7, <3>8, BegunIsSent
  <2> QED
    BY <1>1, <2>1, <2>3, <2>4
<1> QED
  BY <1>0, <1>1, <1>2, <1>3, LineKept

LEMMA LineInit ==
  ASSUME Init
  PROVE  StopInv /\ FramingInv /\ DistanceAsSent
<1>1. Unread = <<>> /\ cmdBuf = <<>> /\ afterStop = FALSE /\ goal = NoGoal
  BY DEF Init, Unread
<1>2. DOMAIN <<>> = {}
  OBVIOUS
<1>3. Ended(<<>>, <<>>) /\ StopsFirst(<<>>, <<>>) /\ Framed(<<>>, <<>>)
  BY <1>2 DEF Ended, StopsFirst, Framed
<1> QED
  BY <1>1, <1>3 DEF StopInv, FramingInv, DistanceAsSent

(* README_omni_bldc.md, While moving: "Only STOP is accepted; it aborts    *)
(* the move".  It does, whatever is buffered and wherever earlier moves    *)
(* began and ended, for every host that ends its messages with a newline   *)
(* and begins a line with STOP, over a link that loses no byte; no_newline *)
(* shows that a host without newlines has no such promise.                 *)
THEOREM StopAborts ==
  ASSUME StopsAlone
  PROVE  Spec => StopHonoured
<1>1. Init => StopInv
  BY LineInit
<1>2. TypeOK /\ StopInv /\ [Next]_vars => StopInv'
  BY StopsStep
<1>3. ASSUME TypeOK, StopInv, [Next]_vars, rx # <<>>, rx' = Tail(rx), Head(rx) = "nl",
             afterStop, moveState = "MOVING"
      PROVE  moveState' = "IDLE"
  <2>1. cmdBuf = <<"STOP">>
    BY <1>3 DEF StopInv
  <2>2. Len(rx) \in Nat /\ Len(rx) >= 1 /\ Len(rx') = Len(rx) - 1
    BY <1>3, SeqFacts DEF TypeOK
  <2>3. rx' # rx
    BY <2>2
  <2>4. ~Arrive
    <3> SUFFICES ASSUME Arrive PROVE FALSE
      OBVIOUS
    <3>0. wire # <<>> /\ wire \in Seq(Symbol) /\ rx' = Append(rx, Head(wire))
      BY <1>3 DEF Arrive, TypeOK
    <3>1. Head(wire) \in Symbol
      BY <3>0, SeqFacts
    <3>2. Len(rx') = Len(rx) + 1
      BY <1>3, <3>0, <3>1, AppendProperties DEF TypeOK
    <3> QED
      BY <2>2, <3>2
  <2>5. ReadByte
    BY <1>3, <2>3, <2>4 DEF Next, Send, Overrun, EndDrain, Control, NoTick, Steer, Done, TimedOut,
       CheckPeriod, Status, Tick, vars, link
  <2>6. StopLine
    <3>1. cmdBuf # <<>>
      BY <2>1
    <3> QED
      BY <1>3, <2>1, <2>5, <3>1 DEF ReadByte, BufferByte, AcceptEarly, Overflow, EmptyLine,
         RefuseLine, AnswerLine, AcceptLine, Read
  <2> QED
    BY <2>6 DEF StopLine, EndMove
<1>4. TypeOK /\ StopInv /\ [Next]_vars =>
        [rx # <<>> /\ rx' = Tail(rx) /\ Head(rx) = "nl" /\ afterStop
           /\ moveState = "MOVING" => moveState' = "IDLE"]_vars
  BY <1>3
<1> QED
  BY <1>1, <1>2, <1>4, TypeCorrect, PTL DEF Spec, StopHonoured

(* Header: 'Host sends one line: "distance_in,angle_rad"': the distance    *)
(* the robot runs is one the host sent, though a move starts at the first  *)
(* digit of its angle and the rest of its line is read while it runs, or   *)
(* when it has ended; for every host whose lines fit the buffer and have   *)
(* one comma at most, over a link that loses no byte.                      *)
THEOREM RunsAsSent ==
  ASSUME OneLineEach
  PROVE  Spec => []DistanceAsSent
<1>1. Init => FramingInv /\ DistanceAsSent
  BY LineInit
<1>2. TypeOK /\ FramingInv /\ DistanceAsSent /\ [Next]_vars => FramingInv' /\ DistanceAsSent'
  BY FramingStep, DistanceStep
<1> QED
  BY <1>1, <1>2, TypeCorrect, PTL DEF Spec
=============================================================================
