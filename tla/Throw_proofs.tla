----------------------------- MODULE Throw_proofs -----------------------------
(***************************************************************************)
(* Proofs about Throw for any number of threads, calls and timers, any     *)
(* messages within the sketch's int, and any pace that the tracker's       *)
(* cooldown outlasts.                                                      *)
(***************************************************************************)
EXTENDS Throw, FiniteSetTheorems, SequenceTheorems, TLAPS

-----------------------------------------------------------------------------
(* The tracker: what OneArming counts, and a capture that began after the  *)
(* cooldown never meets it again.                                          *)
Armed ==
  IF state = "WAIT"
    THEN \/ pending /\ Tracker!Alive = {}
         \/ ~pending /\ \E t \in Thread : Tracker!Alive = {t}
    ELSE ~pending /\ Tracker!Alive = {}

TrackerInv ==
  /\ Tracker!TypeOK
  /\ Armed
  /\ state = "COLLECTING" => points < Required /\ sincePublish >= Interval

(* The pins of the motors that the sketch is done with. *)
PinInv ==
  /\ fr = lastDirForward
  /\ \A m \in Firmware!Motor :
       next = 0 \/ m < next =>
         /\ fr[m] = (values[m] >= 0)
         /\ en[m] = (Firmware!Magnitude(values[m]) > 0)
         /\ bk[m] = (Firmware!Magnitude(values[m]) = 0)
         /\ sv[m] = Firmware!Magnitude(values[m])

(* The line: what was written last is the last to arrive. *)
Limited(line) == [m \in Firmware!Motor |-> Firmware!Clamp(line.values[m])]

WireLine == [kind : {"values", "p", "long"}, values : Seq(Int)]

LineInv ==
  /\ wire \in Seq(WireLine)
  /\ opened =>
       /\ \A i \in 1 .. Len(wire) : wire[i] \in {Node!Line(cmd) : cmd \in Node!Commands}
       /\ IF wire = <<>> THEN values = Limited(written) ELSE wire[Len(wire)] = written

-----------------------------------------------------------------------------
(* The flight of a command through the subscriber.  It is alone there, and *)
(* at every stage its age is covered by the sleeps it has been through and *)
(* the lag; a line that still waits has cost a lag as long as the sleep.   *)
Lines == Len(wire)
Idle == \A c \in Call : pc[c] = "idle"
TimersIdle == \A t \in Timer : tpc[t] = "idle"
NoTimers == TimersIdle /\ active = {} /\ stopTimer = NoTimer

Resting ==
  /\ topic = <<>> /\ Idle /\ NoTimers
  /\ written = Node!StopLine
  /\ opened /\ (wire # <<>> \/ next # 0) => sincePublish <= lag + 2 * StopAfter

Awaiting ==
  /\ opened /\ Len(topic) = 1 /\ Idle /\ NoTimers
  /\ wire = <<>> /\ sincePublish <= lag

AtDrive(c) == pc[c] = "drive" /\ wire = <<>> /\ sincePublish <= lag

AtSleep(c) ==
  /\ pc[c] = "sleep"
  /\ sincePublish + sleepLeft[c] <= lag + StopAfter
  /\ Lines <= 1
  /\ Lines = 1 => lag + sleepLeft[c] >= StopAfter

AtAgain(c) ==
  /\ pc[c] = "again"
  /\ sincePublish <= lag + StopAfter
  /\ Lines <= 2
  /\ Lines = 2 => lag >= StopAfter

AtTimer(c) ==
  /\ pc[c] \in {"cancel", "create"}
  /\ sincePublish <= lag + StopAfter
  /\ Lines <= 3
  /\ Lines = 3 => lag >= StopAfter

Calling(c) ==
  /\ opened /\ topic = <<>> /\ NoTimers
  /\ \A d \in Call \ {c} : pc[d] = "idle"
  /\ AtDrive(c) \/ AtSleep(c) \/ AtAgain(c) \/ AtTimer(c)

Counting(t) ==
  /\ tpc[t] = "idle" /\ active = {t}
  /\ sincePublish + timerLeft[t] <= lag + 2 * StopAfter
  /\ Lines <= 3
  /\ Lines = 3 => lag + timerLeft[t] >= 2 * StopAfter
  /\ Lines >= 1 => lag + timerLeft[t] >= StopAfter

Stopped(t) ==
  /\ \/ tpc[t] \in {"test", "cancel"} /\ active = {t}
     \/ tpc[t] = "clear" /\ active = {}
  /\ sincePublish <= lag + 2 * StopAfter
  /\ written = Node!StopLine

Timing(t) ==
  /\ opened /\ topic = <<>> /\ Idle /\ stopTimer = t
  /\ \A u \in Timer \ {t} : tpc[u] = "idle"
  /\ Counting(t) \/ Stopped(t)

FlightInv ==
  /\ ~crashed
  /\ \/ Resting \/ Awaiting
     \/ \E c \in Call : Calling(c)
     \/ \E t \in Timer : Timing(t)

IInv == TypeOK /\ TrackerInv /\ PinInv /\ LineInv /\ FlightInv

-----------------------------------------------------------------------------
LEMMA ConstantFacts ==
  /\ Required \in Nat /\ Required > 1 /\ Interval \in Nat
  /\ StopAfter \in Nat /\ StopAfter > 0 /\ MaxLag \in Nat
  /\ Depth \in Nat /\ Depth > 0 /\ WireSize \in Nat /\ WireSize > 0
  /\ NoTimer \notin Timer
  /\ 2 * StopAfter + MaxLag < Interval
BY ThrowAssumption DEF Tracker!TrackerAssumption, Node!SubscriberAssumption,
     PacedAssumption, Horizon

LEMMA RoomFacts == RoomAssumption
BY ThrowAssumption

LEMMA FullSleep == StopAfter \in 0 .. StopAfter
BY ConstantFacts

LEMMA ScaleFacts ==
  /\ MaxWheelCmd \in Nat /\ MinEffectiveCmd \in 0 .. MaxWheelCmd
  /\ IntMod \in Nat /\ IntMod > 0
BY ThrowAssumption DEF Firmware!MoveAssumption

-----------------------------------------------------------------------------
(* The tracker's steps. *)
LEMMA TrackerInit == Tracker!Init => TrackerInv
<1> SUFFICES ASSUME Tracker!Init PROVE TrackerInv
  OBVIOUS
<1>1. PICK t \in Thread : arm = [s \in Thread |-> IF s = t THEN "input" ELSE "off"]
  BY DEF Tracker!Init
<1>2. Tracker!Alive = {t}
  BY <1>1 DEF Tracker!Alive
<1>3. arm \in [Thread -> {"off", "input", "sleep"}]
  BY <1>1
<1>4. armLeft \in [Thread -> 0 .. Interval]
  BY ConstantFacts DEF Tracker!Init
<1>5. /\ intrinsics = FALSE /\ state = "WAIT" /\ points = 0
      /\ sincePublish = Interval /\ pending = FALSE
  BY DEF Tracker!Init
<1>6. points \in 0 .. Required /\ sincePublish \in 0 .. Interval
  BY <1>5, ConstantFacts
<1>7. Tracker!TypeOK
  BY <1>3, <1>4, <1>5, <1>6 DEF Tracker!TypeOK
<1>8. Armed
  BY <1>2, <1>5 DEF Armed
<1> QED
  BY <1>5, <1>7, <1>8 DEF TrackerInv

LEMMA EnterKeeps ==
  ASSUME TrackerInv, NEW t \in Thread, Tracker!Enter(t)
  PROVE  TrackerInv'
<1>1. Tracker!Alive' = Tracker!Alive
  BY DEF TrackerInv, Tracker!TypeOK, Tracker!Enter, Tracker!Alive
<1>2. Interval - sincePublish \in 0 .. Interval
  BY ConstantFacts DEF TrackerInv, Tracker!TypeOK
<1>3. Tracker!TypeOK'
  BY <1>2 DEF TrackerInv, Tracker!TypeOK, Tracker!Enter
<1> QED
  BY <1>1, <1>3 DEF TrackerInv, Armed, Tracker!Enter

LEMMA SetPendingKeeps ==
  ASSUME TrackerInv, NEW t \in Thread, Tracker!SetPending(t)
  PROVE  TrackerInv'
<1>1. t \in Tracker!Alive
  BY DEF Tracker!SetPending, Tracker!Alive
<1>2. state = "WAIT" /\ Tracker!Alive = {t}
  BY <1>1 DEF TrackerInv, Armed
<1>3. Tracker!Alive' = {}
  BY <1>2 DEF TrackerInv, Tracker!TypeOK, Tracker!SetPending, Tracker!Alive
<1>4. Tracker!TypeOK'
  BY DEF TrackerInv, Tracker!TypeOK, Tracker!SetPending
<1> QED
  BY <1>2, <1>3, <1>4 DEF TrackerInv, Armed, Tracker!SetPending

LEMMA FinishKeeps ==
  ASSUME TrackerInv, NEW verdict, Tracker!Finish(verdict)
  PROVE  TrackerInv' /\ state' = "WAIT" /\ sincePublish >= Interval
<1>1. state = "COLLECTING" /\ points < Required /\ sincePublish >= Interval
  BY DEF TrackerInv, Tracker!Finish
<1>2. verdict # "cooldown"
  BY <1>1, ConstantFacts DEF Tracker!Finish, Tracker!Verdicts, TrackerInv, Tracker!TypeOK
<1>3. PICK t \in Thread : Tracker!Spawn(t)
  BY <1>2 DEF Tracker!Finish
<1>4. Tracker!Alive = {} /\ ~pending
  BY <1>1 DEF TrackerInv, Armed
<1>5. Tracker!Alive' = {t}
  BY <1>3, <1>4 DEF TrackerInv, Tracker!TypeOK, Tracker!Spawn, Tracker!Alive
<1>6. arm' \in [Thread -> {"off", "input", "sleep"}]
  BY <1>3 DEF TrackerInv, Tracker!TypeOK, Tracker!Spawn
<1>7. state' = "WAIT" /\ points' = points + 1 /\ UNCHANGED <<intrinsics, pending, armLeft>>
  BY <1>2 DEF Tracker!Finish
<1>8. sincePublish' \in 0 .. Interval
  BY ConstantFacts DEF Tracker!Finish, TrackerInv, Tracker!TypeOK
<1>9. Tracker!TypeOK'
  BY <1>1, <1>6, <1>7, <1>8, ConstantFacts DEF TrackerInv, Tracker!TypeOK
<1> QED
  BY <1>1, <1>4, <1>5, <1>7, <1>9 DEF TrackerInv, Armed

LEMMA TrackerAges ==
  ASSUME TrackerInv, Tracker!Age
  PROVE  TrackerInv'
<1>1. Tracker!Alive' = Tracker!Alive
  BY DEF Tracker!Age, Tracker!Alive
<1>2. Tracker!TypeOK'
  BY ConstantFacts DEF TrackerInv, Tracker!TypeOK, Tracker!Age
<1> QED
  BY <1>1, <1>2, ConstantFacts DEF TrackerInv, Tracker!TypeOK, Armed, Tracker!Age

LEMMA WatchKeeps ==
  ASSUME TrackerInv, Watch
  PROVE  TrackerInv'
<1>1. CASE Tracker!CameraInfo
  BY <1>1 DEF Tracker!CameraInfo, TrackerInv, Tracker!TypeOK, Armed, Tracker!Alive
<1>2. CASE Tracker!StartCapture
  BY <1>2, ConstantFacts
     DEF Tracker!StartCapture, TrackerInv, Tracker!TypeOK, Armed, Tracker!Alive
<1>3. CASE Tracker!AddPoint
  BY <1>3, ConstantFacts
     DEF Tracker!AddPoint, TrackerInv, Tracker!TypeOK, Armed, Tracker!Alive
<1>4. CASE Tracker!Poll
  <2>1. Tracker!Alive' = {}
    BY <1>4 DEF Tracker!Poll, TrackerInv, Armed, Tracker!Alive
  <2>2. /\ state' = "IDLE" /\ pending' = FALSE /\ points' = 0
        /\ UNCHANGED <<intrinsics, sincePublish, arm, armLeft>>
    BY <1>4 DEF Tracker!Poll
  <2>3. points' \in 0 .. Required
    BY <2>2, ConstantFacts
  <2>4. Tracker!TypeOK'
    BY <2>2, <2>3 DEF TrackerInv, Tracker!TypeOK
  <2> QED
    BY <2>1, <2>2, <2>4 DEF TrackerInv, Armed
<1> QED
  BY <1>1, <1>2, <1>3, <1>4, EnterKeeps, SetPendingKeeps, Zenon DEF Watch

LEMMA TrackerStep == TrackerInv /\ [Next]_vars => TrackerInv'
<1> SUFFICES ASSUME TrackerInv, [Next]_vars PROVE TrackerInv'
  OBVIOUS
<1>1. CASE EndCapture
  BY <1>1, FinishKeeps DEF EndCapture
<1>2. CASE Tick
  BY <1>2, TrackerAges DEF Tick
<1>3. CASE UNCHANGED trackerVars
  BY <1>3 DEF trackerVars, TrackerInv, Tracker!TypeOK, Armed, Tracker!Alive
<1> QED
  BY <1>1, <1>2, <1>3, WatchKeeps DEF Next, Type, Open, Drive, Move, vars

LEMMA TrackerHolds == Spec => []TrackerInv
BY TrackerInit, TrackerStep, PTL DEF Spec, Init

(* A tracker that waits has exactly one way to be armed, and one that does *)
(* not wait has none, however many threads read stdin.                     *)
THEOREM ArmedOnce == Spec => []OneArming
<1>1. TrackerInv => OneArming
  <2> SUFFICES ASSUME TrackerInv PROVE OneArming
    OBVIOUS
  <2>1. Cardinality({}) = 0 /\ \A t \in Thread : Cardinality({t}) = 1
    BY FS_EmptySet, FS_Singleton
  <2>2. CASE state = "WAIT" /\ ~pending
    <3>1. PICK t \in Thread : Tracker!Alive = {t}
      BY <2>2 DEF TrackerInv, Armed
    <3>2. Cardinality(Tracker!Alive) = 1
      BY <2>1, <3>1
    <3> QED
      BY <2>2, <3>2 DEF OneArming
  <2>3. CASE ~(state = "WAIT" /\ ~pending)
    <3>1. Cardinality(Tracker!Alive) = 0 /\ (pending <=> state = "WAIT")
      BY <2>1, <2>3 DEF TrackerInv, Armed
    <3> QED
      BY <2>3, <3>1 DEF OneArming
  <2> QED
    BY <2>2, <2>3
<1> QED
  BY <1>1, TrackerHolds, PTL

(* A capture that was begun is brought to a verdict. *)
THEOREM CapturesEnd == Spec => NoCaptureLost
<1>1. TrackerInv /\ [Next]_vars
        => [state = "COLLECTING" => state' # "IDLE"]_(Tracker!trackerVars)
  <2> SUFFICES ASSUME TrackerInv, [Next]_vars, state = "COLLECTING"
               PROVE  state' # "IDLE" \/ UNCHANGED Tracker!trackerVars
    OBVIOUS
  <2>1. ~pending
    BY DEF TrackerInv, Armed
  <2>2. CASE Watch
    BY <2>1, <2>2 DEF Watch, Tracker!CameraInfo, Tracker!StartCapture, Tracker!AddPoint,
         Tracker!Poll, Tracker!Enter, Tracker!SetPending
  <2>3. CASE EndCapture
    BY <2>3, FinishKeeps DEF EndCapture
  <2>4. CASE Tick
    BY <2>4 DEF Tick, Tracker!Age
  <2>5. CASE UNCHANGED trackerVars
    BY <2>5 DEF trackerVars, Tracker!trackerVars
  <2> QED
    BY <2>2, <2>3, <2>4, <2>5 DEF Next, Type, Open, Drive, Move, vars
<1> QED
  BY <1>1, TrackerHolds, PTL DEF Spec, NoCaptureLost, Tracker!NoCaptureLost

-----------------------------------------------------------------------------
(* The values of a line. *)
LEMMA ClampFacts ==
  ASSUME NEW v \in Int
  PROVE  /\ Firmware!Clamp(v) \in -MaxWheelCmd .. MaxWheelCmd
         /\ v \in -MaxWheelCmd .. MaxWheelCmd => Firmware!Clamp(v) = v
BY ScaleFacts DEF Firmware!Clamp

LEMMA MagnitudeFacts ==
  ASSUME NEW v \in -MaxWheelCmd .. MaxWheelCmd
  PROVE  /\ Firmware!Magnitude(v) \in 0 .. MaxWheelCmd
         /\ Firmware!Magnitude(v) = 0 <=> v = 0
BY ScaleFacts DEF Firmware!Magnitude, Firmware!Abs

LEMMA Int16Typed ==
  ASSUME NEW v \in Int
  PROVE  Firmware!Int16(v) \in Int
BY ScaleFacts DEF Firmware!Int16

LEMMA PwmTyped ==
  ASSUME NEW vx \in Int, NEW vy \in Int
  PROVE  Node!PwmFromBodyVelocity(vx, vy) \in [Firmware!Motor -> Int]
<1>1. /\ Sine \in [Firmware!Motor -> Int] /\ Cosine \in [Firmware!Motor -> Int]
      /\ PwmMax \in Nat /\ PwmRef \in Nat \ {0}
  BY ThrowAssumption DEF Node!SubscriberAssumption
<1>2. ASSUME NEW m \in Firmware!Motor
      PROVE  Node!WheelVelocities(vx, vy)[m] \in Int
  BY <1>1 DEF Node!WheelVelocities
<1>3. ASSUME NEW v \in Int
      PROVE  (IF v >= 0 THEN v \div PwmRef ELSE -((-v) \div PwmRef)) \in Int
  BY <1>1
<1>4. ASSUME NEW m \in Firmware!Motor
      PROVE  Node!WheelVelocities(vx, vy)[m] * PwmMax \in Int
  BY <1>1, <1>2
<1> QED
  BY <1>3, <1>4 DEF Node!PwmFromBodyVelocity

LEMMA CommandFacts ==
  ASSUME NEW cmd \in Node!Commands
  PROVE  /\ cmd \in [Firmware!Motor -> Int]
         /\ cmd \in Seq(Int) /\ Len(cmd) = 4
         /\ \A m \in Firmware!Motor : Firmware!Int16(cmd[m]) = cmd[m]
<1>1. cmd \in [Firmware!Motor -> Int]
  <2>1. Node!Zero \in [Firmware!Motor -> Int]
    BY DEF Node!Zero
  <2>2. CASE cmd # Node!Zero
    <3>1. PICK msg \in Message : cmd = Node!PwmFromBodyVelocity(msg[1], msg[2])
      BY <2>2 DEF Node!Commands
    <3>2. msg[1] \in Int /\ msg[2] \in Int
      BY ThrowAssumption DEF Node!SubscriberAssumption
    <3> QED
      BY <3>1, <3>2, PwmTyped
  <2> QED
    BY <2>1, <2>2
<1>2. cmd \in Seq(Int)
  <2>1. [1 .. 4 -> Int] \in {[1 .. n -> Int] : n \in Nat}
    OBVIOUS
  <2> QED
    BY <1>1, <2>1, SeqDef, Zenon DEF Firmware!Motor
<1>3. Len(cmd) = 4
  BY <1>1, <1>2, LenProperties DEF Firmware!Motor
<1>4. \A m \in Firmware!Motor : Firmware!Int16(cmd[m]) = cmd[m]
  BY ThrowAssumption DEF RangeAssumption
<1> QED
  BY <1>1, <1>2, <1>3, <1>4

LEMMA ZeroCommand == Node!Zero \in Node!Commands /\ Node!StopLine = Node!Line(Node!Zero)
BY DEF Node!Commands, Node!StopLine

LEMMA LineTyped ==
  ASSUME NEW cmd \in Node!Commands
  PROVE  Node!Line(cmd) \in WireLine
BY CommandFacts DEF Node!Line, WireLine

-----------------------------------------------------------------------------
(* The sketch's pins. *)
MoveInv == Firmware!TypeOK /\ PinInv

LEMMA PinsAtRest ==
  /\ 0 \in -MaxWheelCmd .. MaxWheelCmd
  /\ Firmware!Magnitude(0) = 0
<1>1. 0 \in -MaxWheelCmd .. MaxWheelCmd
  BY ScaleFacts
<1> QED
  BY <1>1, MagnitudeFacts

LEMMA MoveInit == Firmware!Init => MoveInv
<1> SUFFICES ASSUME Firmware!Init PROVE MoveInv
  OBVIOUS
<1>1. Firmware!TypeOK
  BY PinsAtRest, ScaleFacts DEF Firmware!Init, Firmware!TypeOK
<1>2. ASSUME NEW m \in Firmware!Motor
      PROVE  values[m] = 0 /\ fr[m] /\ bk[m] /\ ~en[m] /\ sv[m] = 0
  BY DEF Firmware!Init
<1>3. fr = lastDirForward
  BY DEF Firmware!Init
<1>4. ASSUME NEW m \in Firmware!Motor
      PROVE  /\ fr[m] = (values[m] >= 0)
             /\ en[m] = (Firmware!Magnitude(values[m]) > 0)
             /\ bk[m] = (Firmware!Magnitude(values[m]) = 0)
             /\ sv[m] = Firmware!Magnitude(values[m])
  BY <1>1, <1>2, PinsAtRest DEF Firmware!TypeOK
<1> QED
  BY <1>1, <1>3, <1>4 DEF MoveInv, PinInv

LEMMA ResetKeeps == Firmware!Reset => MoveInv'
<1> SUFFICES ASSUME Firmware!Reset PROVE MoveInv'
  OBVIOUS
<1>1. Firmware!TypeOK'
  BY PinsAtRest, ScaleFacts DEF Firmware!Reset, Firmware!TypeOK
<1>2. ASSUME NEW m \in Firmware!Motor
      PROVE  values'[m] = 0 /\ fr'[m] /\ bk'[m] /\ ~en'[m] /\ sv'[m] = 0
  BY DEF Firmware!Reset
<1>3. fr' = lastDirForward'
  BY DEF Firmware!Reset
<1>4. ASSUME NEW m \in Firmware!Motor
      PROVE  /\ fr'[m] = (values'[m] >= 0)
             /\ en'[m] = (Firmware!Magnitude(values'[m]) > 0)
             /\ bk'[m] = (Firmware!Magnitude(values'[m]) = 0)
             /\ sv'[m] = Firmware!Magnitude(values'[m])
  BY <1>1, <1>2, PinsAtRest DEF Firmware!TypeOK
<1> QED
  BY <1>1, <1>3, <1>4 DEF MoveInv, PinInv

LEMMA AcceptKeeps ==
  ASSUME MoveInv, wire \in Seq(WireLine), Firmware!AcceptLine
  PROVE  MoveInv'
<1>1. Head(wire) \in WireLine
  BY HeadTailProperties DEF Firmware!AcceptLine
<1>2. \A m \in Firmware!Motor : Head(wire).values[m] \in Int
  BY <1>1, ElementOfSeq, LenProperties
     DEF Firmware!AcceptLine, Firmware!Accepted, Firmware!Motor, WireLine
<1>3. values' \in [Firmware!Motor -> -MaxWheelCmd .. MaxWheelCmd]
  BY <1>2, ClampFacts, Int16Typed DEF Firmware!AcceptLine
<1>4. next' = 1 /\ UNCHANGED <<lastDirForward, fr, bk, en, sv>>
  BY DEF Firmware!AcceptLine
<1> QED
  BY <1>3, <1>4 DEF MoveInv, PinInv, Firmware!TypeOK, Firmware!Motor

LEMMA MoveMotorKeeps ==
  ASSUME MoveInv, Firmware!MoveMotor
  PROVE  MoveInv'
<1> USE DEF MoveInv, Firmware!TypeOK
<1> DEFINE magnitude == Firmware!Magnitude(values[next])
           forward == values[next] >= 0
<1>1. next \in Firmware!Motor /\ values[next] \in -MaxWheelCmd .. MaxWheelCmd
  BY DEF Firmware!MoveMotor, Firmware!Motor
<1>2. magnitude \in 0 .. MaxWheelCmd
  BY <1>1, MagnitudeFacts
<1>3. /\ lastDirForward' = [lastDirForward EXCEPT ![next] = forward]
      /\ fr' = IF forward # lastDirForward[next] THEN [fr EXCEPT ![next] = forward] ELSE fr
      /\ bk' = [bk EXCEPT ![next] = (magnitude = 0)]
      /\ en' = [en EXCEPT ![next] = (magnitude > 0)]
      /\ sv' = [sv EXCEPT ![next] = magnitude]
      /\ next' = (IF next < 4 THEN next + 1 ELSE 0) /\ values' = values
  BY DEF Firmware!MoveMotor
<1> HIDE DEF magnitude, forward
<1>4. forward \in BOOLEAN
  BY DEF forward
<1>5. fr' = lastDirForward'
  BY <1>1, <1>3, <1>4 DEF PinInv
<1>6. Firmware!TypeOK'
  BY <1>1, <1>2, <1>3, <1>4
<1>7. ASSUME NEW m \in Firmware!Motor, next' = 0 \/ m < next'
      PROVE  /\ fr'[m] = (values'[m] >= 0)
             /\ en'[m] = (Firmware!Magnitude(values'[m]) > 0)
             /\ bk'[m] = (Firmware!Magnitude(values'[m]) = 0)
             /\ sv'[m] = Firmware!Magnitude(values'[m])
  <2>1. CASE m = next
    BY <1>1, <1>3, <1>5, <2>1 DEF magnitude, forward
  <2>2. CASE m # next
    <3>1. m < next
      BY <1>1, <1>3, <1>7, <2>2 DEF Firmware!Motor
    <3> QED
      BY <1>1, <1>3, <1>5, <2>2, <3>1 DEF PinInv
  <2> QED
    BY <2>1, <2>2
<1> QED
  BY <1>5, <1>6, <1>7 DEF PinInv

LEMMA MoveStep == MoveInv /\ wire \in Seq(WireLine) /\ [Next]_vars => MoveInv'
<1> SUFFICES ASSUME MoveInv, wire \in Seq(WireLine), [Next]_vars PROVE MoveInv'
  OBVIOUS
<1>1. CASE Move
  <2>1. CASE UNCHANGED moveVars
    BY <2>1 DEF moveVars, MoveInv, PinInv, Firmware!TypeOK
  <2> QED
    BY <1>1, <2>1, AcceptKeeps, MoveMotorKeeps
       DEF Move, Firmware!Loop, Firmware!TooLong, Firmware!AnswerLine, moveVars,
           Firmware!moveVars
<1>2. CASE Open
  BY <1>2, ResetKeeps DEF Open
<1>3. CASE UNCHANGED moveVars
  BY <1>3 DEF moveVars, MoveInv, PinInv, Firmware!TypeOK
<1> QED
  BY <1>1, <1>2, <1>3 DEF Next, Watch, EndCapture, Type, Drive, Tick, vars

-----------------------------------------------------------------------------
(* Writing a line. *)
LEMMA WriteFacts ==
  ASSUME wire \in Seq(WireLine), Len(wire) <= WireSize,
         NEW cmd \in Node!Commands, Node!Write(Node!Line(cmd))
  PROVE  /\ written' \in {Node!Line(c) : c \in Node!Commands}
         /\ wire' \in Seq(WireLine) /\ Len(wire') <= WireSize
         /\ Lines < WireSize => wire' = Append(wire, written') /\ Lines' = Lines + 1
<1>1. /\ written' = Node!Line(cmd)
      /\ wire' = IF Len(wire) < WireSize THEN Append(wire, written') ELSE wire
  BY DEF Node!Write
<1>2. /\ Append(wire, written') \in Seq(WireLine)
      /\ Len(Append(wire, written')) = Len(wire) + 1
  BY <1>1, LineTyped, AppendProperties
<1>3. Len(wire) \in Nat
  BY LenProperties
<1> QED
  BY <1>1, <1>2, <1>3, ConstantFacts DEF Lines

-----------------------------------------------------------------------------
(* The subscriber's variables stay in range. *)
NodeTyped == Node!TypeOK /\ wire \in Seq(WireLine)

LEMMA ListenerTyped ==
  ASSUME NodeTyped, NEW c \in Call, Node!Listener(c)
  PROVE  NodeTyped'
<1>0. topic \in Seq(Message) /\ Len(topic) <= Depth
  BY DEF NodeTyped, Node!TypeOK
<1>1. CASE Node!Take(c)
  <2>1. topic \in Seq(Message) /\ topic # <<>>
    BY <1>0, <1>1 DEF Node!Take
  <2>2. Head(topic) \in Message /\ Tail(topic) \in Seq(Message)
        /\ Len(Tail(topic)) = Len(topic) - 1
    BY <2>1, HeadTailProperties
  <2>3. Node!PwmFromBodyVelocity(Head(topic)[1], Head(topic)[2]) \in Node!Commands
    BY <2>2 DEF Node!Commands
  <2>4. Len(topic) \in Nat
    BY <2>1, LenProperties
  <2>5. Len(Tail(topic)) <= Depth
    BY <1>0, <2>2, <2>4, ConstantFacts
  <2>6. pwms' \in [Call -> Node!Commands]
    BY <1>1, <2>3 DEF Node!Take, NodeTyped, Node!TypeOK
  <2> QED
    BY <1>1, <2>2, <2>5, <2>6
       DEF Node!Take, Node!Goto, Node!timerVars, Node!lineVars, NodeTyped, Node!TypeOK
<1> USE DEF NodeTyped, Node!TypeOK
<1>2. CASE Node!Drive(c)
  <2>1. pwms[c] \in Node!Commands
    OBVIOUS
  <2>2. sleepLeft' \in [Call -> 0 .. StopAfter]
    BY <1>2, FullSleep DEF Node!Drive
  <2>3. pc' \in [Call -> {"idle", "drive", "sleep", "again", "cancel", "cancel it", "create"}]
    BY <1>2 DEF Node!Drive, Node!Goto
  <2> QED
    BY <1>2, <2>1, <2>2, <2>3, WriteFacts DEF Node!Drive, Node!timerVars
<1>3. CASE Node!DelayedStop(c)
  BY <1>3, WriteFacts, ZeroCommand DEF Node!DelayedStop, Node!Goto, Node!timerVars
<1>4. CASE Node!DriveAgain(c)
  BY <1>4, WriteFacts DEF Node!DriveAgain, Node!Goto, Node!timerVars
<1>5. CASE Node!TestTimer(c)
  BY <1>5 DEF Node!TestTimer, Node!Goto, Node!timerVars, Node!lineVars
<1>6. CASE Node!CancelTimer(c)
  BY <1>6 DEF Node!CancelTimer, Node!Goto, Node!lineVars
<1>7. CASE Node!CreateTimer(c)
  <2>1. timerLeft' \in [Timer -> 0 .. StopAfter]
    BY <1>7, FullSleep DEF Node!CreateTimer
  <2> QED
    BY <1>7, <2>1 DEF Node!CreateTimer, Node!Goto, Node!lineVars
<1> QED
  BY <1>1, <1>2, <1>3, <1>4, <1>5, <1>6, <1>7 DEF Node!Listener

LEMMA FiredTyped ==
  ASSUME NodeTyped, NEW t \in Timer, Node!Fired(t)
  PROVE  NodeTyped'
<1> USE DEF NodeTyped, Node!TypeOK
<1>1. CASE Node!Fire(t)
  <2>1. timerLeft' \in [Timer -> 0 .. StopAfter]
    BY <1>1, FullSleep DEF Node!Fire
  <2> QED
    BY <1>1, <2>1, WriteFacts, ZeroCommand DEF Node!Fire, Node!callVars
<1>2. CASE Node!FiredTest(t)
  BY <1>2 DEF Node!FiredTest, Node!callVars, Node!lineVars
<1>3. CASE Node!FiredCancel(t)
  BY <1>3 DEF Node!FiredCancel, Node!callVars, Node!lineVars
<1>4. CASE Node!FiredClear(t)
  BY <1>4 DEF Node!FiredClear, Node!callVars, Node!lineVars
<1> QED
  BY <1>1, <1>2, <1>3, <1>4 DEF Node!Fired

(* The sketch takes lines and adds none. *)
LEMMA LoopTyped ==
  ASSUME NodeTyped, Firmware!Loop
  PROVE  /\ wire' \in Seq(WireLine) /\ Len(wire') <= Len(wire)
         /\ (wire' # <<>> \/ next' # 0) => (wire # <<>> \/ next # 0)
<1>1. wire \in Seq(WireLine) /\ Len(wire) \in Nat
  BY LenProperties DEF NodeTyped
<1>2. ASSUME wire # <<>>
      PROVE  /\ Head(wire) \in WireLine /\ Tail(wire) \in Seq(WireLine)
             /\ Len(Tail(wire)) = Len(wire) - 1
  BY <1>1, <1>2, HeadTailProperties
<1>3. CASE Firmware!TooLong
  <2> DEFINE head == [Head(wire) EXCEPT !.kind = "values"]
  <2>1. wire # <<>> /\ wire' = <<head>> \o Tail(wire)
    BY <1>3 DEF Firmware!TooLong
  <2>2. head \in WireLine
    BY <1>2, <2>1 DEF WireLine
  <2> HIDE DEF head
  <2>3. <<head>> \in Seq(WireLine) /\ Len(<<head>>) = 1
    BY <2>2
  <2>4. wire' \in Seq(WireLine) /\ Len(wire') = 1 + Len(Tail(wire))
    BY <1>2, <2>1, <2>3, ConcatProperties
  <2> QED
    BY <1>1, <1>2, <2>1, <2>4
<1>4. CASE Firmware!AcceptLine \/ Firmware!AnswerLine
  BY <1>1, <1>2, <1>4 DEF Firmware!AcceptLine, Firmware!AnswerLine
<1>5. CASE Firmware!MoveMotor
  BY <1>1, <1>5 DEF Firmware!MoveMotor
<1> QED
  BY <1>3, <1>4, <1>5 DEF Firmware!Loop

-----------------------------------------------------------------------------
(* The flight.  Numbers that the stages compare: *)
Counts ==
  /\ sincePublish \in 0 .. Interval /\ lag \in 0 .. MaxLag
  /\ sleepLeft \in [Call -> 0 .. StopAfter] /\ timerLeft \in [Timer -> 0 .. StopAfter]
  /\ Lines \in Nat /\ (wire = <<>> <=> Lines = 0)
  /\ topic = <<>> <=> Len(topic) = 0

LEMMA CountsHold == IInv => Counts
<1> SUFFICES ASSUME IInv PROVE Counts
  OBVIOUS
<1>1. wire \in Seq(WireLine) /\ topic \in Seq(Message)
  BY DEF IInv, LineInv, TypeOK, Node!TypeOK
<1>2. Lines \in Nat /\ (wire = <<>> <=> Lines = 0) /\ (topic = <<>> <=> Len(topic) = 0)
  BY <1>1, EmptySeq, LenProperties DEF Lines
<1> QED
  BY <1>1, <1>2 DEF IInv, TypeOK, Node!TypeOK, Tracker!TypeOK, Counts

(* Whoever acts is the one in flight. *)
LEMMA WhoTakes == FlightInv /\ topic # <<>> => Awaiting
BY DEF FlightInv, Resting, Calling, Timing

LEMMA WhoCalls ==
  ASSUME FlightInv, NEW c \in Call, pc[c] # "idle"
  PROVE  Calling(c)
BY DEF FlightInv, Resting, Awaiting, Idle, Calling, Timing

LEMMA WhoFires ==
  ASSUME FlightInv, NEW t \in Timer, t \in active \/ tpc[t] # "idle"
  PROVE  Timing(t)
BY DEF FlightInv, Resting, Awaiting, NoTimers, TimersIdle, Calling, Timing, Counting, Stopped

(* Long after a publication nothing is in flight. *)
LEMMA LandedInTime ==
  ASSUME FlightInv, Counts, opened, sincePublish > Horizon
  PROVE  Resting /\ wire = <<>> /\ next = 0
<1> USE ConstantFacts DEF Counts, Horizon
<1>1. ~Awaiting
  BY DEF Awaiting
<1>2. ASSUME NEW c \in Call PROVE ~Calling(c)
  BY DEF Calling, AtDrive, AtSleep, AtAgain, AtTimer
<1>3. ASSUME NEW t \in Timer PROVE ~Timing(t)
  BY DEF Timing, Counting, Stopped
<1>4. Resting
  BY <1>1, <1>2, <1>3 DEF FlightInv
<1> QED
  BY <1>4 DEF Resting

(* No line is ever written to a full receiver. *)
LEMMA Room ==
  ASSUME NEW n \in Nat, NEW l \in Nat, l <= MaxLag,
         n <= 3, n >= 2 => l >= StopAfter, n = 3 => l >= 2 * StopAfter
  PROVE  n < WireSize
<1>1. StopAfter \in Nat /\ MaxLag \in Nat /\ WireSize \in Nat
  BY ConstantFacts
<1>2. CASE WireSize = 2 /\ MaxLag < StopAfter
  BY <1>1, <1>2
<1>3. CASE WireSize = 3 /\ MaxLag < 2 * StopAfter
  BY <1>1, <1>3
<1>4. CASE WireSize > 3
  BY <1>1, <1>4
<1> QED
  BY <1>2, <1>3, <1>4, RoomFacts DEF RoomAssumption

LEMMA RoomAtCall ==
  ASSUME Counts, NEW c \in Call,
         \/ AtDrive(c)
         \/ AtSleep(c) /\ sleepLeft[c] = 0
         \/ AtAgain(c)
  PROVE  Lines < WireSize
<1>1. /\ Lines \in Nat /\ lag \in Nat /\ lag <= MaxLag
      /\ StopAfter \in Nat /\ MaxLag \in Nat
  BY ConstantFacts DEF Counts
<1>2. Lines <= 2 /\ (Lines = 2 => lag >= StopAfter)
  BY <1>1 DEF AtDrive, AtSleep, AtAgain, Counts
<1> HIDE DEF Counts
<1> QED
  BY <1>1, <1>2, Room

LEMMA RoomAtTimer ==
  ASSUME Counts, NEW t \in Timer, Counting(t), timerLeft[t] = 0
  PROVE  Lines < WireSize
<1>1. /\ Lines \in Nat /\ lag \in Nat /\ lag <= MaxLag
      /\ StopAfter \in Nat /\ MaxLag \in Nat
  BY ConstantFacts DEF Counts
<1>2. /\ Lines <= 3 /\ (Lines = 3 => lag >= 2 * StopAfter)
      /\ Lines >= 2 => lag >= StopAfter
  BY <1>1 DEF Counting
<1> QED
  BY <1>1, <1>2, Room

-----------------------------------------------------------------------------
(* What the steps of the subscriber leave to the others. *)
NodeFrame == UNCHANGED <<sincePublish, lag, opened, next, values>>

LEMMA TakeFlies ==
  ASSUME IInv, NEW c \in Call, Node!Take(c), NodeFrame
  PROVE  FlightInv'
<1>1. Awaiting /\ ~crashed /\ Counts
  BY WhoTakes, CountsHold DEF IInv, Node!Take, FlightInv
<1>2. topic' = <<>>
  <2>1. topic \in Seq(Message)
    BY DEF IInv, TypeOK, Node!TypeOK
  <2>2. topic # <<>> /\ Len(topic) = 1
    BY <1>1 DEF Awaiting, Node!Take
  <2>3. Len(Tail(topic)) = 0 /\ Tail(topic) \in Seq(Message)
    BY <2>1, <2>2, HeadTailProperties
  <2> QED
    BY <2>3, EmptySeq DEF Node!Take
<1>3. pc \in [Call -> {"idle", "drive", "sleep", "again", "cancel", "cancel it", "create"}]
  BY DEF IInv, TypeOK, Node!TypeOK
<1>4. Calling(c)'
  BY <1>1, <1>2, <1>3
     DEF Awaiting, Calling, AtDrive, Idle, NoTimers, TimersIdle, Node!Take, Node!Goto,
         Node!timerVars, Node!lineVars, NodeFrame
<1> QED
  BY <1>1, <1>4 DEF FlightInv, Node!Take, Node!timerVars

(* A call that goes on to its next stage stays the only one. *)
LEMMA StaysCalling ==
  ASSUME IInv, NEW c \in Call, Calling(c), NEW there,
         Node!Goto(c, there), UNCHANGED <<topic, Node!timerVars, opened>>,
         (AtDrive(c) \/ AtSleep(c) \/ AtAgain(c) \/ AtTimer(c))'
  PROVE  FlightInv'
<1>1. \A d \in Call \ {c} : pc'[d] = pc[d]
  BY DEF Node!Goto, IInv, TypeOK, Node!TypeOK
<1>2. Calling(c)'
  BY <1>1 DEF Calling, NoTimers, TimersIdle, Node!timerVars
<1> QED
  BY <1>2 DEF IInv, FlightInv, Node!timerVars

LEMMA CallWrites ==
  ASSUME IInv, NEW c \in Call, NodeFrame, Node!Drive(c) \/ Node!DelayedStop(c) \/ Node!DriveAgain(c)
  PROVE  FlightInv' /\ Lines < WireSize
<1> USE ConstantFacts
<1>1. Calling(c) /\ Counts
  BY WhoCalls, CountsHold DEF IInv, Node!Drive, Node!DelayedStop, Node!DriveAgain
<1>2. /\ pwms[c] \in Node!Commands /\ Len(wire) <= WireSize /\ wire \in Seq(WireLine)
      /\ pc \in [Call -> {"idle", "drive", "sleep", "again", "cancel", "cancel it", "create"}]
  BY DEF IInv, LineInv, TypeOK, Node!TypeOK
<1>a. /\ Lines \in Nat /\ lag \in Nat /\ lag <= MaxLag
      /\ sincePublish \in Nat /\ StopAfter \in Nat /\ MaxLag \in Nat
  BY <1>1 DEF Counts
<1>3. CASE Node!Drive(c)
  <2>1. AtDrive(c)
    BY <1>1, <1>3 DEF Calling, Node!Drive, AtDrive, AtSleep, AtAgain, AtTimer
  <2>a. Lines < WireSize
    BY <1>1, <2>1, RoomAtCall
  <2>b. Lines' = Lines + 1
    BY <1>2, <1>3, <2>a, WriteFacts DEF Node!Drive
  <2>2. Lines < WireSize /\ Lines' = 1
    BY <1>1, <2>1, <2>a, <2>b DEF Counts, AtDrive
  <2>3. CASE pwms[c] # Node!Zero
    <3>1. Node!Goto(c, "sleep") /\ sleepLeft' = [sleepLeft EXCEPT ![c] = StopAfter]
      BY <1>3, <2>3 DEF Node!Drive
    <3>2. pc'[c] = "sleep" /\ sleepLeft'[c] = StopAfter
      BY <1>1, <1>2, <3>1 DEF Node!Goto, Counts
    <3>3. AtSleep(c)'
      BY <1>1, <2>1, <2>2, <3>2 DEF AtDrive, AtSleep, Counts, NodeFrame
    <3> QED
      BY <1>1, <1>3, <2>2, <3>1, <3>3, StaysCalling DEF Node!Drive, NodeFrame
  <2>4. CASE pwms[c] = Node!Zero
    <3>1. Node!Goto(c, "again")
      BY <1>3, <2>4 DEF Node!Drive
    <3>2. pc'[c] = "again"
      BY <1>2, <3>1 DEF Node!Goto
    <3>3. AtAgain(c)'
      BY <1>1, <2>1, <2>2, <3>2 DEF AtDrive, AtAgain, Counts, NodeFrame
    <3> QED
      BY <1>1, <1>3, <2>2, <3>1, <3>3, StaysCalling DEF Node!Drive, NodeFrame
  <2> QED
    BY <2>3, <2>4
<1>4. CASE Node!DelayedStop(c)
  <2>1. AtSleep(c) /\ sleepLeft[c] = 0
    BY <1>1, <1>4 DEF Calling, Node!DelayedStop, AtDrive, AtSleep, AtAgain, AtTimer
  <2>2. Lines < WireSize /\ Lines' = Lines + 1
    <3>1. Lines < WireSize
      BY <1>1, <2>1, RoomAtCall
    <3> QED
      BY <1>2, <1>4, <3>1, WriteFacts, ZeroCommand DEF Node!DelayedStop
  <2>3. pc'[c] = "again" /\ Node!Goto(c, "again")
    BY <1>2, <1>4 DEF Node!DelayedStop, Node!Goto
  <2>4. AtAgain(c)'
    <3>1. UNCHANGED <<sincePublish, lag>>
      BY DEF NodeFrame
    <3>2. sincePublish <= lag + StopAfter /\ Lines <= 1 /\ (Lines = 1 => lag >= StopAfter)
      BY <1>a, <2>1 DEF AtSleep
    <3>3. Lines' <= 2 /\ (Lines' = 2 => lag >= StopAfter)
      BY <1>a, <2>2, <3>2
    <3> QED
      BY <2>3, <3>1, <3>2, <3>3 DEF AtAgain
  <2> QED
    BY <1>1, <1>4, <2>2, <2>3, <2>4, StaysCalling DEF Node!DelayedStop, NodeFrame
<1>5. CASE Node!DriveAgain(c)
  <2>1. AtAgain(c)
    BY <1>1, <1>5 DEF Calling, Node!DriveAgain, AtDrive, AtSleep, AtAgain, AtTimer
  <2>2. Lines < WireSize /\ Lines' = Lines + 1
    <3>1. Lines < WireSize
      BY <1>1, <2>1, RoomAtCall
    <3> QED
      BY <1>2, <1>5, <3>1, WriteFacts DEF Node!DriveAgain
  <2>3. pc'[c] = "cancel" /\ Node!Goto(c, "cancel")
    BY <1>2, <1>5 DEF Node!DriveAgain, Node!Goto
  <2>4. AtTimer(c)'
    <3>1. UNCHANGED <<sincePublish, lag>>
      BY DEF NodeFrame
    <3>2. sincePublish <= lag + StopAfter /\ Lines <= 2 /\ (Lines = 2 => lag >= StopAfter)
      BY <2>1 DEF AtAgain
    <3>3. Lines' <= 3 /\ (Lines' = 3 => lag >= StopAfter)
      BY <1>a, <2>2, <3>2
    <3> QED
      BY <2>3, <3>1, <3>2, <3>3 DEF AtTimer
  <2> QED
    BY <1>1, <1>5, <2>2, <2>3, <2>4, StaysCalling DEF Node!DriveAgain, NodeFrame
<1> QED
  BY <1>3, <1>4, <1>5

LEMMA CallArms ==
  ASSUME IInv, NEW c \in Call, NodeFrame,
         Node!TestTimer(c) \/ Node!CancelTimer(c) \/ Node!CreateTimer(c)
  PROVE  FlightInv'
<1>1. Calling(c) /\ Counts /\ ~crashed
  BY WhoCalls, CountsHold
     DEF IInv, Node!TestTimer, Node!CancelTimer, Node!CreateTimer, FlightInv
<1>2. AtTimer(c) /\ opened /\ topic = <<>> /\ NoTimers /\ \A d \in Call \ {c} : pc[d] = "idle"
  BY <1>1 DEF Calling, AtDrive, AtSleep, AtAgain, AtTimer,
       Node!TestTimer, Node!CancelTimer, Node!CreateTimer
<1>3. pc \in [Call -> {"idle", "drive", "sleep", "again", "cancel", "cancel it", "create"}]
  BY DEF IInv, TypeOK, Node!TypeOK
<1>4. UNCHANGED <<sincePublish, lag, opened, topic>>
  BY DEF NodeFrame, Node!TestTimer, Node!CancelTimer, Node!CreateTimer
<1>5. Lines' = Lines
  BY DEF Lines, Node!TestTimer, Node!CancelTimer, Node!CreateTimer, Node!lineVars
<1>6. CASE Node!TestTimer(c)
  <2>1. Node!Goto(c, "create") /\ UNCHANGED Node!timerVars
    BY <1>2, <1>6 DEF NoTimers, Node!TestTimer
  <2>2. pc'[c] = "create"
    BY <1>3, <2>1 DEF Node!Goto
  <2>3. AtTimer(c)'
    BY <1>2, <1>4, <1>5, <2>2 DEF AtTimer
  <2> QED
    BY <1>1, <1>4, <2>1, <2>3, StaysCalling
<1>7. CASE Node!CreateTimer(c)
  <2>1. PICK t \in Timer : /\ stopTimer' = t
                           /\ active' = active \union {t}
                           /\ timerLeft' = [timerLeft EXCEPT ![t] = StopAfter]
    BY <1>7 DEF Node!CreateTimer
  <2>2. Node!Goto(c, "idle") /\ UNCHANGED <<tpc, crashed>>
    BY <1>7 DEF Node!CreateTimer
  <2>3. Idle'
    BY <1>2, <1>3, <2>2 DEF Node!Goto, Idle
  <2>4. TimersIdle /\ active' = {t}
    BY <1>2, <2>1 DEF NoTimers
  <2>5. timerLeft'[t] = StopAfter
    BY <1>1, <2>1 DEF Counts
  <2>6. /\ Lines \in Nat /\ lag \in Nat /\ sincePublish \in Nat /\ StopAfter \in Nat
        /\ sincePublish <= lag + StopAfter
        /\ Lines <= 3 /\ (Lines = 3 => lag >= StopAfter)
    BY <1>1, <1>2, ConstantFacts DEF Counts, AtTimer
  <2>7. Counting(t)'
    BY <1>4, <1>5, <2>2, <2>4, <2>5, <2>6 DEF Counting, TimersIdle
  <2>8. Timing(t)'
    BY <1>2, <1>4, <2>1, <2>2, <2>3, <2>4, <2>7 DEF Timing, TimersIdle
  <2> QED
    BY <1>1, <2>2, <2>8 DEF FlightInv
<1> QED
  BY <1>2, <1>6, <1>7 DEF AtTimer, Node!CancelTimer

LEMMA TimerFlies ==
  ASSUME IInv, NEW t \in Timer, NodeFrame, Node!Fired(t)
  PROVE  FlightInv' /\ (Node!Fire(t) => Lines < WireSize)
<1>1. Timing(t) /\ Counts /\ ~crashed
  BY WhoFires, CountsHold DEF IInv, FlightInv, Node!Fired,
       Node!Fire, Node!FiredTest, Node!FiredCancel, Node!FiredClear
<1>2. tpc \in [Timer -> {"idle", "test", "cancel", "clear"}]
  BY DEF IInv, TypeOK, Node!TypeOK
<1>3. UNCHANGED <<sincePublish, lag, opened, next, topic, pc>>
  BY DEF NodeFrame, Node!Fired, Node!Fire, Node!FiredTest, Node!FiredCancel, Node!FiredClear,
       Node!callVars
<1>4. /\ opened /\ topic = <<>> /\ Idle /\ stopTimer = t /\ stopTimer # NoTimer
      /\ \A u \in Timer \ {t} : tpc[u] = "idle"
  BY <1>1, ConstantFacts DEF Timing
<1>5. ASSUME NEW there, tpc' = [tpc EXCEPT ![t] = there]
      PROVE  tpc'[t] = there /\ \A u \in Timer \ {t} : tpc'[u] = "idle"
  BY <1>2, <1>4, <1>5
<1>6. CASE Node!Fire(t)
  <2>1. Counting(t) /\ timerLeft[t] = 0
    BY <1>1, <1>6 DEF Timing, Stopped, Node!Fire
  <2>2. /\ tpc' = [tpc EXCEPT ![t] = "test"] /\ written' = Node!StopLine
        /\ UNCHANGED <<stopTimer, active, crashed>>
    BY <1>6 DEF Node!Fire, Node!Write
  <2>3. /\ lag \in Nat /\ sincePublish \in Nat /\ StopAfter \in Nat
        /\ sincePublish <= lag + 2 * StopAfter
    BY <1>1, <2>1, ConstantFacts DEF Counts, Counting
  <2>4. Stopped(t)'
    BY <1>3, <1>5, <2>1, <2>2, <2>3 DEF Stopped, Counting
  <2>5. Timing(t)'
    BY <1>3, <1>4, <1>5, <2>2, <2>4 DEF Timing, Idle
  <2>6. Lines < WireSize
    BY <1>1, <2>1, RoomAtTimer
  <2> QED
    BY <1>1, <2>2, <2>5, <2>6 DEF FlightInv
<1>7. CASE Node!FiredTest(t) \/ Node!FiredCancel(t)
  <2>1. Stopped(t)
    BY <1>1, <1>7 DEF Timing, Counting, Node!FiredTest, Node!FiredCancel
  <2>2. \/ tpc' = [tpc EXCEPT ![t] = "cancel"] /\ active' = active /\ tpc[t] = "test"
        \/ tpc' = [tpc EXCEPT ![t] = "clear"] /\ active' = active \ {t} /\ tpc[t] = "cancel"
    BY <1>4, <1>7 DEF Node!FiredTest, Node!FiredCancel
  <2>3. written' = written /\ stopTimer' = stopTimer
    BY <1>7 DEF Node!FiredTest, Node!FiredCancel, Node!lineVars
  <2>4. crashed' = crashed
    BY <1>1, <1>4, <1>7 DEF Node!FiredTest, Node!FiredCancel, IInv, TypeOK, Node!TypeOK
  <2>5. Stopped(t)'
    BY <1>3, <1>5, <2>1, <2>2, <2>3 DEF Stopped
  <2>6. Timing(t)'
    BY <1>3, <1>4, <1>5, <2>2, <2>3, <2>5 DEF Timing, Idle
  <2> QED
    BY <1>1, <2>4, <2>6, <1>7 DEF FlightInv, Node!Fire, Node!FiredTest, Node!FiredCancel
<1>8. CASE Node!FiredClear(t)
  <2>1. Stopped(t) /\ active = {}
    BY <1>1, <1>8 DEF Timing, Counting, Stopped, Node!FiredClear
  <2>2. /\ tpc' = [tpc EXCEPT ![t] = "idle"] /\ stopTimer' = NoTimer
        /\ UNCHANGED <<active, crashed, wire, written>>
    BY <1>8 DEF Node!FiredClear, Node!lineVars
  <2>3. TimersIdle'
    BY <1>5, <2>2 DEF TimersIdle
  <2>4. Resting'
    BY <1>3, <1>4, <2>1, <2>2, <2>3 DEF Resting, NoTimers, Stopped, Idle
  <2> QED
    BY <1>1, <1>8, <2>2, <2>4 DEF FlightInv, Node!Fire, Node!FiredClear
<1> QED
  BY <1>6, <1>7, <1>8 DEF Node!Fired

LEMMA DriveFlies ==
  ASSUME IInv, Drive
  PROVE  FlightInv'
<1>1. NodeFrame
  BY DEF Drive, NodeFrame, trackerVars, moveVars
<1>2. ASSUME NEW c \in Call, Node!Listener(c) PROVE FlightInv'
  BY <1>1, <1>2, TakeFlies, CallWrites, CallArms DEF Node!Listener
<1>3. ASSUME NEW t \in Timer, Node!Fired(t) PROVE FlightInv'
  BY <1>1, <1>3, TimerFlies
<1> QED
  BY <1>2, <1>3 DEF Drive, Node!Node

(* Before the port is open nothing flies. *)
LEMMA ClosedRests == FlightInv /\ ~opened => Resting
BY DEF FlightInv, Awaiting, Calling, Timing

LEMMA CaptureFlies ==
  ASSUME IInv, EndCapture
  PROVE  FlightInv'
<1>1. UNCHANGED <<nodeVars, wire, moveVars, opened, lag>> /\ ~crashed /\ Counts
  BY CountsHold DEF EndCapture, IInv, FlightInv
<1>2. UNCHANGED <<pc, written, stopTimer, active, tpc, crashed, wire, next, opened, lag>>
  BY <1>1 DEF nodeVars, moveVars
<1>3. sincePublish >= Interval
  BY FinishKeeps DEF EndCapture, IInv
<1>4. Resting /\ (opened => wire = <<>> /\ next = 0)
  <2>1. opened => sincePublish > Horizon
    BY <1>1, <1>3, ConstantFacts DEF Counts, Horizon
  <2> QED
    BY <1>1, <2>1, LandedInTime, ClosedRests DEF IInv
<1>5. CASE topic' = topic
  BY <1>2, <1>4, <1>5 DEF FlightInv, Resting, Idle, NoTimers, TimersIdle, IInv
<1>6. CASE topic' # topic
  <2>1. opened /\ sincePublish' = 0 /\ \E msg \in Message : Node!Publish(msg)
    BY <1>6 DEF EndCapture, Tracker!Finish
  <2>2. PICK msg \in Message : topic' = Append(topic, msg)
    BY <1>4, <2>1, <1>1, ConstantFacts DEF Node!Publish, Resting, Counts
  <2>3. Len(topic') = 1
    BY <1>4, <2>2 DEF Resting
  <2>4. sincePublish' <= lag'
    BY <1>1, <2>1 DEF Counts
  <2>5. Awaiting'
    BY <1>2, <1>4, <2>1, <2>3, <2>4 DEF Resting, Awaiting, Idle, NoTimers, TimersIdle
  <2> QED
    BY <1>1, <1>2, <2>5 DEF FlightInv
<1> QED
  BY <1>5, <1>6

LEMMA WatchFlies ==
  ASSUME IInv, Watch
  PROVE  FlightInv'
<1>1. UNCHANGED <<sincePublish, topic, nodeVars, wire, next, opened, lag>>
  BY DEF Watch, Tracker!CameraInfo, Tracker!StartCapture, Tracker!AddPoint, Tracker!Poll,
       Tracker!Enter, Tracker!SetPending, moveVars
<1> QED
  BY <1>1 DEF nodeVars, IInv, FlightInv, Resting, Awaiting, Calling, AtDrive, AtSleep, AtAgain,
       AtTimer, Timing, Counting, Stopped, Idle, NoTimers, TimersIdle, Lines

LEMMA TypeFlies ==
  ASSUME IInv, Type
  PROVE  FlightInv'
<1>1. Resting /\ ~crashed /\ ~opened
  BY ClosedRests DEF IInv, FlightInv, Type
<1> QED
  BY <1>1 DEF Type, trackerVars, nodeVars, FlightInv, Resting, Idle, NoTimers, TimersIdle

LEMMA OpenFlies ==
  ASSUME IInv, Open
  PROVE  FlightInv'
<1>1. Resting /\ ~crashed
  BY ClosedRests DEF IInv, FlightInv, Open
<1> QED
  BY <1>1 DEF Open, Firmware!Reset, trackerVars, nodeVars, FlightInv, Resting, Idle, NoTimers,
       TimersIdle

LEMMA MoveFlies ==
  ASSUME IInv, Move
  PROVE  FlightInv'
<1>1. UNCHANGED <<topic, pc, sleepLeft, stopTimer, active, timerLeft, tpc, crashed, written,
                  sincePublish, opened, lag>>
  BY DEF Move, nodeVars, trackerVars
<1>2. Counts /\ NodeTyped
  BY CountsHold DEF IInv, TypeOK, LineInv, NodeTyped
<1>3. /\ wire' \in Seq(WireLine) /\ Len(wire') <= Len(wire)
      /\ (wire' # <<>> \/ next' # 0) => (wire # <<>> \/ next # 0)
  BY <1>2, LoopTyped DEF Move
<1>4. Lines \in Nat /\ Lines' \in Nat /\ Lines' <= Lines /\ (wire' = <<>> <=> Lines' = 0)
  BY <1>2, <1>3, LenProperties, EmptySeq DEF Counts, Lines
<1>5. wire = <<>> => wire' = <<>>
  BY <1>2, <1>4 DEF Counts
<1>6. ASSUME NEW n \in Nat, Lines <= n
      PROVE  Lines' <= n /\ (Lines' = n => Lines = n)
  BY <1>4, <1>6
<1>7. CASE Resting
  BY <1>1, <1>3, <1>7 DEF IInv, FlightInv, Resting, Idle, NoTimers, TimersIdle
<1>8. CASE Awaiting
  BY <1>1, <1>5, <1>8 DEF IInv, FlightInv, Awaiting, Idle, NoTimers, TimersIdle
<1>9. ASSUME NEW c \in Call, Calling(c) PROVE FlightInv'
  <2>1. (AtDrive(c) \/ AtSleep(c) \/ AtAgain(c) \/ AtTimer(c))'
    BY <1>1, <1>5, <1>6, <1>9 DEF Calling, AtDrive, AtSleep, AtAgain, AtTimer
  <2>2. Calling(c)'
    BY <1>1, <1>9, <2>1 DEF Calling, NoTimers, TimersIdle
  <2> QED
    BY <1>1, <2>2 DEF IInv, FlightInv
<1>10. ASSUME NEW t \in Timer, Timing(t) PROVE FlightInv'
  <2>1. Counting(t) => Counting(t)'
    <3>1. Lines' >= 1 => Lines >= 1
      BY <1>4
    <3> QED
      BY <1>1, <1>6, <3>1 DEF Counting
  <2>2. Stopped(t) => Stopped(t)'
    BY <1>1 DEF Stopped
  <2>3. Timing(t)'
    BY <1>1, <1>10, <2>1, <2>2 DEF Timing, Idle
  <2> QED
    BY <1>1, <2>3 DEF IInv, FlightInv
<1> QED
  BY <1>7, <1>8, <1>9, <1>10 DEF IInv, FlightInv

LEMMA TickFlies ==
  ASSUME IInv, Tick
  PROVE  FlightInv' /\ lag' \in 0 .. MaxLag
<1>1. /\ Late => lag < MaxLag
      /\ lag' = IF Late THEN lag + 1 ELSE IF Node!Quiet THEN 0 ELSE lag
      /\ UNCHANGED <<topic, pc, stopTimer, active, tpc, crashed, written, wire, opened, next>>
  BY DEF Tick, Node!Age, Node!lineVars, moveVars
<1>2. Counts
  BY CountsHold
<1>3. /\ sincePublish \in Nat /\ lag \in Nat /\ lag <= MaxLag /\ MaxLag \in Nat
      /\ StopAfter \in Nat /\ Lines \in Nat
  BY <1>2, ConstantFacts DEF Counts
<1>4. sincePublish' \in Nat /\ sincePublish' <= sincePublish + 1
  BY <1>2, ConstantFacts DEF Counts, Tick, Tracker!Age
<1>5. Lines' = Lines
  BY <1>1 DEF Lines
<1>6. lag' \in 0 .. MaxLag
  BY <1>1, <1>3
<1>7. ASSUME Late PROVE lag' = lag + 1
  BY <1>1, <1>7
<1>8. ASSUME ~Node!Quiet PROVE lag' \in {lag, lag + 1}
  BY <1>1, <1>8
<1>9. CASE Resting
  <2>1. opened /\ (wire # <<>> \/ next # 0) => sincePublish' <= lag' + 2 * StopAfter
    <3> SUFFICES ASSUME opened /\ (wire # <<>> \/ next # 0)
                 PROVE  sincePublish' <= lag' + 2 * StopAfter
      OBVIOUS
    <3>1. lag' = lag + 1
      BY <1>7 DEF Late
    <3>2. sincePublish <= lag + 2 * StopAfter
      BY <1>9 DEF Resting
    <3> QED
      BY <1>3, <1>4, <3>1, <3>2
  <2>2. Resting'
    BY <1>1, <1>9, <2>1 DEF Resting, Idle, NoTimers, TimersIdle
  <2> QED
    BY <1>1, <1>6, <2>2 DEF IInv, FlightInv
<1>10. CASE Awaiting
  <2>1. lag' = lag + 1
    BY <1>2, <1>7, <1>10 DEF Counts, Awaiting, Late, Node!Due
  <2>2. sincePublish' <= lag'
    BY <1>3, <1>4, <1>10, <2>1 DEF Awaiting
  <2>3. Awaiting'
    BY <1>1, <1>10, <2>2 DEF Awaiting, Idle, NoTimers, TimersIdle
  <2> QED
    BY <1>1, <1>6, <2>3 DEF IInv, FlightInv
<1>11. ASSUME NEW c \in Call, Calling(c) PROVE FlightInv'
  <2>1. (AtDrive(c) \/ AtSleep(c) \/ AtAgain(c) \/ AtTimer(c))'
    <3>1. CASE AtDrive(c) \/ AtAgain(c) \/ AtTimer(c)
      <4>1. lag' = lag + 1
        BY <1>7, <1>11, <3>1 DEF Calling, AtDrive, AtAgain, AtTimer, Late, Node!Due
      <4>2. AtDrive(c) => AtDrive(c)'
        BY <1>1, <1>3, <1>4, <4>1 DEF AtDrive
      <4>3. AtAgain(c) => AtAgain(c)'
        BY <1>1, <1>3, <1>4, <1>5, <4>1 DEF AtAgain
      <4>4. AtTimer(c) => AtTimer(c)'
        BY <1>1, <1>3, <1>4, <1>5, <4>1 DEF AtTimer
      <4> QED
        BY <3>1, <4>2, <4>3, <4>4
    <3>2. CASE AtSleep(c)
      <4>1. /\ sleepLeft[c] \in Nat
            /\ sleepLeft'[c] = IF sleepLeft[c] > 0 THEN sleepLeft[c] - 1 ELSE 0
        BY <1>2, <1>3 DEF Counts, Tick, Node!Age, Node!Down
      <4>2. lag' \in {lag, lag + 1}
        BY <1>8, <3>2 DEF AtSleep, Node!Quiet
      <4>3. ASSUME Lines = 1 \/ sleepLeft[c] = 0 PROVE lag' = lag + 1
        <5>1. wire # <<>> \/ sleepLeft[c] = 0
          BY <1>2, <4>3 DEF Counts
        <5> QED
          BY <1>7, <1>11, <3>2, <5>1 DEF Calling, AtSleep, Late, Node!Due
      <4>4. sincePublish' + sleepLeft'[c] <= lag' + StopAfter
        BY <1>3, <1>4, <3>2, <4>1, <4>2, <4>3 DEF AtSleep
      <4>5. Lines' <= 1 /\ (Lines' = 1 => lag' + sleepLeft'[c] >= StopAfter)
        BY <1>3, <1>5, <3>2, <4>1, <4>3 DEF AtSleep
      <4>6. AtSleep(c)'
        BY <1>1, <3>2, <4>4, <4>5 DEF AtSleep
      <4> QED
        BY <4>6
    <3> QED
      BY <1>11, <3>1, <3>2 DEF Calling
  <2>2. Calling(c)'
    BY <1>1, <1>11, <2>1 DEF Calling, NoTimers, TimersIdle
  <2> QED
    BY <1>1, <2>2 DEF IInv, FlightInv
<1>12. ASSUME NEW t \in Timer, Timing(t) PROVE FlightInv'
  <2>1. CASE Counting(t)
    <3>1. /\ timerLeft[t] \in Nat
          /\ timerLeft'[t] = IF timerLeft[t] > 0 THEN timerLeft[t] - 1 ELSE 0
      BY <1>2, <1>3 DEF Counts, Tick, Node!Age, Node!Down
    <3>2. lag' \in {lag, lag + 1}
      BY <1>8, <2>1 DEF Counting, Node!Quiet
    <3>3. ASSUME Lines >= 1 \/ timerLeft[t] = 0 PROVE lag' = lag + 1
      <4>1. wire # <<>> \/ timerLeft[t] = 0
        BY <1>2, <1>3, <3>3 DEF Counts
      <4> QED
        BY <1>7, <1>12, <2>1, <4>1 DEF Timing, Counting, Late, Node!Due
    <3>4. sincePublish' + timerLeft'[t] <= lag' + 2 * StopAfter
      BY <1>3, <1>4, <2>1, <3>1, <3>2, <3>3 DEF Counting
    <3>5. /\ Lines' <= 3
          /\ Lines' = 3 => lag' + timerLeft'[t] >= 2 * StopAfter
          /\ Lines' >= 1 => lag' + timerLeft'[t] >= StopAfter
      BY <1>3, <1>5, <2>1, <3>1, <3>3 DEF Counting
    <3>6. Counting(t)'
      BY <1>1, <2>1, <3>4, <3>5 DEF Counting
    <3> QED
      BY <1>1, <1>12, <3>6 DEF IInv, FlightInv, Timing, Idle
  <2>2. CASE Stopped(t)
    <3>1. lag' = lag + 1
      BY <1>7, <1>12, <2>2 DEF Timing, Stopped, Late, Node!Due
    <3>2. Stopped(t)'
      BY <1>1, <1>3, <1>4, <2>2, <3>1 DEF Stopped
    <3> QED
      BY <1>1, <1>12, <3>2 DEF IInv, FlightInv, Timing, Idle
  <2> QED
    BY <1>12, <2>1, <2>2 DEF Timing
<1> QED
  BY <1>6, <1>9, <1>10, <1>11, <1>12 DEF IInv, FlightInv

LEMMA FlightStep == IInv /\ [Next]_vars => FlightInv'
<1> SUFFICES ASSUME IInv, [Next]_vars PROVE FlightInv'
  OBVIOUS
<1>1. CASE UNCHANGED vars
  BY <1>1 DEF vars, trackerVars, nodeVars, moveVars, IInv, FlightInv, Resting, Awaiting,
       Calling, AtDrive, AtSleep, AtAgain, AtTimer, Timing, Counting, Stopped, Idle, NoTimers,
       TimersIdle, Lines
<1> QED
  BY <1>1, WatchFlies, CaptureFlies, TypeFlies, OpenFlies, DriveFlies, MoveFlies, TickFlies
     DEF Next

-----------------------------------------------------------------------------
(* The line. *)
LEMMA DriveWrites ==
  ASSUME IInv, Drive
  PROVE  \/ UNCHANGED <<wire, written>>
         \/ Lines < WireSize /\ \E cmd \in Node!Commands : Node!Write(Node!Line(cmd))
<1>1. NodeFrame
  BY DEF Drive, NodeFrame, trackerVars, moveVars
<1>2. ASSUME NEW c \in Call, Node!Listener(c)
      PROVE  \/ UNCHANGED <<wire, written>>
             \/ Lines < WireSize /\ \E cmd \in Node!Commands : Node!Write(Node!Line(cmd))
  <2>1. CASE Node!Drive(c) \/ Node!DelayedStop(c) \/ Node!DriveAgain(c)
    <3>1. Lines < WireSize
      BY <1>1, <2>1, CallWrites
    <3>2. pwms[c] \in Node!Commands
      BY DEF IInv, TypeOK, Node!TypeOK
    <3> QED
      BY <2>1, <3>1, <3>2, ZeroCommand DEF Node!Drive, Node!DelayedStop, Node!DriveAgain
  <2> QED
    BY <1>2, <2>1 DEF Node!Listener, Node!Take, Node!TestTimer, Node!CancelTimer,
         Node!CreateTimer, Node!lineVars
<1>3. ASSUME NEW t \in Timer, Node!Fired(t)
      PROVE  \/ UNCHANGED <<wire, written>>
             \/ Lines < WireSize /\ \E cmd \in Node!Commands : Node!Write(Node!Line(cmd))
  <2>1. CASE Node!Fire(t)
    BY <1>1, <1>3, <2>1, TimerFlies, ZeroCommand DEF Node!Fire
  <2> QED
    BY <1>3, <2>1 DEF Node!Fired, Node!FiredTest, Node!FiredCancel, Node!FiredClear,
         Node!lineVars
<1> QED
  BY <1>2, <1>3 DEF Drive, Node!Node

LEMMA WriteKeeps ==
  ASSUME IInv, NEW cmd \in Node!Commands, Node!Write(Node!Line(cmd)), Lines < WireSize,
         opened' = opened
  PROVE  LineInv'
<1>1. wire \in Seq(WireLine) /\ Len(wire) <= WireSize
  BY DEF IInv, LineInv, TypeOK, Node!TypeOK
<1>2. wire' = Append(wire, written') /\ wire' \in Seq(WireLine)
  BY <1>1, WriteFacts
<1>3. written' = Node!Line(cmd) /\ written' \in WireLine
  BY LineTyped DEF Node!Write
<1>4. /\ Len(wire') = Len(wire) + 1 /\ Len(wire) \in Nat
      /\ wire'[Len(wire) + 1] = written'
      /\ \A i \in 1 .. Len(wire) : wire'[i] = wire[i]
  BY <1>1, <1>2, <1>3, AppendProperties, LenProperties
<1>5. wire' # <<>>
  BY <1>2, <1>4, EmptySeq
<1>6. ASSUME opened, NEW i \in 1 .. Len(wire')
      PROVE  wire'[i] \in {Node!Line(cm) : cm \in Node!Commands}
  <2>1. i \in 1 .. Len(wire) \/ i = Len(wire) + 1
    BY <1>4
  <2> QED
    BY <1>3, <1>4, <1>6, <2>1 DEF IInv, LineInv
<1> QED
  BY <1>2, <1>4, <1>5, <1>6 DEF LineInv

(* The sketch takes the lines in order and alters no value of them. *)
LEMMA LoopKeeps ==
  ASSUME IInv, Move
  PROVE  LineInv'
<1>1. NodeTyped /\ wire \in Seq(WireLine) /\ written' = written /\ opened' = opened
  BY DEF IInv, TypeOK, LineInv, NodeTyped, Move, nodeVars
<1>2. wire' \in Seq(WireLine)
  BY <1>1, LoopTyped DEF Move
<1>3. CASE ~opened
  BY <1>1, <1>2, <1>3 DEF LineInv
<1>4. CASE opened /\ wire = <<>>
  <2>1. Firmware!MoveMotor
    BY <1>4 DEF Move, Firmware!Loop, Firmware!TooLong, Firmware!AcceptLine,
         Firmware!AnswerLine
  <2> QED
    BY <1>1, <1>2, <1>4, <2>1 DEF Firmware!MoveMotor, IInv, LineInv
<1>5. CASE opened /\ wire # <<>> /\ Firmware!MoveMotor
  BY <1>1, <1>2, <1>5 DEF Firmware!MoveMotor, IInv, LineInv
<1>6. CASE opened /\ wire # <<>> /\ ~Firmware!MoveMotor
  <2>1. /\ Head(wire) = wire[1] /\ Tail(wire) \in Seq(WireLine)
        /\ Len(wire) \in Nat /\ Len(wire) >= 1 /\ Len(Tail(wire)) = Len(wire) - 1
        /\ \A i \in 1 .. Len(Tail(wire)) : Tail(wire)[i] = wire[i + 1]
    BY <1>1, <1>6, HeadTailProperties, LenProperties, EmptySeq
  <2>2. /\ \A i \in 1 .. Len(wire) : wire[i] \in {Node!Line(cmd) : cmd \in Node!Commands}
        /\ wire[Len(wire)] = written
    BY <1>6 DEF IInv, LineInv
  <2>3. PICK cmd \in Node!Commands : Head(wire) = Node!Line(cmd)
    BY <2>1, <2>2
  <2>4. Head(wire).kind = "values" /\ Head(wire).values = cmd /\ Len(cmd) = 4
    BY <2>3, CommandFacts DEF Node!Line
  <2>5. Firmware!AcceptLine
    <3>1. Len(Head(wire).values) = 4
      BY <2>4
    <3>2. Len(Head(wire).values) >= 4
      BY <3>1
    <3>3. Firmware!Accepted(Head(wire)) /\ Head(wire).kind # "long"
      BY <2>4, <3>2 DEF Firmware!Accepted
    <3> QED
      BY <1>6, <3>3 DEF Move, Firmware!Loop, Firmware!TooLong, Firmware!AnswerLine
  <2>6. wire' = Tail(wire) /\ values' = [m \in Firmware!Motor |-> Firmware!Clamp(cmd[m])]
    BY <2>4, <2>5, CommandFacts DEF Firmware!AcceptLine
  <2>7. CASE wire' = <<>>
    <3>a. PICK n \in Nat : n = Len(wire)
      BY <2>1
    <3>b. Len(Tail(wire)) = 0
      BY <2>6, <2>7, EmptySeq
    <3>c. 0 = n - 1
      BY <2>1, <3>a, <3>b
    <3>d. n = 1
      BY <3>c
    <3>1. Len(wire) = 1
      BY <3>a, <3>d
    <3>2. written = Node!Line(cmd)
      BY <2>1, <2>2, <2>3, <3>1
    <3>3. values' = Limited(written')
      BY <1>1, <2>6, <3>2 DEF Limited, Node!Line
    <3>4. Len(wire') = 0
      BY <2>7, EmptySeq
    <3>5. \A i \in 1 .. Len(wire') : wire'[i] \in {Node!Line(cm) : cm \in Node!Commands}
      BY <3>4
    <3> QED
      BY <1>2, <2>7, <3>3, <3>5 DEF LineInv
  <2>8. CASE wire' # <<>>
    <3>1. Len(wire') >= 1
      BY <1>2, <2>8, EmptySeq, LenProperties
    <3>2. wire'[Len(wire')] = written'
      BY <1>1, <2>1, <2>2, <2>6, <3>1
    <3>3. \A i \in 1 .. Len(wire') : wire'[i] \in {Node!Line(cm) : cm \in Node!Commands}
      BY <2>1, <2>2, <2>6
    <3> QED
      BY <1>2, <2>8, <3>2, <3>3 DEF LineInv
  <2> QED
    BY <2>7, <2>8
<1> QED
  BY <1>3, <1>4, <1>5, <1>6

LEMMA LineStep == IInv /\ [Next]_vars => LineInv'
<1> SUFFICES ASSUME IInv, [Next]_vars PROVE LineInv'
  OBVIOUS
<1>0. wire \in Seq(WireLine)
  BY DEF IInv, LineInv
<1>1. CASE Type
  <2>1. ~opened /\ opened' = opened
    BY <1>1 DEF Type
  <2>2. wire' \in Seq(WireLine)
    BY <1>0, <1>1, AppendProperties, ThrowAssumption DEF Type, WireLine
  <2> QED
    BY <2>1, <2>2 DEF LineInv
<1>2. CASE Open
  <2>1. written' = Node!StopLine /\ wire' = <<>> /\ values' = [m \in Firmware!Motor |-> 0]
    BY <1>2, ClosedRests DEF Open, nodeVars, IInv, Resting, Firmware!Reset
  <2>2. Firmware!Clamp(0) = 0
    BY ClampFacts, PinsAtRest
  <2>3. values' = Limited(written')
    BY <2>1, <2>2 DEF Limited, Node!StopLine, Node!Line, Node!Zero
  <2> QED
    BY <2>1, <2>3 DEF LineInv
<1>3. CASE Drive
  <2>1. UNCHANGED <<values, opened>>
    BY <1>3 DEF Drive, moveVars
  <2>2. CASE UNCHANGED <<wire, written>>
    BY <2>1, <2>2 DEF IInv, LineInv
  <2> QED
    BY <1>3, <2>1, <2>2, DriveWrites, WriteKeeps
<1>4. CASE UNCHANGED <<wire, written, values, opened>>
  BY <1>4 DEF IInv, LineInv
<1> QED
  BY <1>1, <1>2, <1>3, <1>4, LoopKeeps
     DEF Next, Watch, EndCapture, Tick, Node!Age, Node!lineVars, nodeVars, moveVars, vars

-----------------------------------------------------------------------------
(* All variables stay in range. *)
LEMMA NodeStep == IInv /\ [Next]_vars => NodeTyped'
<1> SUFFICES ASSUME IInv, [Next]_vars PROVE NodeTyped'
  OBVIOUS
<1>1. NodeTyped
  BY DEF IInv, TypeOK, LineInv, NodeTyped
<1>2. wire \in Seq(WireLine) /\ topic \in Seq(Message) /\ Len(topic) <= Depth
  BY <1>1 DEF NodeTyped, Node!TypeOK
<1>3. UNCHANGED nodeVars /\ NodeTyped
        /\ topic' \in Seq(Message) /\ Len(topic') <= Depth
        /\ wire' \in Seq(WireLine) /\ Len(wire') <= WireSize => NodeTyped'
  BY DEF nodeVars, NodeTyped, Node!TypeOK
<1>4. CASE EndCapture
  <2>1. UNCHANGED <<nodeVars, wire>> /\ (topic' = topic \/ \E msg \in Message : Node!Publish(msg))
    BY <1>4 DEF EndCapture
  <2>2. ASSUME NEW msg \in Message, Node!Publish(msg)
        PROVE  topic' \in Seq(Message) /\ Len(topic') <= Depth
    <3>1. Len(topic) \in Nat
      BY <1>2, LenProperties
    <3>2. CASE Len(topic) < Depth
      <4>1. /\ topic' = Append(topic, msg)
            /\ Append(topic, msg) \in Seq(Message) /\ Len(Append(topic, msg)) = Len(topic) + 1
        BY <1>2, <2>2, <3>2, AppendProperties DEF Node!Publish
      <4> QED
        BY <3>1, <3>2, <4>1, ConstantFacts
    <3>3. CASE ~(Len(topic) < Depth)
      <4>1. Len(topic) = Depth /\ topic # <<>>
        BY <1>2, <3>1, <3>3, ConstantFacts, EmptySeq
      <4>2. Tail(topic) \in Seq(Message) /\ Len(Tail(topic)) = Len(topic) - 1
        BY <1>2, <4>1, HeadTailProperties
      <4>3. /\ topic' = Append(Tail(topic), msg)
            /\ Append(Tail(topic), msg) \in Seq(Message)
            /\ Len(Append(Tail(topic), msg)) = Len(Tail(topic)) + 1
        BY <2>2, <3>3, <4>2, AppendProperties DEF Node!Publish
      <4> QED
        BY <4>1, <4>2, <4>3, ConstantFacts
    <3> QED
      BY <3>2, <3>3
  <2> QED
    BY <1>1, <1>2, <1>3, <2>1, <2>2 DEF NodeTyped, Node!TypeOK
<1>5. CASE Type
  <2>1. PICK line \in BenchLines : wire' = Append(wire, line)
    BY <1>5 DEF Type
  <2>2. line \in WireLine /\ wire = <<>>
    BY <1>5, ThrowAssumption DEF Type, WireLine
  <2>3. wire' \in Seq(WireLine) /\ Len(wire') = 1
    BY <1>2, <2>1, <2>2, AppendProperties, EmptySeq
  <2> QED
    BY <1>1, <1>2, <1>3, <1>5, <2>3, ConstantFacts DEF Type
<1>6. CASE Open
  <2>1. wire' \in Seq(WireLine) /\ Len(wire') = 0
    BY <1>6, EmptySeq DEF Open, Firmware!Reset
  <2> QED
    BY <1>1, <1>2, <1>3, <1>6, <2>1, ConstantFacts DEF Open
<1>7. CASE Drive
  BY <1>1, <1>7, ListenerTyped, FiredTyped DEF Drive, Node!Node
<1>8. CASE Move
  <2>1. Len(wire) \in Nat /\ Len(wire) <= WireSize
    BY <1>1, <1>2, LenProperties DEF NodeTyped, Node!TypeOK
  <2>2. wire' \in Seq(WireLine) /\ Len(wire') <= Len(wire) /\ Len(wire') \in Nat
    BY <1>1, <1>8, LoopTyped, LenProperties DEF Move
  <2>3. Len(wire') <= WireSize
    BY <2>1, <2>2, ConstantFacts
  <2> QED
    BY <1>1, <1>2, <1>3, <1>8, <2>2, <2>3 DEF Move
<1>9. CASE Tick
  <2>1. /\ sleepLeft' \in [Call -> 0 .. StopAfter]
        /\ timerLeft' \in [Timer -> 0 .. StopAfter]
    <3>1. ASSUME NEW n \in 0 .. StopAfter PROVE Node!Down(n) \in 0 .. StopAfter
      BY ConstantFacts DEF Node!Down
    <3> QED
      BY <1>1, <1>9, <3>1 DEF Tick, Node!Age, NodeTyped, Node!TypeOK
  <2> QED
    BY <1>1, <1>9, <2>1 DEF Tick, Node!Age, Node!lineVars, NodeTyped, Node!TypeOK
<1>10. CASE UNCHANGED <<topic, nodeVars, wire>>
  BY <1>1, <1>10 DEF nodeVars, NodeTyped, Node!TypeOK
<1> QED
  BY <1>4, <1>5, <1>6, <1>7, <1>8, <1>9, <1>10 DEF Next, Watch, vars

LEMMA InvInit == Init => IInv
<1> SUFFICES ASSUME Init PROVE IInv
  OBVIOUS
<1>1. TrackerInv /\ MoveInv
  BY TrackerInit, MoveInit DEF Init
<1>2. NodeTyped
  <2>1. /\ topic \in Seq(Message) /\ Len(topic) = 0
        /\ wire \in Seq(WireLine) /\ Len(wire) = 0
    BY EmptySeq DEF Init, Node!Init
  <2>2. /\ sleepLeft \in [Call -> 0 .. StopAfter] /\ timerLeft \in [Timer -> 0 .. StopAfter]
        /\ Len(topic) <= Depth /\ Len(wire) <= WireSize
    BY <2>1, ConstantFacts DEF Init, Node!Init
  <2>3. pwms \in [Call -> Node!Commands] /\ written \in {Node!Line(cmd) : cmd \in Node!Commands}
    BY ZeroCommand DEF Init, Node!Init
  <2> QED
    BY <2>1, <2>2, <2>3 DEF Init, Node!Init, NodeTyped, Node!TypeOK
<1>3. TypeOK
  <2>1. lag \in 0 .. MaxLag
    BY ConstantFacts DEF Init
  <2> QED
    BY <1>1, <1>2, <2>1 DEF Init, TypeOK, TrackerInv, MoveInv, NodeTyped
<1>4. LineInv
  BY <1>2 DEF NodeTyped, LineInv, Init
<1>5. FlightInv
  BY DEF Init, Node!Init, FlightInv, Resting, Idle, NoTimers, TimersIdle
<1> QED
  BY <1>1, <1>3, <1>4, <1>5 DEF IInv, MoveInv

LEMMA InvStep == IInv /\ [Next]_vars => IInv'
<1> SUFFICES ASSUME IInv, [Next]_vars PROVE IInv'
  OBVIOUS
<1>1. TrackerInv' /\ FlightInv' /\ LineInv' /\ NodeTyped'
  BY TrackerStep, FlightStep, LineStep, NodeStep DEF IInv
<1>2. MoveInv'
  BY MoveStep DEF IInv, TypeOK, MoveInv, LineInv
<1>3. opened' \in BOOLEAN
  BY DEF IInv, TypeOK, Next, Watch, EndCapture, Type, Open, Drive, Move, Tick, vars
<1>4. lag' \in 0 .. MaxLag
  <2>1. CASE UNCHANGED lag
    BY <2>1 DEF IInv, TypeOK
  <2> QED
    BY <2>1, TickFlies DEF Next, Watch, EndCapture, Type, Open, Drive, Move, vars
<1> QED
  BY <1>1, <1>2, <1>3, <1>4 DEF IInv, TypeOK, TrackerInv, MoveInv, NodeTyped

LEMMA InvHolds == Spec => []IInv
BY InvInit, InvStep, PTL DEF Spec

-----------------------------------------------------------------------------
(* Every variable of the tracker, the subscriber and the sketch keeps its  *)
(* range: no queue outgrows its depth, no duty its limit, no command waits *)
(* longer than the lag.                                                    *)
THEOREM TypeCorrect == Spec => []TypeOK
<1>1. IInv => TypeOK
  BY DEF IInv
<1> QED
  BY <1>1, InvHolds, PTL

(* Both drives of a throw are over and the wheels rest before the next     *)
(* throw can be published.                                                 *)
THEOREM RestsSoon == Spec => []RestsInTime
<1>1. IInv => RestsInTime
  <2> SUFFICES ASSUME IInv, opened, sincePublish > Horizon
               PROVE  Node!Quiet /\ ~crashed /\ wire = <<>> /\ Firmware!Still
    BY DEF RestsInTime
  <2>1. Resting /\ wire = <<>> /\ next = 0
    BY LandedInTime, CountsHold DEF IInv
  <2>2. Node!Quiet /\ ~crashed
    BY <2>1 DEF IInv, FlightInv, Resting, Idle, NoTimers, TimersIdle, Node!Quiet
  <2>3. values = Limited(Node!StopLine)
    BY <2>1 DEF IInv, LineInv, Resting
  <2>4. Firmware!Clamp(0) = 0 /\ Firmware!Magnitude(0) = 0
    BY ClampFacts, PinsAtRest
  <2>5. ASSUME NEW m \in Firmware!Motor PROVE ~en[m]
    <3>1. values[m] = 0
      BY <2>3, <2>4 DEF Limited, Node!StopLine, Node!Line, Node!Zero
    <3>2. en[m] = (Firmware!Magnitude(values[m]) > 0)
      BY <2>1 DEF IInv, PinInv
    <3>3. ~(Firmware!Magnitude(values[m]) > 0)
      BY <2>4, <3>1
    <3> QED
      BY <3>2, <3>3
  <2> QED
    BY <2>1, <2>2, <2>5 DEF Firmware!Still
<1> QED
  BY <1>1, InvHolds, PTL

(* Between lines the wheels do what the sketch last accepted, and once it  *)
(* has caught up, what the subscriber last wrote.                          *)
THEOREM CarriedOut == Spec => []CarriesOut
<1>1. IInv => CarriesOut
  <2> SUFFICES ASSUME IInv, next = 0
               PROVE  /\ Firmware!Running = Firmware!Asked(values)
                      /\ opened /\ wire = <<>> =>
                           Firmware!Running = Firmware!Asked(written.values)
    BY DEF CarriesOut
  <2>1. ASSUME NEW m \in Firmware!Motor
        PROVE  /\ values[m] \in -MaxWheelCmd .. MaxWheelCmd
               /\ Firmware!Clamp(values[m]) = values[m]
    BY ClampFacts DEF IInv, TypeOK, Firmware!TypeOK
  <2>2. ASSUME NEW m \in Firmware!Motor
        PROVE  (IF en[m] /\ ~bk[m] THEN (IF fr[m] THEN sv[m] ELSE -sv[m]) ELSE 0)
                 = IF values[m] < 0 THEN -Firmware!Magnitude(values[m])
                                    ELSE Firmware!Magnitude(values[m])
    <3> DEFINE v == values[m]
               mag == Firmware!Magnitude(v)
    <3>1. v \in Int /\ mag \in Nat
      BY <2>1, MagnitudeFacts, ScaleFacts
    <3>2. /\ fr[m] = (v >= 0) /\ en[m] = (mag > 0) /\ bk[m] = (mag = 0) /\ sv[m] = mag
      BY DEF IInv, PinInv
    <3> HIDE DEF v, mag
    <3>3. CASE mag = 0
      BY <3>1, <3>2, <3>3 DEF v, mag
    <3>4. CASE mag > 0
      <4>1. ~(mag = 0) /\ (v < 0 <=> ~(v >= 0))
        BY <3>1, <3>4
      <4>2. en[m] /\ ~bk[m] /\ (fr[m] <=> v >= 0)
        BY <3>2, <3>4, <4>1
      <4> QED
        BY <3>2, <4>1, <4>2 DEF v, mag
    <3> QED
      BY <3>1, <3>3, <3>4
  <2>3. Firmware!Running = Firmware!Asked(values)
    BY <2>1, <2>2 DEF Firmware!Running, Firmware!Asked
  <2>4. ASSUME opened, wire = <<>>
        PROVE  Firmware!Asked(written.values) = Firmware!Asked(values)
    <3>1. values = [m \in Firmware!Motor |-> Firmware!Clamp(written.values[m])]
      BY <2>4 DEF IInv, LineInv, Limited
    <3> QED
      BY <2>1, <3>1 DEF Firmware!Asked
  <2> QED
    BY <2>3, <2>4
<1> QED
  BY <1>1, InvHolds, PTL
=============================================================================
