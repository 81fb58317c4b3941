---------------------------- MODULE Motion_proofs ----------------------------
(***************************************************************************)
(* Proofs about SerialBridge, OmniKinematics and the two together, for     *)
(* every mode, timing and set of inputs.                                   *)
(***************************************************************************)
EXTENDS Motion, SequenceTheorems, TLAPS

(* What the node believes it sent last, it sent; and a drive was right     *)
(* when it was sent.                                                       *)
SentInv ==
  /\ ~Rest => restAge = 0
  /\ ~lost => lastTx = delivered
  /\ connected /\ ~lost /\ Drives(delivered) => restAge <= sinceIo

IInv == TypeOK /\ SentInv

-----------------------------------------------------------------------------
LEMMA ConstantFacts ==
  /\ Commands \subseteq [Motor -> Int] /\ Targets \subseteq Int
  /\ MaxPwm \in Nat /\ IoPeriod \in Nat /\ IoPeriod > 0 /\ IoLate \in Nat
  /\ Timeout \in Nat /\ Reconnect \in Nat
  /\ CmdAgeCap \in Nat /\ RestAgeCap \in Nat
BY BridgeAssumption

LEMMA ClampRange ==
  ASSUME NEW v \in Int
  PROVE  Clamp(v) \in Pwm
BY ConstantFacts DEF Clamp, Pwm

LEMMA ZeroTyped == Zero \in [Motor -> Pwm]
BY ConstantFacts DEF Zero, Pwm

LEMMA OlderTyped ==
  ASSUME NEW cap \in Nat, NEW age \in 0 .. cap
  PROVE  Older(age, cap) \in 0 .. cap /\ Older(age, cap) <= age + 1
BY DEF Older

LEMMA NextLineTyped ==
  ASSUME TypeOK
  PROVE  NextLine \in BridgeLine
<1>1. StopLine \in BridgeLine /\ DaLine(target) \in BridgeLine
  BY DEF BridgeLine, TypeOK
<1>2. RawLine(Zero) \in BridgeLine /\ RawLine(wheelCmd) \in BridgeLine
  BY ZeroTyped DEF BridgeLine, TypeOK
<1> QED
  BY <1>1, <1>2 DEF NextLine

(* A line that drives is not sent when a rest is due. *)
LEMMA NextLineDrives ==
  ASSUME Drives(NextLine)
  PROVE  ~Rest
<1>1. ~Drives(StopLine)
  BY DEF Drives, StopLine
<1>2. ~Drives(RawLine(Zero))
  BY DEF Drives, RawLine, Zero, Motor
<1> QED
  BY <1>1, <1>2 DEF NextLine, Rest

-----------------------------------------------------------------------------
LEMMA TypeInit == Init => TypeOK
<1> SUFFICES ASSUME Init PROVE TypeOK
  OBVIOUS
<1>1. wheelCmd \in [Motor -> Pwm] /\ wire \in Seq(BridgeLine)
  BY ZeroTyped DEF Init
<1>2. /\ cmdAge \in 0 .. CmdAgeCap /\ attemptAge \in 0 .. Reconnect
      /\ sinceIo \in 0 .. IoPeriod + IoLate /\ restAge \in 0 .. RestAgeCap
  BY ConstantFacts DEF Init
<1> QED
  BY <1>1, <1>2 DEF Init, TypeOK

LEMMA InputsTyped == TypeOK /\ Inputs => TypeOK'
<1> SUFFICES ASSUME TypeOK, Inputs PROVE TypeOK'
  OBVIOUS
<1>1. CASE WheelCmd
  <2>1. PICK cmd \in Commands : wheelCmd' = [w \in Motor |-> Clamp(cmd[w])]
    BY <1>1 DEF WheelCmd
  <2>2. \A w \in Motor : cmd[w] \in Int
    BY ConstantFacts
  <2>3. wheelCmd' \in [Motor -> Pwm]
    BY <2>1, <2>2, ClampRange
  <2> QED
    BY <1>1, <2>3, ConstantFacts DEF WheelCmd, Received, TypeOK, link
<1>2. CASE Target
  BY <1>2, ConstantFacts DEF Target, Received, TypeOK, link
<1>3. CASE Safety
  BY <1>3, ConstantFacts DEF Safety, Received, TypeOK, link
<1>4. CASE SetMode
  BY <1>4 DEF SetMode, TypeOK, link
<1> QED
  BY <1>1, <1>2, <1>3, <1>4 DEF Inputs

(* What every io_loop leaves in range. *)
LEMMA IoTyped ==
  ASSUME TypeOK, IoTimer, attemptAge' \in 0 .. Reconnect, connected' \in BOOLEAN,
         lastTx' \in BridgeLine \union {NoLine}, wire' \in Seq(BridgeLine),
         delivered' \in BridgeLine \union {NoLine}, lost' \in BOOLEAN
  PROVE  TypeOK'
BY ConstantFacts DEF TypeOK, IoTimer, inputs

LEMMA FindsOpenTyped == TypeOK /\ FindsOpen => attemptAge' \in 0 .. Reconnect
BY ConstantFacts DEF TypeOK, FindsOpen

LEMMA IoLoopTyped == TypeOK /\ IoLoop => TypeOK'
<1> SUFFICES ASSUME TypeOK, IoLoop PROVE TypeOK'
  OBVIOUS
<1>1. CASE IoDown
  <2>1. attemptAge' \in 0 .. Reconnect
    BY <1>1, ConstantFacts DEF IoDown, StaysClosed, TypeOK
  <2> QED
    BY <1>1, <2>1, IoTyped DEF IoDown, TypeOK
<1>2. CASE ReadFails
  BY <1>2, FindsOpenTyped, IoTyped DEF ReadFails, TypeOK
<1>3. CASE SkipStop
  BY <1>3, FindsOpenTyped, IoTyped DEF SkipStop, TypeOK
<1>4. CASE Write
  <2>1. Append(wire, NextLine) \in Seq(BridgeLine)
    BY NextLineTyped, AppendProperties DEF TypeOK
  <2> QED
    BY <1>4, <2>1, NextLineTyped, FindsOpenTyped, IoTyped DEF Write, TypeOK
<1>5. CASE WriteFails
  BY <1>5, NextLineTyped, FindsOpenTyped, IoTyped DEF WriteFails, TypeOK
<1> QED
  BY <1>1, <1>2, <1>3, <1>4, <1>5 DEF IoLoop

LEMMA TypeStep == TypeOK /\ [Next]_vars => TypeOK'
<1> SUFFICES ASSUME TypeOK, [Next]_vars PROVE TypeOK'
  OBVIOUS
<1>1. CASE Inputs
  BY <1>1, InputsTyped
<1>2. CASE IoLoop
  BY <1>2, IoLoopTyped
<1>3. CASE Carry
  BY <1>3, HeadTailProperties DEF Carry, TypeOK, inputs
<1>4. CASE Tick
  <2>1. /\ cmdAge' \in 0 .. CmdAgeCap /\ attemptAge' \in 0 .. Reconnect
        /\ restAge' \in 0 .. RestAgeCap
    BY <1>4, OlderTyped, ConstantFacts DEF Tick, TypeOK
  <2> QED
    BY <1>4, <2>1, ConstantFacts DEF Tick, TypeOK
<1>5. CASE UNCHANGED vars
  BY <1>5 DEF vars, inputs, link, TypeOK
<1> QED
  BY <1>1, <1>2, <1>3, <1>4, <1>5 DEF Next

(* Every variable stays in its range: in particular every wheel command    *)
(* that is sent.                                                           *)
THEOREM TypeCorrect == Spec => []TypeOK
BY TypeInit, TypeStep, PTL DEF Spec

-----------------------------------------------------------------------------
LEMMA SentStep == TypeOK /\ SentInv /\ [Next]_vars => SentInv'
<1> SUFFICES ASSUME TypeOK, SentInv, [Next]_vars PROVE SentInv'
  OBVIOUS
<1> USE DEF SentInv
<1>1. CASE WheelCmd \/ Target \/ Safety
  <2>1. restAge' = IF Rest' THEN restAge ELSE 0
    BY <1>1 DEF WheelCmd, Target, Safety, Received
  <2>2. restAge \in Nat /\ sinceIo \in Nat
    BY ConstantFacts DEF TypeOK
  <2>3. UNCHANGED link
    BY <1>1 DEF WheelCmd, Target, Safety
  <2> QED
    BY <2>1, <2>2, <2>3 DEF link, Drives
<1>2. CASE SetMode
  BY <1>2 DEF SetMode, link, Drives, Rest
<1>3. CASE IoDown
  BY <1>3 DEF IoDown, StaysClosed, IoTimer, inputs, Rest
<1>4. CASE ReadFails
  BY <1>4 DEF ReadFails, IoTimer, inputs, Rest
<1>5. CASE SkipStop
  <2>1. lastTx' = StopLine
    BY <1>5 DEF SkipStop, Duplicate
  <2>2. ~lost' => ~Drives(delivered')
    BY <1>5, <2>1 DEF SkipStop, Drives, StopLine
  <2> QED
    BY <1>5, <2>2 DEF SkipStop, IoTimer, inputs, Drives, Rest
<1>6. CASE Write
  <2>1. Drives(delivered') => restAge' = 0
    BY <1>6, NextLineDrives DEF Write, IoTimer, inputs, Drives
  <2>2. sinceIo' = 0 /\ lastTx' = delivered' /\ (~Rest' => restAge' = 0)
    BY <1>6 DEF Write, IoTimer, inputs, Rest
  <2> QED
    BY <2>1, <2>2 DEF Drives
<1>7. CASE WriteFails
  BY <1>7 DEF WriteFails, IoTimer, inputs, Rest
<1>8. CASE Carry
  BY <1>8 DEF Carry, inputs, Drives, Rest
<1>9. CASE Tick
  <2>1. restAge' <= restAge + 1 /\ restAge' \in Nat
    <3>1. Older(restAge, RestAgeCap) \in 0 .. RestAgeCap
          /\ Older(restAge, RestAgeCap) <= restAge + 1
      BY OlderTyped, ConstantFacts DEF TypeOK
    <3>2. restAge \in Nat
      BY ConstantFacts DEF TypeOK
    <3> QED
      BY <1>9, <3>1, <3>2, ConstantFacts DEF Tick
  <2>2. Rest => Rest'
    <3>1. cmdAge > Timeout => cmdAge' > Timeout
      BY <1>9, ConstantFacts DEF Tick, TypeOK, Older
    <3> QED
      BY <1>9, <3>1 DEF Tick, Rest
  <2>3. ~Rest' => restAge' = 0
    BY <1>9, <2>2 DEF Tick
  <2>4. sinceIo' = sinceIo + 1 /\ UNCHANGED <<connected, lastTx, delivered, lost>>
    BY <1>9 DEF Tick
  <2> QED
    BY <2>1, <2>3, <2>4, ConstantFacts DEF TypeOK, Drives
<1>10. CASE UNCHANGED vars
  BY <1>10 DEF vars, inputs, link, Drives, Rest
<1> QED
  BY <1>1, <1>2, <1>3, <1>4, <1>5, <1>6, <1>7, <1>8, <1>9, <1>10 DEF Next, Inputs, IoLoop

LEMMA InvInit == Init => IInv
BY TypeInit DEF Init, IInv, SentInv

(* With the port open and no write lost, a drive is the firmware's last    *)
(* line for at most one io_loop after a safety stop or a timeout.          *)
THEOREM StopsAreSent == Spec => []StopsInTime
<1>1. IInv /\ [Next]_vars => IInv'
  BY TypeStep, SentStep DEF IInv
<1>2. IInv => StopsInTime
  BY ConstantFacts DEF IInv, SentInv, StopsInTime, TypeOK
<1> QED
  BY InvInit, <1>1, <1>2, PTL DEF Spec

-----------------------------------------------------------------------------
(* The arithmetic of inverse_kinematics_to_pwm. *)
(* Rounding errs by half a unit at most. *)
LEMMA RoundFacts ==
  ASSUME NEW a \in Int, NEW b \in Nat, b > 0
  PROVE  /\ Kinematics!Round(a, b) \in Int
         /\ 2 * (Kinematics!Round(a, b) * b - a) \in -b .. b
<1> DEFINE q == a \div b
           r == a % b
<1>1. q \in Int /\ r \in Nat /\ r < b /\ a = b * q + r
  OBVIOUS
<1>2. Kinematics!Round(a, b) = IF 2 * r < b \/ (2 * r = b /\ q % 2 = 0) THEN q ELSE q + 1
  BY DEF Kinematics!Round
<1> HIDE DEF q, r
<1>3. q * b = a - r /\ (q + 1) * b = a - r + b
  BY <1>1
<1>4. CASE Kinematics!Round(a, b) = q /\ 2 * r <= b
  BY <1>1, <1>3, <1>4
<1>5. CASE Kinematics!Round(a, b) = q + 1 /\ 2 * r >= b
  BY <1>1, <1>3, <1>5
<1> QED
  BY <1>1, <1>2, <1>4, <1>5

LEMMA TimesAbs ==
  ASSUME NEW d \in Int, NEW w \in Int, NEW m \in Nat, 2 * d \in -m .. m
  PROVE  /\ 2 * (d * w) <= m * Kinematics!Abs(w)
         /\ 2 * (d * w) >= -(m * Kinematics!Abs(w))
<1>1. ASSUME NEW x \in Int, NEW y \in Int, NEW z \in Nat, x <= y
      PROVE  x * z <= y * z
  BY <1>1
<1>2. CASE w >= 0
  <2>1. (2 * d) * w <= m * w /\ (-m) * w <= (2 * d) * w
    BY <1>1, <1>2
  <2> QED
    BY <1>2, <2>1 DEF Kinematics!Abs
<1>3. CASE w < 0
  <2>1. (2 * d) * (-w) <= m * (-w) /\ (-m) * (-w) <= (2 * d) * (-w)
    BY <1>1, <1>3
  <2> QED
    BY <1>3, <2>1 DEF Kinematics!Abs
<1> QED
  BY <1>2, <1>3

(* Two values that come from v and w by the same factor k / m keep their   *)
(* proportion up to their errors.                                          *)
LEMMA KeepProportion ==
  ASSUME NEW p \in Int, NEW q \in Int, NEW v \in Int, NEW w \in Int,
         NEW k \in Int, NEW m \in Nat, m > 0,
         2 * (p * m - v * k) \in -m .. m, 2 * (q * m - w * k) \in -m .. m
  PROVE  2 * Kinematics!Abs(p * w - q * v) <= Kinematics!Abs(v) + Kinematics!Abs(w)
<1> DEFINE d == p * m - v * k
           e == q * m - w * k
           x == p * w - q * v
           bound == Kinematics!Abs(v) + Kinematics!Abs(w)
<1>1. d \in Int /\ e \in Int /\ x \in Int /\ bound \in Nat
  BY DEF Kinematics!Abs
<1>2. m * x = d * w - e * v
  OBVIOUS
<1>3. 2 * d \in -m .. m /\ 2 * e \in -m .. m
  OBVIOUS
<1>4. m * bound = m * Kinematics!Abs(v) + m * Kinematics!Abs(w)
  BY DEF Kinematics!Abs
<1> HIDE DEF d, e, x, bound
<1>5. /\ 2 * (d * w) <= m * Kinematics!Abs(w) /\ 2 * (d * w) >= -(m * Kinematics!Abs(w))
      /\ 2 * (e * v) <= m * Kinematics!Abs(v) /\ 2 * (e * v) >= -(m * Kinematics!Abs(v))
  BY <1>1, <1>3, TimesAbs
<1>6. d * w \in Int /\ e * v \in Int /\ m * Kinematics!Abs(w) \in Int /\ m * Kinematics!Abs(v) \in Int
  BY <1>1 DEF Kinematics!Abs
<1>7. 2 * (m * x) <= m * bound /\ 2 * (m * x) >= -(m * bound)
  BY <1>2, <1>4, <1>5, <1>6
<1>8. m * (bound - 2 * x) >= 0 /\ m * (bound + 2 * x) >= 0
  BY <1>1, <1>7
<1>9. ASSUME NEW n \in Int, m * n >= 0 PROVE n >= 0
  BY <1>9
<1>10. bound - 2 * x >= 0 /\ bound + 2 * x >= 0
  BY <1>1, <1>8, <1>9
<1>11. 2 * Kinematics!Abs(x) <= bound
  BY <1>1, <1>10 DEF Kinematics!Abs
<1> QED
  BY <1>11 DEF x, bound

LEMMA StaysWithin ==
  ASSUME NEW a \in Int, NEW p \in Int, NEW k \in Nat, NEW m \in Nat, m > 0,
         2 * (p * m - a) \in -m .. m, a <= m * k, a >= -(m * k)
  PROVE  p \in -k .. k
<1>1. m * k \in Nat /\ p * m \in Int
  OBVIOUS
<1>2. 2 * (p * m) <= 2 * (m * k) + m /\ 2 * (p * m) >= -(2 * (m * k) + m)
  BY <1>1
<1>3. m * (2 * k + 1 - 2 * p) >= 0 /\ m * (2 * k + 1 + 2 * p) >= 0
  BY <1>2
<1>4. ASSUME NEW n \in Int, m * n >= 0 PROVE n >= 0
  BY <1>4
<1>5. 2 * k + 1 - 2 * p >= 0 /\ 2 * k + 1 + 2 * p >= 0
  BY <1>3, <1>4
<1> QED
  BY <1>5

(* A rounded multiple of v has the sign of v. *)
LEMMA KeepSign ==
  ASSUME NEW p \in Int, NEW v \in Int, NEW k \in Nat, NEW m \in Nat, m > 0,
         2 * (p * m - v * k) \in -m .. m
  PROVE  (v >= 0 => p >= 0) /\ (v <= 0 => p <= 0)
<1>1. p * m \in Int /\ v * k \in Int
  OBVIOUS
<1>2. (v >= 0 => v * k >= 0) /\ (v <= 0 => v * k <= 0)
  OBVIOUS
<1>3. (v >= 0 => m * (2 * p + 1) >= 0) /\ (v <= 0 => m * (1 - 2 * p) >= 0)
  BY <1>1, <1>2
<1>4. ASSUME NEW n \in Int, m * n >= 0 PROVE n >= 0
  BY <1>4
<1>5. (v >= 0 => 2 * p + 1 >= 0) /\ (v <= 0 => 1 - 2 * p >= 0)
  BY <1>3, <1>4
<1> QED
  BY <1>5

LEMMA AbsFacts ==
  ASSUME NEW v \in Int
  PROVE  /\ Kinematics!Abs(v) \in Nat
         /\ v <= Kinematics!Abs(v) /\ v >= -Kinematics!Abs(v)
         /\ v = 0 => Kinematics!Abs(v) = 0
BY DEF Kinematics!Abs

LEMMA MaxAbsFacts ==
  ASSUME NEW vals \in [Kinematics!Wheels -> Int]
  PROVE  /\ Kinematics!MaxAbs(vals) \in {Kinematics!Abs(vals[w]) : w \in Kinematics!Wheels}
         /\ \A w \in Kinematics!Wheels : Kinematics!Abs(vals[w]) <= Kinematics!MaxAbs(vals)
<1> DEFINE size(w) == Kinematics!Abs(vals[w])
<1>1. \A w \in Kinematics!Wheels : size(w) \in Nat
  BY AbsFacts
<1>2. \E u \in Kinematics!Wheels : \A w \in Kinematics!Wheels : size(w) <= size(u)
  <2> HIDE DEF size
  <2>1. size(1) \in Nat /\ size(2) \in Nat /\ size(3) \in Nat /\ size(4) \in Nat
    BY <1>1 DEF Kinematics!Wheels
  <2>2. \E u \in 1 .. 4 : /\ size(1) <= size(u) /\ size(2) <= size(u)
                          /\ size(3) <= size(u) /\ size(4) <= size(u)
    BY <2>1
  <2> QED
    BY <2>2 DEF Kinematics!Wheels
<1>3. \E m \in {Kinematics!Abs(vals[w]) : w \in Kinematics!Wheels} :
        \A w \in Kinematics!Wheels : Kinematics!Abs(vals[w]) <= m
  BY <1>2
<1> QED
  BY <1>3 DEF Kinematics!MaxAbs

LEMMA ScaleFacts ==
  ASSUME NEW vals \in [Kinematics!Wheels -> Int]
  PROVE  /\ Kinematics!Scale(vals) \in [Kinematics!Wheels -> Kinematics!Cmds]
         /\ \A i \in Kinematics!Wheels :
              /\ vals[i] >= 0 => Kinematics!Scale(vals)[i] >= 0
              /\ vals[i] <= 0 => Kinematics!Scale(vals)[i] <= 0
         /\ \A i, j \in Kinematics!Wheels :
              2 * Kinematics!Abs(Kinematics!Scale(vals)[i] * vals[j]
                                   - Kinematics!Scale(vals)[j] * vals[i])
                <= Kinematics!Abs(vals[i]) + Kinematics!Abs(vals[j])
<1> DEFINE most == Kinematics!MaxAbs(vals)
           pwm == Kinematics!Scale(vals)
<1>1. /\ MaxCmd \in Nat /\ Unit \in Nat /\ Unit > 0
      /\ MaxCmd * Unit \in Nat /\ MaxCmd * Unit = Unit * MaxCmd
  BY MotionAssumption DEF Kinematics!KinematicsAssumption
<1>2. ASSUME NEW w \in Kinematics!Wheels
      PROVE  vals[w] \in Int /\ most \in Nat /\ vals[w] <= most /\ vals[w] >= -most
  <2>1. most \in Nat /\ Kinematics!Abs(vals[w]) <= most
    BY AbsFacts, MaxAbsFacts
  <2> HIDE DEF most
  <2> QED
    BY <2>1, AbsFacts
<1>3. CASE most > MaxCmd * Unit
  <2>1. ASSUME NEW w \in Kinematics!Wheels
        PROVE  /\ pwm[w] \in Int /\ most \in Nat /\ most > 0
               /\ 2 * (pwm[w] * most - vals[w] * MaxCmd) \in -most .. most
               /\ pwm[w] \in Kinematics!Cmds
    <3>1. pwm[w] = Kinematics!Round(vals[w] * MaxCmd, most)
      BY <1>3 DEF Kinematics!Scale
    <3>2. /\ most \in Nat /\ most > 0 /\ vals[w] * MaxCmd \in Int
          /\ vals[w] * MaxCmd <= most * MaxCmd /\ vals[w] * MaxCmd >= -(most * MaxCmd)
      <4> HIDE DEF most
      <4>1. most \in Nat /\ most > 0 /\ vals[w] * MaxCmd \in Int
        BY <1>1, <1>2, <1>3
      <4>2. ASSUME NEW x \in Int, NEW y \in Int, NEW z \in Nat, x <= y
            PROVE  x * z <= y * z
        BY <4>2
      <4>3. vals[w] * MaxCmd <= most * MaxCmd /\ (-most) * MaxCmd <= vals[w] * MaxCmd
        BY <1>1, <1>2, <4>2
      <4> QED
        BY <1>1, <4>1, <4>3
    <3> HIDE DEF most, pwm
    <3>3. pwm[w] \in Int /\ 2 * (pwm[w] * most - vals[w] * MaxCmd) \in -most .. most
      BY <3>1, <3>2, RoundFacts
    <3>4. pwm[w] \in -MaxCmd .. MaxCmd
      BY <1>1, <3>2, <3>3, StaysWithin
    <3> QED
      BY <3>2, <3>3, <3>4 DEF Kinematics!Cmds
  <2>2. pwm \in [Kinematics!Wheels -> Kinematics!Cmds]
    BY <2>1 DEF Kinematics!Scale
  <2> HIDE DEF most, pwm
  <2>4. ASSUME NEW w \in Kinematics!Wheels
        PROVE  (vals[w] >= 0 => pwm[w] >= 0) /\ (vals[w] <= 0 => pwm[w] <= 0)
    BY <1>1, <1>2, <2>1, KeepSign
  <2>3. ASSUME NEW i \in Kinematics!Wheels, NEW j \in Kinematics!Wheels
        PROVE  2 * Kinematics!Abs(pwm[i] * vals[j] - pwm[j] * vals[i])
                 <= Kinematics!Abs(vals[i]) + Kinematics!Abs(vals[j])
    <3>1. /\ pwm[i] \in Int /\ pwm[j] \in Int /\ vals[i] \in Int /\ vals[j] \in Int
          /\ MaxCmd \in Int /\ most \in Nat /\ most > 0
          /\ 2 * (pwm[i] * most - vals[i] * MaxCmd) \in -most .. most
          /\ 2 * (pwm[j] * most - vals[j] * MaxCmd) \in -most .. most
      BY <1>1, <1>2, <2>1
    <3> QED
      BY <3>1, KeepProportion
  <2> QED
    BY <2>2, <2>3, <2>4 DEF pwm
<1>4. CASE ~(most > MaxCmd * Unit)
  <2>1. ASSUME NEW w \in Kinematics!Wheels
        PROVE  /\ pwm[w] \in Int
               /\ 2 * (pwm[w] * Unit - vals[w] * 1) \in -Unit .. Unit
               /\ pwm[w] \in Kinematics!Cmds
    <3>1. pwm[w] = Kinematics!Round(vals[w], Unit)
      BY <1>4 DEF Kinematics!Scale
    <3> HIDE DEF most, pwm
    <3>2. pwm[w] \in Int /\ 2 * (pwm[w] * Unit - vals[w]) \in -Unit .. Unit
      BY <1>1, <1>2, <3>1, RoundFacts
    <3>3. vals[w] <= Unit * MaxCmd /\ vals[w] >= -(Unit * MaxCmd)
      <4>1. ASSUME NEW v \in Int, NEW x \in Nat, NEW y \in Nat, v <= x, v >= -x, ~(x > y)
            PROVE  v <= y /\ v >= -y
        BY <4>1
      <4> QED
        BY <1>1, <1>2, <1>4, <4>1
    <3>4. pwm[w] \in -MaxCmd .. MaxCmd
      BY <1>1, <1>2, <3>2, <3>3, StaysWithin
    <3> QED
      BY <1>2, <3>2, <3>4 DEF Kinematics!Cmds
  <2>2. pwm \in [Kinematics!Wheels -> Kinematics!Cmds]
    BY <2>1 DEF Kinematics!Scale
  <2> HIDE DEF most, pwm
  <2>4. ASSUME NEW w \in Kinematics!Wheels
        PROVE  (vals[w] >= 0 => pwm[w] >= 0) /\ (vals[w] <= 0 => pwm[w] <= 0)
    <3>1. 2 * (pwm[w] * Unit - vals[w] * 1) \in -Unit .. Unit /\ 1 \in Nat
      BY <1>1, <1>2, <2>1
    <3> QED
      BY <1>1, <1>2, <2>1, <3>1, KeepSign
  <2>3. ASSUME NEW i \in Kinematics!Wheels, NEW j \in Kinematics!Wheels
        PROVE  2 * Kinematics!Abs(pwm[i] * vals[j] - pwm[j] * vals[i])
                 <= Kinematics!Abs(vals[i]) + Kinematics!Abs(vals[j])
    <3>1. /\ pwm[i] \in Int /\ pwm[j] \in Int /\ vals[i] \in Int /\ vals[j] \in Int
          /\ 1 \in Int /\ Unit \in Nat /\ Unit > 0
          /\ 2 * (pwm[i] * Unit - vals[i] * 1) \in -Unit .. Unit
          /\ 2 * (pwm[j] * Unit - vals[j] * 1) \in -Unit .. Unit
      BY <1>1, <1>2, <2>1
    <3> QED
      BY <3>1, KeepProportion
  <2> QED
    BY <2>2, <2>3, <2>4 DEF pwm
<1> QED
  BY <1>3, <1>4

-----------------------------------------------------------------------------
(* The kinematics node. *)
Body == {Kinematics!ClampBody(b) : b \in Aims \union {Kinematics!Rest}}

KinematicsInv ==
  /\ Kinematics!TypeOK
  /\ robotCmd \in Body
  /\ Kinematics!Along(wheelPub, robotCmd)

LEMMA NodeFacts ==
  /\ Aims \subseteq [Kinematics!Axis -> Int] /\ MaxBody \in [Kinematics!Axis -> Nat]
  /\ Unit \in Nat /\ Unit > 0 /\ MaxCmd \in Nat
  /\ ControlPeriod \in Nat /\ ControlPeriod > 0 /\ ControlLate \in Nat
  /\ AimTimeout \in Nat /\ StaleAgeCap \in Nat
BY MotionAssumption DEF Kinematics!KinematicsAssumption

LEMMA WheelValsTyped ==
  ASSUME NEW b \in [Kinematics!Axis -> Int]
  PROVE  Kinematics!WheelVals(b) \in [Kinematics!Wheels -> Int]
<1>1. b["vx"] \in Int /\ b["vy"] \in Int /\ b["omega"] \in Int
  BY DEF Kinematics!Axis
<1>2. \A w \in Kinematics!Wheels : Kinematics!WheelVals(b)[w] \in Int
  BY <1>1 DEF Kinematics!WheelVals, Kinematics!Wheels
<1> QED
  BY <1>2 DEF Kinematics!WheelVals

LEMMA ClampBodyTyped ==
  ASSUME NEW b \in [Kinematics!Axis -> Int]
  PROVE  Kinematics!ClampBody(b) \in [Kinematics!Axis -> Int]
BY NodeFacts DEF Kinematics!ClampBody

LEMMA RestTyped == Kinematics!Rest \in [Kinematics!Axis -> Int]
BY DEF Kinematics!Rest

(* A body command of zero comes to four wheel commands of zero. *)
LEMMA RestRests ==
  /\ \A w \in Kinematics!Wheels : Kinematics!WheelVals(Kinematics!Rest)[w] = 0
  /\ Kinematics!Scale(Kinematics!WheelVals(Kinematics!Rest)) = [w \in Kinematics!Wheels |-> 0]
<1> DEFINE vals == Kinematics!WheelVals(Kinematics!Rest)
<1>1. \A w \in Kinematics!Wheels : vals[w] = 0
  BY DEF Kinematics!WheelVals, Kinematics!Rest, Kinematics!Axis, Kinematics!Wheels
<1>2. vals \in [Kinematics!Wheels -> Int]
  BY RestTyped, WheelValsTyped
<1> HIDE DEF vals
<1>3. Kinematics!MaxAbs(vals) = 0
  BY <1>1, <1>2, MaxAbsFacts, AbsFacts
<1>4. ~(Kinematics!MaxAbs(vals) > MaxCmd * Unit)
  BY <1>3, NodeFacts
<1>5. Kinematics!Round(0, Unit) = 0
  BY NodeFacts DEF Kinematics!Round
<1>6. Kinematics!Scale(vals) = [w \in Kinematics!Wheels |-> 0]
  BY <1>1, <1>4, <1>5 DEF Kinematics!Scale
<1> QED
  BY <1>1, <1>6 DEF vals

LEMMA RestIsBody == Kinematics!Rest \in Body
<1>1. Kinematics!ClampBody(Kinematics!Rest) = Kinematics!Rest
  BY NodeFacts DEF Kinematics!ClampBody, Kinematics!Rest
<1> QED
  BY <1>1 DEF Body

(* Wheel commands of zero are along every body command that is zero. *)
LEMMA ZeroAlongRest ==
  ASSUME NEW cmds, \A w \in Kinematics!Wheels : cmds[w] = 0
  PROVE  Kinematics!Along(cmds, Kinematics!Rest)
<1> DEFINE v == Kinematics!WheelVals(Kinematics!Rest)
<1>1. \A w \in Kinematics!Wheels : v[w] = 0
  BY RestRests
<1> HIDE DEF v
<1>2. 2 * Kinematics!Abs(0 * 0 - 0 * 0) <= Kinematics!Abs(0) + Kinematics!Abs(0)
  BY DEF Kinematics!Abs
<1>3. /\ \A i \in Kinematics!Wheels : (v[i] >= 0 => cmds[i] >= 0) /\ (v[i] <= 0 => cmds[i] <= 0)
      /\ \A i, j \in Kinematics!Wheels :
           2 * Kinematics!Abs(cmds[i] * v[j] - cmds[j] * v[i])
             <= Kinematics!Abs(v[i]) + Kinematics!Abs(v[j])
  BY <1>1, <1>2
<1> QED
  BY <1>3 DEF Kinematics!Along, v

LEMMA KinematicsInit == Kinematics!Init => KinematicsInv
<1> SUFFICES ASSUME Kinematics!Init PROVE KinematicsInv
  OBVIOUS
<1>1. Kinematics!TypeOK
  BY NodeFacts, RestTyped DEF Kinematics!Init, Kinematics!TypeOK, Kinematics!Cmds
<1>2. robotCmd = Kinematics!Rest /\ \A w \in Kinematics!Wheels : wheelPub[w] = 0
  BY DEF Kinematics!Init
<1> QED
  BY <1>1, <1>2, RestIsBody, ZeroAlongRest DEF KinematicsInv

LEMMA ControlKeeps ==
  ASSUME KinematicsInv, Kinematics!ControlLoop
  PROVE  KinematicsInv'
<1>1. robotCmd' \in Body
  BY RestIsBody DEF Kinematics!ControlLoop, KinematicsInv, Kinematics!TypeOK, Body
<1>2. robotCmd' \in [Kinematics!Axis -> Int]
  BY <1>1, NodeFacts, RestTyped, ClampBodyTyped DEF Body
<1> DEFINE vals == Kinematics!WheelVals(robotCmd')
<1>3. vals \in [Kinematics!Wheels -> Int] /\ wheelPub' = Kinematics!Scale(vals)
  BY <1>2, WheelValsTyped DEF Kinematics!ControlLoop
<1>4. wheelPub' \in [Kinematics!Wheels -> Kinematics!Cmds] /\ Kinematics!Along(wheelPub', robotCmd')
  <2> HIDE DEF vals
  <2>1. /\ wheelPub' \in [Kinematics!Wheels -> Kinematics!Cmds]
        /\ \A i \in Kinematics!Wheels :
             (vals[i] >= 0 => wheelPub'[i] >= 0) /\ (vals[i] <= 0 => wheelPub'[i] <= 0)
        /\ \A i, j \in Kinematics!Wheels :
             2 * Kinematics!Abs(wheelPub'[i] * vals[j] - wheelPub'[j] * vals[i])
               <= Kinematics!Abs(vals[i]) + Kinematics!Abs(vals[j])
    BY <1>3, ScaleFacts
  <2> QED
    BY <2>1 DEF Kinematics!Along, vals
<1>5. sinceControl' = 0 /\ UNCHANGED <<aim, aimAge, running>>
  BY DEF Kinematics!ControlLoop, Kinematics!aimVars
<1>6. sinceControl' \in 0 .. ControlPeriod + ControlLate
  BY <1>5, NodeFacts
<1>7. Kinematics!TypeOK'
  BY <1>2, <1>4, <1>5, <1>6 DEF KinematicsInv, Kinematics!TypeOK
<1>8. (robotCmd \in Body)' /\ Kinematics!Along(wheelPub, robotCmd)'
  BY <1>1, <1>4 DEF Body, Kinematics!Along
<1> QED
  BY <1>7, <1>8 DEF KinematicsInv

LEMMA KinematicsStepKeeps ==
  ASSUME KinematicsInv, [MotionNext]_motionVars
  PROVE  KinematicsInv'
<1>1. CASE Control
  BY <1>1, ControlKeeps DEF Control
<1>2. ASSUME UNCHANGED <<robotCmd, wheelPub>>, Kinematics!TypeOK'
      PROVE  KinematicsInv'
  BY <1>2 DEF KinematicsInv, Body
<1>3. CASE Kinematics!TargetCallback
  <2>1. aimAge' \in 0 .. AimTimeout + 1
    BY <1>3, NodeFacts DEF Kinematics!TargetCallback
  <2> QED
    BY <1>2, <1>3, <2>1 DEF Kinematics!TargetCallback, Kinematics!outVars, KinematicsInv,
         Kinematics!TypeOK
<1>4. CASE Kinematics!Exit
  BY <1>2, <1>4 DEF Kinematics!Exit, Kinematics!aimVars, Kinematics!outVars, KinematicsInv,
       Kinematics!TypeOK
<1>5. CASE Kinematics!Age
  <2>1. aimAge' \in 0 .. AimTimeout + 1 /\ sinceControl' \in 0 .. ControlPeriod + ControlLate
    BY <1>5, NodeFacts DEF Kinematics!Age, KinematicsInv, Kinematics!TypeOK
  <2> QED
    BY <1>2, <1>5, <2>1 DEF Kinematics!Age, Kinematics!outVars, KinematicsInv, Kinematics!TypeOK
<1>6. CASE UNCHANGED kinematicsVars
  BY <1>2, <1>6 DEF kinematicsVars, KinematicsInv, Kinematics!TypeOK
<1> QED
  BY <1>1, <1>3, <1>4, <1>5, <1>6
     DEF MotionNext, Step, KinematicsStep, BridgeStep, BridgeTarget, MotionTick, motionVars

-----------------------------------------------------------------------------
(* The two nodes together. *)
LEMMA BridgeStepOfMotion == [MotionNext]_motionVars => [Next]_vars
BY DEF MotionNext, Step, KinematicsStep, Control, BridgeStep, BridgeTarget, MotionTick,
     motionVars, Next, Inputs

(* In front of the kinematics node the bridge is the bridge that           *)
(* SerialBridge specifies, with all that is proved about it.               *)
THEOREM MotionIsBridge == MotionSpec => Spec
BY BridgeStepOfMotion, PTL DEF MotionSpec, MotionInit, Spec

(* Where the bridge lets through what the node may publish, the command it *)
(* keeps is the one that was published last.                               *)
WheelCmdInv == MaxCmd <= MaxPwm => \A w \in Motor : wheelCmd[w] = wheelPub[w]

HeadingInv == TypeOK /\ KinematicsInv /\ WheelCmdInv /\ HeadingKept

LEMMA HeadingInit == MotionInit => WheelCmdInv /\ HeadingKept
<1> SUFFICES ASSUME MotionInit PROVE WheelCmdInv /\ HeadingKept
  OBVIOUS
<1>1. \A w \in Motor : wheelCmd[w] = wheelPub[w]
  BY DEF MotionInit, Init, Kinematics!Init, Kinematics!Wheels, Motor, Zero
<1>2. delivered.kind = ""
  BY DEF MotionInit, Init, NoLine
<1> QED
  BY <1>1, <1>2 DEF WheelCmdInv, HeadingKept

LEMMA WheelCmdKept ==
  ASSUME HeadingInv, [MotionNext]_motionVars, KinematicsInv'
  PROVE  WheelCmdInv'
<1>1. CASE Control
  <2>1. ASSUME MaxCmd <= MaxPwm, NEW w \in Motor
        PROVE  wheelCmd'[w] = wheelPub'[w]
    <3>1. wheelPub'[w] \in -MaxCmd .. MaxCmd
      BY DEF KinematicsInv, Kinematics!TypeOK, Kinematics!Cmds, Kinematics!Wheels, Motor
    <3>2. Clamp(wheelPub'[w]) = wheelPub'[w]
      BY <2>1, <3>1, NodeFacts, ConstantFacts DEF Clamp
    <3> QED
      BY <1>1, <3>2 DEF Control
  <2> QED
    BY <2>1 DEF WheelCmdInv
<1>2. CASE UNCHANGED <<wheelCmd, wheelPub>>
  BY <1>2 DEF HeadingInv, WheelCmdInv
<1> QED
  BY <1>1, <1>2
     DEF MotionNext, Step, KinematicsStep, BridgeStep, BridgeTarget, MotionTick, motionVars, vars,
         inputs, kinematicsVars, Kinematics!TargetCallback, Kinematics!Exit, Kinematics!Age,
         Kinematics!outVars, Safety, SetMode, IoLoop, IoDown, ReadFails, SkipStop, Write,
         WriteFails, IoTimer, Carry, Target, Tick

(* The one step that sends: a line of wheel commands carries the last one, *)
(* or zero after the timeout.                                              *)
LEMMA WriteKeepsHeading ==
  ASSUME HeadingInv, Write
  PROVE  HeadingKept'
<1> SUFFICES ASSUME MaxCmd <= MaxPwm, delivered'.kind = "m"
             PROVE  \E b \in Aims \union {Kinematics!Rest} :
                      Kinematics!Along(delivered'.arg, Kinematics!ClampBody(b))
  BY DEF HeadingKept, Kinematics!Along, Kinematics!ClampBody, Kinematics!WheelVals
<1>1. delivered' = RawLine(Zero) \/ delivered' = RawLine(wheelCmd)
  BY DEF Write, NextLine, StopLine, DaLine
<1>2. CASE delivered' = RawLine(Zero)
  <2>1. \A w \in Kinematics!Wheels : delivered'.arg[w] = 0
    BY <1>2 DEF RawLine, Zero, Motor, Kinematics!Wheels
  <2>2. Kinematics!Along(delivered'.arg, Kinematics!Rest)
    BY <2>1, ZeroAlongRest
  <2>3. PICK b \in Aims \union {Kinematics!Rest} : Kinematics!Rest = Kinematics!ClampBody(b)
    BY RestIsBody DEF Body
  <2> QED
    BY <2>2, <2>3
<1>3. CASE delivered' = RawLine(wheelCmd)
  <2>1. \A w \in Kinematics!Wheels : delivered'.arg[w] = wheelPub[w]
    BY <1>3 DEF HeadingInv, WheelCmdInv, RawLine, Motor, Kinematics!Wheels
  <2>2. Kinematics!Along(delivered'.arg, robotCmd)
    BY <2>1 DEF HeadingInv, KinematicsInv, Kinematics!Along
  <2>3. PICK b \in Aims \union {Kinematics!Rest} : robotCmd = Kinematics!ClampBody(b)
    BY DEF HeadingInv, KinematicsInv, Body
  <2> QED
    BY <2>2, <2>3
<1> QED
  BY <1>1, <1>2, <1>3

LEMMA HeadingStep ==
  ASSUME HeadingInv, [MotionNext]_motionVars, KinematicsInv'
  PROVE  HeadingKept'
<1>1. CASE Write
  BY <1>1, WriteKeepsHeading
<1>2. CASE UNCHANGED delivered
  BY <1>2 DEF HeadingInv, HeadingKept
<1> QED
  BY <1>1, <1>2
     DEF MotionNext, Step, KinematicsStep, Control, BridgeStep, BridgeTarget, MotionTick,
         motionVars, vars, link, WheelCmd, Safety, SetMode, IoLoop, IoDown, ReadFails, SkipStop,
         WriteFails, Carry, Target, Tick

(* The node's variables keep their ranges, and every line of wheel         *)
(* commands that goes out, whatever was clamped, scaled, rounded, lost or  *)
(* repeated before, moves the robot on the heading of a target as the      *)
(* limits of the axes leave it.                                            *)
THEOREM HeadingIsKept == MotionSpec => [](Kinematics!TypeOK /\ HeadingKept)
<1>1. MotionInit => KinematicsInv /\ WheelCmdInv /\ HeadingKept
  BY KinematicsInit, HeadingInit DEF MotionInit
<1>2. TypeOK /\ KinematicsInv /\ WheelCmdInv /\ HeadingKept /\ [MotionNext]_motionVars
        => KinematicsInv' /\ WheelCmdInv' /\ HeadingKept'
  BY KinematicsStepKeeps, WheelCmdKept, HeadingStep DEF HeadingInv
<1>3. KinematicsInv => Kinematics!TypeOK
  BY DEF KinematicsInv
<1>4. MotionSpec => []TypeOK
  BY MotionIsBridge, TypeCorrect, PTL
<1> QED
  BY <1>1, <1>2, <1>3, <1>4, PTL DEF MotionSpec

(* While a target is stale the wheel command is zero, or nobody has        *)
(* refreshed the bridge nor has the kinematics node's timer fired since;   *)
(* so the bridge's last drive was written within the shorter of the two.   *)
Period == ControlPeriod + ControlLate

StaleInv ==
  /\ staleAge \in 0 .. StaleAgeCap
  /\ staleAge > 0 => StaleInRaw
  /\ StaleInRaw /\ wheelCmd # Zero =>
       /\ cmdAge >= staleAge \/ cmdAge > Timeout
       /\ running => sinceControl >= staleAge
  /\ connected /\ ~lost /\ Drives(delivered) =>
       /\ staleAge <= Timeout + sinceIo
       /\ running => staleAge <= Period + sinceIo

MotionInv == IInv /\ KinematicsInv /\ StaleInv

LEMMA MotionCounts ==
  ASSUME MotionInv
  PROVE  /\ staleAge \in Nat /\ sinceIo \in Nat /\ cmdAge \in Nat /\ sinceControl \in Nat
         /\ sinceControl <= Period /\ Period \in Nat /\ Timeout \in Nat
BY ConstantFacts, NodeFacts DEF MotionInv, IInv, TypeOK, StaleInv, KinematicsInv,
     Kinematics!TypeOK, Period

(* A drive that is written while the target is stale comes in time. *)
LEMMA WriteInTime ==
  ASSUME MotionInv, Drives(NextLine)
  PROVE  staleAge <= Timeout /\ (running => staleAge <= Period)
<1> USE MotionCounts
<1>1. ~Rest
  BY NextLineDrives
<1>2. CASE staleAge = 0
  BY <1>2
<1>3. CASE staleAge # 0
  <2>1. staleAge > 0
    BY <1>3
  <2>2. StaleInRaw
    BY <2>1 DEF MotionInv, StaleInv
  <2>3. NextLine = RawLine(wheelCmd)
    BY <1>1, <2>2 DEF NextLine, Rest, StaleInRaw
  <2>4. wheelCmd # Zero
    BY <2>3 DEF Drives, RawLine, Zero, Motor
  <2>5. cmdAge <= Timeout
    BY <1>1 DEF Rest
  <2>6. (cmdAge >= staleAge \/ cmdAge > Timeout) /\ (running => sinceControl >= staleAge)
    BY <2>2, <2>4 DEF MotionInv, StaleInv
  <2>7. staleAge <= Timeout
    BY <2>5, <2>6
  <2>8. running => staleAge <= Period
    BY <2>6
  <2> QED
    BY <2>7, <2>8
<1> QED
  BY <1>2, <1>3

(* The kinematics node's steps. *)
LEMMA NodeStepStale ==
  ASSUME MotionInv, KinematicsStep, staleAge' = IF StaleInRaw' THEN staleAge ELSE 0
  PROVE  StaleInv'
<1> USE MotionCounts
<1>0. staleAge \in 0 .. StaleAgeCap /\ (staleAge > 0 => StaleInRaw)
  BY DEF MotionInv, StaleInv
<1>1. staleAge' \in 0 .. StaleAgeCap /\ (staleAge' > 0 => StaleInRaw')
  BY <1>0, NodeFacts
<1>2. UNCHANGED <<connected, lost, delivered, sinceIo, mode>>
  BY DEF KinematicsStep, Control, WheelCmd, link, vars, inputs
<1>3. running' => running
  BY DEF KinematicsStep, Control, Kinematics!ControlLoop, Kinematics!TargetCallback,
       Kinematics!Exit
<1>4. connected' /\ ~lost' /\ Drives(delivered') =>
         /\ staleAge' <= Timeout + sinceIo'
         /\ running' => staleAge' <= Period + sinceIo'
  <2>1. staleAge' = staleAge \/ staleAge' = 0
    OBVIOUS
  <2>2. connected /\ ~lost /\ Drives(delivered) =>
          /\ staleAge <= Timeout + sinceIo
          /\ running => staleAge <= Period + sinceIo
    BY DEF MotionInv, StaleInv
  <2> QED
    BY <1>2, <1>3, <2>1, <2>2 DEF Drives
<1>5. CASE Control
  <2>1. StaleInRaw' => wheelCmd' = Zero
    <3> SUFFICES ASSUME StaleInRaw' PROVE wheelCmd' = Zero
      OBVIOUS
    <3>1. Kinematics!Stale
      BY <1>5 DEF StaleInRaw, Kinematics!Stale, Control, Kinematics!ControlLoop,
           Kinematics!aimVars
    <3>2. wheelPub' = [w \in Kinematics!Wheels |-> 0]
      BY <1>5, <3>1, RestRests DEF Control, Kinematics!ControlLoop
    <3>3. Clamp(0) = 0
      BY ConstantFacts DEF Clamp
    <3> QED
      BY <1>5, <3>2, <3>3 DEF Control, Zero, Motor, Kinematics!Wheels
  <2> QED
    BY <1>1, <1>4, <2>1 DEF StaleInv
<1>6. CASE Kinematics!TargetCallback
  <2>1. ~StaleInRaw'
    BY <1>6, NodeFacts DEF Kinematics!TargetCallback, StaleInRaw, Kinematics!Stale
  <2> QED
    BY <1>1, <1>4, <2>1 DEF StaleInv
<1>7. CASE Kinematics!Exit /\ UNCHANGED vars
  <2>1. StaleInRaw' <=> StaleInRaw
    BY <1>2, <1>7 DEF Kinematics!Exit, Kinematics!aimVars, StaleInRaw, Kinematics!Stale
  <2>2. UNCHANGED <<wheelCmd, cmdAge>> /\ ~running'
    BY <1>7 DEF Kinematics!Exit, vars, inputs
  <2> QED
    BY <1>1, <1>4, <2>1, <2>2 DEF StaleInv, MotionInv
<1> QED
  BY <1>5, <1>6, <1>7 DEF KinematicsStep

LEMMA BridgeStepStale ==
  ASSUME MotionInv, BridgeStep, staleAge' = IF StaleInRaw' THEN staleAge ELSE 0
  PROVE  StaleInv'
<1> USE MotionCounts
<1>0. staleAge \in 0 .. StaleAgeCap /\ (staleAge > 0 => StaleInRaw)
  BY DEF MotionInv, StaleInv
<1>1. staleAge' \in 0 .. StaleAgeCap /\ (staleAge' > 0 => StaleInRaw')
  BY <1>0, NodeFacts
<1>2. UNCHANGED <<aimAge, sinceControl, running>>
  BY DEF BridgeStep, kinematicsVars
<1>3. UNCHANGED <<wheelCmd, cmdAge>>
  BY DEF BridgeStep, Safety, SetMode, IoLoop, IoDown, ReadFails, SkipStop, Write, WriteFails,
       IoTimer, Carry, inputs
<1>4. staleAge' \in {0, staleAge} /\ (StaleInRaw' /\ ~StaleInRaw => staleAge' = 0)
  <2>1. ~StaleInRaw => staleAge = 0
    BY <1>0
  <2> QED
    BY <2>1
<1>5. StaleInRaw' /\ wheelCmd' # Zero =>
        /\ cmdAge' >= staleAge' \/ cmdAge' > Timeout
        /\ running' => sinceControl' >= staleAge'
  <2>1. CASE staleAge' = 0
    BY <1>2, <1>3, <2>1
  <2>2. CASE StaleInRaw' => StaleInRaw
    BY <1>2, <1>3, <1>4, <2>1, <2>2 DEF MotionInv, StaleInv
  <2> QED
    BY <1>4, <2>1, <2>2
<1>6. /\ staleAge' <= staleAge
      /\ connected /\ ~lost /\ Drives(delivered) =>
           /\ staleAge <= Timeout + sinceIo
           /\ running => staleAge <= Period + sinceIo
  BY <1>4 DEF MotionInv, StaleInv
<1>7. connected' /\ ~lost' /\ Drives(delivered') =>
        /\ staleAge' <= Timeout + sinceIo'
        /\ running' => staleAge' <= Period + sinceIo'
  <2> SUFFICES ASSUME connected', ~lost', Drives(delivered')
               PROVE  staleAge' <= Timeout + sinceIo' /\ (running' => staleAge' <= Period + sinceIo')
    OBVIOUS
  <2>1. CASE UNCHANGED <<connected, lost, delivered, sinceIo>>
    <3>1. connected /\ ~lost /\ Drives(delivered)
      BY <2>1 DEF Drives
    <3> QED
      BY <1>0, <1>1, <1>2, <1>6, <2>1, <3>1
  <2>2. CASE IoDown \/ ReadFails \/ WriteFails
    BY <2>2 DEF IoDown, ReadFails, WriteFails, StaysClosed
  <2>3. CASE SkipStop
    <3>1. lastTx' = StopLine /\ lastTx' = lastTx /\ delivered' = delivered /\ lost' = lost
      BY <2>3 DEF SkipStop, Duplicate
    <3>2. ~lost => lastTx = delivered
      BY DEF MotionInv, IInv, SentInv
    <3> QED
      BY <3>1, <3>2 DEF Drives, StopLine
  <2>4. CASE Write
    <3>1. delivered' = NextLine /\ sinceIo' = 0
      BY <2>4 DEF Write, IoTimer
    <3>2. staleAge <= Timeout /\ (running => staleAge <= Period)
      BY <3>1, WriteInTime DEF Drives
    <3> QED
      BY <1>0, <1>1, <1>2, <1>6, <3>1, <3>2
  <2> QED
    BY <2>1, <2>2, <2>3, <2>4 DEF BridgeStep, Safety, SetMode, IoLoop, Carry, link
<1> QED
  BY <1>1, <1>5, <1>7 DEF StaleInv

LEMMA TickStale ==
  ASSUME MotionInv, MotionTick
  PROVE  StaleInv'
<1> USE MotionCounts
<1>1. staleAge' \in 0 .. StaleAgeCap /\ staleAge' <= staleAge + 1
  <2>1. Older(staleAge, StaleAgeCap) \in 0 .. StaleAgeCap
        /\ Older(staleAge, StaleAgeCap) <= staleAge + 1
    BY OlderTyped, NodeFacts DEF MotionInv, StaleInv
  <2> QED
    BY <2>1, NodeFacts DEF MotionTick
<1>2. /\ UNCHANGED <<mode, wheelCmd, connected, delivered, lost, running>>
      /\ sinceIo' = sinceIo + 1 /\ cmdAge' = Older(cmdAge, CmdAgeCap)
  BY DEF MotionTick, Tick, Kinematics!Age
<1>3. running => sinceControl' = sinceControl + 1
  BY DEF MotionTick, Kinematics!Age
<1>4. staleAge' # 0 => StaleInRaw
  BY DEF MotionTick
<1>5. StaleInRaw => StaleInRaw'
  <2>1. aimAge > AimTimeout => aimAge' = aimAge
    BY DEF MotionTick, Kinematics!Age
  <2> QED
    BY <1>2, <2>1 DEF StaleInRaw, Kinematics!Stale
<1>6. (cmdAge' = cmdAge + 1 \/ cmdAge' > Timeout) /\ cmdAge' \in Nat
  BY <1>2, BridgeAssumption DEF Older, MotionInv, IInv, TypeOK
<1>7. sinceControl' \in Nat
  BY NodeFacts DEF MotionTick, Kinematics!Age
<1>8. StaleInRaw' /\ wheelCmd' # Zero =>
        /\ cmdAge' >= staleAge' \/ cmdAge' > Timeout
        /\ running' => sinceControl' >= staleAge'
  <2>1. CASE staleAge' = 0
    BY <1>6, <1>7, <2>1
  <2>2. CASE staleAge' # 0
    <3> SUFFICES ASSUME wheelCmd # Zero
                 PROVE  /\ cmdAge' >= staleAge' \/ cmdAge' > Timeout
                        /\ running' => sinceControl' >= staleAge'
      BY <1>2
    <3>1. /\ cmdAge >= staleAge \/ cmdAge > Timeout
          /\ running => sinceControl >= staleAge
      BY <1>4, <2>2 DEF MotionInv, StaleInv
    <3>2. cmdAge' >= staleAge' \/ cmdAge' > Timeout
      BY <1>1, <1>6, <3>1
    <3>3. running' => sinceControl' >= staleAge'
      BY <1>1, <1>2, <1>3, <3>1
    <3> QED
      BY <3>2, <3>3
  <2> QED
    BY <2>1, <2>2
<1>9. connected' /\ ~lost' /\ Drives(delivered') =>
        /\ staleAge' <= Timeout + sinceIo'
        /\ running' => staleAge' <= Period + sinceIo'
  <2>1. connected /\ ~lost /\ Drives(delivered) =>
          /\ staleAge <= Timeout + sinceIo
          /\ running => staleAge <= Period + sinceIo
    BY DEF MotionInv, StaleInv
  <2> QED
    BY <1>1, <1>2, <2>1 DEF Drives
<1>10. staleAge' > 0 => StaleInRaw'
  BY <1>1, <1>4, <1>5
<1> QED
  BY <1>1, <1>8, <1>9, <1>10 DEF StaleInv

LEMMA TargetStale ==
  ASSUME MotionInv, BridgeTarget
  PROVE  StaleInv'
<1>1. staleAge' = 0 /\ UNCHANGED <<connected, delivered, lost, sinceIo, running, sinceControl>>
      /\ cmdAge' = 0
  BY DEF BridgeTarget, Target, link, kinematicsVars
<1> QED
  BY <1>1, MotionCounts, NodeFacts DEF StaleInv

LEMMA MotionInvInit == MotionInit => MotionInv
<1> SUFFICES ASSUME MotionInit PROVE MotionInv
  OBVIOUS
<1>1. IInv /\ KinematicsInv
  BY InvInit, KinematicsInit DEF MotionInit
<1>2. StaleInv
  <2>1. staleAge = 0 /\ wheelCmd = Zero /\ ~connected
    BY DEF MotionInit, Init
  <2> QED
    BY <2>1, NodeFacts DEF StaleInv
<1> QED
  BY <1>1, <1>2 DEF MotionInv

LEMMA MotionInvStep == MotionInv /\ [MotionNext]_motionVars => MotionInv'
<1> SUFFICES ASSUME MotionInv, [MotionNext]_motionVars PROVE MotionInv'
  OBVIOUS
<1>1. IInv'
  BY BridgeStepOfMotion, TypeStep, SentStep DEF IInv, MotionInv
<1>2. KinematicsInv'
  BY KinematicsStepKeeps DEF MotionInv
<1>3. ASSUME UNCHANGED motionVars PROVE StaleInv'
  <2>1. /\ UNCHANGED <<mode, wheelCmd, cmdAge, connected, delivered, lost, sinceIo>>
        /\ UNCHANGED <<aim, aimAge, sinceControl, running, staleAge>>
    BY <1>3 DEF motionVars, vars, inputs, link, kinematicsVars
  <2>2. (StaleInRaw' <=> StaleInRaw) /\ (Drives(delivered') <=> Drives(delivered))
    BY <2>1 DEF StaleInRaw, Kinematics!Stale, Drives
  <2>3. StaleInv
    BY DEF MotionInv
  <2> QED
    BY <2>1, <2>2, <2>3 DEF StaleInv
<1>4. ASSUME MotionNext PROVE StaleInv'
  BY <1>4, NodeStepStale, BridgeStepStale, TickStale, TargetStale DEF MotionNext, Step
<1>5. StaleInv'
  BY <1>3, <1>4
<1> QED
  BY <1>1, <1>2, <1>5 DEF MotionInv

(* In mode raw_wheels a stale target drives the wheels no longer than the  *)
(* shorter of the node's next tick and the bridge's timeout, and one       *)
(* io_loop; than the timeout and one io_loop when the node has died.       *)
THEOREM StaleTargetsStop == MotionSpec => []StaleTargetStops
<1>1. MotionInv => StaleTargetStops
  <2> SUFFICES ASSUME MotionInv, connected, ~lost, Drives(delivered)
               PROVE  ~(staleAge > Grace)
    BY DEF StaleTargetStops
  <2>1. staleAge <= Timeout + sinceIo /\ (running => staleAge <= Period + sinceIo)
    BY DEF MotionInv, StaleInv
  <2>2. /\ sinceIo \in Nat /\ sinceIo <= IoPeriod + IoLate
        /\ IoPeriod \in Nat /\ IoLate \in Nat
    BY ConstantFacts DEF MotionInv, IInv, TypeOK
  <2>3. Grace = (IF running /\ Period < Timeout THEN Period ELSE Timeout) + IoPeriod + IoLate
    BY DEF Grace, Period
  <2> QED
    BY <2>1, <2>2, <2>3, MotionCounts
<1> QED
  BY <1>1, MotionInvInit, MotionInvStep, PTL DEF MotionSpec
=============================================================================
