--------------------------- MODULE BldcWheels_proofs ---------------------------
(***************************************************************************)
(* Proofs about the two models that look into the wheels of the sketch,    *)
(* for every number of wheels: BldcDriver, for every duty scale and every  *)
(* set of requests, and BldcOdometry, for every width of a counter.        *)
(***************************************************************************)
EXTENDS BldcDriver, BldcOdometry, TLAPS

-----------------------------------------------------------------------------
(* The output stage. *)
Off(w) == ~en[w] /\ sv[w] = 0 /\ bk[w] = BrakeWhenStopped

(* The F/R shadow is exact, an enabled stage counts as energised, and the  *)
(* F/R step is only reached on a wheel that is off and has settled.        *)
SwitchInv ==
  /\ \A w \in Wheel : lastDirForward[w] = fr[w]
  /\ \A w \in Wheel : en[w] => w \in energised
  /\ pc \in {"delay", "switch"} => ~en[i]
  /\ pc = "switch" => i \notin energised

(* Every wheel but the one being written is settled; that one is settled   *)
(* up to the writes its routine has still to make.                         *)
SettledInv ==
  /\ \A w \in Wheel : w # i => Settled(w)
  /\ pc \in {"idle", "direction", "stopEnable"} => Settled(i)
  /\ pc \in {"enable", "pwm"} =>
       (bk[i] <=> (Magnitude(cmd[i]) = 0 /\ BrakeWhenStopped))
  /\ pc = "pwm" => (en[i] <=> Magnitude(cmd[i]) > 0)
  /\ pc \in {"stopPwm", "stopBrake"} => ~en[i]
  /\ pc = "stopBrake" => sv[i] = 0 /\ ~lastEnOn[i]

(* The wheels already served by the running routine. *)
ProgressInv ==
  /\ pc = "idle" => i = 0
  /\ pc \in ApplyPc => \A w \in Wheel : w < i /\ en[w] => (fr[w] <=> Forward(cmd[w]))
  /\ pc \in {"brake", "enable", "pwm"} => (fr[i] <=> Forward(cmd[i]))
  /\ pc \in {"idle"} \union StopPc =>
       \A w \in Wheel : en[w] => (fr[w] <=> Forward(cmd[w]))
  /\ pc \in StopPc => \A w \in Wheel : w < i => Off(w)

IInv == TypeOK /\ SwitchInv /\ SettledInv /\ ProgressInv

-----------------------------------------------------------------------------
LEMMA WheelFacts ==
  /\ Wheel \subseteq Nat
  /\ \A w \in Wheel : ~(w < 0)
  /\ 0 \in Wheel
  /\ \A w \in Wheel : w + 1 < NumWheels => w + 1 \in Wheel
  /\ \A w, v \in Wheel : ~(w + 1 < NumWheels) => v < w \/ v = w
  /\ \A w, v \in Wheel : v < w + 1 => v < w \/ v = w
BY WheelsAssumption DEF Wheel

(* What a request becomes: a duty in range, and the sign it came with. *)
LEMMA RequestFacts ==
  ASSUME NEW v \in Int
  PROVE  /\ Magnitude(v) \in {0} \union (MinEffectiveCmd .. MaxWheelCmd)
         /\ Magnitude(v) \in Nat
         /\ Forward(v) \in BOOLEAN
         /\ Forward(v) <=> v >= 0
BY DriverAssumption DEF Magnitude, Forward, Clamp

LEMMA InitInv == Init => IInv
BY DriverAssumption, WheelFacts
   DEF Init, IInv, TypeOK, SwitchInv, SettledInv, ProgressInv, Settled, ApplyPc, StopPc

LEMMA StepInv == IInv /\ [Next]_vars => IInv'
<1> SUFFICES ASSUME IInv, [Next]_vars PROVE IInv'
  OBVIOUS
<1> USE WheelFacts, DriverAssumption
    DEF IInv, TypeOK, SwitchInv, SettledInv, ProgressInv, Settled, Off, ApplyPc, StopPc
<1>a. /\ Magnitude(cmd[i]) \in {0} \union (MinEffectiveCmd .. MaxWheelCmd)
      /\ Magnitude(cmd[i]) \in Nat
      /\ Forward(cmd[i]) \in BOOLEAN
  BY RequestFacts
<1>1. CASE ApplyCommands
  <2>1. TypeOK'
    <3>1. PICK c \in [Wheel -> Requests] : cmd' = c
      BY <1>1 DEF ApplyCommands
    <3>2. cmd' \in [Wheel -> Int]
      BY <3>1
    <3> QED
      BY <1>1, <3>2 DEF ApplyCommands, pins, shadows
  <2>2. SwitchInv' /\ SettledInv'
    BY <1>1 DEF ApplyCommands, pins, shadows
  <2>3. ProgressInv'
    BY <1>1 DEF ApplyCommands, pins, shadows
  <2> QED
    BY <2>1, <2>2, <2>3
<1>2. CASE DropEnable
  BY <1>2 DEF DropEnable, shadows
<1>3. CASE KeepDirection
  BY <1>3 DEF KeepDirection, pins, shadows
<1>4. CASE WaitEnableOff
  BY <1>4 DEF WaitEnableOff, pins, shadows
<1>5. CASE SwitchDirection
  BY <1>5, <1>a DEF SwitchDirection
<1>6. CASE SetBrake
  BY <1>6, <1>a DEF SetBrake, shadows
<1>7. CASE SetEnable
  <2>1. TypeOK'
    BY <1>7, <1>a DEF SetEnable, shadows
  <2>2. SwitchInv'
    BY <1>7, <1>a DEF SetEnable, shadows
  <2>3. SettledInv'
    BY <1>7, <1>a DEF SetEnable, shadows
  <2>4. ProgressInv'
    BY <1>7, <1>a DEF SetEnable, shadows
  <2> QED
    BY <2>1, <2>2, <2>3, <2>4
<1>8. CASE WriteDuty
  <2>1. TypeOK'
    BY <1>8, <1>a DEF WriteDuty, NextWheel
  <2>2. SwitchInv'
    BY <1>8, <1>a DEF WriteDuty, NextWheel
  <2>3. SettledInv'
    BY <1>8, <1>a DEF WriteDuty, NextWheel
  <2>4. ProgressInv'
    BY <1>8, <1>a DEF WriteDuty, NextWheel
  <2> QED
    BY <2>1, <2>2, <2>3, <2>4
<1>9. CASE StopAllMotors
  BY <1>9 DEF StopAllMotors, pins, shadows
<1>10. CASE StopEnable
  BY <1>10 DEF StopEnable, shadows
<1>11. CASE StopDuty
  BY <1>11 DEF StopDuty
<1>12. CASE StopBrake
  BY <1>12 DEF StopBrake, NextWheel, shadows
<1>13. CASE UNCHANGED vars
  BY <1>13 DEF vars
<1> QED
  BY <1>1, <1>2, <1>3, <1>4, <1>5, <1>6, <1>7, <1>8, <1>9, <1>10, <1>11, <1>12,
     <1>13 DEF Next

LEMMA Inductive == Spec => []IInv
BY InitInv, StepInv, PTL DEF Spec

-----------------------------------------------------------------------------
(* Every duty the firmware writes is zero or between the stall floor and   *)
(* full scale, for any request (applyWheelCommand's clamp and floor).      *)
THEOREM TypeCorrect == Spec => []TypeOK
<1>1. IInv => TypeOK
  BY DEF IInv
<1> QED
  BY <1>1, Inductive, PTL

(* Between calls EN, BK, SV and the reported EN agree on every wheel. *)
THEOREM Settles == Spec => []SettledBetweenCalls
<1>1. IInv => SettledBetweenCalls
  BY WheelFacts DEF IInv, SettledInv, SettledBetweenCalls
<1> QED
  BY <1>1, Inductive, PTL

(* Between calls an enabled wheel turns in the direction last requested:   *)
(* lastDirForward is never stale.                                          *)
THEOREM TurnsAsRequested == Spec => []EnabledAsRequested
<1>1. IInv => EnabledAsRequested
  BY RequestFacts DEF IInv, TypeOK, ProgressInv, EnabledAsRequested
<1> QED
  BY <1>1, Inductive, PTL

(* F/R is never written while the wheel's output stage may be energised.   *)
THEOREM SwitchesOnlyWhenOff == Spec => NeverSwitchesEnergised
<1>1. ASSUME IInv, [Next]_vars, NEW w \in Wheel, fr'[w] # fr[w]
      PROVE  w \notin energised
  <2>1. SwitchDirection
    BY <1>1 DEF Next, vars, pins, ApplyCommands, DropEnable, KeepDirection,
       WaitEnableOff, SetBrake, SetEnable, WriteDuty, StopAllMotors, StopEnable,
       StopDuty, StopBrake
  <2>2. w = i
    BY <1>1, <2>1 DEF SwitchDirection, IInv, TypeOK
  <2> QED
    BY <1>1, <2>1, <2>2 DEF SwitchDirection, IInv, SwitchInv
<1>2. IInv /\ [Next]_vars => [\A w \in Wheel : fr'[w] # fr[w] => w \notin energised]_vars
  BY <1>1
<1> QED
  BY <1>2, Inductive, PTL DEF Spec, NeverSwitchesEnergised

(* stopAllMotors returns with every wheel disabled, at zero duty and       *)
(* braked, and grounds BK only on wheels it has already disabled.          *)
THEOREM StopIsComplete == Spec => StopReachesEveryWheel
<1>1. ASSUME IInv, [Next]_vars, pc = "stopBrake", pc' = "idle", NEW w \in Wheel
      PROVE  ~en'[w] /\ sv'[w] = 0 /\ (BrakeWhenStopped => bk'[w])
  <2>1. StopBrake
    BY <1>1 DEF Next, vars, pins, ApplyCommands, DropEnable, KeepDirection,
       WaitEnableOff, SwitchDirection, SetBrake, SetEnable, WriteDuty, StopAllMotors,
       StopEnable, StopDuty
  <2>2. ~(i + 1 < NumWheels)
    BY <2>1, <1>1 DEF StopBrake, NextWheel
  <2>3. w < i \/ w = i
    BY <2>2, <1>1, WheelFacts DEF IInv, TypeOK
  <2>4. CASE w = i
    BY <2>4, <2>1, <1>1 DEF StopBrake, IInv, TypeOK, SettledInv
  <2>5. CASE w < i
    <3>1. Off(w) /\ w # i
      BY <2>5, <1>1, WheelFacts DEF IInv, TypeOK, ProgressInv, StopPc
    <3> QED
      BY <3>1, <2>1, <1>1 DEF StopBrake, IInv, TypeOK, Off
  <2> QED
    BY <2>3, <2>4, <2>5
<1>2. ASSUME IInv, [Next]_vars, NEW w \in Wheel, pc \in StopPc, ~bk[w], bk'[w]
      PROVE  ~en[w]
  <2>1. StopBrake
    BY <1>2 DEF Next, vars, pins, ApplyCommands, DropEnable, KeepDirection,
       WaitEnableOff, SwitchDirection, SetBrake, SetEnable, WriteDuty, StopAllMotors,
       StopEnable, StopDuty, StopPc
  <2>2. w = i
    BY <1>2, <2>1 DEF StopBrake, IInv, TypeOK
  <2> QED
    BY <1>2, <2>1, <2>2 DEF StopBrake, IInv, SettledInv
<1> DEFINE Promise ==
      /\ pc = "stopBrake" /\ pc' = "idle" =>
           \A w \in Wheel : ~en'[w] /\ sv'[w] = 0 /\ (BrakeWhenStopped => bk'[w])
      /\ \A w \in Wheel : pc \in StopPc /\ ~bk[w] /\ bk'[w] => ~en[w]
<1>3. IInv /\ [Next]_vars => [Promise]_vars
  BY <1>1, <1>2
<1> QED
  BY <1>3, Inductive, PTL DEF Spec, StopReachesEveryWheel

-----------------------------------------------------------------------------
(* The odometry: no pulse is lost or counted twice. *)
BasePc == {"baseLow", "baseHigh", "baseDone"}
CopyPc == {"copyLow", "copyHigh", "unmask"}

(* Where loop() is, whether interrupts are held back and whether a move    *)
(* runs go together.                                                       *)
PhaseInv ==
  /\ masked <=> place \in BasePc \union CopyPc
  /\ place \in BasePc => ~moving
  /\ place \in CopyPc \union {"credit", "drive"} => moving
  /\ place \in {"idle", "baseDone", "unmask"} => wheel = 0

(* The counter under copy has not moved since its low half was read. *)
HalfInv == place \in {"baseHigh", "copyHigh"} => low = Low(total[wheel])

(* The wheels already copied, and nothing credited before the baseline. *)
CopyInv ==
  /\ place \in BasePc => fwd = Zero /\ rev = Zero
  /\ place \in {"baseLow", "baseHigh"} => \A w \in Wheel : w < wheel => snapPrev[w] = total[w]
  /\ place = "baseDone" => \A w \in Wheel : snapPrev[w] = total[w]
  /\ place \in {"copyLow", "copyHigh"} => \A w \in Wheel : w < wheel => copy[w] = total[w]
  /\ place = "unmask" => \A w \in Wheel : copy[w] = total[w]

(* The copy of a wheel still to be credited lies between the last snapshot *)
(* and the running counter.                                                *)
BetweenInv ==
  place = "credit" =>
    \A w \in Wheel :
      ~(w < wheel) => Delta(copy[w], snapPrev[w]) + Delta(total[w], copy[w])
                    = Delta(total[w], snapPrev[w])

CountInv == OdometryTypeOK /\ PhaseInv /\ HalfInv /\ CopyInv /\ BetweenInv /\ EveryPulseCounted

-----------------------------------------------------------------------------
(* Two halves read from one value make that value again. *)
LEMMA JoinHalves ==
  ASSUME NEW v \in Counter
  PROVE  Low(v) \in 0 .. Half - 1 /\ Join(High(v), Low(v)) = v
BY OdometryAssumption DEF Counter, CounterMod, Low, High, Join

LEMMA CounterModFacts == CounterMod \in Nat /\ CounterMod > 0 /\ 0 \in Counter
BY OdometryAssumption DEF CounterMod, Counter

LEMMA ZeroFacts == Zero \in [Wheel -> Counter] /\ Zero \in [Wheel -> Nat]
BY CounterModFacts DEF Zero

(* Wrapping subtraction: a counter that moves on by one is one further     *)
(* ahead of any value it has not gone all the way round to.                *)
LEMMA DeltaFacts ==
  /\ \A a, b \in Counter : Delta(a, b) \in Counter
  /\ \A a \in Counter : Delta(a, a) = 0
  /\ \A a \in Counter : Inc(a) \in Counter
  /\ \A a, b \in Counter : Delta(a, b) + 1 < CounterMod => Delta(Inc(a), b) = Delta(a, b) + 1
BY CounterModFacts DEF Delta, Inc, Counter

(* A value between a snapshot and the counter stays between them when the  *)
(* counter moves on.                                                       *)
LEMMA BetweenStep ==
  ASSUME NEW t \in Counter, NEW c \in Counter, NEW s \in Counter,
         Delta(c, s) + Delta(t, c) = Delta(t, s),
         Delta(t, s) + 1 < CounterMod
  PROVE  Delta(c, s) + Delta(Inc(t), c) = Delta(Inc(t), s)
BY CounterModFacts DEF Delta, Inc, Counter
-----------------------------------------------------------------------------
LEMMA CountInit == OdometryInit => CountInv
<1> SUFFICES ASSUME OdometryInit PROVE CountInv
  OBVIOUS
<1>1. OdometryTypeOK
  <2>1. low \in 0 .. Half - 1 /\ wheel \in Wheel
    BY WheelFacts, OdometryAssumption DEF OdometryInit
  <2>2. /\ total \in [Wheel -> Counter] /\ snapPrev \in [Wheel -> Counter]
        /\ copy \in [Wheel -> Counter]
        /\ fwd \in [Wheel -> Nat] /\ rev \in [Wheel -> Nat]
        /\ seen \in [Wheel -> Nat]
    BY ZeroFacts DEF OdometryInit
  <2> QED
    BY <2>1, <2>2 DEF OdometryInit, OdometryTypeOK
<1>2. PhaseInv /\ HalfInv /\ CopyInv /\ BetweenInv /\ EveryPulseCounted
  BY DEF OdometryInit, PhaseInv, HalfInv, CopyInv, BetweenInv, EveryPulseCounted, BasePc,
         CopyPc
<1> QED
  BY <1>1, <1>2 DEF CountInv

(* The handler of wheel w runs between any two steps of loop(). *)
LEMMA IsrInv ==
  ASSUME CountInv, NEW w \in Wheel, Isr(w)
  PROVE  CountInv'
<1> USE WheelFacts, DeltaFacts DEF CountInv, Isr, travel
<1>1. OdometryTypeOK'
  BY DEF OdometryTypeOK
<1>2. PhaseInv' /\ HalfInv' /\ CopyInv'
  BY DEF PhaseInv, HalfInv, CopyInv, BasePc, CopyPc, OdometryTypeOK, Zero
<1>3. BetweenInv'
  <2> SUFFICES ASSUME place = "credit", NEW v \in Wheel, ~(v < wheel)
               PROVE  Delta(copy[v], snapPrev[v]) + Delta(total'[v], copy[v])
                        = Delta(total'[v], snapPrev[v])
    BY DEF BetweenInv
  <2>1. Delta(copy[v], snapPrev[v]) + Delta(total[v], copy[v]) = Delta(total[v], snapPrev[v])
    BY DEF BetweenInv
  <2>2. CASE v # w
    BY <2>1, <2>2 DEF OdometryTypeOK
  <2>3. CASE v = w
    <3>1. moving /\ Delta(total[v], snapPrev[v]) + 1 < CounterMod
      BY <2>3 DEF PhaseInv
    <3>2. /\ total[v] \in Counter /\ copy[v] \in Counter /\ snapPrev[v] \in Counter
          /\ total'[v] = Inc(total[v])
      BY <2>3 DEF OdometryTypeOK
    <3> QED
      BY <2>1, <3>1, <3>2, BetweenStep
  <2> QED
    BY <2>2, <2>3
<1>4. EveryPulseCounted'
  <2> SUFFICES ASSUME moving, NEW v \in Wheel
               PROVE  fwd[v] + rev[v] + Delta(total'[v], snapPrev[v]) = seen'[v]
    BY DEF EveryPulseCounted
  <2>1. fwd[v] + rev[v] + Delta(total[v], snapPrev[v]) = seen[v]
    BY DEF EveryPulseCounted
  <2>2. CASE v # w
    BY <2>1, <2>2 DEF OdometryTypeOK
  <2>3. CASE v = w
    <3>1. /\ total'[v] = Inc(total[v]) /\ seen'[v] = seen[v] + 1
          /\ Delta(total[v], snapPrev[v]) + 1 < CounterMod
      BY <2>3 DEF OdometryTypeOK
    <3>2. Delta(total'[v], snapPrev[v]) = Delta(total[v], snapPrev[v]) + 1
      BY <3>1 DEF OdometryTypeOK
    <3>3. /\ fwd[v] \in Nat /\ rev[v] \in Nat
          /\ Delta(total[v], snapPrev[v]) \in Nat
      BY CounterModFacts DEF OdometryTypeOK, Counter
    <3> QED
      BY <2>1, <3>1, <3>2, <3>3
  <2> QED
    BY <2>2, <2>3
<1> QED
  BY <1>1, <1>2, <1>3, <1>4

(* Crediting a wheel moves its share of the delta into fwd or rev. *)
LEMMA CreditInv ==
  ASSUME CountInv, Credit
  PROVE  CountInv'
<1> USE WheelFacts, DeltaFacts DEF CountInv, Credit, Onward, hardware
<1>0. Delta(copy[wheel], snapPrev[wheel]) \in Nat
  BY CounterModFacts DEF OdometryTypeOK, Counter
<1>1. OdometryTypeOK'
  BY <1>0 DEF OdometryTypeOK
<1>2. PhaseInv' /\ HalfInv' /\ CopyInv'
  BY DEF PhaseInv, HalfInv, CopyInv, BasePc, CopyPc, OdometryTypeOK
<1>3. BetweenInv'
  BY DEF BetweenInv, OdometryTypeOK
<1>4. EveryPulseCounted'
  <2> SUFFICES ASSUME moving, NEW v \in Wheel
               PROVE  fwd'[v] + rev'[v] + Delta(total[v], snapPrev'[v]) = seen[v]
    BY DEF EveryPulseCounted
  <2>1. fwd[v] + rev[v] + Delta(total[v], snapPrev[v]) = seen[v]
    BY DEF EveryPulseCounted
  <2>2. CASE v # wheel
    BY <2>1, <2>2 DEF OdometryTypeOK
  <2>3. CASE v = wheel
    <3>1. /\ Delta(copy[v], snapPrev[v]) + Delta(total[v], copy[v])
               = Delta(total[v], snapPrev[v])
          /\ snapPrev'[v] = copy[v]
      BY <2>3 DEF BetweenInv, OdometryTypeOK
    <3>2. fwd'[v] + rev'[v] = fwd[v] + rev[v] + Delta(copy[v], snapPrev[v])
      <4>1. CASE fr[wheel]
        BY <2>3, <4>1, <1>0 DEF OdometryTypeOK
      <4>2. CASE ~fr[wheel]
        BY <2>3, <4>2, <1>0 DEF OdometryTypeOK
      <4> QED
        BY <4>1, <4>2
    <3>3. /\ fwd[v] \in Nat /\ rev[v] \in Nat
          /\ Delta(copy[v], snapPrev[v]) \in Nat /\ Delta(total[v], copy[v]) \in Nat
          /\ fwd'[v] \in Nat /\ rev'[v] \in Nat
      <4>1. /\ fwd[v] \in Nat /\ rev[v] \in Nat
            /\ Delta(copy[v], snapPrev[v]) \in Nat /\ Delta(total[v], copy[v]) \in Nat
        BY CounterModFacts DEF OdometryTypeOK, Counter
      <4>2. fwd'[v] \in Nat /\ rev'[v] \in Nat
        BY <1>1 DEF OdometryTypeOK
      <4> QED
        BY <4>1, <4>2
    <3> QED
      BY <2>1, <3>1, <3>2, <3>3
  <2> QED
    BY <2>2, <2>3
<1> QED
  BY <1>1, <1>2, <1>3, <1>4

LEMMA CountStep == CountInv /\ [OdometryNext]_odometryVars => CountInv'
<1> SUFFICES ASSUME CountInv, [OdometryNext]_odometryVars PROVE CountInv'
  OBVIOUS
<1> USE WheelFacts
    DEF CountInv, OdometryTypeOK, PhaseInv, HalfInv, CopyInv, BetweenInv, EveryPulseCounted,
        BasePc, CopyPc, hardware, travel
<1>1. CASE StartMove
  BY <1>1, ZeroFacts DEF StartMove
<1>2. CASE BaseLow
  BY <1>2, JoinHalves DEF BaseLow
<1>3. CASE BaseHigh
  BY <1>3, JoinHalves DEF BaseHigh, Onward
<1>4. CASE BaseDone
  <2>1. OdometryTypeOK'
    BY <1>4, ZeroFacts DEF BaseDone
  <2>2. EveryPulseCounted'
    <3> SUFFICES ASSUME NEW w \in Wheel
                 PROVE  fwd[w] + rev[w] + Delta(total[w], snapPrev[w]) = seen'[w]
      BY <1>4 DEF BaseDone
    <3>1. fwd[w] = 0 /\ rev[w] = 0 /\ seen'[w] = 0
      BY <1>4 DEF BaseDone, Zero
    <3>2. Delta(total[w], snapPrev[w]) = 0
      BY <1>4, DeltaFacts DEF BaseDone
    <3> QED
      BY <3>1, <3>2
  <2> QED
    BY <1>4, <2>1, <2>2 DEF BaseDone
<1>5. CASE TickStart
  BY <1>5 DEF TickStart
<1>6. CASE CopyLow
  BY <1>6, JoinHalves DEF CopyLow
<1>7. CASE CopyHigh
  BY <1>7, JoinHalves DEF CopyHigh, Onward
<1>8. CASE Unmask
  <2>1. BetweenInv'
    BY <1>8, DeltaFacts, CounterModFacts DEF Unmask, Counter
  <2> QED
    BY <1>8, <2>1 DEF Unmask
<1>9. CASE Credit
  BY <1>9, CreditInv
<1>10. CASE Drive
  BY <1>10 DEF Drive, Onward
<1>11. CASE EndMove
  BY <1>11 DEF EndMove
<1>12. ASSUME NEW w \in Wheel, Edge(w) PROVE CountInv'
  BY <1>12 DEF Edge
<1>13. ASSUME NEW w \in Wheel, Isr(w) PROVE CountInv'
  BY <1>13, IsrInv
<1>14. CASE UNCHANGED odometryVars
  BY <1>14 DEF odometryVars
<1> QED
  BY <1>1, <1>2, <1>3, <1>4, <1>5, <1>6, <1>7, <1>8, <1>9, <1>10, <1>11, <1>12,
     <1>13, <1>14 DEF OdometryNext, Loop

LEMMA CountHolds == OdometrySpec => []CountInv
BY CountInit, CountStep, PTL DEF OdometrySpec

(* Counters, snapshots and half-copies never leave their range. *)
THEOREM CountersCorrect == OdometrySpec => []OdometryTypeOK
<1>1. CountInv => OdometryTypeOK
  BY DEF CountInv
<1> QED
  BY <1>1, CountHolds, PTL

(* Every pulse since the baseline of a move is credited exactly once or    *)
(* still to be credited: the copies are never torn, no interrupt falls     *)
(* between two snapshots unseen, and wrapping counters do no harm.         *)
THEOREM PulsesConserved == OdometrySpec => []EveryPulseCounted
<1>1. CountInv => EveryPulseCounted
  BY DEF CountInv
<1> QED
  BY <1>1, CountHolds, PTL
=============================================================================
