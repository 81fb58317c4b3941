--------------------------- MODULE BldcOdometry ---------------------------
(***************************************************************************)
(* Pulse odometry of arduino/omni_bldc_firmware: the PG interrupt handlers *)
(* against the code of loop() that reads their counters.  A counter is     *)
(* wider than the AVR's data path, so loop() copies it in two halves, and  *)
(* an interrupt may fall between any two of its steps unless noInterrupts  *)
(* holds it back.  The sign of a wheel's pulses is read from its F/R pin.  *)
(***************************************************************************)
EXTENDS BldcWheels

CONSTANTS
  Half,       \* values of one half of a counter; the counter has Half * Half
  MaxSeen     \* bound on the pulses of one wheel during one move

ASSUME OdometryAssumption ==
  /\ Half \in Nat /\ Half > 1
  /\ MaxSeen \in Nat

CounterMod == Half * Half
Counter == 0 .. CounterMod - 1

VARIABLES
  total,      \* pgPulseTotal[w], written by the interrupt handler
  intFlag,    \* an edge of PG w waits for its handler
  masked,     \* between noInterrupts() and interrupts()
  snapPrev,   \* pgSnapPrev[w]
  copy,       \* totals[w], the local copy of the running tick
  low,        \* low half of the counter being copied
  fwd,        \* pulses credited forward to wheelTravelM[w] in this move
  rev,        \* pulses credited in reverse
  moving,     \* moveState = STATE_MOVING
  seen,       \* history: pulses counted since the baseline of this move
  place,      \* position in loop()
  wheel       \* wheel index of the running loop

hardware == <<total, intFlag, seen>>
travel == <<fwd, rev>>
odometryVars ==
  <<total, intFlag, masked, snapPrev, copy, low, fwd, rev, fr, moving, seen, place, wheel>>

Low(v) == v % Half
High(v) == v \div Half
Join(h, l) == h * Half + l

(* Mutant: a counter that does not wrap. *)
IncUnbounded(v) == v + 1

(* unsigned long arithmetic *)
Inc(v) == IF v + 1 = CounterMod THEN 0 ELSE v + 1
Delta(new, old) == IF new >= old THEN new - old ELSE new - old + CounterMod

Zero == [w \in Wheel |-> 0]

OdometryInit ==
  /\ total = Zero
  /\ intFlag = [w \in Wheel |-> FALSE]
  /\ masked = FALSE
  /\ snapPrev = Zero /\ copy = Zero /\ low = 0
  /\ fwd = Zero /\ rev = Zero
  /\ fr = [w \in Wheel |-> TRUE]
  /\ moving = FALSE
  /\ seen = Zero
  /\ place = "idle" /\ wheel = 0

-----------------------------------------------------------------------------
(* The wheels and the interrupt handlers.                                  *)

(* A rising edge on PG latches the interrupt flag. *)
Edge(w) ==
  /\ ~intFlag[w]
  /\ intFlag' = [intFlag EXCEPT ![w] = TRUE]
  /\ UNCHANGED <<total, masked, snapPrev, copy, low, travel, fr, moving, seen,
                 place, wheel>>

(* pgPulseTotal[w]++ in its handler.  Two ticks are too close for a        *)
(* counter to go all the way round between them.                           *)
Isr(w) ==
  /\ intFlag[w] /\ ~masked
  /\ moving => Delta(total[w], snapPrev[w]) + 1 < CounterMod /\ seen[w] < MaxSeen
  /\ intFlag' = [intFlag EXCEPT ![w] = FALSE]
  /\ total' = [total EXCEPT ![w] = Inc(total[w])]
  /\ seen' = IF moving THEN [seen EXCEPT ![w] = seen[w] + 1] ELSE seen
  /\ UNCHANGED <<masked, snapPrev, copy, low, travel, fr, moving, place, wheel>>

-----------------------------------------------------------------------------
(* tryProcessIdleLine: zero the travel, then snapshotPgBaseline.           *)

Onward(again, then) ==
  IF wheel + 1 < NumWheels
    THEN wheel' = wheel + 1 /\ place' = again
    ELSE wheel' = 0 /\ place' = then

StartMove ==
  /\ place = "idle" /\ ~moving
  /\ fwd' = Zero /\ rev' = Zero
  /\ masked' = TRUE
  /\ place' = "baseLow"
  /\ UNCHANGED <<hardware, snapPrev, copy, low, fr, moving, wheel>>

BaseLow ==
  /\ place = "baseLow"
  /\ low' = Low(total[wheel])
  /\ place' = "baseHigh"
  /\ UNCHANGED <<hardware, masked, snapPrev, copy, travel, fr, moving, wheel>>

BaseHigh ==
  /\ place = "baseHigh"
  /\ snapPrev' = [snapPrev EXCEPT ![wheel] = Join(High(total[wheel]), low)]
  /\ Onward("baseLow", "baseDone")
  /\ UNCHANGED <<hardware, masked, copy, low, travel, fr, moving>>

(* interrupts(), and the move has begun. *)
BaseDone ==
  /\ place = "baseDone"
  /\ masked' = FALSE
  /\ moving' = TRUE
  /\ seen' = Zero
  /\ place' = "idle"
  /\ UNCHANGED <<total, intFlag, snapPrev, copy, low, travel, fr, wheel>>

-----------------------------------------------------------------------------
(* runControlTick: copy the counters, credit the deltas, drive the wheels. *)

(* Mutant: the counters are copied without noInterrupts(). *)
TickStartUnmasked ==
  /\ place = "idle" /\ moving
  /\ place' = "copyLow"
  /\ UNCHANGED <<hardware, masked, snapPrev, copy, low, travel, fr, moving, wheel>>

TickStart ==
  /\ place = "idle" /\ moving
  /\ masked' = TRUE
  /\ place' = "copyLow"
  /\ UNCHANGED <<hardware, snapPrev, copy, low, travel, fr, moving, wheel>>

CopyLow ==
  /\ place = "copyLow"
  /\ low' = Low(total[wheel])
  /\ place' = "copyHigh"
  /\ UNCHANGED <<hardware, masked, snapPrev, copy, travel, fr, moving, wheel>>

CopyHigh ==
  /\ place = "copyHigh"
  /\ copy' = [copy EXCEPT ![wheel] = Join(High(total[wheel]), low)]
  /\ Onward("copyLow", "unmask")
  /\ UNCHANGED <<hardware, masked, snapPrev, low, travel, fr, moving>>

Unmask ==
  /\ place = "unmask"
  /\ masked' = FALSE
  /\ place' = "credit"
  /\ UNCHANGED <<hardware, snapPrev, copy, low, travel, fr, moving, wheel>>

(* The pulses since the last tick, signed by what F/R says now. *)
Credit ==
  /\ place = "credit"
  /\ LET pulses == Delta(copy[wheel], snapPrev[wheel])
     IN  /\ fwd' = IF fr[wheel] THEN [fwd EXCEPT ![wheel] = fwd[wheel] + pulses] ELSE fwd
         /\ rev' = IF fr[wheel] THEN rev ELSE [rev EXCEPT ![wheel] = rev[wheel] + pulses]
  /\ snapPrev' = [snapPrev EXCEPT ![wheel] = copy[wheel]]
  /\ Onward("credit", "drive")
  /\ UNCHANGED <<hardware, masked, copy, low, fr, moving>>

(* applyWheelCommand on a wheel: the direction it asks for is any. *)
Drive ==
  /\ place = "drive"
  /\ fr' \in {fr, [fr EXCEPT ![wheel] = ~fr[wheel]]}
  /\ Onward("drive", "idle")
  /\ UNCHANGED <<hardware, masked, snapPrev, copy, low, travel, moving>>

(* The move ends: done at the end of a tick, stopped or timed out between. *)
EndMove ==
  /\ place = "idle" /\ moving
  /\ moving' = FALSE
  /\ UNCHANGED <<hardware, masked, snapPrev, copy, low, travel, fr, place, wheel>>

Loop ==
  StartMove \/ BaseLow \/ BaseHigh \/ BaseDone \/ TickStart \/ CopyLow \/ CopyHigh
    \/ Unmask \/ Credit \/ Drive \/ EndMove

OdometryNext == Loop \/ \E w \in Wheel : Edge(w) \/ Isr(w)

OdometrySpec == OdometryInit /\ [][OdometryNext]_odometryVars

-----------------------------------------------------------------------------
(* Counters and copies stay in the range of an unsigned long. *)
OdometryTypeOK ==
  /\ total \in [Wheel -> Counter]
  /\ intFlag \in [Wheel -> BOOLEAN]
  /\ masked \in BOOLEAN
  /\ snapPrev \in [Wheel -> Counter]
  /\ copy \in [Wheel -> Counter]
  /\ low \in 0 .. Half - 1
  /\ fwd \in [Wheel -> Nat] /\ rev \in [Wheel -> Nat]
  /\ fr \in [Wheel -> BOOLEAN]
  /\ moving \in BOOLEAN
  /\ seen \in [Wheel -> Nat]
  /\ place \in {"idle", "baseLow", "baseHigh", "baseDone", "copyLow", "copyHigh",
             "unmask", "credit", "drive"}
  /\ wheel \in Wheel

(* "New PG pulses -> per-wheel ds": while a move runs every pulse counted  *)
(* since its baseline is credited to the wheel's travel exactly once or is *)
(* still ahead of pgSnapPrev, wherever the handlers cut in and wherever a  *)
(* counter wraps.                                                          *)
EveryPulseCounted ==
  moving => \A w \in Wheel :
              fwd[w] + rev[w] + Delta(total[w], snapPrev[w]) = seen[w]
=============================================================================
