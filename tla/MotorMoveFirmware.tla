-------------------------- MODULE MotorMoveFirmware --------------------------
(***************************************************************************)
(* Ardiuno_Motor_Move_New.ino: the sketch that turns lines of four values  *)
(* into motor pins and keeps the last command until the next line.  It has *)
(* no watchdog.  A line is what strtol makes of it: [kind |-> "values",    *)
(* values |-> the numbers before the first token that is none]; a line     *)
(* beyond LINE_BUF_SIZE is [kind |-> "long", ...] with its tail.           *)
(***************************************************************************)
EXTENDS Integers, Sequences

CONSTANTS
  MaxWheelCmd,      \* MAX_WHEEL_CMD
  MinEffectiveCmd,  \* MIN_EFFECTIVE_CMD
  IntMod            \* 2^16: the range of int on the Mega

Motor == 1 .. 4

(* Assumed where the module is composed, in Throw. *)
MoveAssumption ==
  /\ MaxWheelCmd \in Nat /\ MinEffectiveCmd \in 0 .. MaxWheelCmd
  /\ IntMod \in Nat /\ MaxWheelCmd < IntMod \div 2

VARIABLES
  wire,            \* lines received
  values,          \* values of the line that is carried out
  next,            \* the motor whose turn it is, 0 between lines
  lastDirForward,  \* lastDirForward
  fr, bk, en,      \* the pins: F/R released, brake on, EN at its active level
  sv               \* duty

moveVars == <<values, next, lastDirForward, fr, bk, en, sv>>

(* Mutant: limited above alone. *)
ClampAbove(v) == IF v > MaxWheelCmd THEN MaxWheelCmd ELSE v

Clamp(v) ==
  CASE v < -MaxWheelCmd -> -MaxWheelCmd
    [] v > MaxWheelCmd  -> MaxWheelCmd
    [] OTHER            -> v

(* "(int)v": the low 16 bits of strtol's long. *)
Int16(v) == ((v + IntMod \div 2) % IntMod) - IntMod \div 2

Abs(v) == IF v < 0 THEN -v ELSE v

Magnitude(cmd) ==
  IF cmd # 0 /\ Abs(cmd) < MinEffectiveCmd THEN MinEffectiveCmd ELSE Abs(cmd)

-----------------------------------------------------------------------------
(* setup *)
Init ==
  /\ values = [m \in Motor |-> 0] /\ next = 0
  /\ lastDirForward = [m \in Motor |-> TRUE]
  /\ fr = [m \in Motor |-> TRUE]
  /\ bk = [m \in Motor |-> TRUE]
  /\ en = [m \in Motor |-> FALSE]
  /\ sv = [m \in Motor |-> 0]

(* Opening the port resets the board. *)
Reset ==
  /\ wire' = <<>>
  /\ values' = [m \in Motor |-> 0] /\ next' = 0
  /\ lastDirForward' = [m \in Motor |-> TRUE]
  /\ fr' = [m \in Motor |-> TRUE]
  /\ bk' = [m \in Motor |-> TRUE]
  /\ en' = [m \in Motor |-> FALSE]
  /\ sv' = [m \in Motor |-> 0]

(* loop: "ERR: line too long"; the tail is collected as a line of its own. *)
TooLong ==
  /\ next = 0 /\ wire # <<>> /\ Head(wire).kind = "long"
  /\ wire' = <<[Head(wire) EXCEPT !.kind = "values"]>> \o Tail(wire)
  /\ UNCHANGED moveVars

(* processSerialLine: four numbers, whatever follows them. *)
Accepted(line) == line.kind = "values" /\ Len(line.values) >= 4

AcceptLine ==
  /\ next = 0 /\ wire # <<>> /\ Accepted(Head(wire))
  /\ wire' = Tail(wire)
  /\ values' = [m \in Motor |-> Clamp(Int16(Head(wire).values[m]))]
  /\ next' = 1
  /\ UNCHANGED <<lastDirForward, fr, bk, en, sv>>

(* "p", "ERR: invalid number", "ERR: need exactly". *)
AnswerLine ==
  /\ next = 0 /\ wire # <<>> /\ Head(wire).kind # "long" /\ ~Accepted(Head(wire))
  /\ wire' = Tail(wire)
  /\ UNCHANGED moveVars

(* Mutant: the direction is recorded and F/R left alone. *)
MoveMotorOneWay ==
  /\ next # 0
  /\ next' = IF next < 4 THEN next + 1 ELSE 0
  /\ LET cmd == values[next]
         forward == cmd >= 0
         magnitude == Magnitude(cmd)
     IN /\ lastDirForward' = [lastDirForward EXCEPT ![next] = forward]
        /\ bk' = [bk EXCEPT ![next] = (magnitude = 0)]
        /\ en' = [en EXCEPT ![next] = (magnitude > 0)]
        /\ sv' = [sv EXCEPT ![next] = magnitude]
  /\ UNCHANGED <<wire, values, fr>>

(* motor(next, values[next]): F/R is written on a change of direction. *)
MoveMotor ==
  /\ next # 0
  /\ next' = IF next < 4 THEN next + 1 ELSE 0
  /\ LET cmd == values[next]
         forward == cmd >= 0
         magnitude == Magnitude(cmd)
     IN /\ lastDirForward' = [lastDirForward EXCEPT ![next] = forward]
        /\ fr' = IF forward # lastDirForward[next] THEN [fr EXCEPT ![next] = forward] ELSE fr
        /\ bk' = [bk EXCEPT ![next] = (magnitude = 0)]
        /\ en' = [en EXCEPT ![next] = (magnitude > 0)]
        /\ sv' = [sv EXCEPT ![next] = magnitude]
  /\ UNCHANGED <<wire, values>>

Loop == TooLong \/ AcceptLine \/ AnswerLine \/ MoveMotor

-----------------------------------------------------------------------------
TypeOK ==
  /\ values \in [Motor -> -MaxWheelCmd .. MaxWheelCmd]
  /\ next \in 0 .. 4
  /\ lastDirForward \in [Motor -> BOOLEAN]
  /\ fr \in [Motor -> BOOLEAN] /\ bk \in [Motor -> BOOLEAN] /\ en \in [Motor -> BOOLEAN]
  /\ sv \in [Motor -> 0 .. MaxWheelCmd]

(* What a line asks of the wheels: signed, limited, above the stall floor. *)
Asked(line) == [m \in Motor |-> LET v == Clamp(line[m])
                                IN IF v < 0 THEN -Magnitude(v) ELSE Magnitude(v)]

(* What the wheels do: the duty, signed by F/R, with EN on and BK off.     *)
Running == [m \in Motor |-> IF en[m] /\ ~bk[m] THEN (IF fr[m] THEN sv[m] ELSE -sv[m]) ELSE 0]

Still == \A m \in Motor : ~en[m]
=============================================================================
