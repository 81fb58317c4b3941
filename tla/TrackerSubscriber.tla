-------------------------- MODULE TrackerSubscriber --------------------------
(***************************************************************************)
(* omni_pwm_subscribe.py: the node that drives the wheels on a trajectory  *)
(* message.  A call of listener_callback writes the drive line, sleeps,    *)
(* writes a stop, writes the drive line again and leaves the second stop   *)
(* to a timer.  The executor has many threads and the callback group is    *)
(* reentrant: calls and timer callbacks interleave statement by statement. *)
(* Started without arguments, as README.md does, the node takes the two    *)
(* numbers of a message for a velocity; distance mode is left out.         *)
(***************************************************************************)
EXTENDS Integers, Sequences

CONSTANTS
  Motor,      \* the four motors
  Message,    \* msg.data: two numbers
  Sine,       \* of the angle each wheel is mounted at, all in one unit
  Cosine,
  PwmMax,     \* PWM_MAX
  PwmRef,     \* args.pwm_ref, in the unit of number and sine
  Call,       \* threads that run listener_callback
  Timer,      \* timers that exist at a time
  NoTimer,    \* None
  StopAfter,  \* args.stop_after
  Depth,      \* depth of the subscription, 10
  WireSize    \* lines that fit between the port and the firmware

(* Assumed where the module is composed, in Throw. *)
SubscriberAssumption ==
  /\ Message \subseteq Int \X Int
  /\ Sine \in [Motor -> Int] /\ Cosine \in [Motor -> Int]
  /\ PwmMax \in Nat /\ PwmRef \in Nat \ {0}
  /\ Call # {} /\ Timer # {} /\ NoTimer \notin Timer
  /\ StopAfter \in Nat \ {0}
  /\ Depth \in Nat \ {0} /\ WireSize \in Nat \ {0}

VARIABLES
  topic,      \* messages not yet taken
  pc,         \* the next statement of each call
  pwms,       \* its command
  sleepLeft,  \* what is left of its sleep
  stopTimer,  \* stop_timer
  active,     \* timers that are not cancelled
  timerLeft,  \* time until each fires
  tpc,        \* the next statement of each timer's callback
  crashed,    \* a callback has raised, which ends executor.spin()
  wire,       \* lines on their way to the firmware
  written     \* history: the last line that was written

callVars == <<pc, pwms, sleepLeft>>
timerVars == <<stopTimer, active, timerLeft, tpc, crashed>>
lineVars == <<wire, written>>
subscriberVars == <<topic, callVars, timerVars, lineVars>>

Zero == [m \in Motor |-> 0]
Line(cmd) == [kind |-> "values", values |-> cmd]
StopLine == Line(Zero)

(* wheel_linear_velocities *)
WheelVelocities(vx, vy) == [m \in Motor |-> -Sine[m] * vx + Cosine[m] * vy]

(* pwm_from_body_velocity: int() cuts the fraction off, and nothing is     *)
(* clamped here.                                                           *)
PwmFromBodyVelocity(vx, vy) ==
  [m \in Motor |->
     LET v == WheelVelocities(vx, vy)[m] * PwmMax
     IN IF v >= 0 THEN v \div PwmRef ELSE -((-v) \div PwmRef)]

Commands == {PwmFromBodyVelocity(msg[1], msg[2]) : msg \in Message} \union {Zero}

(* A line that finds the receiver full is lost there. *)
Write(line) ==
  /\ written' = line
  /\ wire' = IF Len(wire) < WireSize THEN Append(wire, line) ELSE wire

Goto(c, label) == pc' = [pc EXCEPT ![c] = label]

-----------------------------------------------------------------------------
Init ==
  /\ topic = <<>>
  /\ pc = [c \in Call |-> "idle"]
  /\ pwms = [c \in Call |-> Zero]
  /\ sleepLeft = [c \in Call |-> 0]
  /\ stopTimer = NoTimer
  /\ active = {}
  /\ timerLeft = [t \in Timer |-> 0]
  /\ tpc = [t \in Timer |-> "idle"]
  /\ crashed = FALSE
  /\ wire = <<>>
  /\ written = StopLine

(* KEEP_LAST: a full queue drops its oldest message. *)
Publish(msg) ==
  topic' = Append(IF Len(topic) < Depth THEN topic ELSE Tail(topic), msg)

-----------------------------------------------------------------------------
(* listener_callback                                                       *)
Take(c) ==
  /\ pc[c] = "idle" /\ ~crashed
  /\ topic # <<>>
  /\ topic' = Tail(topic)
  /\ pwms' = [pwms EXCEPT ![c] = PwmFromBodyVelocity(Head(topic)[1], Head(topic)[2])]
  /\ Goto(c, "drive")
  /\ UNCHANGED <<sleepLeft, timerVars, lineVars>>

(* _send_drive_line_delayed_stop *)
Drive(c) ==
  /\ pc[c] = "drive"
  /\ Write(Line(pwms[c]))
  /\ IF pwms[c] # Zero
       THEN Goto(c, "sleep") /\ sleepLeft' = [sleepLeft EXCEPT ![c] = StopAfter]
       ELSE Goto(c, "again") /\ UNCHANGED sleepLeft
  /\ UNCHANGED <<topic, pwms, timerVars>>

DelayedStop(c) ==
  /\ pc[c] = "sleep" /\ sleepLeft[c] = 0
  /\ Write(StopLine)
  /\ Goto(c, "again")
  /\ UNCHANGED <<topic, pwms, sleepLeft, timerVars>>

DriveAgain(c) ==
  /\ pc[c] = "again"
  /\ Write(Line(pwms[c]))
  /\ Goto(c, "cancel")
  /\ UNCHANGED <<topic, pwms, sleepLeft, timerVars>>

(* "if self.stop_timer: self.stop_timer.cancel()" reads stop_timer twice. *)
TestTimer(c) ==
  /\ pc[c] = "cancel"
  /\ Goto(c, IF stopTimer = NoTimer THEN "create" ELSE "cancel it")
  /\ UNCHANGED <<topic, pwms, sleepLeft, timerVars, lineVars>>

CancelTimer(c) ==
  /\ pc[c] = "cancel it"
  /\ crashed' = (crashed \/ stopTimer = NoTimer)
  /\ active' = active \ {stopTimer}
  /\ Goto(c, IF stopTimer = NoTimer THEN "idle" ELSE "create")
  /\ UNCHANGED <<topic, pwms, sleepLeft, stopTimer, timerLeft, tpc, lineVars>>

(* Mutant: the timer starts, and the older one stays stop_timer. *)
CreateUnrecorded(c) ==
  /\ pc[c] = "create"
  /\ \E t \in Timer :
       /\ t \notin active /\ tpc[t] = "idle"
       /\ active' = active \union {t}
       /\ timerLeft' = [timerLeft EXCEPT ![t] = StopAfter]
  /\ Goto(c, "idle")
  /\ UNCHANGED <<topic, pwms, sleepLeft, stopTimer, tpc, crashed, lineVars>>

CreateTimer(c) ==
  /\ pc[c] = "create"
  /\ \E t \in Timer :
       /\ t \notin active /\ tpc[t] = "idle"
       /\ stopTimer' = t
       /\ active' = active \union {t}
       /\ timerLeft' = [timerLeft EXCEPT ![t] = StopAfter]
  /\ Goto(c, "idle")
  /\ UNCHANGED <<topic, pwms, sleepLeft, tpc, crashed, lineVars>>

Listener(c) ==
  Take(c) \/ Drive(c) \/ DelayedStop(c) \/ DriveAgain(c) \/ TestTimer(c) \/ CancelTimer(c)
    \/ CreateTimer(c)

-----------------------------------------------------------------------------
(* timer_stop_callback; a timer that is not cancelled fires again.         *)
Fire(t) ==
  /\ t \in active /\ timerLeft[t] = 0 /\ tpc[t] = "idle" /\ ~crashed
  /\ timerLeft' = [timerLeft EXCEPT ![t] = StopAfter]
  /\ tpc' = [tpc EXCEPT ![t] = "test"]
  /\ Write(StopLine)
  /\ UNCHANGED <<topic, callVars, stopTimer, active, crashed>>

FiredTest(t) ==
  /\ tpc[t] = "test"
  /\ tpc' = [tpc EXCEPT ![t] = IF stopTimer = NoTimer THEN "idle" ELSE "cancel"]
  /\ UNCHANGED <<topic, callVars, stopTimer, active, timerLeft, crashed, lineVars>>

FiredCancel(t) ==
  /\ tpc[t] = "cancel"
  /\ crashed' = (crashed \/ stopTimer = NoTimer)
  /\ active' = active \ {stopTimer}
  /\ tpc' = [tpc EXCEPT ![t] = IF stopTimer = NoTimer THEN "idle" ELSE "clear"]
  /\ UNCHANGED <<topic, callVars, stopTimer, timerLeft, lineVars>>

FiredClear(t) ==
  /\ tpc[t] = "clear"
  /\ stopTimer' = NoTimer
  /\ tpc' = [tpc EXCEPT ![t] = "idle"]
  /\ UNCHANGED <<topic, callVars, active, timerLeft, crashed, lineVars>>

Fired(t) == Fire(t) \/ FiredTest(t) \/ FiredCancel(t) \/ FiredClear(t)

Node == (\E c \in Call : Listener(c)) \/ (\E t \in Timer : Fired(t))

-----------------------------------------------------------------------------
(* A statement is due: only sleeps and timers that run may let time pass.  *)
Due ==
  \/ topic # <<>>
  \/ \E c \in Call : pc[c] # "idle" /\ (pc[c] = "sleep" => sleepLeft[c] = 0)
  \/ \E t \in Timer : tpc[t] # "idle" \/ (t \in active /\ timerLeft[t] = 0)

Quiet == topic = <<>> /\ active = {} /\ (\A c \in Call : pc[c] = "idle")
           /\ (\A t \in Timer : tpc[t] = "idle")

Down(n) == IF n > 0 THEN n - 1 ELSE 0

Age ==
  /\ sleepLeft' = [c \in Call |-> Down(sleepLeft[c])]
  /\ timerLeft' = [t \in Timer |-> Down(timerLeft[t])]
  /\ UNCHANGED <<topic, pc, pwms, stopTimer, active, tpc, crashed, lineVars>>

TypeOK ==
  /\ topic \in Seq(Message) /\ Len(topic) <= Depth
  /\ pc \in [Call -> {"idle", "drive", "sleep", "again", "cancel", "cancel it", "create"}]
  /\ pwms \in [Call -> Commands]
  /\ sleepLeft \in [Call -> 0 .. StopAfter]
  /\ stopTimer \in Timer \union {NoTimer}
  /\ active \subseteq Timer
  /\ timerLeft \in [Timer -> 0 .. StopAfter]
  /\ tpc \in [Timer -> {"idle", "test", "cancel", "clear"}]
  /\ crashed \in BOOLEAN
  /\ Len(wire) <= WireSize
  /\ written \in {Line(cmd) : cmd \in Commands}
=============================================================================
