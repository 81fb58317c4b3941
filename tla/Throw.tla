-------------------------------- MODULE Throw --------------------------------
(***************************************************************************)
(* The robot as README.md starts it: ros2_bag_sense_fast.py publishes a    *)
(* trajectory, omni_pwm_subscribe.py turns it into lines and the motor     *)
(* move sketch carries them out.  Before the subscriber opens the port the *)
(* sketch may be tried from a serial monitor; opening it resets the board. *)
(***************************************************************************)
EXTENDS Integers, Sequences, FiniteSets

CONSTANTS
  Thread, Required, Interval,
  Message, Sine, Cosine, PwmMax, PwmRef, Call, Timer, NoTimer, StopAfter, Depth, WireSize,
  MaxWheelCmd, MinEffectiveCmd, IntMod,
  BenchLines,  \* lines typed at the serial monitor
  MaxLag       \* bound on the time a command waits for the node or the sketch

VARIABLES
  intrinsics, state, points, sincePublish, pending, arm, armLeft,
  topic, pc, pwms, sleepLeft, stopTimer, active, timerLeft, tpc, crashed, written,
  wire,
  values, next, lastDirForward, fr, bk, en, sv,
  opened,      \* the subscriber runs
  lag          \* time its present command has waited

Tracker == INSTANCE BeanBagTracker
Firmware == INSTANCE MotorMoveFirmware
Node == INSTANCE TrackerSubscriber WITH Motor <- Firmware!Motor

nodeVars == <<pc, pwms, sleepLeft, stopTimer, active, timerLeft, tpc, crashed, written>>
trackerVars == <<intrinsics, state, points, sincePublish, pending, arm, armLeft>>
moveVars == <<values, next, lastDirForward, fr, bk, en, sv>>
vars == <<trackerVars, topic, nodeVars, wire, moveVars, opened, lag>>

(* The time from a publication to the end of the second drive. *)
Horizon == 2 * StopAfter + MaxLag

(* 5 s against twice 0.5 s. *)
PacedAssumption == Horizon < Interval

(* The four lines of a throw find room: the lag is far below 0.5 s, so two *)
(* of them are never in the way of a third.                                *)
RoomAssumption ==
  \/ WireSize = 2 /\ MaxLag < StopAfter
  \/ WireSize = 3 /\ MaxLag < 2 * StopAfter
  \/ WireSize > 3

(* A landing within the camera's sight comes to values that an int holds.  *)
RangeAssumption ==
  \A cmd \in Node!Commands : \A m \in Firmware!Motor : Firmware!Int16(cmd[m]) = cmd[m]

ASSUME ThrowAssumption ==
  /\ Tracker!TrackerAssumption /\ Node!SubscriberAssumption /\ Firmware!MoveAssumption
  /\ BenchLines \subseteq [kind : {"values", "p", "long"}, values : Seq(Int)]
  /\ MaxLag \in Nat
  /\ PacedAssumption /\ RoomAssumption /\ RangeAssumption

-----------------------------------------------------------------------------
Init ==
  /\ Tracker!Init /\ Node!Init /\ Firmware!Init
  /\ opened = FALSE
  /\ lag = 0

Watch ==
  /\ \/ Tracker!CameraInfo \/ Tracker!StartCapture \/ Tracker!AddPoint \/ Tracker!Poll
     \/ \E t \in Thread : Tracker!Enter(t) \/ Tracker!SetPending(t)
  /\ UNCHANGED <<topic, nodeVars, wire, moveVars, opened, lag>>

(* A message, distance and angle, that nobody subscribes to is gone. *)
EndCapture ==
  /\ \/ /\ Tracker!Finish("published")
        /\ IF opened THEN \E msg \in Message : Node!Publish(msg) ELSE UNCHANGED topic
     \/ \E verdict \in {"cooldown", "rejected"} : Tracker!Finish(verdict) /\ UNCHANGED topic
  /\ UNCHANGED <<nodeVars, wire, moveVars, opened, lag>>

Type ==
  /\ ~opened
  /\ wire = <<>>
  /\ \E line \in BenchLines : wire' = Append(wire, line)
  /\ UNCHANGED <<trackerVars, topic, nodeVars, moveVars, opened, lag>>

Open ==
  /\ ~opened
  /\ opened' = TRUE
  /\ Firmware!Reset
  /\ UNCHANGED <<trackerVars, topic, nodeVars, lag>>

Drive ==
  /\ Node!Node
  /\ UNCHANGED <<trackerVars, moveVars, opened, lag>>

Move ==
  /\ Firmware!Loop
  /\ UNCHANGED <<trackerVars, topic, nodeVars, opened, lag>>

Late == opened /\ (Node!Due \/ wire # <<>> \/ next # 0)

Tick ==
  /\ Late => lag < MaxLag
  /\ lag' = IF Late THEN lag + 1 ELSE IF Node!Quiet THEN 0 ELSE lag
  /\ Tracker!Age /\ Node!Age
  /\ UNCHANGED <<moveVars, opened>>

Next == Watch \/ EndCapture \/ Type \/ Open \/ Drive \/ Move \/ Tick

(* Threads, timers and the sketch run on; frames, Enter and the operator   *)
(* need not come.                                                          *)
Fairness ==
  /\ WF_vars(Drive) /\ WF_vars(Move) /\ WF_vars(Tick)
  /\ WF_vars(Tracker!Poll /\ UNCHANGED <<topic, nodeVars, wire, moveVars, opened, lag>>)
  /\ \A t \in Thread :
       WF_vars(Tracker!SetPending(t)
                 /\ UNCHANGED <<topic, nodeVars, wire, moveVars, opened, lag>>)

Spec == Init /\ [][Next]_vars /\ Fairness

-----------------------------------------------------------------------------
TypeOK ==
  /\ Tracker!TypeOK /\ Node!TypeOK /\ Firmware!TypeOK
  /\ opened \in BOOLEAN
  /\ lag \in 0 .. MaxLag

(* A tracker that waits has exactly one way to be armed, a stdin thread or *)
(* the flag one has left; one that does not wait has none, so nobody       *)
(* resets it under a capture and the node never waits for ever.            *)
OneArming ==
  Cardinality(Tracker!Alive) + (IF pending THEN 1 ELSE 0) = IF state = "WAIT" THEN 1 ELSE 0

(* A capture that was begun is brought to a verdict, in BeanBagTracker. *)
NoCaptureLost == Tracker!NoCaptureLost

(* omni_pwm_subscribe.py, line 46: "After each non-zero drive command,     *)
(* wait then send 0,0,0,0".  Both drives of a throw are over, no timer is  *)
(* left and the wheels rest well before the next throw can be published,   *)
(* though nothing but the tracker's cooldown keeps two commands apart.     *)
RestsInTime ==
  opened /\ sincePublish > Horizon => Node!Quiet /\ ~crashed /\ wire = <<>> /\ Firmware!Still

(* Between lines the wheels do what the sketch last accepted, and once it  *)
(* has caught up that is what the node last wrote: no line was lost or     *)
(* cut, no value changed sign in 16 bits, each direction is on its pin.    *)
CarriesOut ==
  next = 0 => /\ Firmware!Running = Firmware!Asked(values)
              /\ opened /\ wire = <<>> =>
                   Firmware!Running = Firmware!Asked(written.values)

(* After Enter the tracker is armed, cooldown or not. *)
EnterArms == \A t \in Thread : arm[t] = "sleep" ~> state = "IDLE"
=============================================================================
