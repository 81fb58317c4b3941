--------------------------- MODULE CameraServices ---------------------------
(***************************************************************************)
(* What a realsense2_camera node offers to other nodes: its services and   *)
(* the action triggered_calibration (actions.cpp), each goal of which runs *)
(* on a thread of its own, detached.  A node and all it offers is gone     *)
(* while its device is.                                                    *)
(***************************************************************************)
CONSTANTS
  Camera,
  Goal

VARIABLES
  alive,      \* alive[c]: the node of camera c exists
  resetting,  \* cameras whose device was told to reset
  reply,      \* response of the camera's service that is under way
  goal,       \* state of every goal handle
  complete,   \* _progress = 100.0
  told,       \* goals whose feedback is published and not yet taken
  cancelled   \* cancelled: the device was told to abort

node == <<alive, resetting, reply>>
vars == <<node, goal, complete, told, cancelled>>

Ended == {"succeeded", "canceled", "aborted"}
State == {"none", "executing", "canceling", "lost"} \union Ended

Init ==
  /\ alive = [c \in Camera |-> TRUE]
  /\ resetting = {} /\ reply = [c \in Camera |-> "none"]
  /\ goal = [g \in Goal |-> "none"]
  /\ complete = [g \in Goal |-> FALSE] /\ told = {}
  /\ cancelled = [g \in Goal |-> FALSE]

Move(g, to) == goal' = [goal EXCEPT ![g] = to]

(* What the services answer: an exception of the device, or an opcode that *)
(* is not the one sent, is success = FALSE; hw_reset and device_info have  *)
(* no such field.                                                          *)
SafetyVerdict == {"succeeded", "failed"}
CalibVerdict == {"succeeded", "failed"}
NoVerdict == {"succeeded"}
ParameterVerdict == {"succeeded", "failed"}

(* A reset is answered while the device is about to leave; an exception of *)
(* hardware_reset is only logged.                                          *)
Serve(c, verdicts, resets) ==
  /\ alive[c] /\ reply[c] = "none"
  /\ \E verdict \in verdicts : reply' = [reply EXCEPT ![c] = verdict]
  /\ resetting' \in {resetting, IF resets THEN resetting \union {c} ELSE resetting}
  /\ UNCHANGED <<alive, goal, complete, told, cancelled>>

Deliver(c) ==
  /\ reply[c] # "none"
  /\ reply' = [reply EXCEPT ![c] = "none"]
  /\ UNCHANGED <<alive, resetting, goal, complete, told, cancelled>>

(* TriggeredCalibrationHandleGoal, HandleAccepted: any goal is accepted,   *)
(* whatever else the device is doing.                                      *)
Accept(g) ==
  /\ goal[g] = "none"
  /\ Move(g, "executing")
  /\ UNCHANGED <<node, complete, told, cancelled>>

(* TriggeredCalibrationHandleCancel; a goal that has ended stays so. *)
Cancel(g) ==
  /\ IF goal[g] = "executing" THEN Move(g, "canceling") ELSE UNCHANGED goal
  /\ UNCHANGED <<node, complete, told, cancelled>>

(* progress_callback *)
Progress(g) ==
  /\ goal[g] = "executing" /\ ~complete[g]
  /\ complete' \in {complete, [complete EXCEPT ![g] = TRUE]}
  /\ told' = told \union {g}
  /\ UNCHANGED <<node, goal, cancelled>>

(* The feedback reaches the client that waits for it. *)
TakeFeedback(g) ==
  /\ g \in told
  /\ told' = told \ {g}
  /\ UNCHANGED <<node, goal, complete, cancelled>>

AbortDevice(g) ==
  /\ goal[g] = "canceling" /\ ~cancelled[g] /\ ~complete[g]
  /\ cancelled' = [cancelled EXCEPT ![g] = TRUE]
  /\ UNCHANGED <<node, goal, complete, told>>

(* The thread ends, and its locals with it. *)
End(g, state) ==
  /\ goal[g] \in {"executing", "canceling"}
  /\ Move(g, state)
  /\ complete' = [complete EXCEPT ![g] = FALSE]
  /\ cancelled' = [cancelled EXCEPT ![g] = FALSE]
  /\ UNCHANGED <<node, told>>

(* run_on_chip_calibration returns, calibrated or not.  canceled() throws  *)
(* for a goal that nobody cancels, and the goal is aborted.                *)
Return(g) == End(g, IF complete[g] THEN "succeeded"
                    ELSE IF goal[g] = "canceling" THEN "canceled" ELSE "aborted")

(* It throws: the device is busy, timed out or gone. *)
Throw(g) == End(g, "aborted")

Execute(g) == AbortDevice(g) \/ Return(g) \/ Throw(g)

(* The device of camera c leaves, with the goals that ran on it and        *)
(* perhaps the response under way.                                         *)
Leave(c, goals) ==
  /\ alive[c]
  /\ alive' = [alive EXCEPT ![c] = FALSE]
  /\ resetting' = resetting \ {c}
  /\ reply' \in {reply, [reply EXCEPT ![c] = "none"]}
  /\ goal' = [g \in Goal |->
                IF g \in goals /\ goal[g] # "none" THEN "lost" ELSE goal[g]]
  /\ complete' = [g \in Goal |-> complete[g] /\ g \notin goals]
  /\ cancelled' = [g \in Goal |-> cancelled[g] /\ g \notin goals]
  /\ UNCHANGED told

Appear(c) ==
  /\ ~alive[c]
  /\ alive' = [alive EXCEPT ![c] = TRUE]
  /\ UNCHANGED <<resetting, reply, goal, complete, told, cancelled>>

TypeOK ==
  /\ alive \in [Camera -> BOOLEAN] /\ resetting \subseteq Camera
  /\ reply \in [Camera -> {"none", "succeeded", "failed"}]
  /\ goal \in [Goal -> State]
  /\ complete \in [Goal -> BOOLEAN] /\ told \subseteq Goal
  /\ cancelled \in [Goal -> BOOLEAN]
=============================================================================
