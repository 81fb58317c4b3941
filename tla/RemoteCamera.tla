---------------------------- MODULE RemoteCamera ----------------------------
(***************************************************************************)
(* The MQTT bridge and the cameras it serves.  Between them a request of   *)
(* an MQTT client passes the bridge's loop thread, its executor's thread   *)
(* and, for a calibration, a thread of the camera's node; and cameras and  *)
(* the connection to the broker come and go.                               *)
(***************************************************************************)
EXTENDS MqttBridge

CONSTANTS
  Streaming, \* the cameras whose images are published: the stream asked for is on
  Scripts,   \* what clients may ask for, in this order
  MaxInputs  \* bound on requests, lost connections and departures together

ASSUME RemoteAssumption ==
  /\ Scripts \subseteq Seq([kind : STRING, camera : Camera])
  /\ Streaming \subseteq Camera
  /\ MaxInputs \in Nat

VARIABLES
  resetting, reply, goal, complete, told, cancelled,  \* as in CameraServices
  departures,  \* how often a camera has left
  promised,    \* history: requests that ought to be answered
  overlapped,  \* history: cameras with a calibration begun during another
  hurried      \* history: cameras with one begun after the answer to another,
               \* whose client and handle were still to be cleared

camera == <<alive, resetting, reply, goal, complete, told, cancelled>>
history == <<departures, promised, overlapped, hurried>>
allVars == <<vars, camera, history>>

Server == INSTANCE CameraServices WITH Goal <- Request

(* Requests that call for an answer whatever the camera says to them.      *)
Answerable ==
  AnsweredAtOnce \union {"frame", "calibrate"}
    \union (ServiceKinds \ {"undeclared", "untyped", "bad_index"})

(* The camera can do what is asked for. *)
Able(c, kind) == Offered(c, kind) /\ (kind = "frame" => c \in Streaming)

-----------------------------------------------------------------------------
RemoteInit ==
  /\ Init
  /\ Server!Init
  /\ departures = 0 /\ promised = {} /\ overlapped = {} /\ hurried = {}

AskNext ==
  /\ \E s \in Scripts :
       LET n == Len(wanted) + 1
       IN  /\ n <= Len(s) /\ SubSeq(s, 1, n - 1) = wanted
           /\ Ask(s[n].kind, s[n].camera)
           /\ promised' = IF /\ linked /\ s[n].kind \in Answerable
                             /\ Able(s[n].camera, s[n].kind)
                            THEN promised \union {n} ELSE promised
  /\ UNCHANGED <<camera, departures, overlapped, hurried>>

LoseLink ==
  /\ Drop
  /\ promised' = promised \ {inbox[i] : i \in DOMAIN inbox}
  /\ UNCHANGED <<camera, departures, overlapped, hurried>>

(* The camera may still have to tell the bridge something of the goal: not *)
(* of one that it never received, nor of one lost with it.                 *)
Underway(r) ==
  \/ stage[r] = "sent" /\ goal[r] # "none"
  \/ stage[r] = "accepted" /\ goal[r] # "lost"

Busy(c) == \E r \in Request : Underway(r) /\ Cam(r) = c

StartCalibration ==
  /\ Calibrate
  /\ overlapped' = overlapped \union {c \in {Cam(cur')} : Busy(c)}
  /\ hurried' = hurried \union ({Cam(cur')} \intersect {rcam})
  /\ UNCHANGED <<camera, departures, promised>>

StartGoal ==
  /\ SendGoal
  /\ IF alive[Cam(cur)] THEN Server!Accept(cur) ELSE UNCHANGED camera
  /\ UNCHANGED history

CancelIt == CancelGoal /\ Server!Cancel(held) /\ UNCHANGED history

LoopStep == Loop /\ UNCHANGED <<camera, history>>

-----------------------------------------------------------------------------
(* What the bridge hears of the cameras. *)
HearResponse ==
  /\ Respond(reply[Cam(cur)])
  /\ Server!Deliver(Cam(cur))
  /\ UNCHANGED history

HearImage(r) ==
  /\ Image(r) \/ EarlyImage(r)
  /\ alive[Cam(r)] /\ Cam(r) \in Streaming
  /\ UNCHANGED <<camera, history>>

HearAccepted(r) ==
  /\ goal[r] # "none"
  /\ GoalResponse(r)
  /\ UNCHANGED <<camera, history>>

HearProgress(r) ==
  /\ Feedback(r)
  /\ Server!TakeFeedback(r)
  /\ UNCHANGED history

HearResult(r) ==
  /\ goal[r] \in Server!Ended
  /\ Result(r)
  /\ UNCHANGED <<camera, history>>

Executor ==
  \/ HearResponse
  \/ \E r \in Request :
       HearImage(r) \/ HearAccepted(r) \/ HearProgress(r) \/ HearResult(r)
  \/ ClearUp /\ UNCHANGED <<camera, history>>

-----------------------------------------------------------------------------
(* The cameras. *)
Verdicts(kind) ==
  CASE kind \in HwReset \union GetDeviceInfo -> Server!NoVerdict
    [] kind \in CalibConfig -> Server!CalibVerdict
    [] kind \in SafetyKinds -> Server!SafetyVerdict
    [] OTHER -> Server!ParameterVerdict

ServeCall ==
  /\ future = "pending"
  /\ Server!Serve(Cam(cur), Verdicts(Kind(cur)), Kind(cur) \in HwReset)
  /\ UNCHANGED <<vars, history>>

RunGoal(r) == Server!Execute(r) /\ UNCHANGED <<vars, history>>

GoalProgress(r) == Server!Progress(r) /\ UNCHANGED <<vars, history>>

(* The rest of the bridge, when only the call it waits for is affected. *)
others == <<taking, pc, cur, held, calibration, frames, executor, answers>>

LeaveCamera(c) ==
  /\ Server!Leave(c, About("calibrate", c))
  /\ IF future = "pending" /\ Cam(cur) = c /\ reply'[c] = "none"
       THEN LoseCall
       ELSE UNCHANGED future
  /\ promised' = {r \in promised : Cam(r) # c}
  /\ UNCHANGED <<others, overlapped, hurried>>

(* The device leaves for its reset, or is unplugged. *)
Reset(c) == c \in resetting /\ LeaveCamera(c) /\ UNCHANGED departures
Unplug(c) == LeaveCamera(c) /\ departures' = departures + 1

AppearCamera(c) == Server!Appear(c) /\ UNCHANGED <<vars, history>>

-----------------------------------------------------------------------------
Link == (Connect \/ \E r \in Request : Send(r)) /\ UNCHANGED <<camera, history>>

Environment ==
  \/ /\ Len(wanted) + drops + departures < MaxInputs
     /\ AskNext \/ LoseLink \/ \E c \in Camera : Unplug(c)
  \/ \E c \in Camera : Reset(c) \/ AppearCamera(c)

RemoteNext ==
  \/ Environment
  \/ Link
  \/ StartCalibration \/ StartGoal \/ CancelIt \/ LoopStep
  \/ Executor
  \/ ServeCall
  \/ \E r \in Request : GoalProgress(r) \/ RunGoal(r)

(* Threads, executor and cameras go on; requests, lost connections and     *)
(* cameras that come or go need never happen.                              *)
Fairness ==
  /\ WF_allVars(Connect /\ UNCHANGED <<camera, history>>)
  /\ \A r \in Request : WF_allVars(Send(r) /\ UNCHANGED <<camera, history>>)
  /\ WF_allVars(StartCalibration \/ StartGoal \/ CancelIt \/ LoopStep)
  /\ \A r \in Request :
       /\ WF_allVars(HearImage(r)) /\ WF_allVars(HearAccepted(r))
       /\ WF_allVars(HearResult(r)) /\ WF_allVars(RunGoal(r))
  /\ WF_allVars(ServeCall) /\ WF_allVars(HearResponse)
  /\ WF_allVars(ClearUp /\ UNCHANGED <<camera, history>>)

RemoteSpec == RemoteInit /\ [][RemoteNext]_allVars /\ Fairness

-----------------------------------------------------------------------------
RemoteTypeOK ==
  /\ TypeOK
  /\ Server!TypeOK
  /\ departures \in 0 .. MaxInputs
  /\ promised \subseteq Request
  /\ overlapped \subseteq Camera /\ hurried \subseteq Camera

(* Each calibration of the camera began when the one before was done with. *)
Orderly(c) == c \notin overlapped \union hurried

(* What a client of the bridge sees of its request.  Progress that is told *)
(* after the answer is out of order, unless calibrations got mixed up.     *)
Phase(r) == IF ~Made(r) THEN "new"
            ELSE IF replies[r] > 1 THEN "answered again"
            ELSE IF replies[r] = 1 /\ r \in progressed /\ Orderly(Cam(r)) THEN "taken back"
            ELSE IF replies[r] = 1 THEN "answered"
            ELSE IF r \in progressed THEN "progressing"
            ELSE "asked"

Asked == INSTANCE RequestReply WITH phase <- [r \in Request |-> Phase(r)]

(* Whatever the two threads of the bridge, the cameras and the broker do,  *)
(* a request is answered at most once (the handlers' calls of publish),    *)
(* and as long as calibrations are orderly no progress follows its answer. *)
RepliesOnce == Asked!Spec

(* frame_handler.py: a camera has one subscription at most, that of the    *)
(* request still to be answered, though one thread makes and stores it     *)
(* while the other may receive the image, answer and destroy it.           *)
FrameKept ==
  \A c \in Camera :
    LET waiting == {r \in subs : Cam(r) = c}
    IN  /\ Cardinality(waiting) <= 1
        /\ \A r \in waiting : replies[r] = 0
        /\ topicHandle[c] \in Request => waiting = {topicHandle[c]}

(* Goals of camera c that the bridge knows to be accepted and not over. *)
Running(c) ==
  {r \in Request : stage[r] = "accepted" /\ goal[r] # "lost" /\ Cam(r) = c}

(* triggered_calibration_handler.py: while a camera's calibrations are     *)
(* orderly, "calib abort" takes up the goal of its camera that the bridge  *)
(* knows to be accepted.  Its client is told that there is none only if    *)
(* the bridge had not heard of an acceptance when it looked, or the goal   *)
(* is over meanwhile, or lost with its camera.  In any case no goal of     *)
(* another camera is canceled.                                             *)
AbortReaches ==
  [][/\ pc # "abort" /\ pc' = "abort" =>
          ~Orderly(Cam(cur')) \/ Running(Cam(cur')) \subseteq {held'}
     /\ pc = "abort" /\ pc' = "idle" =>
          \/ ~Orderly(Cam(cur)) \/ held = None
          \/ stage[held] = "over" \/ goal[held] = "lost"
     /\ pc = "cancel" /\ pc' = "idle" => Cam(held) = Cam(cur)]_allVars

(* The bridge can no longer answer: its process or its loop thread has     *)
(* ended by an exception, or the loop thread waits for a camera that left, *)
(* as wait_for_future and wait_for_server do without a timeout.            *)
Stuck ==
  \/ ~up \/ pc = "ended"
  \/ future = "lost"
  \/ pc = "server" /\ ~alive[Cam(cur)]

Answered(r) == replies[r] > 0 /\ r \notin queue

(* A request that reached the connected bridge, and whose camera stays and *)
(* can do what is asked for, is answered and the answer sent, over lost    *)
(* connections too, unless the bridge gets stuck or calibrations of the    *)
(* camera get mixed up.                                                    *)
RequestsAnswered ==
  \A r \in Request :
    r \in promised ~> \/ Answered(r) \/ r \notin promised
                      \/ Kind(r) = "calibrate" /\ ~Orderly(Cam(r))
                      \/ Stuck
=============================================================================
