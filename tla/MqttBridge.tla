----------------------------- MODULE MqttBridge -----------------------------
(***************************************************************************)
(* realsense_ros_mqtt_bridge_node: requests that arrive over MQTT become   *)
(* calls of a camera node's services, goals of its calibration action or   *)
(* subscriptions to its images.  paho's loop thread runs on_mqtt_message   *)
(* and every handler, and blocks in them; the executor's thread runs the   *)
(* callbacks of answers, goals and images.  The two share the tables of    *)
(* action clients, goal handles and subscriptions without a lock.          *)
(***************************************************************************)
EXTENDS Integers, Sequences, FiniteSets

CONSTANTS
  Camera,
  SafetyCamera, \* the cameras that have a safety sensor
  MaxRequests,  \* bound on the requests
  MaxDrops      \* bound on the connections to the broker that are lost

(* A request, the goal sent or the subscription made for it, and the       *)
(* action client that sent the goal have the request's number.             *)
Request == 1 .. MaxRequests
None == 0      \* Python's None
Absent == -1   \* no such key

ASSUME BridgeAssumption ==
  /\ MaxRequests \in Nat /\ MaxDrops \in Nat
  /\ None \notin Camera /\ SafetyCamera \subseteq Camera

VARIABLES
  alive,        \* the cameras whose nodes exist, as in CameraServices
  wanted,       \* the requests made: what each asks for, of which camera
  inbox,        \* requests the broker has for the node
  linked,       \* the connection to the broker is up
  subscribed,   \* the topics of the requests are subscribed to
  drops,        \* connections lost so far
  pc,           \* position of the loop thread; "ended" after an exception
  cur,          \* the request it handles
  held,         \* goal_handle of the abort it handles
  future,       \* of the service call it waits for
  client,       \* action_clients
  open,         \* the action clients that are not destroyed
  handle,       \* goal_handles
  stage,        \* what has come of a goal: "sent", "accepted", "over"
  topicHandle,  \* topic_handle of the camera's image topic
  subs,         \* subscriptions that are not destroyed
  rpc,          \* position of the executor's thread
  rcam,         \* camera whose result it handles
  up,           \* the process runs
  progressed,   \* history: goals whose progress was published since their
                \* request or, if they have ended, since their answer
  queue,        \* answers published and not yet sent
  replies       \* history: how often each request was answered

taking == <<wanted, inbox, linked, subscribed, drops>>
thread == <<pc, cur, held, future>>
calibration == <<client, open, handle, stage, progressed>>
frames == <<topicHandle, subs>>
executor == <<rpc, rcam, up>>
answers == <<queue, replies>>
vars == <<taking, thread, calibration, frames, executor, answers>>

Cam(r) == wanted[r].camera
Kind(r) == wanted[r].kind
Made(r) == r <= Len(wanted)

(* Kinds of request, by handler.  "undeclared" gets a parameter that the   *)
(* camera does not have, "untyped" sets one of no known type, "bad_index"  *)
(* asks for a preset by what is no number.                                 *)
Enumerate == {"enumerate"}
GetTransformation == {"get_transformation"}
GetDeviceInfo == {"get_device_info"}
HwReset == {"send_hw_reset"}
GetParam == {"get_param", "undeclared"}
SetParam == {"set_param", "untyped"}
CalibConfig == {"get_calib_config", "set_calib_config"}
ApplicationConfig == {"get_application_config", "set_application_config"}
SafetyInterfaceConfig == {"get_safety_interface_config", "set_safety_interface_config"}
SafetyPreset == {"get_safety_preset", "set_safety_preset", "bad_index"}
HwmCommand == {"send_hwm_command"}

(* A request that lacks a field or is of no known topic, or an image of no *)
(* known stream.                                                           *)
Rejected == {"incomplete", "unsupported", "unknown_stream"}

(* Answered by the loop thread itself, from the graph or the transforms.   *)
AnsweredAtOnce == Rejected \union Enumerate \union GetTransformation

SafetyKinds ==
  ApplicationConfig \union SafetyInterfaceConfig \union SafetyPreset \union HwmCommand

ServiceKinds ==
  GetDeviceInfo \union HwReset \union GetParam \union SetParam \union CalibConfig
    \union SafetyKinds

-----------------------------------------------------------------------------
Init ==
  /\ wanted = <<>>
  /\ inbox = <<>>
  /\ linked = FALSE /\ subscribed = FALSE /\ drops = 0
  /\ pc = "idle" /\ cur = None /\ held = None /\ future = "none"
  /\ client = [c \in Camera |-> None] /\ open = {}
  /\ handle = [c \in Camera |-> None]
  /\ stage = [r \in Request |-> "none"]
  /\ progressed = {}
  /\ topicHandle = [c \in Camera |-> Absent] /\ subs = {}
  /\ rpc = "idle" /\ rcam = None /\ up = TRUE
  /\ queue = {} /\ replies = [r \in Request |-> 0]

-----------------------------------------------------------------------------
(* The broker and the clients.                                             *)

(* A request for which nobody subscribes is gone. *)
Ask(kind, c) ==
  /\ Len(wanted) < MaxRequests
  /\ wanted' = Append(wanted, [kind |-> kind, camera |-> c])
  /\ inbox' = IF linked /\ subscribed THEN Append(inbox, Len(wanted')) ELSE inbox
  /\ UNCHANGED <<linked, subscribed, drops, thread, calibration, frames, executor, answers>>

Drop ==
  /\ linked /\ drops < MaxDrops
  /\ linked' = FALSE /\ subscribed' = FALSE
  /\ inbox' = <<>>
  /\ drops' = drops + 1
  /\ UNCHANGED <<wanted, thread, calibration, frames, executor, answers>>

(* Mutant: subscribed where the client is set up, not in on_connect. *)
ConnectOnce ==
  /\ up /\ pc = "idle" /\ ~linked
  /\ linked' = TRUE /\ subscribed' = (drops = 0)
  /\ UNCHANGED <<wanted, inbox, drops, thread, calibration, frames, executor, answers>>

(* paho connects again by itself, and on_mqtt_connect subscribes again. *)
Connect ==
  /\ up /\ pc = "idle" /\ ~linked
  /\ linked' = TRUE /\ subscribed' = TRUE
  /\ UNCHANGED <<wanted, inbox, drops, thread, calibration, frames, executor, answers>>

(* The loop thread sends what was published, by whichever thread. *)
Send(r) ==
  /\ up /\ pc = "idle" /\ linked
  /\ r \in queue
  /\ queue' = queue \ {r}
  /\ UNCHANGED <<taking, thread, calibration, frames, executor, replies>>

Publish(r) ==
  /\ queue' = queue \union {r}
  /\ replies' = [replies EXCEPT ![r] = @ + 1]

-----------------------------------------------------------------------------
(* on_mqtt_message, on the loop thread.                                    *)
Goto(there) == pc' = there

Finish == Goto("idle") /\ cur' = None /\ held' = None /\ future' = "none"

(* An exception that leaves on_mqtt_message ends the loop thread. *)
Raise == Goto("ended") /\ UNCHANGED <<cur, held, future>>

Take(kinds) ==
  /\ up /\ pc = "idle"
  /\ inbox # <<>> /\ Kind(Head(inbox)) \in kinds
  /\ inbox' = Tail(inbox)
  /\ UNCHANGED <<wanted, linked, subscribed, drops, executor>>

TakeFor(kinds, there) ==
  /\ Take(kinds)
  /\ Goto(there) /\ cur' = Head(inbox)
  /\ UNCHANGED future

AnswerAtOnce ==
  /\ Take(AnsweredAtOnce)
  /\ Publish(Head(inbox))
  /\ UNCHANGED <<thread, calibration, frames>>

(* Not JSON. *)
Malformed ==
  /\ Take({"malformed"})
  /\ Raise
  /\ UNCHANGED <<calibration, frames, answers>>

-----------------------------------------------------------------------------
(* The handlers that call a service.                                       *)
CallService ==
  /\ TakeFor(ServiceKinds, "discover")
  /\ UNCHANGED <<held, calibration, frames, answers>>

Handling(there) ==
  /\ up /\ pc = there
  /\ UNCHANGED <<taking, frames, executor>>

(* The camera offers the service. *)
Offered(c, kind) == alive[c] /\ (kind \in SafetyKinds => c \in SafetyCamera)

(* create_ros_client gives up after 5 s, and nothing is answered. *)
Unavailable ==
  /\ Handling("discover")
  /\ ~Offered(Cam(cur), Kind(cur))
  /\ Finish
  /\ UNCHANGED <<calibration, answers>>

(* The request is made up, and called if that succeeds. *)
Available ==
  /\ Handling("discover")
  /\ Offered(Cam(cur), Kind(cur))
  /\ \/ Kind(cur) = "untyped" /\ Finish
     \/ Kind(cur) = "bad_index" /\ Raise
     \/ /\ Kind(cur) \notin {"untyped", "bad_index"}
        /\ Goto("await") /\ future' = "pending" /\ UNCHANGED <<cur, held>>
  /\ UNCHANGED <<calibration, answers>>

(* The executor takes the answer; wait_for_future sees it done. *)
Respond(verdict) ==
  /\ up /\ rpc = "idle"
  /\ future = "pending"
  /\ future' = verdict
  /\ UNCHANGED <<taking, pc, cur, held, calibration, frames, executor, answers>>

Return ==
  /\ Handling("await")
  /\ future \in {"succeeded", "failed"}
  /\ IF Kind(cur) = "undeclared"
       THEN Raise /\ UNCHANGED answers
       ELSE Finish /\ Publish(cur)
  /\ UNCHANGED calibration

(* The camera is gone with the call: nothing ever completes the future.    *)
LoseCall == future' = "lost"

-----------------------------------------------------------------------------
(* FrameHandler                                                            *)
GetFrame ==
  /\ TakeFor({"frame"}, "subscribe")
  /\ topicHandle[Cam(Head(inbox))] \in {None, Absent}
  /\ subs' = subs \union {Head(inbox)}
  /\ UNCHANGED <<held, topicHandle, calibration, answers>>

(* topic_handle is set once create_subscription has returned. *)
StoreSubscription ==
  /\ up /\ pc = "subscribe"
  /\ topicHandle' = [topicHandle EXCEPT ![Cam(cur)] = cur]
  /\ Finish
  /\ UNCHANGED <<taking, subs, calibration, executor, answers>>

RejectFrame ==
  /\ Take({"frame"})
  /\ topicHandle[Cam(Head(inbox))] \notin {None, Absent}
  /\ Publish(Head(inbox))
  /\ UNCHANGED <<thread, calibration, frames>>

Callback ==
  /\ up /\ rpc = "idle"
  /\ UNCHANGED <<taking, thread>>

(* An image for a subscription that is not yet in the table: the callback  *)
(* ignores it, or finds no such key and ends the process.                  *)
EarlyImage(r) ==
  /\ Callback
  /\ r \in subs
  /\ topicHandle[Cam(r)] = Absent
  /\ up' = FALSE
  /\ UNCHANGED <<calibration, frames, rpc, rcam, answers>>

(* Mutant: the subscription is left in place. *)
ImageKept(r) ==
  /\ Callback
  /\ r \in subs
  /\ topicHandle[Cam(r)] \notin {None, Absent}
  /\ topicHandle' = [topicHandle EXCEPT ![Cam(r)] = None]
  /\ Publish(r)
  /\ UNCHANGED <<calibration, subs, executor>>

(* Mutant: not tested whether the table has the subscription yet. *)
ImageUntested(r) ==
  /\ Callback
  /\ r \in subs
  /\ topicHandle[Cam(r)] # Absent
  /\ subs' = subs \ {topicHandle[Cam(r)]}
  /\ topicHandle' = [topicHandle EXCEPT ![Cam(r)] = None]
  /\ Publish(r)
  /\ UNCHANGED <<calibration, executor>>

Image(r) ==
  /\ Callback
  /\ r \in subs
  /\ topicHandle[Cam(r)] \notin {None, Absent}
  /\ subs' = subs \ {topicHandle[Cam(r)]}
  /\ topicHandle' = [topicHandle EXCEPT ![Cam(r)] = None]
  /\ Publish(r)
  /\ UNCHANGED <<calibration, executor>>

-----------------------------------------------------------------------------
(* TriggeredCalibrationHandler, on the loop thread.                        *)
Calibrate ==
  /\ TakeFor({"calibrate"}, "server")
  /\ client' = [client EXCEPT ![Cam(Head(inbox))] = Head(inbox)]
  /\ open' = open \union {Head(inbox)}
  /\ UNCHANGED <<held, handle, stage, progressed, frames, answers>>

(* The table's client may be gone again: an exception. *)
HasClient == client[Cam(cur)] \in open

WaitForServer ==
  /\ Handling("server")
  /\ IF HasClient
       THEN alive[Cam(cur)] /\ Goto("send") /\ UNCHANGED <<cur, held, future>>
       ELSE Raise
  /\ UNCHANGED <<calibration, answers>>

SendGoal ==
  /\ Handling("send")
  /\ HasClient
  /\ stage' = [stage EXCEPT ![cur] = "sent"]
  /\ Finish
  /\ UNCHANGED <<client, open, handle, progressed, answers>>

SendWithoutClient ==
  /\ Handling("send")
  /\ ~HasClient
  /\ Raise
  /\ UNCHANGED <<calibration, answers>>

(* "calib abort": the goal handle is read, then the client, then used. *)
Abort ==
  /\ TakeFor({"abort"}, "abort")
  /\ held' = handle[Cam(Head(inbox))]
  /\ UNCHANGED <<calibration, frames, answers>>

NoGoal ==
  /\ Handling("abort")
  /\ held = None \/ client[Cam(cur)] = None
  /\ Finish
  /\ Publish(cur)
  /\ UNCHANGED calibration

FoundGoal ==
  /\ Handling("abort")
  /\ held # None /\ client[Cam(cur)] # None
  /\ Goto("cancel")
  /\ UNCHANGED <<cur, held, future, calibration, answers>>

(* cancel_goal_async, through the client that sent the goal *)
CancelGoal ==
  /\ Handling("cancel")
  /\ held \in open
  /\ Finish
  /\ UNCHANGED <<calibration, answers>>

CancelWithoutClient ==
  /\ Handling("cancel")
  /\ held \notin open
  /\ Raise
  /\ UNCHANGED <<calibration, answers>>

-----------------------------------------------------------------------------
(* Its callbacks, on the executor's thread, while the client is open.      *)

(* Mutant: one goal handle for all cameras. *)
GoalResponseForAll(r) ==
  /\ Callback
  /\ r \in open /\ stage[r] = "sent"
  /\ stage' = [stage EXCEPT ![r] = "accepted"]
  /\ handle' = [c \in Camera |-> r]
  /\ UNCHANGED <<client, open, progressed, frames, executor, answers>>

GoalResponse(r) ==
  /\ Callback
  /\ r \in open /\ stage[r] = "sent"
  /\ stage' = [stage EXCEPT ![r] = "accepted"]
  /\ handle' = [handle EXCEPT ![Cam(r)] = r]
  /\ UNCHANGED <<client, open, progressed, frames, executor, answers>>

Feedback(r) ==
  /\ Callback
  /\ r \in open /\ stage[r] # "none"
  /\ progressed' = progressed \union {r}
  /\ UNCHANGED <<client, open, handle, stage, frames, executor, answers>>

(* The response is published first, then the tables are cleared. *)
Result(r) ==
  /\ Callback
  /\ r \in open /\ stage[r] = "accepted"
  /\ stage' = [stage EXCEPT ![r] = "over"]
  /\ Publish(r)
  /\ rpc' = "destroy" /\ rcam' = Cam(r)
  /\ progressed' = progressed \ {r}
  /\ UNCHANGED <<client, open, handle, frames, up>>

Clearing(there) ==
  /\ up /\ rpc = there
  /\ UNCHANGED <<taking, thread, stage, progressed, frames, answers>>

(* destroy() of whatever client the table has now; of None it raises. *)
DestroyClient ==
  /\ Clearing("destroy")
  /\ IF client[rcam] = None
       THEN up' = FALSE /\ UNCHANGED <<open, rpc>>
       ELSE /\ open' = open \ {client[rcam]}
            /\ rpc' = "clearClient"
            /\ UNCHANGED up
  /\ UNCHANGED <<client, handle, rcam>>

ClearClient ==
  /\ Clearing("clearClient")
  /\ client' = [client EXCEPT ![rcam] = None]
  /\ rpc' = "clearHandle"
  /\ UNCHANGED <<open, handle, rcam, up>>

(* Mutant: the end of one calibration clears the handle of every camera. *)
ClearHandleForAll ==
  /\ Clearing("clearHandle")
  /\ handle' = [c \in Camera |-> None]
  /\ rpc' = "idle" /\ rcam' = None
  /\ UNCHANGED <<client, open, up>>

ClearHandle ==
  /\ Clearing("clearHandle")
  /\ handle' = [handle EXCEPT ![rcam] = None]
  /\ rpc' = "idle" /\ rcam' = None
  /\ UNCHANGED <<client, open, up>>

-----------------------------------------------------------------------------
(* The loop thread's steps that the cameras do not notice, and those of    *)
(* the executor's thread that clear up after a calibration.                *)
Loop ==
  \/ AnswerAtOnce \/ Malformed \/ CallService \/ Unavailable \/ Available \/ Return
  \/ GetFrame \/ StoreSubscription \/ RejectFrame
  \/ WaitForServer \/ SendWithoutClient
  \/ Abort \/ NoGoal \/ FoundGoal \/ CancelWithoutClient

ClearUp == DestroyClient \/ ClearClient \/ ClearHandle

-----------------------------------------------------------------------------
About(kind, c) == {r \in Request : Made(r) /\ Kind(r) = kind /\ Cam(r) = c}

TypeOK ==
  /\ inbox \in Seq(Request)
  /\ linked \in BOOLEAN /\ subscribed \in BOOLEAN /\ drops \in 0 .. MaxDrops
  /\ pc \in {"idle", "ended", "discover", "await", "subscribe", "server", "send",
             "abort", "cancel"}
  /\ cur \in Request \union {None} /\ held \in Request \union {None}
  /\ future \in {"none", "pending", "succeeded", "failed", "lost"}
  /\ {client, handle} \subseteq [Camera -> Request \union {None}]
  /\ topicHandle \in [Camera -> Request \union {None, Absent}]
  /\ \A c \in Camera :
       /\ {client[c], handle[c]} \subseteq About("calibrate", c) \union {None}
       /\ topicHandle[c] \in About("frame", c) \union {None, Absent}
  /\ open \subseteq Request /\ subs \subseteq Request /\ progressed \subseteq Request
  /\ stage \in [Request -> {"none", "sent", "accepted", "over"}]
  /\ rpc \in {"idle", "destroy", "clearClient", "clearHandle"}
  /\ rcam \in Camera \union {None} /\ up \in BOOLEAN
  /\ queue \subseteq Request /\ replies \in [Request -> Nat]
=============================================================================
