------------------------------- MODULE Camera -------------------------------
(***************************************************************************)
(* realsense_node_factory.cpp: the process that keeps one camera node for  *)
(* one device.  A thread queries for the device until it has it; from then *)
(* on librealsense calls back, on a thread of its own, whenever a device   *)
(* leaves or comes.  Both start the device and neither takes a lock.       *)
(***************************************************************************)
EXTENDS CameraNode

CONSTANTS
  InitialReset,  \* initial_reset
  MaxInputs      \* bound on what users, the cable and the hardware do

ASSUME FactoryAssumption == InitialReset \in BOOLEAN /\ MaxInputs \in Nat

VARIABLES
  plugged,       \* the device is on the bus
  away,          \* it is resetting and will be back
  device,        \* _device is set
  live,          \* the node was built for the device that is on the bus
  initialReset,  \* _initial_reset
  registered,    \* changeDeviceCallback is
  events,        \* what librealsense has still to report
  query,         \* _query_thread: look, register, start, builds, off
  callback,      \* librealsense's thread: idle, remove, start, builds
  missed,        \* history: the device left between the query that found
                 \* it and the registration
  inputs         \* inputs left

busVars == <<plugged, away, live, registered, events, missed>>
factoryVars == <<busVars, device, initialReset, query, callback, inputs>>
cameraVars == <<nodeVars, paramVars, terminated, factoryVars>>

Report(what) == events' = IF registered THEN Append(events, what) ELSE events

(* An input, while the process lives. *)
Input == inputs > 0 /\ inputs' = inputs - 1

-----------------------------------------------------------------------------
Init ==
  /\ NodeInit
  /\ plugged \in BOOLEAN /\ away = FALSE /\ device = FALSE /\ live = FALSE
  /\ initialReset = InitialReset
  /\ registered = FALSE /\ events = <<>>
  /\ query = "look" /\ callback = "idle"
  /\ missed = FALSE
  /\ inputs = MaxInputs

SameNode == UNCHANGED <<nodeVars, paramVars, terminated>>

User ==
  /\ Input
  /\ \/ \E st \in Stream, on \in BOOLEAN : on # enabled[st] /\ SetEnable(st, on)
     \/ \E on \in BOOLEAN : on # align /\ SetAlign(on)
     \/ \E change \in Settings : SetStreamProfile(change[1], change[2])
     \/ ResetRequest
  /\ UNCHANGED <<busVars, device, initialReset, query, callback>>

Threads ==
  /\ Flag \/ Revise \/ Update \/ ResetStop
  /\ at - NumSensors \in Sensor /\ Restart(at - NumSensors) => plugged
  /\ UNCHANGED factoryVars

UpdateFails ==
  /\ MonitorFails
  /\ IF plugged THEN Input ELSE UNCHANGED inputs
  /\ UNCHANGED <<busVars, device, initialReset, query, callback>>

-----------------------------------------------------------------------------
(* The cable, and the reset of the hardware.                               *)
Leave ==
  /\ plugged' = FALSE /\ live' = FALSE
  /\ Report("removed")

Unplug ==
  /\ plugged /\ Input
  /\ Leave
  /\ missed' = (missed \/ (device /\ ~registered))
  /\ UNCHANGED <<away, registered, device, initialReset, query, callback>>
  /\ SameNode

(* A sensor reports "RT IC2 Config error", and the device is reset. *)
ErrorResets ==
  /\ phase \in {"up", "half"} /\ \E st \in Stream : active[st] # 0
  /\ plugged /\ Input
  /\ Leave /\ away' = TRUE
  /\ UNCHANGED <<registered, missed, device, initialReset, query, callback>>
  /\ SameNode

(* The service's reset throws when the device has left. *)
ServiceResets ==
  /\ ResetDevice
  /\ \/ plugged /\ Leave /\ away' = TRUE /\ UNCHANGED <<registered, missed>>
     \/ ~plugged /\ UNCHANGED busVars
  /\ UNCHANGED <<device, initialReset, query, callback, inputs>>

Plug ==
  /\ ~plugged
  /\ plugged' = TRUE /\ away' = FALSE
  /\ Report("added")
  /\ UNCHANGED <<live, registered, missed, device, initialReset, query, callback, inputs>>
  /\ SameNode

-----------------------------------------------------------------------------
(* The query thread: while (_is_alive && !_device).                        *)
QueryEnds ==
  /\ query = "look" /\ device
  /\ query' = "off"
  /\ UNCHANGED <<busVars, device, initialReset, callback, inputs>>
  /\ SameNode

QueryFinds ==
  /\ query = "look" /\ ~device /\ plugged /\ ~initialReset
  /\ device' = TRUE
  /\ query' = "register"
  /\ UNCHANGED <<busVars, initialReset, callback, inputs>>
  /\ SameNode

(* getDevice resets the device it has found first, and lets go of it. *)
QueryResets ==
  /\ query = "look" /\ ~device /\ plugged /\ initialReset
  /\ initialReset' = FALSE
  /\ Leave /\ away' = TRUE
  /\ UNCHANGED <<registered, missed, device, query, callback, inputs>>
  /\ SameNode

QueryRegisters ==
  /\ query = "register"
  /\ registered' = TRUE
  /\ query' = "start"
  /\ UNCHANGED <<plugged, away, live, events, missed, device, initialReset, callback, inputs>>
  /\ SameNode

-----------------------------------------------------------------------------
(* changeDeviceCallback                                                    *)
Event(what) == callback = "idle" /\ events # <<>> /\ Head(events) = what /\ events' = Tail(events)

(* Mutant: the node goes and _device stays. *)
RemovedKept ==
  /\ callback = "remove" /\ phase = "none"
  /\ callback' = "idle"
  /\ UNCHANGED <<busVars, device, initialReset, query, inputs>>
  /\ SameNode

TakeRemoved ==
  /\ Event("removed")
  /\ callback' = IF device THEN "remove" ELSE "idle"
  /\ UNCHANGED <<plugged, away, live, registered, missed, device, initialReset, query, inputs>>
  /\ SameNode

Removed ==
  /\ callback = "remove" /\ phase = "none"
  /\ device' = FALSE
  /\ callback' = "idle"
  /\ UNCHANGED <<busVars, initialReset, query, inputs>>
  /\ SameNode

TakeAdded ==
  /\ Event("added")
  /\ device' = TRUE
  /\ callback' = IF device THEN "idle" ELSE "start"
  /\ UNCHANGED <<plugged, away, live, registered, missed, initialReset, query, inputs>>
  /\ SameNode

-----------------------------------------------------------------------------
(* startDevice, in either thread: an old node goes first.                  *)
Starting(thread) ==
  \/ thread = "query" /\ query = "start"
  \/ thread = "callback" /\ callback = "start"

Replacing == query = "start" \/ callback \in {"remove", "start"}

CloseNode ==
  /\ Replacing
  /\ Close \/ Closed \/ ClosedUnderfoot
  /\ UNCHANGED factoryVars

BuildNode(thread) ==
  /\ Starting(thread)
  /\ Construct
  /\ query' = IF thread = "query" THEN "builds" ELSE query
  /\ callback' = IF thread = "callback" THEN "builds" ELSE callback
  /\ live' = plugged
  /\ UNCHANGED <<plugged, away, registered, events, missed, device, initialReset, inputs>>

(* The other thread is still building, or closing, the node that is reset. *)
NodeUnderfoot ==
  /\ phase = "setup" /\ Replacing
  /\ terminated' = TRUE
  /\ UNCHANGED <<nodeVars, paramVars, factoryVars>>

StartReturns ==
  /\ query' = IF query = "builds" THEN "look" ELSE query
  /\ callback' = IF callback = "builds" THEN "idle" ELSE callback

Started ==
  /\ SetupDone
  /\ StartReturns
  /\ UNCHANGED <<busVars, device, initialReset, inputs>>

(* backend_error is answered by a reset.  Any other exception is answered  *)
(* by a message: the half node and _device stay, and nothing tries again.  *)
StartFails ==
  /\ SetupFails
  /\ StartReturns
  /\ IF plugged THEN Input ELSE UNCHANGED inputs
  /\ \/ UNCHANGED <<busVars, device>>
     \/ /\ plugged
        /\ Leave /\ away' = TRUE
        /\ device' = FALSE
        /\ UNCHANGED <<registered, missed>>
  /\ UNCHANGED initialReset

-----------------------------------------------------------------------------
Query == QueryEnds \/ QueryFinds \/ QueryResets \/ QueryRegisters
Callback == TakeRemoved \/ Removed \/ TakeAdded
Start ==
  \/ CloseNode \/ NodeUnderfoot \/ Started
  \/ \E thread \in {"query", "callback"} : BuildNode(thread)

Next ==
  /\ ~terminated
  /\ \/ User \/ Threads \/ UpdateFails \/ ServiceResets
     \/ Unplug \/ ErrorResets \/ Plug
     \/ Query \/ Callback \/ Start \/ StartFails

(* Every thread runs on; a device that was reset comes back. *)
Fairness ==
  /\ WF_cameraVars(~terminated /\ Threads)
  /\ WF_cameraVars(~terminated /\ UpdateFails)
  /\ WF_cameraVars(~terminated /\ ServiceResets)
  /\ WF_cameraVars(~terminated /\ Query)
  /\ WF_cameraVars(~terminated /\ Callback)
  /\ WF_cameraVars(~terminated /\ Start)
  /\ WF_cameraVars(~terminated /\ StartFails)
  /\ WF_cameraVars(~terminated /\ away /\ Plug)

Spec == Init /\ [][Next]_cameraVars /\ Fairness

-----------------------------------------------------------------------------
TypeOK ==
  /\ NodeTypeOK
  /\ plugged \in BOOLEAN /\ away \in BOOLEAN /\ device \in BOOLEAN /\ live \in BOOLEAN
  /\ initialReset \in BOOLEAN /\ registered \in BOOLEAN /\ missed \in BOOLEAN
  /\ events \in Seq({"removed", "added"})
  /\ query \in {"look", "register", "start", "builds", "off"}
  /\ callback \in {"idle", "remove", "start", "builds"}
  /\ inputs \in 0 .. MaxInputs

(* A change of a parameter is acted on: the thread that is to do it cannot *)
(* miss it, nor wait for the callback that waits for it.                   *)
ChangesApplied == Pending ~> ~Pending \/ terminated

(* rs_launch.py: "Timeout(seconds) between consequtive reconnection        *)
(* attempts".  A device that is on the bus, from the start, after a reset  *)
(* or plugged in again, gets a node of its own: one that serves, or a half *)
(* one if setup threw something else than backend_error, which no thread   *)
(* tries again.  Nothing is promised if the device left in the moment      *)
(* before changeDeviceCallback was registered.                             *)
Reconnects ==
  plugged /\ ~missed ~> (phase \in {"up", "half"} /\ live) \/ ~plugged \/ missed \/ terminated
=============================================================================
