----------------------------- MODULE CameraNode -----------------------------
(***************************************************************************)
(* BaseRealSenseNode and RosSensor: streams are enabled, aligned and       *)
(* disabled by parameters.  The callback of a parameter stores it, then    *)
(* sets a flag under _profile_changes_mutex; the monitoring thread, which  *)
(* keeps that mutex except while it waits, brings the sensors and their    *)
(* topics in line in two passes, sensor by sensor.  setup makes the same   *)
(* two passes in the thread that starts the device.  Motion streams and    *)
(* the RGBD topic are left out.                                            *)
(***************************************************************************)
EXTENDS CameraParameters

CONSTANTS
  Aligned,       \* streams that depth can be aligned to
  LaunchEnabled, \* streams that the launch leaves enabled
  LaunchAlign,   \* align_depth.enable of the launch
  LaunchOther    \* it changes enable_* of a stream left out, or enable_rgbd

ASSUME CameraAssumption ==
  /\ Aligned \subseteq Stream /\ LaunchEnabled \subseteq Stream
  /\ LaunchAlign \in BOOLEAN /\ LaunchOther \in BOOLEAN

VARIABLES
  phase,           \* of the node: none, setup, up, closing; half when its setup
                   \* has thrown and left it without services
  enabled,         \* _enabled_profiles
  align,           \* _align_depth_filter->is_enabled()
  caller,          \* the flag a callback is about to set, or none
  reset,           \* the place of the service hw_reset, or that it has been called
  profileChanged,  \* _is_profile_changed
  alignChanged,    \* _is_align_depth_changed
  monitor,         \* _monitoring_pc: waits, woken, updates
  updater,         \* who holds _update_sensor_mutex: none, setup, monitor
  at,              \* its place in the two passes
  active,          \* the profile each stream is open with, 0 for none
  publishers,      \* streams with publishers
  alignedPubs,     \* streams with publishers of aligned depth
  failed,          \* history: the last updateSensors has thrown
  reprofiled,      \* history: streams whose profile was set after enable_*
  slipped          \* history: streams that an update under way no longer wants,
                   \* or that one that has thrown has left without their topics

flagVars == <<enabled, align, caller, reset, profileChanged, alignChanged, reprofiled>>
streamVars == <<active, publishers, alignedPubs, slipped>>
updateVars == <<monitor, updater, at, streamVars, failed>>
nodeVars == <<phase, flagVars, updateVars>>

ResetDone == NumSensors + 2

(* The executor has one thread: it is in no callback. *)
Free == caller = "none" /\ reset \in {0, ResetDone}

StreamsOf(s) == {st \in Stream : SensorOf[st] = s}

(* addWantedProfiles; 0 for a stream that is not wanted. *)
Wanted(st) ==
  IF enabled[st] THEN WantedProfile[st][chosen[<<"profile", st>>]][chosen[<<"format", st>>]]
  ELSE 0

(* getUpdatedProfiles *)
Changed(s) == \E st \in StreamsOf(s) : active[st] # Wanted(st)

ActiveOf(s) == {st \in StreamsOf(s) : active[st] # 0}
WantedOf(s) == {st \in StreamsOf(s) : Wanted(st) # 0}

Slip ==
  slipped' = IF updater = "none" THEN slipped
             ELSE slipped \union {st \in Stream : Wanted(st) # 0 /\ Wanted(st)' = 0}

-----------------------------------------------------------------------------
NodeInit ==
  /\ ParamInit
  /\ phase = "none"
  /\ enabled = [st \in Stream |-> TRUE]
  /\ align = FALSE
  /\ caller = "none" /\ reset = 0 /\ profileChanged = FALSE /\ alignChanged = FALSE
  /\ monitor = "waits" /\ updater = "none" /\ at = 0
  /\ active = [st \in Stream |-> 0] /\ publishers = {} /\ alignedPubs = {}
  /\ failed = FALSE /\ reprofiled = {} /\ slipped = {}

(* new BaseRealSenseNode and publishTopics, up to updateSensors.  What the *)
(* launch gives is set by the callbacks, flags included, before the        *)
(* monitoring thread is started: rs_launch.py disables infrared streams.   *)
Construct ==
  /\ phase = "none"
  /\ phase' = "setup"
  /\ Declare
  /\ enabled' = [st \in Stream |-> st \in LaunchEnabled]
  /\ profileChanged' = (LaunchEnabled # Stream \/ LaunchOther)
  /\ align' = LaunchAlign /\ alignChanged' = LaunchAlign
  /\ UNCHANGED <<terminated, caller, reset, reprofiled, updateVars>>

-----------------------------------------------------------------------------
(* The executor's thread: callbacks of parameters.                         *)
SetEnable(st, on) ==
  /\ declared /\ Free
  /\ enabled' = [enabled EXCEPT ![st] = on]
  /\ caller' = "profile"
  /\ reprofiled' = reprofiled \ {st}
  /\ UNCHANGED <<phase, align, reset, profileChanged, alignChanged, monitor, updater, at,
                 active, publishers, alignedPubs, failed, paramVars, terminated>>
  /\ Slip

SetAlign(on) ==
  /\ declared /\ Free
  /\ align' = on
  /\ caller' = "align"
  /\ UNCHANGED <<phase, enabled, reset, profileChanged, alignChanged, reprofiled, updateVars,
                 paramVars, terminated>>

SetStreamProfile(p, v) ==
  /\ Free
  /\ SetProfile(p, v)
  /\ reprofiled' = IF chosen' # chosen THEN reprofiled \union {p[2]} ELSE reprofiled
  /\ UNCHANGED <<phase, enabled, align, caller, reset, profileChanged, alignChanged, monitor,
                 updater, at, active, publishers, alignedPubs, failed>>
  /\ Slip

(* Mutant: the flag is set without the mutex. *)
FlagUnlocked ==
  /\ caller # "none"
  /\ profileChanged' = (profileChanged \/ caller = "profile")
  /\ alignChanged' = (alignChanged \/ caller = "align")
  /\ caller' = "none"
  /\ UNCHANGED <<phase, enabled, align, reset, reprofiled, updateVars, paramVars, terminated>>

(* The mutex is free only while the monitoring thread waits. *)
Flag ==
  /\ caller # "none" /\ monitor = "waits"
  /\ profileChanged' = (profileChanged \/ caller = "profile")
  /\ alignChanged' = (alignChanged \/ caller = "align")
  /\ caller' = "none"
  /\ UNCHANGED <<phase, enabled, align, reset, reprofiled, updateVars, paramVars, terminated>>

(* Parameters' thread waits for the server while a callback runs. *)
Revise ==
  /\ Announce \/ (caller = "none" /\ SetBack) \/ SetBackThrows
  /\ reprofiled' = IF chosen' # chosen THEN reprofiled \union {Head(reverts).name[2]}
                   ELSE reprofiled
  /\ UNCHANGED <<phase, enabled, align, caller, reset, profileChanged, alignChanged, monitor,
                 updater, at, active, publishers, alignedPubs, failed>>
  /\ Slip

-----------------------------------------------------------------------------
(* monitoringProfileChanges                                                *)
(* Mutant: the condition has not been told of the aligned topics. *)
DueByProfile == profileChanged

Due == profileChanged \/ alignChanged

Wake ==
  /\ phase \in {"setup", "up", "half"} /\ monitor = "waits" /\ Due
  /\ monitor' = "woken"
  /\ UNCHANGED <<phase, flagVars, updater, at, streamVars, failed, paramVars, terminated>>

EnterUpdate ==
  /\ updater = "none"
  /\ \/ monitor = "woken" /\ monitor' = "updates" /\ updater' = "monitor"
     \/ phase = "setup" /\ UNCHANGED monitor /\ updater' = "setup"
  /\ at' = 1
  /\ UNCHANGED <<phase, flagVars, streamVars, failed, paramVars, terminated>>

(* stopRequiredSensors, for the sensor whose turn it is. *)
StopSensor ==
  /\ at \in Sensor
  /\ at' = at + 1
  /\ LET s == at
         due == Changed(s) \/ alignChanged
     IN /\ active' = [st \in Stream |-> IF Changed(s) /\ st \in StreamsOf(s) THEN 0 ELSE active[st]]
        /\ publishers' = IF due THEN publishers \ ActiveOf(s) ELSE publishers
        /\ alignedPubs' = IF due THEN alignedPubs \ ActiveOf(s) ELSE alignedPubs
  /\ UNCHANGED <<phase, flagVars, monitor, updater, slipped, failed, paramVars, terminated>>

(* startUpdatedSensors: start() is refused while a stream is active. *)
Restart(s) == Changed(s) /\ WantedOf(s) # {} /\ ActiveOf(s) = {}

(* Mutant: depth is published aligned to itself. *)
PublishingAll(s, left) ==
  LET due == (Changed(s) \/ alignChanged) /\ WantedOf(s) # {}
  IN /\ publishers' = IF due THEN publishers \union WantedOf(s) ELSE publishers
     /\ alignedPubs' = IF due /\ align THEN alignedPubs \union WantedOf(s) ELSE alignedPubs
     /\ slipped' = left \union (IF due THEN slipped \ WantedOf(s) ELSE slipped)

Publishing(s, left) ==
  LET due == (Changed(s) \/ alignChanged) /\ WantedOf(s) # {}
  IN /\ publishers' = IF due THEN publishers \union WantedOf(s) ELSE publishers
     /\ alignedPubs' = IF due /\ align THEN alignedPubs \union (WantedOf(s) \intersect Aligned)
                       ELSE alignedPubs
     /\ slipped' = left \union (IF due THEN slipped \ WantedOf(s) ELSE slipped)

StartSensor ==
  /\ at - NumSensors \in Sensor
  /\ at' = at + 1
  /\ LET s == at - NumSensors
     IN /\ Publishing(s, {})
        /\ active' = IF Restart(s)
                       THEN [st \in Stream |-> IF st \in StreamsOf(s) THEN Wanted(st) ELSE active[st]]
                       ELSE active
  /\ UNCHANGED <<phase, flagVars, monitor, updater, failed, paramVars, terminated>>

LeaveUpdate == updater' = "none" /\ at' = 0

(* The monitoring thread, done or thrown out of updateSensors. *)
ClearFlags ==
  /\ updater = "monitor"
  /\ monitor' = "waits"
  /\ profileChanged' = FALSE /\ alignChanged' = FALSE
  /\ UNCHANGED <<phase, enabled, align, caller, reset, reprofiled, paramVars, terminated>>

Done == at = 2 * NumSensors + 1

MonitorDone ==
  /\ Done /\ LeaveUpdate /\ ClearFlags
  /\ failed' = FALSE
  /\ UNCHANGED streamVars

(* open() or start() throws: the sensors behind it have no turn, and their *)
(* streams stay without the topics that were taken away for align_depth.   *)
StartThrows ==
  /\ at - NumSensors \in Sensor /\ Restart(at - NumSensors)
  /\ Publishing(at - NumSensors,
                {st \in Stream : alignChanged /\ SensorOf[st] > at - NumSensors /\ active[st] # 0})
  /\ LeaveUpdate
  /\ failed' = TRUE
  /\ UNCHANGED active

MonitorFails == StartThrows /\ ClearFlags

Update == Wake \/ EnterUpdate \/ StopSensor \/ StartSensor \/ MonitorDone

-----------------------------------------------------------------------------
(* handleHWReset: it stops the sensors without _update_sensor_mutex, then  *)
(* resets the device.                                                      *)
ResetRequest ==
  /\ phase = "up" /\ Free
  /\ reset' = 1
  /\ UNCHANGED <<phase, enabled, align, caller, profileChanged, alignChanged, reprofiled,
                 updateVars, paramVars, terminated>>

ResetStop ==
  /\ reset \in Sensor
  /\ reset' = reset + 1
  /\ active' = [st \in Stream |-> IF SensorOf[st] = reset THEN 0 ELSE active[st]]
  /\ UNCHANGED <<phase, enabled, align, caller, profileChanged, alignChanged, reprofiled,
                 monitor, updater, at, publishers, alignedPubs, slipped, failed,
                 paramVars, terminated>>

ResetDevice ==
  /\ reset = NumSensors + 1
  /\ reset' = ResetDone
  /\ UNCHANGED <<phase, enabled, align, caller, profileChanged, alignChanged, reprofiled,
                 updateVars, paramVars, terminated>>

-----------------------------------------------------------------------------
(* setup, in the thread of startDevice.                                    *)
SetupDone ==
  /\ Done /\ updater = "setup" /\ LeaveUpdate
  /\ phase' = "up"
  /\ failed' = FALSE
  /\ UNCHANGED <<flagVars, monitor, streamVars, paramVars, terminated>>

(* updateSensors throws, and with it setup: publishServices has no turn. *)
SetupFails ==
  /\ updater = "setup" /\ StartThrows
  /\ phase' = "half"
  /\ UNCHANGED <<flagVars, monitor, paramVars, terminated>>

(* ~BaseRealSenseNode: _is_running = false; the monitoring thread is       *)
(* joined, at the latest when its wait times out.                          *)
Close ==
  /\ phase \in {"up", "half"}
  /\ phase' = "closing"
  /\ UNCHANGED <<flagVars, updateVars, paramVars, terminated>>

Closed ==
  /\ phase = "closing" /\ monitor = "waits" /\ Free
  /\ phase' = "none" /\ reset' = 0
  /\ enabled' = [st \in Stream |-> TRUE] /\ align' = FALSE /\ reprofiled' = {}
  /\ profileChanged' = FALSE /\ alignChanged' = FALSE
  /\ active' = [st \in Stream |-> 0] /\ publishers' = {} /\ alignedPubs' = {}
  /\ slipped' = {}
  /\ failed' = FALSE
  /\ Undeclare
  /\ UNCHANGED <<caller, monitor, updater, at, reverts, setting, selfSet, terminated>>

(* The node goes while hw_reset uses it. *)
ClosedUnderfoot ==
  /\ phase = "closing" /\ monitor = "waits" /\ caller = "none" /\ ~Free
  /\ terminated' = TRUE
  /\ UNCHANGED <<nodeVars, paramVars>>

-----------------------------------------------------------------------------
NodeTypeOK ==
  /\ ParamTypeOK
  /\ phase \in {"none", "setup", "up", "half", "closing"}
  /\ enabled \in [Stream -> BOOLEAN] /\ align \in BOOLEAN
  /\ caller \in {"none", "profile", "align"} /\ reset \in 0 .. ResetDone
  /\ profileChanged \in BOOLEAN /\ alignChanged \in BOOLEAN
  /\ monitor \in {"waits", "woken", "updates"}
  /\ updater \in {"none", "setup", "monitor"}
  /\ at \in 0 .. 2 * NumSensors + 1
  /\ active \in [Stream -> {0} \union DOMAIN Supported]
  /\ publishers \subseteq Stream /\ alignedPubs \subseteq Aligned
  /\ failed \in BOOLEAN /\ reprofiled \subseteq Stream /\ slipped \subseteq Stream

Pending == caller # "none" \/ profileChanged \/ alignChanged

Settled ==
  phase \in {"up", "half"} /\ reset = 0 /\ updater = "none" /\ monitor = "waits" /\ ~Pending

(* No change of a parameter is lost, whenever it comes, even between the   *)
(* two passes over the same sensor: once the threads have settled, and     *)
(* unless the last update has thrown or hw_reset was called, a stream is   *)
(* active only while it is enabled, with the profile and format set before *)
(* it was last enabled, if its sensor has them together, and it has its    *)
(* topics, the aligned one included.  Two kinds of streams are excepted,   *)
(* both of those whose topics an update for align_depth has taken away,    *)
(* and which may stay active without topics: one that is disabled, or set  *)
(* to what it cannot open, before they would be given back; and one whose  *)
(* turn does not come because another sensor's start throws.               *)
ServesWanted ==
  Settled /\ ~failed =>
    \A st \in Stream :
      /\ active[st] # 0 => enabled[st]
      /\ st \notin reprofiled => active[st] = Wanted(st)
      /\ active[st] # 0 /\ st \notin slipped =>
           st \in publishers /\ (align /\ st \in Aligned => st \in alignedPubs)
=============================================================================
