-------------------------- MODULE CameraParameters --------------------------
(***************************************************************************)
(* dynamic_params.cpp of the camera driver, and the profile and format     *)
(* parameters of profile_manager.cpp with their defaults.  A stream is     *)
(* opened with a profile of its sensor that has both the chosen values.    *)
(* The parameter server takes any value; the callback of one that no       *)
(* profile has asks a thread of its own to set the parameter back, since a *)
(* callback may not.  One stream of each type; infrared is left out.       *)
(***************************************************************************)
EXTENDS Integers, Sequences

CONSTANTS
  Stream,      \* "depth", "color"
  NumSensors,  \* _available_ros_sensors, all of them depth or color
  SensorOf,    \* the sensor of each stream
  Supported,   \* video profiles as librealsense lists them:
               \* [stream, values (width x height x fps), format, default]
  Settings,    \* what users set, at launch or later: <<parameter, value>>
  Overrides    \* of them, the parameters given at launch, with their values

Sensor == 1 .. NumSensors
Parameter == {"profile", "format"} \X Stream

ASSUME ParameterAssumption ==
  /\ Stream \subseteq {"depth", "color"}
  /\ NumSensors \in Nat \ {0}
  /\ SensorOf \in [Stream -> Sensor]
  /\ DOMAIN Supported \subseteq Nat
  /\ \A i \in DOMAIN Supported : Supported[i].stream \in Stream
  /\ \A st \in Stream : \E i \in DOMAIN Supported : Supported[i].stream = st
  /\ \A change \in Settings : change[1] \in Parameter /\ change = <<change[1], change[2]>>
  /\ DOMAIN Overrides \subseteq Parameter
  /\ \A p \in DOMAIN Overrides : <<p, Overrides[p]>> \in Settings

-----------------------------------------------------------------------------
(* registerProfileParameters: _all_profiles of a sensor, as indices.       *)
AllProfiles ==
  [s \in Sensor |-> {i \in DOMAIN Supported : SensorOf[Supported[i].stream] = s}]

Earliest(set) == CHOOSE i \in set : \A j \in set : i <= j

(* getDefaultProfiles: of each stream that has one, the first; when the    *)
(* sensor has none at all, its first profile.                              *)
DefaultProfiles(s) ==
  LET marked == {i \in AllProfiles[s] : Supported[i].default}
      found == IF marked = {} THEN {Earliest(AllProfiles[s])} ELSE marked
  IN [st \in {Supported[i].stream : i \in found} |->
        Supported[Earliest({i \in found : Supported[i].stream = st})]]

(* registerVideoSensorProfileFormat *)
UsualFormat(st) == IF st = "depth" THEN "Z16" ELSE "RGB8"

(* The code counts on librealsense here: a stream without a default has a  *)
(* profile in its usual format.                                            *)
ASSUME FormatAssumption ==
  \A st \in Stream : \E i \in DOMAIN Supported :
    /\ Supported[i].stream = st
    /\ Supported[i].default \/ Supported[i].format = UsualFormat(st)

(* isSameProfileValues *)
SameValues(i, values, format) ==
  /\ Supported[i].values = values
  /\ format \in {"ANY", Supported[i].format}

(* registerVideoSensorParams: a stream that has no default is given the    *)
(* values of the other one, and its usual format.                          *)
DefaultValues(st) ==
  LET defaults == DefaultProfiles(SensorOf[st])
      own == IF st \in DOMAIN defaults THEN st ELSE CHOOSE other \in DOMAIN defaults : TRUE
  IN defaults[own].values

DefaultFormat(st) ==
  LET defaults == DefaultProfiles(SensorOf[st])
  IN IF st \in DOMAIN defaults THEN defaults[st].format ELSE UsualFormat(st)

Launch ==
  [p \in Parameter |-> IF p[1] = "profile" THEN DefaultValues(p[2]) ELSE DefaultFormat(p[2])]

(* What the callbacks accept: a format of the stream, but the values of    *)
(* any profile of its sensor.                                              *)
Accepted ==
  [p \in Parameter |->
     LET all == AllProfiles[SensorOf[p[2]]]
     IN IF p[1] = "profile"
          THEN {v \in {Supported[i].values : i \in all} : \E i \in all : SameValues(i, v, "ANY")}
          ELSE {Supported[i].format : i \in {j \in all : Supported[j].stream = p[2]}}]

(* isWantedProfile: the first profile of the stream that has both; 0, and  *)
(* a warning, when no profile has.                                         *)
WantedProfile ==
  [st \in Stream |-> [v \in Accepted[<<"profile", st>>] |-> [f \in Accepted[<<"format", st>>] |->
     LET fit == {i \in AllProfiles[SensorOf[st]] : Supported[i].stream = st /\ SameValues(i, v, f)}
     IN IF fit = {} THEN 0 ELSE Earliest(fit)]]]

-----------------------------------------------------------------------------
VARIABLES
  declared,   \* the parameters of the sensors are declared
  server,     \* what the parameter server shows
  chosen,     \* _width, _height, _fps and _formats
  reverts,    \* _update_functions_v: a name and the value to go back to
  setting,    \* the thread is inside setRosParamValue
  selfSet,    \* self_set_parameters
  terminated  \* an exception or a dangling pointer has ended the process

paramVars == <<declared, server, chosen, reverts, setting, selfSet>>

Revert(p) == [name |-> p, to |-> chosen[p]]

-----------------------------------------------------------------------------
ParamInit ==
  /\ declared = FALSE
  /\ server = Launch /\ chosen = Launch
  /\ reverts = <<>> /\ setting = FALSE /\ selfSet = {}
  /\ terminated = FALSE

(* A value given at launch, which declare_parameter returns. *)
Given == [p \in Parameter |-> IF p \in DOMAIN Overrides THEN Overrides[p] ELSE Launch[p]]

(* Some parameters, one after the other. *)
InTurn(params) ==
  {turn \in UNION {[1 .. n -> params] : n \in 0 .. 4} :
     /\ \A p \in params : \E i \in DOMAIN turn : turn[i] = p
     /\ \A i, j \in DOMAIN turn : turn[i] = turn[j] => i = j}

(* Mutant: setParam does not call the callback of a value given at launch. *)
DeclareSilently ==
  /\ declared' = TRUE
  /\ server' = Given /\ chosen' = Launch
  /\ UNCHANGED <<reverts, setting, selfSet>>

(* setParam calls the callback of a value that is not the default: one     *)
(* that no profile has is in the server until it is set back, at every     *)
(* start of a node.                                                        *)
Declare ==
  /\ declared' = TRUE
  /\ server' = Given
  /\ chosen' = [p \in Parameter |-> IF Given[p] \in Accepted[p] THEN Given[p] ELSE Launch[p]]
  /\ \E turn \in InTurn({p \in Parameter : Given[p] \notin Accepted[p]}) :
       reverts' = reverts \o [i \in DOMAIN turn |-> [name |-> turn[i], to |-> Launch[turn[i]]]]
  /\ UNCHANGED <<setting, selfSet>>

(* clearParameters: undeclare_parameter, and the callback is forgotten. *)
Undeclare ==
  /\ declared' = FALSE
  /\ server' = Launch /\ chosen' = Launch

(* The callbacks registered by registerVideoSensorParams. *)
ProfileFunction(p, v) ==
  IF v \in Accepted[p] THEN chosen' = [chosen EXCEPT ![p] = v] /\ UNCHANGED reverts
  ELSE UNCHANGED chosen /\ reverts' = Append(reverts, Revert(p))

(* A user sets a parameter.  One that the thread is about to set is taken  *)
(* for the thread's: its callback is left out.                             *)
SetProfile(p, v) ==
  /\ declared
  /\ server' = [server EXCEPT ![p] = v]
  /\ selfSet' = selfSet \ {p}
  /\ IF p \in selfSet THEN UNCHANGED <<chosen, reverts>> ELSE ProfileFunction(p, v)
  /\ UNCHANGED <<declared, setting, terminated>>

-----------------------------------------------------------------------------
(* monitor_update_functions: setRosParamValue, by its two steps.           *)
Announce ==
  /\ reverts # <<>> /\ ~setting
  /\ selfSet' = selfSet \union {Head(reverts).name}
  /\ setting' = TRUE
  /\ UNCHANGED <<declared, server, chosen, reverts, terminated>>

(* A user was quicker and has used the mark up: the callback runs, with a  *)
(* value that is valid.                                                    *)
SetBack ==
  /\ setting /\ declared
  /\ LET p == Head(reverts).name
         v == Head(reverts).to
     IN /\ server' = [server EXCEPT ![p] = v]
        /\ chosen' = IF p \in selfSet THEN chosen ELSE [chosen EXCEPT ![p] = v]
        /\ selfSet' = selfSet \ {p}
  /\ reverts' = Tail(reverts)
  /\ setting' = FALSE
  /\ UNCHANGED <<declared, terminated>>

(* The parameter is gone with its sensor: nothing catches the exception. *)
SetBackThrows ==
  /\ setting /\ ~declared
  /\ terminated' = TRUE
  /\ UNCHANGED paramVars

-----------------------------------------------------------------------------
ParamTypeOK ==
  /\ declared \in BOOLEAN
  /\ DOMAIN server = Parameter /\ DOMAIN chosen = Parameter
  /\ \A p \in Parameter : server[p] \in Accepted[p] \/ <<p, server[p]>> \in Settings
  /\ \A p \in Parameter : chosen[p] \in Accepted[p]
  /\ \A i \in DOMAIN reverts : reverts[i].to \in Accepted[reverts[i].name]
  /\ setting \in BOOLEAN
  /\ selfSet \subseteq Parameter
  /\ terminated \in BOOLEAN

(* profile_manager.cpp, line 53: "If invalid they are reverted."  When no  *)
(* revert is under way the server shows no value that a profile has not,   *)
(* though a user's set may be taken for the thread's own and skip the      *)
(* callback that would have asked for one.                                 *)
InvalidReverted == reverts = <<>> => \A p \in Parameter : server[p] \in Accepted[p]
=============================================================================
