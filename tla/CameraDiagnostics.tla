------------------------- MODULE CameraDiagnostics -------------------------
(***************************************************************************)
(* ros_sensor.h, ros_sensor.cpp, diagnostic_updater: what the camera node  *)
(* says of itself on /diagnostics when diagnostics_period is set.  Every   *)
(* stream of a running sensor has a FrequencyDiagnostics, which enters     *)
(* itself in the updater's task list by name and leaves it by name.  The   *)
(* thread that starts and stops the sensor, the thread that delivers its   *)
(* frames and the executor, which serves the updater's timer and the       *)
(* hw_reset service one after the other, run side by side; the thread that *)
(* makes and destroys the node does so while the executor spins.           *)
(***************************************************************************)
EXTENDS Integers, SequencesExt

CONSTANTS
  Stream,        \* the streams of a sensor, by name
  Temperatures,  \* the task of the node itself
  NoStream,
  Window,        \* window_size: 10
  Rate,          \* the expected frequency, in frames per unit of time
  Period,        \* diagnostics_period, in units of time
  Late,          \* bound on how late a timer is served
  MaxFrames      \* bound on the frames of a stream in a unit of time

DiagnosticsAssumption ==
  /\ Temperatures \notin Stream /\ NoStream \notin Stream
  /\ {Window, Rate, Period} \subseteq Nat \ {0} /\ {Late, MaxFrames} \subseteq Nat

VARIABLES
  up,           \* the node's updater exists
  open,         \* the streams the sensor delivers
  pc,           \* the thread in start or stop of the sensor, or the node in
                \* its destructor: close in its body, gone in its members'
  resetting,    \* the executor in stop of the sensor, for hw_reset
  todo,         \* start: the profiles left
  temp,         \* start: the stream of the temporary that is copied
  registered,   \* keys of _frequency_diagnostics
  tasks,        \* tasks_ of the updater: name and object
  history,      \* FrequencyStatus: events and time since each slot was
                \* written, the slot at hist_indx_ first
  frames,       \* frames of this unit of time
  sinceUpdate,  \* age of the updater's period
  outbox,       \* what the depth-1 publisher of /diagnostics still has
  clashed,      \* history: a reset and the thread have been in this node's
                \* sensor at once
  dead          \* the task an update has called whose object is gone

cameraVars ==
  <<up, open, pc, resetting, todo, temp, registered, tasks, history, frames, sinceUpdate, outbox,
    clashed, dead>>

(* What moves only with the sensor's streams and the node's life. *)
streamVars == <<up, open, pc, resetting, clashed, dead>>
clockVars == <<history, frames, sinceUpdate>>

OK == 0
Warn == 1
Error == 2
Status == [name : Stream \cup {Temperatures}, level : {OK, Warn, Error}]

Task ==
  {[name |-> Temperatures, object |-> "node"]} \cup
  [name : Stream, object : {"temporary", "kept", "copy"}]

Cleared == [i \in 1 .. Window |-> [events |-> 0, age |-> 0]]

(* addedTaskCallback: a second message replaces the first. *)
Announce(name) == outbox' = <<[name |-> name, level |-> OK]>>

AddTask(name, object) ==
  /\ tasks' = Append(tasks, [name |-> name, object |-> object])
  /\ Announce(name)

RemoveLastByName(name) ==
  tasks' = Reverse(RemoveFirstMatch(Reverse(tasks), LAMBDA task : task.name = name))
WithoutFirst(name) == RemoveFirstMatch(tasks, LAMBDA task : task.name = name)
RemoveByName(name) == tasks' = WithoutFirst(name)

(* The object an entry of the task list refers to exists.  "copy" is one   *)
(* that the map has made and dropped.                                      *)
Exists(task) ==
  \/ task.object = "node" /\ up /\ pc # "gone"
  \/ task.object = "temporary" /\ temp = task.name
  \/ task.object = "kept" /\ task.name \in registered

-----------------------------------------------------------------------------
Init ==
  /\ up = FALSE
  /\ open = {} /\ pc = "idle" /\ resetting = FALSE
  /\ todo = {} /\ temp = NoStream /\ registered = {}
  /\ tasks = <<>> /\ outbox = <<>>
  /\ history = [s \in Stream |-> Cleared]
  /\ frames = [s \in Stream |-> 0]
  /\ sinceUpdate = 0
  /\ clashed = FALSE /\ dead = NoStream

(* startDiagnosticsUpdater *)
Boot ==
  /\ ~up /\ up' = TRUE
  /\ AddTask(Temperatures, "node")
  /\ sinceUpdate' = 0
  /\ UNCHANGED <<open, pc, resetting, todo, temp, registered, history, frames, clashed, dead>>

(* What an updater that ends published last may not have been sent. *)
UpdaterEnds ==
  /\ up' = FALSE
  /\ tasks' = <<>>
  /\ outbox' \in {outbox, <<>>}
  /\ clashed' = FALSE

(* The process is killed. *)
Die ==
  /\ up /\ UpdaterEnds
  /\ open' = {} /\ pc' = "idle" /\ resetting' = FALSE
  /\ todo' = {} /\ temp' = NoStream /\ registered' = {}
  /\ UNCHANGED <<clockVars, dead>>

(* The node is destroyed in a process that lives on: its destructor waits   *)
(* for the monitoring thread and stops the sensor.                         *)
Close ==
  /\ up /\ pc = "idle" /\ ~resetting
  /\ pc' = "close"
  /\ UNCHANGED <<up, open, resetting, todo, temp, registered, tasks, clockVars, outbox, clashed,
                 dead>>

(* start: the sensor delivers frames before the first profile is entered. *)
StartSensor(profiles) ==
  /\ up /\ pc = "idle" /\ open = {}
  /\ open' = profiles /\ todo' = profiles
  /\ pc' = "start" /\ clashed' = (clashed \/ resetting)
  /\ UNCHANGED <<up, resetting, temp, registered, tasks, clockVars, outbox, dead>>

StopSensor ==
  /\ pc = "idle" /\ open # {}
  /\ pc' = "stop" /\ clashed' = (clashed \/ resetting)
  /\ UNCHANGED <<up, open, resetting, todo, temp, registered, tasks, clockVars, outbox, dead>>

(* handleHWReset calls stop of the sensor, without the lock that start and *)
(* stop of the monitoring thread are called under.                         *)
Reset ==
  /\ up /\ pc \in {"idle", "start", "stop"} /\ ~resetting /\ open # {}
  /\ resetting' = TRUE /\ clashed' = (clashed \/ pc # "idle")
  /\ UNCHANGED <<up, open, pc, todo, temp, registered, tasks, clockVars, outbox, dead>>

(* emplace: a temporary enters itself, its copy does, the temporary leaves. *)
Construct(s) ==
  /\ pc = "start" /\ temp = NoStream /\ s \in todo
  /\ temp' = s
  /\ AddTask(s, "temporary")
  /\ UNCHANGED <<streamVars, todo, registered, clockVars>>

Copy ==
  /\ temp \in todo \ registered
  /\ registered' = registered \cup {temp} /\ todo' = todo \ {temp}
  /\ history' = [history EXCEPT ![temp] = Cleared]
  /\ AddTask(temp, "kept")
  /\ UNCHANGED <<streamVars, temp, frames, sinceUpdate>>

(* The map has the key: libstdc++ makes the copy and drops it, which takes  *)
(* the first task of the name out; since GCC 12 it makes none.             *)
KeyTaken ==
  /\ temp \in todo \cap registered
  /\ todo' = todo \ {temp}
  /\ \/ UNCHANGED <<tasks, outbox>>
     \/ /\ tasks' = Append(WithoutFirst(temp), [name |-> temp, object |-> "copy"])
        /\ Announce(temp)
  /\ UNCHANGED <<streamVars, temp, registered, clockVars>>

DropTemporary ==
  /\ temp \notin todo \cup {NoStream}
  /\ temp' = NoStream
  /\ RemoveByName(temp)
  /\ UNCHANGED <<streamVars, todo, registered, clockVars, outbox>>

StartReturns ==
  /\ pc = "start" /\ todo = {} /\ temp = NoStream
  /\ pc' = "idle"
  /\ UNCHANGED <<up, open, resetting, todo, temp, registered, tasks, clockVars, outbox, clashed,
                 dead>>

(* _frequency_diagnostics.clear(), for the thread or the reset. *)
Clear(s) ==
  /\ pc \in {"stop", "close"} \/ resetting
  /\ s \in registered
  /\ registered' = registered \ {s}
  /\ RemoveByName(s)
  /\ UNCHANGED <<streamVars, todo, temp, clockVars, outbox>>

StopReturns ==
  /\ pc = "stop" /\ registered = {}
  /\ open' = {} /\ pc' = "idle"
  /\ UNCHANGED <<up, resetting, todo, temp, registered, tasks, clockVars, outbox, clashed, dead>>

ResetReturns ==
  /\ resetting /\ registered = {}
  /\ open' = {} /\ resetting' = FALSE
  /\ UNCHANGED <<up, pc, todo, temp, registered, tasks, clockVars, outbox, clashed, dead>>

(* The destructor's body ends, and its members go one after the other: the *)
(* updater goes with the last sensor that holds it.                        *)
MembersGo ==
  /\ pc = "close" /\ registered = {}
  /\ open' = {} /\ pc' = "gone"
  /\ UNCHANGED <<up, resetting, todo, temp, registered, tasks, clockVars, outbox, clashed, dead>>

Dispose ==
  /\ pc = "gone" /\ UpdaterEnds
  /\ pc' = "idle"
  /\ UNCHANGED <<open, resetting, todo, temp, registered, clockVars, dead>>

Emplace == (\E s \in Stream : Construct(s)) \/ Copy \/ KeyTaken \/ DropTemporary

StartOrStop ==
  \/ \E s \in Stream : Clear(s)
  \/ StartReturns \/ StopReturns \/ ResetReturns \/ MembersGo \/ Dispose

Counted(slots) == [i \in DOMAIN slots |-> [slots[i] EXCEPT !.events = @ + 1]]

(* _frame_callback: only a stream that is entered is counted. *)
Frame(s) ==
  /\ s \in open /\ frames[s] < MaxFrames
  /\ frames' = [frames EXCEPT ![s] = @ + 1]
  /\ history' =
       IF s \in registered THEN [history EXCEPT ![s] = Counted(history[s])] ELSE history
  /\ UNCHANGED <<streamVars, todo, temp, registered, tasks, sinceUpdate, outbox>>

-----------------------------------------------------------------------------
(* FrequencyStatus::run, with a tolerance of a tenth. *)
FrequencyLevel(slot) ==
  CASE slot.events = 0 -> Error
    [] slot.events > 0 /\ 10 * slot.events < 9 * Rate * slot.age -> Warn
    [] slot.events > 0 /\ 10 * slot.events > 11 * Rate * slot.age -> Warn
    [] OTHER -> OK

Run(task) ==
  [name |-> task.name,
   level |-> CASE task.object = "node" -> OK
               [] task.object = "temporary" -> Error
               [] OTHER -> FrequencyLevel(Head(history[task.name]))]

StayOn(slots) == slots
Advance(slots) == Append(Tail(slots), Cleared[1])

(* Updater::update, under the lock of the task list. *)
Update ==
  /\ up /\ ~resetting /\ sinceUpdate >= Period
  /\ \A i \in DOMAIN tasks : Exists(tasks[i])
  /\ outbox' = [i \in DOMAIN tasks |-> Run(tasks[i])]
  /\ history' = [s \in Stream |-> IF s \in registered THEN Advance(history[s]) ELSE history[s]]
  /\ sinceUpdate' = 0
  /\ UNCHANGED <<streamVars, todo, temp, registered, tasks, frames>>

(* It comes to a task whose object is gone: what follows is undefined, and  *)
(* not followed.                                                           *)
UpdateDead ==
  /\ up /\ ~resetting /\ sinceUpdate >= Period
  /\ \E i \in DOMAIN tasks :
       /\ ~Exists(tasks[i]) /\ \A j \in 1 .. i - 1 : Exists(tasks[j])
       /\ dead' = tasks[i].name
  /\ UNCHANGED <<up, open, pc, resetting, todo, temp, registered, tasks, clockVars, outbox, clashed>>

UpdateDue == up /\ sinceUpdate >= Period + Late

Age ==
  /\ history' = [s \in Stream |->
       IF s \in registered
       THEN [i \in DOMAIN history[s] |-> [history[s][i] EXCEPT !.age = @ + 1]]
       ELSE history[s]]
  /\ frames' = [s \in Stream |-> 0]
  /\ sinceUpdate' = IF up THEN sinceUpdate + 1 ELSE 0
  /\ UNCHANGED <<streamVars, todo, temp, registered, tasks, outbox>>

-----------------------------------------------------------------------------
MaxAge == Window * (Period + Late)

TypeOK ==
  /\ {up, resetting, clashed} \subseteq BOOLEAN
  /\ {open, todo, registered} \subseteq SUBSET Stream
  /\ pc \in {"idle", "start", "stop", "close", "gone"} /\ temp \in Stream \cup {NoStream}
  /\ dead \in Stream \cup {Temperatures, NoStream}
  /\ tasks \in Seq(Task)
  /\ history \in [Stream -> [1 .. Window -> [events : 0 .. MaxFrames * (MaxAge + 1),
                                             age : 0 .. MaxAge]]]
  /\ frames \in [Stream -> 0 .. MaxFrames]
  /\ sinceUpdate \in 0 .. Period + Late
  /\ outbox \in Seq(Status)

(* The updater calls every task of its list through a reference: ros_sensor.h *)
(* enters a stream twice under one name and takes the first one out.  As     *)
(* long as no reset and no start or stop have been in the sensor at once,    *)
(* the list never names a FrequencyStatus that is gone (a node that is being *)
(* destroyed leaves its own task behind) nor, between start and stop, lacks  *)
(* a stream that runs.                                                       *)
TasksAlive ==
  ~clashed =>
    /\ \A i \in DOMAIN tasks :
         Exists(tasks[i]) \/ (pc = "gone" /\ tasks[i].name = Temperatures)
    /\ up /\ pc = "idle" /\ ~resetting =>
         /\ Len(tasks) = Cardinality(registered) + 1
         /\ {task.name : task \in ToSet(tasks)} = open \cup {Temperatures}
=============================================================================
