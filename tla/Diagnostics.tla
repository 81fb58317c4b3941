---------------------------- MODULE Diagnostics ----------------------------
(***************************************************************************)
(* The camera's diagnostics and the aggregator, joined by /diagnostics,    *)
(* with the clock both live by.  A message is received in the unit of time *)
(* in which it is sent, unless the next one replaces it first.             *)
(***************************************************************************)
EXTENDS Integers, SequencesExt

CONSTANTS
  Stream, Temperatures, NoStream, Window, Rate, Period, Late, MaxFrames,
  Leaf, Group, Kind, Matches, Timeout, DiscardStale, NumItems, Members,
  Early, Other, OtherTimeout, OtherAsErrors, Critical, BasePath, Config,
  PubPeriod, PubLate, NotCached,
  MaxInputs  \* bound on starts, stops, resets, ends and new parameters

VARIABLES
  up, open, pc, resetting, todo, temp, registered, tasks, history, frames, sinceUpdate, outbox,
  clashed, dead,
  loaded, failed, items, cache, lastTop, sincePublish, latest,
  inputs,    \* inputs left
  silent     \* history: time since a frame of the stream was counted, its
             \* task was entered or the analyzers first heard of it

Camera == INSTANCE CameraDiagnostics
Node == INSTANCE Aggregator WITH Name <- Stream \cup {Temperatures}

cameraVars ==
  <<up, open, pc, resetting, todo, temp, registered, tasks, history, frames, sinceUpdate, outbox,
    clashed, dead>>
aggregatorVars == <<loaded, failed, items, cache, lastTop, sincePublish, latest>>
vars == <<cameraVars, aggregatorVars, inputs, silent>>

LongestTimeout == Max({0} \cup {Timeout[l] : l \in Leaf})

(* Window updates, a timeout and a publication. *)
Horizon ==
  Window * (Period + Late) + LongestTimeout + 1 + PubPeriod + PubLate

ASSUME DiagnosticsAssumption ==
  Camera!DiagnosticsAssumption /\ Node!AggregatorAssumption /\ MaxInputs \in Nat

-----------------------------------------------------------------------------
Init ==
  /\ Camera!Init /\ Node!Init
  /\ inputs = MaxInputs
  /\ silent = [s \in Stream |-> 0]

Input == inputs > 0 /\ inputs' = inputs - 1

Operate ==
  /\ Input
  /\ \/ Camera!Boot \/ Camera!Die \/ Camera!Close \/ Camera!StopSensor \/ Camera!Reset
     \/ \E profiles \in (SUBSET Stream) \ {{}} : Camera!StartSensor(profiles)
  /\ UNCHANGED <<aggregatorVars, silent>>

Reconfigure ==
  /\ Input /\ Node!Reload
  /\ silent' = [s \in Stream |-> 0]
  /\ UNCHANGED cameraVars

StartOrStop == Camera!StartOrStop /\ UNCHANGED <<aggregatorVars, inputs, silent>>

Emplace ==
  /\ Camera!Emplace
  /\ silent' = [s \in Stream |-> IF s = temp \/ s = temp' THEN 0 ELSE silent[s]]
  /\ UNCHANGED <<aggregatorVars, inputs>>

Frame ==
  /\ \E s \in Stream :
       /\ Camera!Frame(s)
       /\ silent' = [silent EXCEPT ![s] = IF s \in registered THEN 0 ELSE @]
  /\ UNCHANGED <<aggregatorVars, inputs>>

Update ==
  /\ Camera!Update \/ Camera!UpdateDead
  /\ UNCHANGED <<aggregatorVars, inputs, silent>>

Receive ==
  /\ outbox # <<>> /\ outbox' = <<>>
  /\ Node!Receive(outbox)
  /\ silent' = [s \in Stream |->
       IF s \in DOMAIN latest' /\ s \notin DOMAIN latest THEN 0 ELSE silent[s]]
  /\ UNCHANGED <<up, open, pc, resetting, todo, temp, registered, tasks, history, frames,
                 sinceUpdate, clashed, dead, inputs>>

Publish == Node!Publish /\ UNCHANGED <<cameraVars, inputs, silent>>

Tick ==
  /\ outbox = <<>> /\ ~Camera!UpdateDue /\ ~Node!PublishDue
  /\ Camera!Age /\ Node!Age
  /\ silent' = [s \in Stream |-> Min({silent[s] + 1, Horizon})]
  /\ UNCHANGED inputs

(* A call of a task that is gone is the end of the program's defined life. *)
Next ==
  /\ dead = NoStream
  /\ \/ Operate \/ Reconfigure \/ StartOrStop \/ Emplace \/ Frame \/ Update
     \/ Receive \/ Publish \/ Tick

Spec == Init /\ [][Next]_vars

-----------------------------------------------------------------------------
TypeOK ==
  /\ Camera!TypeOK /\ Node!TypeOK
  /\ inputs \in 0 .. MaxInputs
  /\ silent \in [Stream -> 0 .. Horizon]

TasksAlive == Camera!TasksAlive
Routed == Node!Routed

(* update_functions.hpp, line 105: "report an error if there have been no *)
(* events in the latest window".  A stream that an analyzer watches and   *)
(* that has fallen silent, whether its frames stopped, it was stopped or  *)
(* the whole node died, shows in the published top level: at the latest   *)
(* after the window, the analyzer's timeout and a publication.            *)
Watched(s) ==
  \E l \in Node!LoadedLeaves({"generic"}) :
    s \in DOMAIN items[l] /\ Timeout[l] > 0 /\ ~DiscardStale[l]

SilenceShown == \A s \in Stream : Watched(s) /\ silent[s] = Horizon => lastTop >= 2
=============================================================================
