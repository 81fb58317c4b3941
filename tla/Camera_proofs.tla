---------------------------- MODULE Camera_proofs ----------------------------
(***************************************************************************)
(* Proofs about Camera, for any number of sensors, any profiles and any    *)
(* settings of the users: the types, that no invalid value stays, and that *)
(* what is served is what is wanted, whichever thread a change meets at    *)
(* whichever place of its update.                                          *)
(***************************************************************************)
EXTENDS Camera, WellFoundedInduction, SequenceTheorems, TLAPS

(* A revert that waits: queueSetRosValue's name and value. *)
Entry == [name : Parameter, to : UNION {Accepted[p] : p \in Parameter}]

(* What the reverts that wait, and the marks of the thread, stand for: a   *)
(* value that no profile has is still to be set back, and only the revert  *)
(* under way leaves a mark.                                                *)
RevertInv ==
  /\ reverts \in Seq(Entry)
  /\ setting => reverts # <<>>
  /\ \A p \in selfSet : setting /\ p = Head(reverts).name
  /\ \A p \in Parameter : server[p] \in Accepted[p] \/ \E i \in DOMAIN reverts : reverts[i].name = p

(* Which thread may be where. *)
ThreadInv ==
  /\ at = 0 <=> updater = "none"
  /\ monitor = "updates" <=> updater = "monitor"
  /\ updater = "setup" => phase = "setup"
  /\ phase = "none" => monitor = "waits" /\ \A st \in Stream : active[st] = 0
  /\ declared <=> phase # "none"

(* The sensor of a stream has had its turn to stop, and not to start; and  *)
(* has had both.                                                           *)
Between(st) == SensorOf[st] < at /\ at <= SensorOf[st] + NumSensors
Over(st) == at > SensorOf[st] + NumSensors

(* A stream is without its topics only between its sensor's two turns, and *)
(* without the aligned one only while align_depth has just changed.  A     *)
(* stream that is left active between them will be given them back.        *)
TopicInv ==
  \A st \in Stream :
    active[st] # 0 /\ st \notin slipped =>
      /\ st \in publishers \/ (Between(st) /\ alignChanged)
      /\ align /\ st \in Aligned =>
           \/ st \in alignedPubs \/ caller = "align"
           \/ alignChanged /\ ~(updater = "monitor" /\ Over(st))
      /\ Between(st) => Wanted(st) # 0

(* A stream that was disabled stops at the next turn of its sensor. *)
EnabledInv ==
  \A st \in Stream :
    active[st] # 0 =>
      \/ enabled[st] \/ caller = "profile"
      \/ profileChanged /\ ~(updater = "monitor" /\ at > SensorOf[st])

(* A change that the update under way need not have seen: it has a caller, *)
(* or a flag that the monitoring thread has still to act on.               *)
Excused ==
  \/ caller = "profile" \/ reset # 0
  \/ profileChanged /\ updater # "monitor"

(* Between its two turns a sensor is stopped, or all its streams are as    *)
(* they are wanted: start() is refused only when there is nothing to do.   *)
SensorInv ==
  \A s \in Sensor : s < at /\ at <= s + NumSensors =>
    \/ \A st \in StreamsOf(s) : active[st] = 0
    \/ \A st \in StreamsOf(s) : active[st] = Wanted(st) \/ st \in reprofiled
    \/ Excused

WantedInv ==
  \A st \in Stream :
    \/ st \in reprofiled \/ active[st] = Wanted(st) \/ Excused
    \/ phase = "none" \/ Between(st)
    \/ ~Over(st) /\ (failed \/ phase = "setup" \/ profileChanged)

ServiceInv == ThreadInv /\ TopicInv /\ EnabledInv /\ SensorInv /\ WantedInv

CameraInv == TypeOK /\ RevertInv /\ ServiceInv

-----------------------------------------------------------------------------
(* Least elements.                                                         *)
LEMMA EarliestFacts ==
  ASSUME NEW set, set \subseteq Nat, set # {}
  PROVE  Earliest(set) \in set
<1>1. \E i \in set : \A j \in set : ~(<<j, i>> \in OpToRel(<, Nat))
  BY NatLessThanWellFounded, WFMin
<1>2. PICK i \in set : \A j \in set : ~(<<j, i>> \in OpToRel(<, Nat))
  BY <1>1
<1>3. \A j \in set : ~(j < i)
  <2> SUFFICES ASSUME NEW j \in set PROVE ~(j < i)
    OBVIOUS
  <2>1. j \in Nat /\ i \in Nat
    OBVIOUS
  <2>2. j < i => <<j, i>> \in OpToRel(<, Nat)
    BY <2>1 DEF OpToRel
  <2> QED
    BY <1>2, <2>2
<1>4. \A j \in set : i <= j
  BY <1>3
<1> QED
  BY <1>4 DEF Earliest

(* The profiles of a sensor and of a stream. *)
LEMMA ProfileFacts ==
  /\ Stream \subseteq {"depth", "color"} /\ NumSensors \in Nat \ {0}
  /\ \A st \in Stream : SensorOf[st] \in 1 .. NumSensors
  /\ \A s \in Sensor : AllProfiles[s] \subseteq DOMAIN Supported /\ AllProfiles[s] \subseteq Nat
  /\ \A i \in DOMAIN Supported :
       Supported[i].stream \in Stream /\ i \in AllProfiles[SensorOf[Supported[i].stream]]
  /\ \A st \in Stream : \E i \in AllProfiles[SensorOf[st]] : Supported[i].stream = st
BY ParameterAssumption DEF AllProfiles, Sensor

(* What a node is launched with is valid. *)
LEMMA DefaultFacts ==
  ASSUME NEW st \in Stream
  PROVE  /\ \E i \in AllProfiles[SensorOf[st]] : DefaultValues(st) = Supported[i].values
         /\ \E i \in AllProfiles[SensorOf[st]] :
              Supported[i].stream = st /\ DefaultFormat(st) = Supported[i].format
<1> DEFINE s == SensorOf[st]
           marked == {i \in AllProfiles[s] : Supported[i].default}
           found == IF marked = {} THEN {Earliest(AllProfiles[s])} ELSE marked
           streams == {Supported[i].stream : i \in found}
           first(x) == Earliest({i \in found : Supported[i].stream = x})
<1>1. s \in Sensor /\ AllProfiles[s] # {} /\ AllProfiles[s] \subseteq Nat
  BY ProfileFacts DEF Sensor
<1>2. found \subseteq AllProfiles[s] /\ found # {}
  <2>1. CASE marked = {}
    BY <1>1, <2>1, EarliestFacts
  <2>2. CASE marked # {}
    BY <2>2
  <2> QED
    BY <2>1, <2>2
<1>3. \A x \in streams : first(x) \in found /\ Supported[first(x)].stream = x
  <2> SUFFICES ASSUME NEW x \in streams
               PROVE  first(x) \in {i \in found : Supported[i].stream = x}
    OBVIOUS
  <2>1. {i \in found : Supported[i].stream = x} # {}
    OBVIOUS
  <2> HIDE DEF found
  <2>2. {i \in found : Supported[i].stream = x} \subseteq Nat
    BY <1>1, <1>2
  <2> QED
    BY <2>1, <2>2, EarliestFacts
<1>4. DefaultProfiles(s) = [x \in streams |-> Supported[first(x)]]
  BY DEF DefaultProfiles
<1>5. streams # {}
  BY <1>2
<1> HIDE DEF found, streams, first
<1>6. \A x \in streams : DefaultProfiles(s)[x] = Supported[first(x)]
  BY <1>4
<1>7. DOMAIN DefaultProfiles(s) = streams
  BY <1>4
<1>8. \E i \in AllProfiles[s] : DefaultValues(st) = Supported[i].values
  <2>1. PICK x \in streams : DefaultValues(st) = DefaultProfiles(s)[x].values
    BY <1>5, <1>7 DEF DefaultValues, s
  <2> QED
    BY <1>2, <1>3, <1>6, <2>1
<1>9. ASSUME st \notin streams
      PROVE  \E i \in AllProfiles[s] : Supported[i].stream = st /\ UsualFormat(st) = Supported[i].format
  <2>1. PICK i \in DOMAIN Supported : /\ Supported[i].stream = st
                                      /\ Supported[i].default \/ Supported[i].format = UsualFormat(st)
    BY FormatAssumption
  <2>2. i \in AllProfiles[s]
    BY <2>1, ProfileFacts DEF s
  <2>3. CASE Supported[i].default
    <3>1. i \in marked
      BY <2>2, <2>3
    <3>2. i \in found
      BY <3>1 DEF found
    <3> QED
      BY <1>9, <2>1, <3>2 DEF streams
  <2> QED
    BY <2>1, <2>2, <2>3
<1>10. \E i \in AllProfiles[s] : Supported[i].stream = st /\ DefaultFormat(st) = Supported[i].format
  <2>1. CASE st \in streams
    <3>1. DefaultFormat(st) = Supported[first(st)].format
      BY <1>6, <1>7, <2>1 DEF DefaultFormat, s
    <3> QED
      BY <1>2, <1>3, <2>1, <3>1
  <2>2. CASE st \notin streams
    BY <1>7, <1>9, <2>2 DEF DefaultFormat, s
  <2> QED
    BY <2>1, <2>2
<1> QED
  BY <1>8, <1>10 DEF s

LEMMA LaunchFacts ==
  DOMAIN Launch = Parameter /\ \A p \in Parameter : Launch[p] \in Accepted[p]
<1> SUFFICES ASSUME NEW p \in Parameter PROVE Launch[p] \in Accepted[p]
  BY DEF Launch
<1>1. p[1] \in {"profile", "format"} /\ p[2] \in Stream
  BY DEF Parameter
<1>2. Launch[p] = IF p[1] = "profile" THEN DefaultValues(p[2]) ELSE DefaultFormat(p[2])
  BY DEF Launch
<1>3. CASE p[1] = "profile"
  <2>1. PICK i \in AllProfiles[SensorOf[p[2]]] : Launch[p] = Supported[i].values
    BY <1>1, <1>2, <1>3, DefaultFacts
  <2> QED
    BY <1>3, <2>1 DEF Accepted, SameValues
<1>4. CASE p[1] # "profile"
  <2>1. PICK i \in AllProfiles[SensorOf[p[2]]] :
          Supported[i].stream = p[2] /\ Launch[p] = Supported[i].format
    BY <1>1, <1>2, <1>4, DefaultFacts
  <2> QED
    BY <1>4, <2>1 DEF Accepted
<1> QED
  BY <1>3, <1>4

(* What is wanted of a stream: a profile, or none. *)
LEMMA WantedFacts ==
  ASSUME \A p \in Parameter : chosen[p] \in Accepted[p], NEW st \in Stream
  PROVE  Wanted(st) \in {0} \union DOMAIN Supported
<1> DEFINE v == chosen[<<"profile", st>>]
           f == chosen[<<"format", st>>]
           fit == {i \in AllProfiles[SensorOf[st]] : Supported[i].stream = st /\ SameValues(i, v, f)}
<1>1. v \in Accepted[<<"profile", st>>] /\ f \in Accepted[<<"format", st>>]
  BY DEF Parameter
<1>2. WantedProfile[st][v][f] = IF fit = {} THEN 0 ELSE Earliest(fit)
  BY <1>1 DEF WantedProfile
<1>3. fit \subseteq DOMAIN Supported /\ fit \subseteq Nat
  BY ProfileFacts DEF Sensor
<1>4. fit # {} => Earliest(fit) \in DOMAIN Supported
  BY <1>3, EarliestFacts
<1> QED
  BY <1>2, <1>4 DEF Wanted

-----------------------------------------------------------------------------
(* The steps of the node. *)
NodeStep ==
  \/ \E st \in Stream, on \in BOOLEAN : SetEnable(st, on)
  \/ \E on \in BOOLEAN : SetAlign(on)
  \/ \E change \in Settings : SetStreamProfile(change[1], change[2])
  \/ Flag \/ Revise
  \/ Wake \/ EnterUpdate \/ StopSensor \/ StartSensor \/ MonitorDone \/ MonitorFails
  \/ ResetRequest \/ ResetStop \/ ResetDevice
  \/ Construct \/ SetupDone \/ SetupFails \/ Close \/ Closed
  \/ UNCHANGED <<nodeVars, paramVars>>

LEMMA Steps ==
  ASSUME [Next]_cameraVars
  PROVE  NodeStep
BY DEF Next, cameraVars, NodeStep, User, Threads, Update, UpdateFails, ServiceResets,
       Unplug, ErrorResets, Plug, Query, QueryEnds, QueryFinds, QueryResets, QueryRegisters,
       Callback, TakeRemoved, Removed, TakeAdded, Start, CloseNode, NodeUnderfoot, Started,
       BuildNode, StartFails, SameNode, ClosedUnderfoot

-----------------------------------------------------------------------------
(* The parameters.                                                         *)
LEMMA AcceptedFacts ==
  ASSUME NEW p \in Parameter, NEW v \in Accepted[p]
  PROVE  [name |-> p, to |-> v] \in Entry
BY DEF Entry

(* What a step does to the parameters. *)
LEMMA ParamMoves ==
  ASSUME NodeStep
  PROVE  \/ UNCHANGED paramVars
         \/ UNCHANGED <<reverts, setting, selfSet>> /\ server' = Launch /\ chosen' = Launch
              /\ declared' \in BOOLEAN
         \/ Declare
         \/ \E change \in Settings : SetProfile(change[1], change[2])
         \/ Announce \/ SetBack
BY DEF NodeStep, SetEnable, SetAlign, SetStreamProfile, Flag, Revise, SetBackThrows, Wake,
       EnterUpdate, StopSensor, StartSensor, MonitorDone, MonitorFails, StartThrows, ClearFlags,
       ResetRequest, ResetStop, ResetDevice, Construct, SetupDone, SetupFails, Close,
       Closed, Undeclare, paramVars

(* A queue of entries, one longer or one shorter. *)
LEMMA QueueFacts ==
  ASSUME NEW q \in Seq(Entry)
  PROVE  /\ Len(q) \in Nat /\ DOMAIN q = 1 .. Len(q)
         /\ \A i \in DOMAIN q : q[i] \in Entry
         /\ q # <<>> => /\ 1 \in DOMAIN q /\ Head(q) = q[1] /\ Tail(q) \in Seq(Entry)
                        /\ DOMAIN Tail(q) = 1 .. (Len(q) - 1)
                        /\ \A i \in DOMAIN Tail(q) : i + 1 \in DOMAIN q /\ Tail(q)[i] = q[i + 1]
                        /\ \A i \in DOMAIN q : 
                             i = 1 \/ (i - 1 \in DOMAIN Tail(q) /\ Tail(q)[i - 1] = q[i])
         /\ \A e \in Entry : /\ Append(q, e) \in Seq(Entry) /\ Append(q, e) # <<>>
                             /\ DOMAIN Append(q, e) = 1 .. (Len(q) + 1)
                             /\ Append(q, e)[Len(q) + 1] = e
                             /\ \A i \in DOMAIN q : Append(q, e)[i] = q[i]
                             /\ q # <<>> => Head(Append(q, e)) = Head(q)
<1>1. PICK n \in Nat : n = Len(q)
  BY LenProperties
<1>2. DOMAIN q = 1 .. n /\ \A i \in 1 .. n : q[i] \in Entry
  BY <1>1, LenProperties, ElementOfSeq
<1>3. ASSUME q # <<>>
      PROVE  /\ 1 \in DOMAIN q /\ Head(q) = q[1] /\ Tail(q) \in Seq(Entry)
             /\ DOMAIN Tail(q) = 1 .. (n - 1)
             /\ \A i \in DOMAIN Tail(q) : i + 1 \in DOMAIN q /\ Tail(q)[i] = q[i + 1]
             /\ \A i \in DOMAIN q : i = 1 \/ (i - 1 \in DOMAIN Tail(q) /\ Tail(q)[i - 1] = q[i])
  <2>1. n # 0
    BY <1>1, <1>3, EmptySeq
  <2>2. Head(q) = q[1] /\ Tail(q) \in Seq(Entry) /\ Len(Tail(q)) = n - 1
        /\ \A i \in 1 .. (n - 1) : Tail(q)[i] = q[i + 1]
    BY <1>1, <1>3, HeadTailProperties
  <2>3. DOMAIN Tail(q) = 1 .. (n - 1)
    BY <2>2, LenProperties
  <2>4. 1 \in 1 .. n
    BY <2>1
  <2>5. \A i \in 1 .. (n - 1) : i + 1 \in 1 .. n
    OBVIOUS
  <2>6. \A i \in 1 .. n : i = 1 \/ (i - 1 \in 1 .. (n - 1) /\ (i - 1) + 1 = i)
    OBVIOUS
  <2>7. ASSUME NEW i \in 1 .. n, i # 1
        PROVE  i - 1 \in DOMAIN Tail(q) /\ Tail(q)[i - 1] = q[i]
    <3>1. PICK k \in 1 .. (n - 1) : k = i - 1 /\ k + 1 = i
      BY <2>6, <2>7
    <3>2. Tail(q)[k] = q[k + 1]
      BY <2>2
    <3> QED
      BY <2>3, <3>1, <3>2
  <2>8. \A i \in DOMAIN Tail(q) : i + 1 \in DOMAIN q /\ Tail(q)[i] = q[i + 1]
    BY <1>2, <2>2, <2>3, <2>5
  <2> QED
    BY <1>2, <2>2, <2>3, <2>4, <2>7, <2>8
<1>4. ASSUME NEW e \in Entry
      PROVE  /\ Append(q, e) \in Seq(Entry) /\ Append(q, e) # <<>>
             /\ DOMAIN Append(q, e) = 1 .. (n + 1)
             /\ Append(q, e)[n + 1] = e
             /\ \A i \in DOMAIN q : Append(q, e)[i] = q[i]
             /\ q # <<>> => Head(Append(q, e)) = Head(q)
  <2>1. Append(q, e) \in Seq(Entry) /\ Len(Append(q, e)) = n + 1
        /\ Append(q, e)[n + 1] = e /\ \A i \in 1 .. n : Append(q, e)[i] = q[i]
    BY <1>1, AppendProperties
  <2>2. DOMAIN Append(q, e) = 1 .. (n + 1)
    BY <2>1, LenProperties
  <2>3. n + 1 # 0
    OBVIOUS
  <2>4. Append(q, e) # <<>>
    BY <2>1, <2>3, EmptySeq
  <2>5. Head(Append(q, e)) = Append(q, e)[1]
    BY <2>1, <2>4, HeadTailProperties
  <2>6. q # <<>> => Head(Append(q, e)) = Head(q)
    BY <1>2, <1>3, <2>1, <2>5
  <2> QED
    BY <1>2, <2>1, <2>2, <2>4, <2>6
<1> QED
  BY <1>1, <1>2, <1>3, <1>4

(* The part of the types that the parameters have. *)
ParamInv == ParamTypeOK /\ RevertInv

LEMMA SetProfileKeeps ==
  ASSUME ParamInv, NEW change \in Settings, SetProfile(change[1], change[2])
  PROVE  ParamInv'
<1> USE DEF ParamInv, ParamTypeOK, RevertInv
<1> DEFINE p == change[1]
           v == change[2]
<1>1. p \in Parameter /\ <<p, v>> \in Settings
  BY ParameterAssumption
<1> HIDE DEF p, v
<1>2. SetProfile(p, v)
  BY DEF p, v
<1>3. /\ server' = [server EXCEPT ![p] = v] /\ selfSet' = selfSet \ {p}
      /\ setting' = setting /\ declared' = declared /\ terminated' = terminated
  BY <1>2 DEF SetProfile
<1>4. /\ DOMAIN server' = Parameter /\ server'[p] = v
      /\ \A q \in Parameter \ {p} : server'[q] = server[q]
  BY <1>1, <1>3
<1>5. reverts \in Seq(Entry)
  BY DEF Entry
<1>6. CASE reverts' = reverts /\ chosen' = chosen /\ (v \in Accepted[p] \/ p \in selfSet)
  <2>1. p \in selfSet => 1 \in DOMAIN reverts /\ Head(reverts) = reverts[1]
    BY <1>5, QueueFacts
  <2>2. \A q \in Parameter : server'[q] \in Accepted[q] \/ \E i \in DOMAIN reverts : reverts[i].name = q
    BY <1>1, <1>4, <1>6, <2>1
  <2>3. \A q \in Parameter : server'[q] \in Accepted[q] \/ <<q, server'[q]>> \in Settings
    BY <1>1, <1>4
  <2> QED
    BY <1>3, <1>4, <1>6, <2>2, <2>3
<1>7. CASE reverts' = reverts /\ v \in Accepted[p] /\ chosen' = [chosen EXCEPT ![p] = v]
  <2>2. \A q \in Parameter : server'[q] \in Accepted[q] \/ \E i \in DOMAIN reverts : reverts[i].name = q
    BY <1>1, <1>4, <1>7
  <2>3. \A q \in Parameter : server'[q] \in Accepted[q] \/ <<q, server'[q]>> \in Settings
    BY <1>1, <1>4
  <2>4. DOMAIN chosen' = Parameter /\ \A q \in Parameter : chosen'[q] \in Accepted[q]
    BY <1>1, <1>7
  <2> QED
    BY <1>3, <1>4, <1>7, <2>2, <2>3, <2>4
<1>8. CASE chosen' = chosen /\ reverts' = Append(reverts, Revert(p))
  <2>1. PICK e \in Entry : e = Revert(p) /\ e.name = p /\ e.to = chosen[p] /\ e.to \in Accepted[p]
    <3>1. chosen[p] \in Accepted[p]
      BY <1>1
    <3> HIDE DEF ParamInv, ParamTypeOK, RevertInv
    <3>2. Revert(p) \in Entry
      BY <1>1, <3>1, AcceptedFacts DEF Revert
    <3>3. Revert(p).name = p /\ Revert(p).to = chosen[p]
      BY DEF Revert
    <3> QED
      BY <3>1, <3>2, <3>3
  <2>2. PICK n \in Nat : n = Len(reverts) /\ DOMAIN reverts = 1 .. n
    BY <1>5, QueueFacts
  <2>3. /\ reverts' \in Seq(Entry) /\ reverts' # <<>> /\ DOMAIN reverts' = 1 .. (n + 1)
        /\ reverts'[n + 1] = e /\ \A i \in 1 .. n : reverts'[i] = reverts[i]
        /\ reverts # <<>> => Head(reverts') = Head(reverts)
    BY <1>5, <1>8, <2>1, <2>2, QueueFacts
  <2>4. n + 1 \in 1 .. (n + 1) /\ (\A i \in 1 .. n : i \in 1 .. (n + 1))
        /\ \A i \in 1 .. (n + 1) : i = n + 1 \/ i \in 1 .. n
    OBVIOUS
  <2>5. \A q \in Parameter : server'[q] \in Accepted[q] \/ \E i \in DOMAIN reverts' : reverts'[i].name = q
    <3> SUFFICES ASSUME NEW q \in Parameter, server'[q] \notin Accepted[q]
                 PROVE  \E i \in DOMAIN reverts' : reverts'[i].name = q
      OBVIOUS
    <3>1. CASE q = p
      BY <2>1, <2>3, <2>4, <3>1
    <3>2. CASE q # p
      <4>1. PICK i \in DOMAIN reverts : reverts[i].name = q
        BY <1>4, <3>2
      <4> QED
        BY <2>2, <2>3, <2>4, <4>1
    <3> QED
      BY <3>1, <3>2
  <2>6. \A q \in Parameter : server'[q] \in Accepted[q] \/ <<q, server'[q]>> \in Settings
    BY <1>1, <1>4
  <2>7. \A i \in DOMAIN reverts' : reverts'[i].to \in Accepted[reverts'[i].name]
    BY <2>1, <2>2, <2>3, <2>4
  <2>8. \A q \in selfSet' : setting' /\ q = Head(reverts').name
    BY <1>3, <2>3
  <2> QED
    BY <1>3, <1>4, <1>8, <2>3, <2>5, <2>6, <2>7, <2>8 DEF Entry
<1> QED
  BY <1>2, <1>6, <1>7, <1>8 DEF SetProfile, ProfileFunction

LEMMA AnnounceKeeps ==
  ASSUME ParamInv, Announce
  PROVE  ParamInv'
<1> USE DEF ParamInv, ParamTypeOK, RevertInv
<1>1. reverts \in Seq(Entry) /\ reverts # <<>> /\ selfSet' = selfSet \union {Head(reverts).name}
      /\ setting' /\ setting' = TRUE /\ UNCHANGED <<declared, server, chosen, reverts, terminated>>
  BY DEF Announce, Entry
<1>2. Head(reverts) \in Entry
  BY <1>1, QueueFacts
<1>3. Head(reverts).name \in Parameter
  BY <1>2 DEF Entry
<1>4. selfSet' \subseteq Parameter /\ \A q \in selfSet' : setting' /\ q = Head(reverts').name
  BY <1>1, <1>3 DEF Announce
<1> QED
  BY <1>1, <1>4

LEMMA SetBackKeeps ==
  ASSUME ParamInv, SetBack
  PROVE  ParamInv'
<1> USE DEF ParamInv, ParamTypeOK, RevertInv
<1>1. reverts \in Seq(Entry) /\ reverts # <<>>
  BY DEF SetBack, Entry
<1>2. PICK e \in Entry : e = Head(reverts) /\ e = reverts[1] /\ 1 \in DOMAIN reverts
  BY <1>1, QueueFacts
<1>3. e.name \in Parameter /\ e.to \in Accepted[e.name]
  BY <1>2 DEF Entry
<1>4. PICK p \in Parameter, v \in Accepted[e.name] : p = e.name /\ v = e.to
  BY <1>3
<1>5. /\ server' = [server EXCEPT ![p] = v] /\ selfSet' = selfSet \ {p}
      /\ chosen' = IF p \in selfSet THEN chosen ELSE [chosen EXCEPT ![p] = v]
      /\ reverts' = Tail(reverts) /\ setting' = FALSE /\ UNCHANGED <<declared, terminated>>
  BY <1>2, <1>4 DEF SetBack
<1>6. /\ DOMAIN server' = Parameter /\ server'[p] = v
      /\ \A q \in Parameter \ {p} : server'[q] = server[q]
  BY <1>5
<1>7. DOMAIN chosen' = Parameter /\ \A q \in Parameter : chosen'[q] \in Accepted[q]
  BY <1>4, <1>5
<1>8. selfSet' = {}
  BY <1>2, <1>4, <1>5
<1>9. /\ reverts' \in Seq(Entry)
      /\ \A i \in DOMAIN reverts' : i + 1 \in DOMAIN reverts /\ reverts'[i] = reverts[i + 1]
      /\ \A i \in DOMAIN reverts : i = 1 \/ (i - 1 \in DOMAIN reverts' /\ reverts'[i - 1] = reverts[i])
  BY <1>1, <1>5, QueueFacts
<1>10. \A i \in DOMAIN reverts' : reverts'[i].to \in Accepted[reverts'[i].name]
  BY <1>9
<1>11. \A q \in Parameter : server'[q] \in Accepted[q] \/ \E i \in DOMAIN reverts' : reverts'[i].name = q
  <2> SUFFICES ASSUME NEW q \in Parameter, server'[q] \notin Accepted[q]
               PROVE  \E i \in DOMAIN reverts' : reverts'[i].name = q
    OBVIOUS
  <2>1. q # p
    BY <1>4, <1>6
  <2>2. PICK i \in DOMAIN reverts : reverts[i].name = q
    BY <1>6, <2>1
  <2>3. i # 1
    BY <1>2, <1>4, <2>1, <2>2
  <2> QED
    BY <1>9, <2>2, <2>3
<1>12. \A q \in Parameter : server'[q] \in Accepted[q] \/ <<q, server'[q]>> \in Settings
  BY <1>4, <1>6
<1> QED
  BY <1>5, <1>6, <1>7, <1>8, <1>9, <1>10, <1>11, <1>12 DEF Entry

LEMMA LaunchKeeps ==
  ASSUME ParamInv, UNCHANGED <<reverts, setting, selfSet>>, server' = Launch, chosen' = Launch,
         declared' \in BOOLEAN, terminated' \in BOOLEAN
  PROVE  ParamInv'
BY LaunchFacts DEF ParamInv, ParamTypeOK, RevertInv

(* The reverts of one queue come behind those of another. *)
LEMMA JoinFacts ==
  ASSUME NEW q \in Seq(Entry), NEW r \in Seq(Entry)
  PROVE  /\ q \o r \in Seq(Entry)
         /\ q # <<>> => q \o r # <<>> /\ Head(q \o r) = Head(q)
         /\ \A i \in DOMAIN r : \E j \in DOMAIN (q \o r) : (q \o r)[j] = r[i]
         /\ \A j \in DOMAIN (q \o r) : \/ \E i \in DOMAIN q : (q \o r)[j] = q[i]
                                       \/ \E i \in DOMAIN r : (q \o r)[j] = r[i]
<1>1. PICK m \in Nat, n \in Nat : m = Len(q) /\ n = Len(r)
  BY LenProperties
<1>2. /\ q \o r \in Seq(Entry) /\ Len(q \o r) = m + n
      /\ \A i \in 1 .. m + n : (q \o r)[i] = IF i <= m THEN q[i] ELSE r[i - m]
  BY <1>1, ConcatProperties
<1>3. DOMAIN (q \o r) = 1 .. m + n /\ DOMAIN q = 1 .. m /\ DOMAIN r = 1 .. n
  BY <1>1, <1>2, LenProperties
<1>4. ASSUME q # <<>> PROVE q \o r # <<>> /\ Head(q \o r) = Head(q)
  <2>1. m # 0
    BY <1>1, <1>4, EmptySeq
  <2>2. m + n # 0 /\ 1 \in 1 .. m + n /\ 1 <= m
    BY <2>1
  <2>3. q \o r # <<>>
    BY <1>2, <2>2, EmptySeq
  <2>4. Head(q \o r) = (q \o r)[1] /\ Head(q) = q[1]
    BY <1>2, <1>4, <2>3, HeadTailProperties
  <2> QED
    BY <1>2, <2>2, <2>3, <2>4
<1>5. ASSUME NEW i \in 1 .. n PROVE \E j \in 1 .. m + n : (q \o r)[j] = r[i]
  <2>1. PICK j \in 1 .. m + n : j = m + i /\ ~(j <= m) /\ j - m = i
    OBVIOUS
  <2> QED
    BY <1>2, <2>1
<1>6. ASSUME NEW j \in 1 .. m + n
      PROVE  (\E i \in 1 .. m : (q \o r)[j] = q[i]) \/ (\E i \in 1 .. n : (q \o r)[j] = r[i])
  <2>1. CASE j <= m
    <3>1. j \in 1 .. m
      BY <2>1
    <3> QED
      BY <1>2, <2>1, <3>1
  <2>2. CASE ~(j <= m)
    <3>1. PICK i \in 1 .. n : i = j - m
      BY <2>2
    <3> QED
      BY <1>2, <2>2, <3>1
  <2> QED
    BY <2>1, <2>2
<1> QED
  BY <1>2, <1>3, <1>4, <1>5, <1>6

(* A value given at launch that no profile has is queued to be set back. *)
LEMMA DeclareKeeps ==
  ASSUME ParamInv, Declare, terminated' \in BOOLEAN
  PROVE  ParamInv'
<1> DEFINE refused == {p \in Parameter : Given[p] \notin Accepted[p]}
<1>1. PICK turn \in InTurn(refused) :
        reverts' = reverts \o [i \in DOMAIN turn |-> [name |-> turn[i], to |-> Launch[turn[i]]]]
  BY DEF Declare
<1> DEFINE queue == [i \in DOMAIN turn |-> [name |-> turn[i], to |-> Launch[turn[i]]]]
<1>2. PICK n \in Nat : turn \in [1 .. n -> refused]
  <2>1. turn \in UNION {[1 .. n -> refused] : n \in 0 .. 4}
    BY DEF InTurn
  <2>2. PICK n \in 0 .. 4 : turn \in [1 .. n -> refused]
    BY <2>1
  <2>3. n \in Nat
    OBVIOUS
  <2> QED
    BY <2>2, <2>3
<1>3. \A p \in refused : \E i \in DOMAIN turn : turn[i] = p
  BY DEF InTurn
<1>4. \A i \in 1 .. n : turn[i] \in Parameter /\ [name |-> turn[i], to |-> Launch[turn[i]]] \in Entry
  BY <1>2, LaunchFacts, AcceptedFacts
<1>5. queue \in [1 .. n -> Entry] /\ DOMAIN queue = DOMAIN turn
  BY <1>2, <1>4
<1>6. queue \in Seq(Entry)
  BY <1>5, SeqDef
<1>7. /\ \A p \in refused : \E i \in DOMAIN queue : queue[i].name = p
      /\ \A i \in DOMAIN queue : queue[i].to \in Accepted[queue[i].name]
  BY <1>2, <1>3, <1>4, <1>5, LaunchFacts
<1>8. reverts \in Seq(Entry) /\ reverts' = reverts \o queue
  BY <1>1 DEF ParamInv, RevertInv
<1> HIDE DEF queue
<1>9. /\ reverts' \in Seq(Entry)
      /\ reverts # <<>> => reverts' # <<>> /\ Head(reverts') = Head(reverts)
      /\ \A p \in refused : \E j \in DOMAIN reverts' : reverts'[j].name = p
  <2> HIDE DEF refused
  <2>1. \A i \in DOMAIN queue : \E j \in DOMAIN reverts' : reverts'[j] = queue[i]
    BY <1>6, <1>8, JoinFacts
  <2>2. \A p \in refused : \E j \in DOMAIN reverts' : reverts'[j].name = p
    BY <1>7, <2>1
  <2> QED
    BY <1>6, <1>8, <2>2, JoinFacts
<1>10. /\ declared' = TRUE /\ server' = Given /\ UNCHANGED <<setting, selfSet>>
       /\ chosen' = [p \in Parameter |-> IF Given[p] \in Accepted[p] THEN Given[p] ELSE Launch[p]]
  BY DEF Declare
<1>11. RevertInv'
  BY <1>9, <1>10 DEF ParamInv, RevertInv
<1>12. DOMAIN chosen' = Parameter /\ \A p \in Parameter : chosen'[p] \in Accepted[p]
  BY <1>10, LaunchFacts
<1>13. /\ DOMAIN server' = Parameter
       /\ \A p \in Parameter : server'[p] \in Accepted[p] \/ <<p, server'[p]>> \in Settings
  BY <1>10, LaunchFacts, ParameterAssumption DEF Given
<1>14. \A i \in DOMAIN reverts' : reverts'[i].to \in Accepted[reverts'[i].name]
  <2> SUFFICES ASSUME NEW i \in DOMAIN reverts' PROVE reverts'[i].to \in Accepted[reverts'[i].name]
    OBVIOUS
  <2>1. CASE \E k \in DOMAIN reverts : reverts'[i] = reverts[k]
    BY <2>1 DEF ParamInv, ParamTypeOK
  <2>2. CASE \E k \in DOMAIN queue : reverts'[i] = queue[k]
    BY <1>7, <2>2
  <2> QED
    BY <1>6, <1>8, <2>1, <2>2, JoinFacts
<1> QED
  BY <1>10, <1>11, <1>12, <1>13, <1>14 DEF ParamInv, ParamTypeOK

LEMMA TerminatedKept ==
  ASSUME terminated \in BOOLEAN, [Next]_cameraVars
  PROVE  terminated' \in BOOLEAN
BY DEF Next, cameraVars, User, Threads, Update, UpdateFails, ServiceResets,
       Unplug, ErrorResets, Plug, Query, QueryEnds, QueryFinds, QueryResets, QueryRegisters,
       Callback, TakeRemoved, Removed, TakeAdded, Start, CloseNode, NodeUnderfoot, Started,
       BuildNode, StartFails, SameNode, ClosedUnderfoot,
       SetEnable, SetAlign, SetStreamProfile, SetProfile, Flag, Revise, Announce, SetBack,
       SetBackThrows, Wake, EnterUpdate, StopSensor, StartSensor, MonitorDone, MonitorFails,
       StartThrows, ClearFlags, ResetRequest, ResetStop, ResetDevice, Construct, Declare,
       SetupDone, SetupFails, Close, Closed, Undeclare

LEMMA ParamStep ==
  ASSUME ParamInv, [Next]_cameraVars
  PROVE  ParamInv'
<1>1. NodeStep /\ terminated' \in BOOLEAN
  BY Steps, TerminatedKept DEF ParamInv, ParamTypeOK
<1>2. CASE UNCHANGED paramVars
  BY <1>1, <1>2 DEF paramVars, ParamInv, ParamTypeOK, RevertInv
<1>3. CASE \E change \in Settings : SetProfile(change[1], change[2])
  BY <1>3, SetProfileKeeps
<1> QED
  BY <1>1, <1>2, <1>3, ParamMoves, LaunchKeeps, DeclareKeeps, AnnounceKeeps, SetBackKeeps

-----------------------------------------------------------------------------
(* The types of the node and of the factory.                               *)
LEMMA ReviseFacts ==
  ASSUME ParamInv, Revise
  PROVE  /\ reprofiled' = reprofiled /\ chosen' = chosen
         \/ \E p \in Parameter : /\ chosen' # chosen /\ p[2] \in Stream
                                 /\ reprofiled' = reprofiled \union {p[2]}
                                 /\ \A q \in Parameter \ {p} : chosen'[q] = chosen[q]
<1>1. CASE chosen' = chosen
  BY <1>1 DEF Revise
<1>2. CASE chosen' # chosen
  <2>1. SetBack
    BY <1>2 DEF Revise, Announce, SetBackThrows, paramVars
  <2>2. reverts \in Seq(Entry) /\ reverts # <<>>
    BY <2>1 DEF ParamInv, RevertInv, SetBack
  <2>3. PICK e \in Entry : e = Head(reverts)
    BY <2>2, QueueFacts
  <2>4. PICK p \in Parameter : p = e.name
    BY <2>3 DEF Entry
  <2>5. p[2] \in Stream
    BY DEF Parameter
  <2>6. chosen' = [chosen EXCEPT ![p] = e.to] /\ DOMAIN chosen = Parameter
    BY <1>2, <2>1, <2>3, <2>4 DEF SetBack, ParamInv, ParamTypeOK
  <2>7. reprofiled' = reprofiled \union {p[2]}
    BY <1>2, <2>3, <2>4 DEF Revise
  <2> QED
    BY <1>2, <2>5, <2>6, <2>7
<1> QED
  BY <1>1, <1>2

LEMMA SetFacts ==
  ASSUME ParamInv, NEW change \in Settings, SetStreamProfile(change[1], change[2])
  PROVE  /\ reprofiled' = reprofiled /\ chosen' = chosen
         \/ \E p \in Parameter : /\ chosen' # chosen /\ p[2] \in Stream
                                 /\ reprofiled' = reprofiled \union {p[2]}
                                 /\ \A q \in Parameter \ {p} : chosen'[q] = chosen[q]
<1>1. PICK p, v : p = change[1] /\ v = change[2]
  OBVIOUS
<1>0. p \in Parameter
  BY <1>1, ParameterAssumption
<1>2. p[2] \in Stream
  BY <1>0 DEF Parameter
<1>3. chosen' = chosen \/ chosen' = [chosen EXCEPT ![p] = v]
  BY <1>1 DEF SetStreamProfile, SetProfile, ProfileFunction
<1>4. DOMAIN chosen = Parameter
  BY DEF ParamInv, ParamTypeOK
<1> QED
  BY <1>0, <1>1, <1>2, <1>3, <1>4 DEF SetStreamProfile

LEMMA NodeTypeStep ==
  ASSUME NodeTypeOK, RevertInv, ParamTypeOK', NodeStep
  PROVE  NodeTypeOK'
<1> USE DEF NodeTypeOK
<1>0. NumSensors \in Nat \ {0} /\ \A st \in Stream : SensorOf[st] \in 1 .. NumSensors
  BY ProfileFacts
<1>1. ASSUME NEW st \in Stream, NEW on \in BOOLEAN, SetEnable(st, on) PROVE NodeTypeOK'
  BY <1>1 DEF SetEnable, Slip
<1>2. ASSUME NEW on \in BOOLEAN, SetAlign(on) PROVE NodeTypeOK'
  BY <1>2 DEF SetAlign, updateVars, streamVars
<1>3. ASSUME NEW change \in Settings, SetStreamProfile(change[1], change[2]) PROVE NodeTypeOK'
  <2>1. reprofiled' \subseteq Stream
    BY <1>3, SetFacts DEF ParamInv
  <2> QED
    BY <1>3, <2>1 DEF SetStreamProfile, Slip
<1>4. CASE Revise
  <2>1. reprofiled' \subseteq Stream
    BY <1>4, ReviseFacts DEF ParamInv
  <2> QED
    BY <1>4, <2>1 DEF Revise, Slip
<1>5. CASE Flag
  BY <1>5 DEF Flag, updateVars, streamVars
<1>6. CASE Wake
  BY <1>6 DEF Wake, flagVars, streamVars
<1>7. CASE EnterUpdate
  <2>1. 1 \in 0 .. 2 * NumSensors + 1
    BY <1>0
  <2> QED
    BY <1>7, <2>1 DEF EnterUpdate, flagVars, streamVars
<1>8. CASE StopSensor
  <2>1. at' \in 0 .. 2 * NumSensors + 1
    BY <1>0, <1>8 DEF StopSensor, Sensor
  <2>2. active' \in [Stream -> {0} \union DOMAIN Supported]
    BY <1>8 DEF StopSensor
  <2>3. publishers' \subseteq Stream /\ alignedPubs' \subseteq Aligned
    BY <1>8 DEF StopSensor
  <2> QED
    BY <1>8, <2>1, <2>2, <2>3 DEF StopSensor, flagVars
<1>9. ASSUME NEW s, NEW left \in SUBSET Stream, Publishing(s, left)
      PROVE  publishers' \subseteq Stream /\ alignedPubs' \subseteq Aligned /\ slipped' \subseteq Stream
  BY <1>9 DEF Publishing, WantedOf, StreamsOf
<1>10. CASE StartSensor
  <2>1. at' \in 0 .. 2 * NumSensors + 1
    BY <1>0, <1>10 DEF StartSensor, Sensor
  <2>2. \A st \in Stream : Wanted(st) \in {0} \union DOMAIN Supported
    BY WantedFacts DEF ParamTypeOK
  <2>3. active' \in [Stream -> {0} \union DOMAIN Supported]
    BY <1>10, <2>2 DEF StartSensor
  <2>4. publishers' \subseteq Stream /\ alignedPubs' \subseteq Aligned /\ slipped' \subseteq Stream
    BY <1>9, <1>10 DEF StartSensor
  <2> QED
    BY <1>10, <2>1, <2>3, <2>4 DEF StartSensor, flagVars
<1>11. CASE MonitorFails \/ SetupFails
  <2>1. publishers' \subseteq Stream /\ alignedPubs' \subseteq Aligned /\ slipped' \subseteq Stream
    BY <1>9, <1>11 DEF StartThrows, MonitorFails, SetupFails
  <2>2. 0 \in 0 .. 2 * NumSensors + 1
    BY <1>0
  <2>3. active' = active /\ failed' = TRUE /\ at' \in 0 .. 2 * NumSensors + 1 /\ updater' = "none"
    BY <1>11, <2>2 DEF StartThrows, LeaveUpdate, MonitorFails, SetupFails
  <2> QED
    BY <1>11, <2>1, <2>3 DEF MonitorFails, ClearFlags, SetupFails, flagVars
<1>12. CASE MonitorDone \/ SetupDone
  <2>1. 0 \in 0 .. 2 * NumSensors + 1
    BY <1>0
  <2> QED
    BY <1>12, <2>1 DEF MonitorDone, SetupDone, LeaveUpdate, ClearFlags, flagVars, streamVars
<1>13. CASE ResetRequest \/ ResetStop \/ ResetDevice
  <2>1. 1 \in 0 .. ResetDone /\ ResetDone \in 0 .. ResetDone
    BY <1>0 DEF ResetDone
  <2>2. reset \in Sensor => reset + 1 \in 0 .. ResetDone
    BY <1>0 DEF ResetDone, Sensor
  <2> QED
    BY <1>13, <2>1, <2>2 DEF ResetRequest, ResetStop, ResetDevice, updateVars, streamVars
<1>14. CASE Construct
  <2>1. enabled' \in [Stream -> BOOLEAN] /\ align' \in BOOLEAN
    BY <1>14, CameraAssumption DEF Construct
  <2>2. profileChanged' \in BOOLEAN /\ alignChanged' \in BOOLEAN
    BY <1>14, CameraAssumption DEF Construct
  <2> QED
    BY <1>14, <2>1, <2>2 DEF Construct, updateVars, streamVars
<1>16. CASE Close \/ UNCHANGED <<nodeVars, paramVars>>
  BY <1>16 DEF Close, nodeVars, flagVars, updateVars, streamVars
<1>15. CASE Closed
  <2>1. 0 \in 0 .. ResetDone
    BY <1>0 DEF ResetDone
  <2> QED
    BY <1>15, <2>1 DEF Closed
<1> QED
  BY <1>1, <1>2, <1>3, <1>4, <1>5, <1>6, <1>7, <1>8, <1>10, <1>11, <1>12, <1>13, <1>14, <1>15,
     <1>16 DEF NodeStep

LEMMA FactoryTypeStep ==
  ASSUME TypeOK, NodeTypeOK', [Next]_cameraVars
  PROVE  TypeOK'
<1> USE DEF TypeOK
<1>1. ASSUME NEW what \in {"removed", "added"}, Report(what) PROVE events' \in Seq({"removed", "added"})
  BY <1>1, AppendProperties DEF Report
<1>2. ASSUME NEW what, Event(what) PROVE events' \in Seq({"removed", "added"})
  BY <1>2, HeadTailProperties DEF Event
<1>3. Input => inputs' \in 0 .. MaxInputs
  BY FactoryAssumption DEF Input
<1>4. CASE User \/ UpdateFails
  BY <1>3, <1>4 DEF User, UpdateFails, busVars
<1>5. CASE Threads \/ CloseNode \/ NodeUnderfoot \/ UNCHANGED cameraVars
  BY <1>5 DEF Threads, CloseNode, NodeUnderfoot, cameraVars, factoryVars, busVars
<1>6. CASE Unplug \/ ErrorResets \/ ServiceResets \/ Plug
  <2>1. CASE Unplug
    BY <1>1, <1>3, <2>1 DEF Unplug, Leave
  <2>2. CASE ErrorResets
    BY <1>1, <1>3, <2>2 DEF ErrorResets, Leave
  <2>3. CASE ServiceResets
    BY <1>1, <2>3 DEF ServiceResets, Leave, busVars
  <2>4. CASE Plug
    BY <1>1, <2>4 DEF Plug
  <2> QED
    BY <1>6, <2>1, <2>2, <2>3, <2>4
<1>7. CASE Query
  BY <1>1, <1>7 DEF Query, QueryEnds, QueryFinds, QueryResets, QueryRegisters, Leave, busVars
<1>8. CASE Callback
  BY <1>2, <1>8 DEF Callback, TakeRemoved, Removed, TakeAdded, busVars
<1>9. CASE Started \/ \E thread \in {"query", "callback"} : BuildNode(thread)
  BY <1>9 DEF Started, BuildNode, StartReturns, busVars
<1>10. CASE StartFails
  BY <1>1, <1>3, <1>10 DEF StartFails, StartReturns, Leave, busVars
<1> QED
  BY <1>4, <1>5, <1>6, <1>7, <1>8, <1>9, <1>10 DEF Next, Start

LEMMA TypesStep ==
  ASSUME TypeOK, RevertInv, [Next]_cameraVars
  PROVE  TypeOK' /\ RevertInv'
<1>1. ParamInv
  BY DEF ParamInv, TypeOK, NodeTypeOK
<1>2. ParamTypeOK' /\ RevertInv'
  BY <1>1, ParamStep DEF ParamInv
<1>3. NodeTypeOK'
  BY <1>2, Steps, NodeTypeStep DEF TypeOK
<1> QED
  BY <1>2, <1>3, FactoryTypeStep

LEMMA TypesInit ==
  ASSUME Init
  PROVE  TypeOK /\ RevertInv
<1>1. NumSensors \in Nat \ {0} /\ ResetDone \in Nat
  BY ProfileFacts DEF ResetDone
<1>2. 0 \in 0 .. ResetDone /\ 0 \in 0 .. 2 * NumSensors + 1 /\ MaxInputs \in 0 .. MaxInputs
  BY <1>1, FactoryAssumption
<1>3. <<>> \in Seq(Entry) /\ <<>> \in Seq({"removed", "added"})
  BY EmptySeq
<1>4. ParamTypeOK /\ RevertInv
  <2>1. Len(<<>>) = 0 /\ DOMAIN <<>> = 1 .. Len(<<>>)
    BY <1>3, EmptySeq, LenProperties
  <2>2. \A i : i \notin 1 .. 0
    OBVIOUS
  <2> QED
    BY <1>3, <2>1, <2>2, LaunchFacts DEF Init, NodeInit, ParamInit, ParamTypeOK, RevertInv
<1>5. NodeTypeOK
  BY <1>2, <1>4 DEF Init, NodeInit, NodeTypeOK
<1> QED
  BY <1>2, <1>3, <1>4, <1>5, FactoryAssumption DEF Init, TypeOK

(* Every variable keeps its range: what a stream is open with is a profile *)
(* of the device, and what is chosen for it a value that is accepted.      *)
THEOREM TypeCorrect == Spec => []TypeOK
<1>1. TypeOK /\ RevertInv /\ [Next]_cameraVars => (TypeOK /\ RevertInv)'
  BY TypesStep
<1> QED
  BY <1>1, TypesInit, PTL DEF Spec

(* A value that no profile has is never left in the parameter server, even *)
(* when a user's set uses up the mark of the thread that sets another back.*)
THEOREM InvalidIsReverted == Spec => []InvalidReverted
<1>1. TypeOK /\ RevertInv /\ [Next]_cameraVars => (TypeOK /\ RevertInv)'
  BY TypesStep
<1>2. RevertInv => InvalidReverted
  BY DEF RevertInv, InvalidReverted
<1> QED
  BY <1>1, <1>2, TypesInit, PTL DEF Spec

-----------------------------------------------------------------------------
(* What is served.  A stream is wanted as before unless a parameter of its *)
(* own changes.                                                            *)
LEMMA WantedSame ==
  ASSUME NEW st \in Stream, enabled'[st] = enabled[st],
         chosen'[<<"profile", st>>] = chosen[<<"profile", st>>],
         chosen'[<<"format", st>>] = chosen[<<"format", st>>]
  PROVE  Wanted(st)' = Wanted(st)
BY DEF Wanted

(* A change of the parameters while the node is up: a stream that is no    *)
(* longer wanted in the middle of an update has slipped.                   *)
LEMMA SlipKeepsTopics ==
  ASSUME ThreadInv, TopicInv, Slip, NumSensors \in Nat, at \in Nat,
         UNCHANGED <<active, publishers, alignedPubs, align, alignChanged, updater, at>>,
         caller' = caller \/ (caller = "none")
  PROVE  TopicInv'
<1> SUFFICES ASSUME NEW st \in Stream, active[st] # 0, st \notin slipped'
             PROVE  /\ st \in publishers \/ (Between(st) /\ alignChanged)
                    /\ align /\ st \in Aligned =>
                         \/ st \in alignedPubs \/ caller' = "align"
                         \/ alignChanged /\ ~(updater = "monitor" /\ Over(st))
                    /\ Between(st) => Wanted(st)' # 0
  BY DEF TopicInv, Between, Over
<1>1. st \notin slipped /\ (updater # "none" /\ Wanted(st) # 0 => Wanted(st)' # 0)
  BY DEF Slip
<1>2. Between(st) => updater # "none"
  BY ProfileFacts DEF Between, ThreadInv
<1> QED
  BY <1>1, <1>2 DEF TopicInv

LEMMA EnableKeeps ==
  ASSUME ServiceInv, NumSensors \in Nat, at \in Nat, NEW st \in Stream, NEW on, SetEnable(st, on)
  PROVE  ServiceInv'
<1>1. /\ UNCHANGED <<active, publishers, alignedPubs, align, alignChanged, updater, at, phase,
                     monitor, declared, profileChanged>>
      /\ caller = "none" /\ caller' = "profile" /\ Slip
  BY DEF SetEnable, Free, paramVars
<1>2. TopicInv'
  BY <1>1, SlipKeepsTopics DEF ServiceInv
<1> QED
  BY <1>1, <1>2 DEF ServiceInv, ThreadInv, EnabledInv, SensorInv, WantedInv, Excused

LEMMA AlignKeeps ==
  ASSUME ServiceInv, NEW on, SetAlign(on)
  PROVE  ServiceInv'
<1> USE DEF ServiceInv
<1>1. /\ UNCHANGED <<active, publishers, alignedPubs, slipped, alignChanged, updater, at, phase,
                     monitor, declared, profileChanged, enabled, chosen, reset, reprofiled, failed>>
      /\ caller = "none" /\ caller' = "align"
  BY DEF SetAlign, Free, paramVars, updateVars, streamVars
<1>2. \A st \in Stream : Wanted(st)' = Wanted(st)
  BY <1>1 DEF Wanted
<1>3. Excused' <=> Excused
  BY <1>1 DEF Excused
<1>4. TopicInv'
  BY <1>1, <1>2 DEF TopicInv, Between, Over
<1>5. SensorInv'
  BY <1>1, <1>2, <1>3 DEF SensorInv, StreamsOf
<1>6. WantedInv'
  BY <1>1, <1>2, <1>3 DEF WantedInv, Between, Over
<1> QED
  BY <1>1, <1>4, <1>5, <1>6 DEF ThreadInv, EnabledInv

(* A new profile or format, from a user or from the thread that sets one   *)
(* back.                                                                   *)
LEMMA ChoiceKeeps ==
  ASSUME ServiceInv, NumSensors \in Nat, at \in Nat, Slip,
         UNCHANGED <<active, publishers, alignedPubs, align, alignChanged, updater, at, phase,
                     monitor, declared, profileChanged, enabled, caller, reset, failed>>,
         \/ reprofiled' = reprofiled /\ chosen' = chosen
         \/ \E p \in Parameter : /\ chosen' # chosen /\ p[2] \in Stream
                                 /\ reprofiled' = reprofiled \union {p[2]}
                                 /\ \A q \in Parameter \ {p} : chosen'[q] = chosen[q]
  PROVE  ServiceInv'
<1> USE DEF ServiceInv
<1>1. \A st \in Stream : st \in reprofiled' \/ (Wanted(st)' = Wanted(st) /\ st \notin reprofiled)
  <2>1. CASE reprofiled' = reprofiled /\ chosen' = chosen
    BY <2>1 DEF Wanted
  <2>2. ASSUME NEW p \in Parameter, p[2] \in Stream, reprofiled' = reprofiled \union {p[2]},
               \A q \in Parameter \ {p} : chosen'[q] = chosen[q],
               NEW st \in Stream, st \notin reprofiled'
        PROVE  Wanted(st)' = Wanted(st) /\ st \notin reprofiled
    <3>1. st # p[2] /\ st \notin reprofiled
      BY <2>2
    <3>2. <<"profile", st>> \in Parameter \ {p} /\ <<"format", st>> \in Parameter \ {p}
      BY <3>1 DEF Parameter
    <3> QED
      BY <2>2, <3>1, <3>2, WantedSame
  <2> QED
    BY <2>1, <2>2
<1>2. \A st \in reprofiled : st \in reprofiled'
  OBVIOUS
<1>3. Excused' <=> Excused
  BY DEF Excused
<1>4. TopicInv'
  BY SlipKeepsTopics
<1>5. SensorInv'
  <2> SUFFICES ASSUME NEW s \in Sensor, s < at, at <= s + NumSensors, ~Excused
               PROVE  \/ \A st \in StreamsOf(s) : active[st] = 0
                      \/ \A st \in StreamsOf(s) : active[st] = Wanted(st)' \/ st \in reprofiled'
    BY <1>3 DEF SensorInv, StreamsOf
  <2> QED
    BY <1>1, <1>2 DEF SensorInv, StreamsOf
<1>6. WantedInv'
  BY <1>1, <1>2, <1>3 DEF WantedInv, Between, Over
<1> QED
  BY <1>4, <1>5, <1>6 DEF ThreadInv, EnabledInv

(* A callback sets its flag, which no update under way has seen. *)
LEMMA FlagKeeps ==
  ASSUME ServiceInv, Flag
  PROVE  ServiceInv'
<1> USE DEF ServiceInv
<1>1. /\ UNCHANGED <<active, publishers, alignedPubs, slipped, updater, at, phase, align,
                     monitor, declared, enabled, chosen, reset, reprofiled, failed>>
      /\ updater # "monitor" /\ caller' = "none"
      /\ profileChanged' = (profileChanged \/ caller = "profile")
      /\ alignChanged' = (alignChanged \/ caller = "align")
  BY DEF Flag, paramVars, updateVars, streamVars, ThreadInv
<1>2. \A st \in Stream : Wanted(st)' = Wanted(st)
  BY <1>1 DEF Wanted
<1>3. Excused => Excused'
  BY <1>1 DEF Excused
<1>4. TopicInv'
  BY <1>1, <1>2 DEF TopicInv, Between, Over
<1>5. SensorInv'
  BY <1>1, <1>2, <1>3 DEF SensorInv, StreamsOf
<1>6. WantedInv'
  BY <1>1, <1>2, <1>3 DEF WantedInv, Between, Over
<1> QED
  BY <1>1, <1>4, <1>5, <1>6 DEF ThreadInv, EnabledInv

(* The steps that leave what is served alone. *)
LEMMA OtherKeeps ==
  ASSUME ServiceInv,
         Wake \/ ResetRequest \/ ResetDevice \/ Close \/ UNCHANGED <<nodeVars, paramVars>>
  PROVE  ServiceInv'
<1> USE DEF ServiceInv
<1>1. UNCHANGED <<active, publishers, alignedPubs, slipped, updater, at, align, alignChanged,
                  profileChanged, caller, declared, enabled, chosen, reprofiled, failed>>
  BY DEF Wake, ResetRequest, ResetDevice, Close, nodeVars, flagVars, paramVars, updateVars, streamVars
<1>2. reset' = reset \/ reset' # 0
  BY ProfileFacts
     DEF Wake, ResetRequest, ResetDevice, ResetDone, Close, nodeVars, flagVars, paramVars
<1>3. phase' = phase \/ (phase \in {"up", "half"} /\ phase' = "closing")
  BY DEF Wake, ResetRequest, ResetDevice, Close, nodeVars
<1>4. monitor' = monitor \/ (monitor = "waits" /\ monitor' = "woken" /\ phase # "none" /\ phase' = phase)
  BY DEF Wake, ResetRequest, ResetDevice, Close, nodeVars, updateVars
<1>5. \A st \in Stream : Wanted(st)' = Wanted(st)
  BY <1>1 DEF Wanted
<1>6. Excused => Excused'
  BY <1>1, <1>2 DEF Excused
<1>7. TopicInv'
  BY <1>1, <1>5 DEF TopicInv, Between, Over
<1>8. SensorInv'
  BY <1>1, <1>5, <1>6 DEF SensorInv, StreamsOf
<1>9. WantedInv'
  BY <1>1, <1>3, <1>5, <1>6 DEF WantedInv, Between, Over
<1> QED
  BY <1>1, <1>3, <1>4, <1>7, <1>8, <1>9 DEF ThreadInv, EnabledInv

-----------------------------------------------------------------------------
(* The update.                                                             *)
LEMMA EnterKeeps ==
  ASSUME ServiceInv, EnterUpdate
  PROVE  ServiceInv'
<1> USE DEF ServiceInv
<1>1. /\ UNCHANGED <<active, publishers, alignedPubs, slipped, align, alignChanged, profileChanged,
                     caller, declared, enabled, chosen, reprofiled, failed, phase, reset>>
      /\ updater = "none" /\ at = 0 /\ at' = 1
      /\ \/ monitor = "woken" /\ monitor' = "updates" /\ updater' = "monitor"
         \/ phase = "setup" /\ monitor' = monitor /\ updater' = "setup"
  BY DEF EnterUpdate, flagVars, streamVars, paramVars, ThreadInv
<1>2. \A st \in Stream : ~Between(st) /\ ~Over(st) /\ ~Between(st)' /\ ~Over(st)' /\ ~(1 > SensorOf[st])
  BY <1>1, ProfileFacts DEF Between, Over
<1>3. \A st \in Stream : Wanted(st)' = Wanted(st)
  BY <1>1 DEF Wanted
<1>4. ThreadInv'
  BY <1>1 DEF ThreadInv
<1>5. TopicInv'
  BY <1>1, <1>2 DEF TopicInv
<1>6. EnabledInv'
  BY <1>1, <1>2 DEF EnabledInv
<1>7. SensorInv'
  BY <1>1 DEF SensorInv, Sensor
<1>8. Excused => Excused' \/ profileChanged
  BY <1>1 DEF Excused
<1>9. WantedInv'
  BY <1>1, <1>2, <1>3, <1>8 DEF WantedInv
<1> QED
  BY <1>4, <1>5, <1>6, <1>7, <1>9

(* Where the streams stand around the turn of a sensor to stop. *)
LEMMA StopPlaces ==
  ASSUME at \in Sensor, at' = at + 1, NEW st \in Stream
  PROVE  /\ Over(st)' <=> Over(st)
         /\ SensorOf[st] = at => ~Between(st) /\ ~Over(st) /\ Between(st)' /\ ~(at > SensorOf[st])
         /\ SensorOf[st] # at => /\ Between(st)' <=> Between(st)
                                 /\ at' > SensorOf[st] <=> at > SensorOf[st]
BY ProfileFacts DEF Between, Over, Sensor

LEMMA StopKeeps ==
  ASSUME ServiceInv, StopSensor
  PROVE  ServiceInv'
<1> USE DEF ServiceInv
<1> DEFINE s == at
<1>1. /\ UNCHANGED <<slipped, align, alignChanged, profileChanged, caller, declared, enabled,
                     chosen, reprofiled, failed, phase, reset, monitor, updater>>
      /\ at \in Sensor /\ at' = at + 1
  BY DEF StopSensor, flagVars, paramVars
<1>2. \A st \in Stream :
        /\ SensorOf[st] # s => active'[st] = active[st]
        /\ SensorOf[st] = s => active'[st] = 0 \/ (~Changed(s) /\ active'[st] = active[st])
  BY DEF StopSensor, StreamsOf
<1>3. \A st \in Stream : SensorOf[st] = s /\ active'[st] # 0 =>
        active[st] = active'[st] /\ active[st] = Wanted(st) /\ (alignChanged \/ (st \in publishers <=> st \in publishers'))
  BY <1>2 DEF StopSensor, Changed, StreamsOf
<1>4. \A st \in Stream : SensorOf[st] = s /\ active'[st] # 0 /\ ~alignChanged =>
        (st \in alignedPubs <=> st \in alignedPubs')
  BY <1>2 DEF StopSensor
<1>5. \A st \in Stream : SensorOf[st] # s =>
        (st \in publishers <=> st \in publishers') /\ (st \in alignedPubs <=> st \in alignedPubs')
  BY DEF StopSensor, ActiveOf, StreamsOf
<1>6. \A st \in Stream : Wanted(st)' = Wanted(st)
  BY <1>1 DEF Wanted
<1>7. ThreadInv'
  <2>1. at # 0 /\ at' # 0
    BY <1>1 DEF Sensor
  <2>2. \A st \in Stream : active[st] = 0 => active'[st] = 0
    BY <1>2
  <2> QED
    BY <1>1, <2>1, <2>2 DEF ThreadInv
<1>8. TopicInv'
  <2> SUFFICES ASSUME NEW st \in Stream, active'[st] # 0, st \notin slipped
               PROVE  /\ st \in publishers' \/ (Between(st)' /\ alignChanged)
                      /\ align /\ st \in Aligned =>
                           \/ st \in alignedPubs' \/ caller = "align"
                           \/ alignChanged /\ ~(updater = "monitor" /\ Over(st)')
                      /\ Between(st)' => Wanted(st) # 0
    BY <1>1, <1>6 DEF TopicInv
  <2>1. CASE SensorOf[st] = s
    <3>1. active[st] # 0 /\ active[st] = Wanted(st) /\ Between(st)' /\ ~Between(st) /\ ~Over(st)'
      BY <1>1, <1>3, <2>1, StopPlaces
    <3>2. st \in publishers' \/ alignChanged
      BY <1>3, <2>1, <3>1 DEF TopicInv
    <3>3. align /\ st \in Aligned => st \in alignedPubs' \/ caller = "align" \/ alignChanged
      BY <1>4, <2>1, <3>1 DEF TopicInv
    <3> QED
      BY <3>1, <3>2, <3>3
  <2>2. CASE SensorOf[st] # s
    <3>1. active[st] # 0 /\ (Between(st)' <=> Between(st)) /\ (Over(st)' <=> Over(st))
      BY <1>1, <1>2, <2>2, StopPlaces
    <3> QED
      BY <1>5, <2>2, <3>1 DEF TopicInv
  <2> QED
    BY <2>1, <2>2
<1>9. EnabledInv'
  <2> SUFFICES ASSUME NEW st \in Stream, active'[st] # 0
               PROVE  \/ enabled[st] \/ caller = "profile"
                      \/ profileChanged /\ ~(updater = "monitor" /\ at' > SensorOf[st])
    BY <1>1 DEF EnabledInv
  <2>1. CASE SensorOf[st] = s
    <3>1. Wanted(st) # 0
      BY <1>3, <2>1
    <3> QED
      BY <3>1 DEF Wanted
  <2>2. CASE SensorOf[st] # s
    BY <1>1, <1>2, <2>2, StopPlaces DEF EnabledInv
  <2> QED
    BY <2>1, <2>2
<1>10. Excused' <=> Excused
  BY <1>1 DEF Excused
<1>11. SensorInv'
  <2> SUFFICES ASSUME NEW r \in Sensor, r < at', at' <= r + NumSensors, ~Excused
               PROVE  \/ \A st \in StreamsOf(r) : active'[st] = 0
                      \/ \A st \in StreamsOf(r) : active'[st] = Wanted(st) \/ st \in reprofiled
    BY <1>1, <1>6, <1>10 DEF SensorInv, StreamsOf
  <2>1. CASE r = s
    <3>1. CASE Changed(s)
      BY <1>2, <2>1, <3>1 DEF StreamsOf
    <3>2. CASE ~Changed(s)
      BY <1>2, <2>1, <3>2 DEF StreamsOf, Changed, StopSensor
    <3> QED
      BY <3>1, <3>2
  <2>2. CASE r # s
    <3>1. r < at /\ at <= r + NumSensors
      BY <1>1, <2>2, ProfileFacts DEF Sensor
    <3>2. \A st \in StreamsOf(r) : active'[st] = active[st]
      BY <1>2, <2>2 DEF StreamsOf
    <3> QED
      BY <3>1, <3>2 DEF SensorInv
  <2> QED
    BY <2>1, <2>2
<1>12. WantedInv'
  <2> SUFFICES ASSUME NEW st \in Stream
               PROVE  \/ st \in reprofiled \/ active'[st] = Wanted(st) \/ Excused
                      \/ phase = "none" \/ Between(st)'
                      \/ ~Over(st)' /\ (failed \/ phase = "setup" \/ profileChanged)
    BY <1>1, <1>6, <1>10 DEF WantedInv
  <2>1. CASE SensorOf[st] = s
    BY <1>1, <2>1, StopPlaces
  <2>2. CASE SensorOf[st] # s
    BY <1>1, <1>2, <2>2, StopPlaces DEF WantedInv
  <2> QED
    BY <2>1, <2>2
<1> QED
  BY <1>7, <1>8, <1>9, <1>11, <1>12

(* Where the streams stand around the turn of a sensor to start. *)
LEMMA StartPlaces ==
  ASSUME NEW s \in Sensor, at = s + NumSensors, NEW st \in Stream
  PROVE  /\ at # 0 /\ at > SensorOf[st]
         /\ SensorOf[st] = s => Between(st) /\ ~Over(st)
         /\ SensorOf[st] < s => ~Between(st) /\ Over(st)
         /\ SensorOf[st] > s => Between(st) /\ ~Over(st)
         /\ at' = at + 1 => /\ at' # 0 /\ at' > SensorOf[st]
                            /\ SensorOf[st] = s => ~Between(st)' /\ Over(st)'
                            /\ SensorOf[st] # s => /\ Between(st)' <=> Between(st)
                                                   /\ Over(st)' <=> Over(st)
         /\ at' = 0 => ~Between(st)' /\ ~Over(st)'
BY ProfileFacts DEF Between, Over, Sensor

(* A sensor has as a whole been stopped, or has nothing to do: when its    *)
(* turn to start is over, its streams are as they are wanted.              *)
LEMMA TurnServes ==
  ASSUME SensorInv, NEW s \in Sensor, at = s + NumSensors, ~Excused,
         NEW st \in StreamsOf(s),
         \/ ~Restart(s) /\ active'[st] = active[st]
         \/ Restart(s) /\ active'[st] = Wanted(st)
  PROVE  st \in reprofiled \/ active'[st] = Wanted(st)
<1>1. s < at /\ at <= s + NumSensors
  BY ProfileFacts DEF Sensor
<1>2. CASE \A r \in StreamsOf(s) : active[r] = 0
  <2>1. CASE Restart(s)
    BY <2>1
  <2>2. CASE ~Restart(s)
    <3>1. ActiveOf(s) = {}
      BY <1>2 DEF ActiveOf
    <3>2. ~Changed(s) \/ WantedOf(s) = {}
      BY <2>2, <3>1 DEF Restart
    <3> QED
      BY <1>2, <2>2, <3>2 DEF Changed, WantedOf
  <2> QED
    BY <2>1, <2>2
<1>3. CASE \A r \in StreamsOf(s) : active[r] = Wanted(r) \/ r \in reprofiled
  BY <1>3
<1> QED
  BY <1>1, <1>2, <1>3 DEF SensorInv

(* What the publishers of a sensor become at its turn to start. *)
LEMMA PublishingServes ==
  ASSUME NEW s \in Sensor, NEW left \in SUBSET Stream, Publishing(s, left), NEW st \in Stream
  PROVE  /\ st \in publishers => st \in publishers'
         /\ st \in alignedPubs => st \in alignedPubs'
         /\ st \notin slipped' => st \notin left
         /\ st \in slipped /\ st \notin slipped' =>
              Wanted(st) # 0 /\ st \in publishers' /\ (align /\ st \in Aligned => st \in alignedPubs')
         /\ SensorOf[st] = s /\ Wanted(st) # 0 /\ (Changed(s) \/ alignChanged) =>
              st \in publishers' /\ (align /\ st \in Aligned => st \in alignedPubs')
BY DEF Publishing, WantedOf, StreamsOf

LEMMA StartKeeps ==
  ASSUME ServiceInv, StartSensor, at \in Nat, updater \in {"none", "setup", "monitor"}
  PROVE  ServiceInv'
<1> USE DEF ServiceInv
<1>1. /\ UNCHANGED <<align, alignChanged, profileChanged, caller, declared, enabled,
                     chosen, reprofiled, failed, phase, reset, monitor, updater>>
      /\ at' = at + 1
  BY DEF StartSensor, flagVars, paramVars
<1>2. PICK s \in Sensor : s = at - NumSensors /\ at = s + NumSensors
  BY ProfileFacts DEF StartSensor, Sensor
<1>3. /\ Publishing(s, {})
      /\ \A st \in Stream :
           /\ SensorOf[st] # s \/ ~Restart(s) => active'[st] = active[st]
           /\ SensorOf[st] = s /\ Restart(s) => active'[st] = Wanted(st)
  <2>1. active' = IF Restart(s)
                    THEN [st \in Stream |-> IF st \in StreamsOf(s) THEN Wanted(st) ELSE active[st]]
                    ELSE active
    BY <1>2 DEF StartSensor
  <2> QED
    BY <1>2, <2>1 DEF StartSensor, StreamsOf
<1>4. \A st \in Stream : Wanted(st)' = Wanted(st)
  BY <1>1 DEF Wanted
<1>5. ThreadInv'
  <2>1. at # 0 /\ at' # 0
    BY <1>1, <1>2, ProfileFacts DEF Sensor
  <2>2. phase # "none"
    BY <2>1 DEF ThreadInv
  <2> QED
    BY <1>1, <2>1, <2>2 DEF ThreadInv
<1>6. TopicInv'
  <2> SUFFICES ASSUME NEW st \in Stream, active'[st] # 0, st \notin slipped'
               PROVE  /\ st \in publishers' \/ (Between(st)' /\ alignChanged)
                      /\ align /\ st \in Aligned =>
                           \/ st \in alignedPubs' \/ caller = "align"
                           \/ alignChanged /\ ~(updater = "monitor" /\ Over(st)')
                      /\ Between(st)' => Wanted(st) # 0
    BY <1>1, <1>4 DEF TopicInv
  <2>1. CASE SensorOf[st] = s /\ Wanted(st) # 0 /\ (Changed(s) \/ alignChanged)
    BY <1>1, <1>2, <1>3, <2>1, PublishingServes, StartPlaces
  <2>2. CASE st \in slipped
    <3>1. st \in publishers' /\ (align /\ st \in Aligned => st \in alignedPubs') /\ Wanted(st) # 0
      BY <1>3, <2>2, PublishingServes
    <3> QED
      BY <3>1
  <2>3. CASE st \notin slipped /\ SensorOf[st] = s
             /\ ~(Wanted(st) # 0 /\ (Changed(s) \/ alignChanged))
    <3>1. ~Restart(s)
      BY <1>3, <2>3 DEF Restart
    <3>2. active[st] # 0 /\ Between(st) /\ ~Between(st)' /\ Over(st)'
      BY <1>1, <1>2, <1>3, <2>3, <3>1, StartPlaces
    <3>3. ~alignChanged
      BY <2>3, <3>2 DEF TopicInv
    <3> QED
      BY <1>3, <2>3, <3>2, <3>3, PublishingServes DEF TopicInv
  <2>4. CASE st \notin slipped /\ SensorOf[st] # s
    <3>1. active[st] # 0 /\ (Between(st)' <=> Between(st)) /\ (Over(st)' <=> Over(st))
      BY <1>1, <1>2, <1>3, <2>4, StartPlaces
    <3> QED
      BY <1>3, <2>4, <3>1, PublishingServes DEF TopicInv
  <2> QED
    BY <2>1, <2>2, <2>3, <2>4
<1>7. EnabledInv'
  <2> SUFFICES ASSUME NEW st \in Stream, active'[st] # 0
               PROVE  \/ enabled[st] \/ caller = "profile"
                      \/ profileChanged /\ ~(updater = "monitor" /\ at' > SensorOf[st])
    BY <1>1 DEF EnabledInv
  <2>1. CASE SensorOf[st] = s /\ Restart(s)
    BY <1>3, <2>1 DEF Wanted
  <2>2. CASE ~(SensorOf[st] = s /\ Restart(s))
    BY <1>1, <1>2, <1>3, <2>2, StartPlaces DEF EnabledInv
  <2> QED
    BY <2>1, <2>2
<1>8. Excused' <=> Excused
  BY <1>1 DEF Excused
<1>9. SensorInv'
  <2> SUFFICES ASSUME NEW r \in Sensor, r < at', at' <= r + NumSensors, ~Excused
               PROVE  \/ \A st \in StreamsOf(r) : active'[st] = 0
                      \/ \A st \in StreamsOf(r) : active'[st] = Wanted(st) \/ st \in reprofiled
    BY <1>1, <1>4, <1>8 DEF SensorInv, StreamsOf
  <2>1. r # s /\ r < at /\ at <= r + NumSensors
    BY <1>1, <1>2, ProfileFacts DEF Sensor
  <2>2. \A st \in StreamsOf(r) : active'[st] = active[st]
    BY <1>3, <2>1 DEF StreamsOf
  <2> QED
    BY <2>1, <2>2 DEF SensorInv
<1>10. WantedInv'
  <2> SUFFICES ASSUME NEW st \in Stream, ~Excused
               PROVE  \/ st \in reprofiled \/ active'[st] = Wanted(st)
                      \/ phase = "none" \/ Between(st)'
                      \/ ~Over(st)' /\ (failed \/ phase = "setup" \/ profileChanged)
    BY <1>1, <1>4, <1>8 DEF WantedInv
  <2>1. CASE SensorOf[st] = s
    <3>1. st \in StreamsOf(s)
      BY <2>1 DEF StreamsOf
    <3> QED
      BY <1>2, <1>3, <2>1, <3>1, TurnServes
  <2>2. CASE SensorOf[st] # s
    BY <1>1, <1>2, <1>3, <2>2, StartPlaces DEF WantedInv
  <2> QED
    BY <2>1, <2>2
<1> QED
  BY <1>5, <1>6, <1>7, <1>9, <1>10

(* An update that throws. *)
LEMMA ThrowKeeps ==
  ASSUME ServiceInv, MonitorFails \/ SetupFails, at \in Nat
  PROVE  ServiceInv'
<1> USE DEF ServiceInv
<1>1. /\ UNCHANGED <<active, align, caller, declared, enabled, chosen, reprofiled, reset>>
      /\ at' = 0 /\ updater' = "none" /\ failed' = TRUE
      /\ \/ /\ updater = "monitor" /\ monitor' = "waits" /\ profileChanged' = FALSE
            /\ alignChanged' = FALSE /\ phase' = phase
         \/ /\ updater = "setup" /\ monitor' = monitor /\ phase' = "half"
            /\ profileChanged' = profileChanged /\ alignChanged' = alignChanged
  BY DEF MonitorFails, SetupFails, StartThrows, LeaveUpdate, ClearFlags, flagVars, paramVars
<1>2. PICK s \in Sensor : s = at - NumSensors /\ at = s + NumSensors
  BY ProfileFacts DEF MonitorFails, SetupFails, StartThrows, Sensor
<1> DEFINE left == {st \in Stream : alignChanged /\ SensorOf[st] > s /\ active[st] # 0}
<1>3. Publishing(s, left) /\ Restart(s)
  BY <1>2 DEF MonitorFails, SetupFails, StartThrows
<1>4. \A st \in Stream : Wanted(st)' = Wanted(st)
  BY <1>1 DEF Wanted
<1>5. phase # "none" /\ phase' # "none"
  BY <1>1 DEF ThreadInv
<1>6. ThreadInv'
  BY <1>1, <1>5 DEF ThreadInv
<1>7. \A st \in Stream : at > SensorOf[st] /\ ~Between(st)' /\ ~Over(st)'
  BY <1>1, <1>2, StartPlaces
<1>8. TopicInv'
  <2> SUFFICES ASSUME NEW st \in Stream, active[st] # 0, st \notin slipped'
               PROVE  /\ st \in publishers'
                      /\ align /\ st \in Aligned =>
                           st \in alignedPubs' \/ caller = "align" \/ alignChanged'
    BY <1>1, <1>7 DEF TopicInv
  <2>1. CASE st \in slipped
    BY <1>3, <2>1, PublishingServes
  <2>2. CASE st \notin slipped
    <3>1. SensorOf[st] # s
      BY <1>3, <2>2 DEF Restart, ActiveOf, StreamsOf
    <3>2. SensorOf[st] > s => ~alignChanged
      BY <1>3, PublishingServes
    <3>3. SensorOf[st] < s \/ SensorOf[st] > s
      BY <3>1, ProfileFacts DEF Sensor
    <3>4. ~alignChanged \/ (~Between(st) /\ Over(st))
      BY <1>2, <3>2, <3>3, StartPlaces
    <3> QED
      BY <1>1, <1>3, <2>2, <3>4, PublishingServes DEF TopicInv
  <2> QED
    BY <2>1, <2>2
<1>9. EnabledInv'
  BY <1>1, <1>7 DEF EnabledInv
<1>10. SensorInv'
  BY <1>1, ProfileFacts DEF SensorInv, Sensor
<1>11. WantedInv'
  BY <1>1, <1>7 DEF WantedInv
<1> QED
  BY <1>6, <1>8, <1>9, <1>10, <1>11

(* An update that has come to its end. *)
LEMMA DoneKeeps ==
  ASSUME ServiceInv, MonitorDone \/ SetupDone
  PROVE  ServiceInv'
<1> USE DEF ServiceInv
<1>1. /\ UNCHANGED <<active, publishers, alignedPubs, slipped, align, caller, declared, enabled,
                     chosen, reprofiled, reset>>
      /\ at = 2 * NumSensors + 1 /\ at' = 0 /\ updater' = "none" /\ failed' = FALSE
      /\ \/ /\ updater = "monitor" /\ monitor' = "waits" /\ profileChanged' = FALSE
            /\ alignChanged' = FALSE /\ phase' = phase
         \/ /\ updater = "setup" /\ monitor' = monitor /\ phase' = "up"
            /\ profileChanged' = profileChanged /\ alignChanged' = alignChanged
  BY DEF MonitorDone, SetupDone, Done, LeaveUpdate, ClearFlags, flagVars, streamVars, paramVars
<1>2. \A st \in Stream : /\ Over(st) /\ ~Between(st) /\ at > SensorOf[st]
                         /\ ~Over(st)' /\ ~Between(st)'
  BY <1>1, ProfileFacts DEF Over, Between
<1>3. \A st \in Stream : Wanted(st)' = Wanted(st)
  BY <1>1 DEF Wanted
<1>4. phase # "none" /\ phase' # "none"
  BY <1>1 DEF ThreadInv
<1>5. ThreadInv'
  BY <1>1, <1>4 DEF ThreadInv
<1>6. TopicInv'
  BY <1>1, <1>2 DEF TopicInv
<1>7. EnabledInv'
  BY <1>1, <1>2 DEF EnabledInv
<1>8. SensorInv'
  BY <1>1, ProfileFacts DEF SensorInv, Sensor
<1>9. Excused => Excused'
  BY <1>1 DEF Excused
<1>10. WantedInv'
  BY <1>1, <1>2, <1>3, <1>4, <1>9 DEF WantedInv
<1> QED
  BY <1>5, <1>6, <1>7, <1>8, <1>10

(* hw_reset takes the sensors from under whatever goes on. *)
LEMMA ResetKeeps ==
  ASSUME ServiceInv, ResetStop
  PROVE  ServiceInv'
<1> USE DEF ServiceInv
<1>1. /\ UNCHANGED <<publishers, alignedPubs, slipped, align, alignChanged, profileChanged, caller,
                     declared, enabled, chosen, reprofiled, phase, monitor, updater, at, failed>>
      /\ \A st \in Stream : active'[st] \in {0, active[st]}
  BY DEF ResetStop, paramVars
<1>2. reset' # 0
  BY ProfileFacts DEF ResetStop, Sensor
<1>3. \A st \in Stream : Wanted(st)' = Wanted(st)
  BY <1>1 DEF Wanted
<1>4. Excused'
  BY <1>2 DEF Excused
<1>5. ThreadInv'
  BY <1>1 DEF ThreadInv
<1>6. TopicInv'
  BY <1>1, <1>3 DEF TopicInv, Between, Over
<1>7. EnabledInv'
  BY <1>1 DEF EnabledInv
<1> QED
  BY <1>4, <1>5, <1>6, <1>7 DEF SensorInv, WantedInv

(* A node comes and goes with nothing open. *)
LEMMA BuiltKeeps ==
  ASSUME ServiceInv, Construct \/ Closed, updater \in {"none", "setup", "monitor"}
  PROVE  ServiceInv'
<1> USE DEF ServiceInv
<1>0. monitor = "waits" /\ updater = "none" /\ at = 0
  BY DEF Construct, Closed, ThreadInv
<1>1. at' = 0 /\ updater' = "none" /\ monitor' = "waits"
      /\ \/ Construct /\ phase' = "setup" /\ declared' = TRUE
         \/ Closed /\ phase' = "none" /\ declared' = FALSE
  BY <1>0 DEF Construct, Closed, Declare, Undeclare, updateVars
<1>2. \A st \in Stream : active'[st] = 0
  <2>1. CASE Construct
    BY <2>1 DEF Construct, ThreadInv, updateVars, streamVars
  <2>2. CASE Closed
    BY <2>2 DEF Closed
  <2> QED
    BY <2>1, <2>2
<1>3. \A st \in Stream : ~Over(st)' /\ ~Between(st)'
  <2> SUFFICES ASSUME NEW st \in Stream PROVE ~Over(st)' /\ ~Between(st)'
    OBVIOUS
  <2> HIDE DEF ServiceInv
  <2>1. at' = 0 /\ NumSensors \in Nat /\ SensorOf[st] \in Nat
    BY <1>1, ProfileFacts
  <2> QED
    BY <2>1 DEF Over, Between
<1>4. SensorInv'
  BY <1>2 DEF SensorInv, StreamsOf
<1>5. WantedInv'
  BY <1>1, <1>3 DEF WantedInv
<1> QED
  BY <1>1, <1>2, <1>4, <1>5 DEF ThreadInv, TopicInv, EnabledInv

LEMMA ServiceStep ==
  ASSUME TypeOK, RevertInv, ServiceInv, [Next]_cameraVars
  PROVE  ServiceInv'
<1>1. /\ NodeStep /\ NumSensors \in Nat /\ at \in Nat /\ ParamInv
      /\ updater \in {"none", "setup", "monitor"}
  BY Steps, ProfileFacts DEF TypeOK, NodeTypeOK, ParamInv
<1>2. ASSUME NEW change \in Settings, SetStreamProfile(change[1], change[2]) PROVE ServiceInv'
  <2>1. /\ Slip
        /\ UNCHANGED <<active, publishers, alignedPubs, align, alignChanged, updater, at, phase,
                       monitor, declared, profileChanged, enabled, caller, reset, failed>>
    BY <1>2 DEF SetStreamProfile, SetProfile
  <2> QED
    BY <1>1, <1>2, <2>1, SetFacts, ChoiceKeeps
<1>3. CASE Revise
  <2>1. /\ Slip
        /\ UNCHANGED <<active, publishers, alignedPubs, align, alignChanged, updater, at, phase,
                       monitor, declared, profileChanged, enabled, caller, reset, failed>>
    BY <1>3 DEF Revise, Announce, SetBack, SetBackThrows, paramVars
  <2> QED
    BY <1>1, <1>3, <2>1, ReviseFacts, ChoiceKeeps
<1> QED
  BY <1>1, <1>2, <1>3, EnableKeeps, AlignKeeps, FlagKeeps, OtherKeeps, EnterKeeps, StopKeeps,
     StartKeeps, ThrowKeeps, DoneKeeps, ResetKeeps, BuiltKeeps DEF NodeStep

LEMMA ServiceInit ==
  ASSUME Init
  PROVE  ServiceInv
BY ProfileFacts
   DEF Init, NodeInit, ParamInit, ServiceInv, ThreadInv, TopicInv, EnabledInv, SensorInv,
       WantedInv, Between, Over, StreamsOf

(* Once the threads have settled, what is open, at which profile and with  *)
(* which topics is what the parameters ask for, whatever changed in the    *)
(* middle of which update.                                                 *)
THEOREM WantedIsServed == Spec => []ServesWanted
<1>1. CameraInv /\ [Next]_cameraVars => CameraInv'
  BY TypesStep, ServiceStep DEF CameraInv
<1>2. Init => CameraInv
  BY TypesInit, ServiceInit DEF CameraInv
<1>3. CameraInv => ServesWanted
  <2> SUFFICES ASSUME ServiceInv, Settled, ~failed, NEW st \in Stream
               PROVE  /\ active[st] # 0 => enabled[st]
                      /\ st \notin reprofiled => active[st] = Wanted(st)
                      /\ active[st] # 0 /\ st \notin slipped =>
                           st \in publishers /\ (align /\ st \in Aligned => st \in alignedPubs)
    BY DEF CameraInv, ServesWanted
  <2>1. /\ phase \in {"up", "half"} /\ reset = 0 /\ updater = "none" /\ caller = "none"
        /\ ~profileChanged /\ ~alignChanged /\ at = 0
    BY DEF Settled, Pending, ServiceInv, ThreadInv
  <2>2. ~Between(st) /\ ~Excused
    BY <2>1, ProfileFacts DEF Between, Excused
  <2> QED
    BY <2>1, <2>2 DEF ServiceInv, TopicInv, EnabledInv, WantedInv
<1> QED
  BY <1>1, <1>2, <1>3, PTL DEF Spec

==============================================================================
