-------------------------- MODULE Diagnostics_proofs --------------------------
(***************************************************************************)
(* Proofs about the camera's diagnostics, the aggregator and the two       *)
(* together, for any streams, analyzers, parameters and periods.           *)
(***************************************************************************)
EXTENDS Diagnostics, FiniteSetTheorems, SequenceTheorems, WellFoundedInduction, TLAPS

Task == Camera!Task
Entry(name, object) == [name |-> name, object |-> object]

(* Where the thread that starts and stops the sensor and the reset are. *)
ThreadInv ==
  /\ up \in BOOLEAN /\ resetting \in BOOLEAN /\ clashed \in BOOLEAN
  /\ dead \in Stream \cup {Temperatures, NoStream}
  /\ pc \in {"idle", "start", "stop", "close", "gone"}
  /\ open \subseteq Stream /\ todo \subseteq Stream /\ registered \subseteq Stream
  /\ temp \in Stream \cup {NoStream}
  /\ pc # "start" => todo = {} /\ temp = NoStream
  /\ pc \in {"close", "gone"} => ~resetting
  /\ pc = "gone" => open = {} /\ registered = {}
  /\ ~up => open = {} /\ registered = {} /\ pc = "idle" /\ ~resetting
  /\ tasks \in Seq(Task)

(* Which streams have entered themselves by then, without a clash. *)
OrderInv ==
  /\ temp \in todo \cup registered \cup {NoStream}
  /\ registered \subseteq open
  /\ resetting => pc = "idle"
  /\ pc = "idle" /\ ~resetting => registered = open
  /\ pc = "start" => open = todo \cup registered /\ todo \cap registered = {}

(* What is in the list of tasks: each entry once, and a temporary ahead of *)
(* its copy.                                                               *)
Listed(task) ==
  \/ up /\ task = Entry(Temperatures, "node")
  \/ temp # NoStream /\ task = Entry(temp, "temporary")
  \/ \E s \in registered : task = Entry(s, "kept")

ListInv ==
  /\ tasks \in Seq(Task)
  /\ \A task \in Task : Listed(task) <=> \E k \in DOMAIN tasks : tasks[k] = task
  /\ \A j, k \in DOMAIN tasks : tasks[j] = tasks[k] => j = k
  /\ \A j, k \in DOMAIN tasks :
       tasks[j].name = tasks[k].name /\ tasks[j].object = "temporary" /\ tasks[k].object = "kept"
         => j < k

(* After a clash, nothing is known of the list but its type. *)
TasksInv == ~clashed => OrderInv /\ ListInv

-----------------------------------------------------------------------------
(* Least and greatest elements. *)
LEMMA LeastElement ==
  ASSUME NEW set, set \subseteq Nat, set # {}
  PROVE  \E m \in set : \A x \in set : m <= x
<1>1. PICK m \in set : \A x \in set : ~(<<x, m>> \in OpToRel(<, Nat))
  BY NatLessThanWellFounded, WFMin
<1>2. \A x \in set : x \in Nat /\ m \in Nat /\ ~(x < m)
  BY <1>1 DEF OpToRel
<1> QED
  BY <1>2

(* The first task of a name leaves the list. *)
LEMMA RemoveFacts ==
  ASSUME NEW name, tasks \in Seq(Task), Camera!RemoveByName(name),
         \E k \in 1 .. Len(tasks) : tasks[k].name = name
  PROVE  \E k \in 1 .. Len(tasks) :
           /\ tasks[k].name = name
           /\ \A j \in 1 .. Len(tasks) : tasks[j].name = name => k <= j
           /\ tasks' \in Seq(Task) /\ Len(tasks') = Len(tasks) - 1
           /\ \A j \in 1 .. Len(tasks) - 1 : tasks'[j] = tasks[IF j < k THEN j ELSE j + 1]
<1> DEFINE matching == {k \in 1 .. Len(tasks) : tasks[k].name = name}
<1>1. Len(tasks) \in Nat /\ matching \subseteq Nat /\ matching # {}
  BY LenProperties
<1>2. PICK k \in matching : \A x \in matching : k <= x
  BY <1>1, LeastElement
<1>3. Camera!Min(matching) = k
  <2>1. \A x \in matching : (\A y \in matching : x <= y) => x = k
    BY <1>1, <1>2
  <2> QED
    BY <1>2, <2>1 DEF Camera!Min
<1>4. Camera!SelectInSeq(tasks, LAMBDA task : task.name = name) = k
  BY <1>1, <1>3 DEF Camera!SelectInSeq
<1>5. tasks' = SubSeq(tasks, 1, k - 1) \o SubSeq(tasks, k + 1, Len(tasks))
  BY <1>4 DEF Camera!RemoveByName, Camera!WithoutFirst, Camera!RemoveFirstMatch, Camera!RemoveAt
<1>6. \A j \in 1 .. Len(tasks) : tasks[j] \in Task
  BY ElementOfSeq
<1>7. /\ SubSeq(tasks, 1, k - 1) \in Seq(Task) /\ Len(SubSeq(tasks, 1, k - 1)) = k - 1
      /\ \A j \in 1 .. k - 1 : SubSeq(tasks, 1, k - 1)[j] = tasks[j]
  <2>1. \A j \in 1 .. k - 1 : tasks[j] \in Task
    BY <1>1, <1>6
  <2> QED
    BY <2>1, <1>1, SubSeqProperties
<1>8. /\ SubSeq(tasks, k + 1, Len(tasks)) \in Seq(Task)
      /\ Len(SubSeq(tasks, k + 1, Len(tasks))) = Len(tasks) - k
      /\ \A j \in 1 .. Len(tasks) - k : SubSeq(tasks, k + 1, Len(tasks))[j] = tasks[k + j]
  <2>1. \A j \in k + 1 .. Len(tasks) : tasks[j] \in Task
    BY <1>1, <1>6
  <2> QED
    BY <2>1, <1>1, SubSeqProperties
<1>9. /\ tasks' \in Seq(Task) /\ Len(tasks') = Len(tasks) - 1
      /\ \A j \in 1 .. Len(tasks) - 1 : tasks'[j] = IF j <= k - 1 THEN tasks[j] ELSE tasks[j + 1]
  <2> DEFINE front == SubSeq(tasks, 1, k - 1)
             back == SubSeq(tasks, k + 1, Len(tasks))
  <2>1. /\ front \in Seq(Task) /\ back \in Seq(Task) /\ tasks' = front \o back
        /\ Len(front) = k - 1 /\ Len(back) = Len(tasks) - k
        /\ \A j \in 1 .. k - 1 : front[j] = tasks[j]
        /\ \A j \in 1 .. Len(tasks) - k : back[j] = tasks[k + j]
    BY <1>5, <1>7, <1>8
  <2> HIDE DEF front, back
  <2>2. /\ tasks' \in Seq(Task) /\ Len(tasks') = (k - 1) + (Len(tasks) - k)
        /\ \A j \in 1 .. (k - 1) + (Len(tasks) - k) :
             tasks'[j] = IF j <= k - 1 THEN front[j] ELSE back[j - (k - 1)]
    <3>1. /\ front \o back \in Seq(Task) /\ Len(front \o back) = Len(front) + Len(back)
          /\ \A j \in 1 .. Len(front) + Len(back) :
               (front \o back)[j] = IF j <= Len(front) THEN front[j] ELSE back[j - Len(front)]
      BY <2>1, ConcatProperties
    <3> QED
      BY <2>1, <3>1
  <2>3. k \in Int /\ Len(tasks) \in Int
    BY <1>1
  <2>4. ASSUME NEW j \in 1 .. Len(tasks) - 1
        PROVE  tasks'[j] = IF j <= k - 1 THEN tasks[j] ELSE tasks[j + 1]
    <3>1. CASE j <= k - 1
      BY <3>1, <2>1, <2>2, <2>3
    <3>2. CASE ~(j <= k - 1)
      <4>1. j - (k - 1) \in 1 .. Len(tasks) - k /\ k + (j - (k - 1)) = j + 1
        BY <3>2, <2>3
      <4>2. tasks'[j] = back[j - (k - 1)]
        BY <3>2, <2>2, <2>3
      <4> QED
        BY <3>2, <4>1, <4>2, <2>1
    <3> QED
      BY <3>1, <3>2
  <2> QED
    BY <2>2, <2>3, <2>4
<1> QED
  BY <1>1, <1>2, <1>9

LEMMA RestTyped ==
  ASSUME NEW name, tasks \in Seq(Task)
  PROVE  Camera!WithoutFirst(name) \in Seq(Task)
<1>1. CASE \E k \in 1 .. Len(tasks) : tasks[k].name = name
  <2> DEFINE matching == {k \in 1 .. Len(tasks) : tasks[k].name = name}
  <2>1. Len(tasks) \in Nat /\ matching \subseteq Nat /\ matching # {}
    BY <1>1, LenProperties
  <2>2. PICK k \in matching : \A x \in matching : k <= x
    BY <2>1, LeastElement
  <2>3. Camera!Min(matching) = k
    <3>1. \A x \in matching : (\A y \in matching : x <= y) => x = k
      BY <2>1, <2>2
    <3> QED
      BY <2>2, <3>1 DEF Camera!Min
  <2>4. Camera!SelectInSeq(tasks, LAMBDA task : task.name = name) = k
    BY <2>1, <2>3 DEF Camera!SelectInSeq
  <2>5. Camera!WithoutFirst(name) = SubSeq(tasks, 1, k - 1) \o SubSeq(tasks, k + 1, Len(tasks))
    BY <1>1, <2>4 DEF Camera!WithoutFirst, Camera!RemoveFirstMatch, Camera!RemoveAt
  <2>6. \A j \in 1 .. Len(tasks) : tasks[j] \in Task
    BY ElementOfSeq
  <2>7. /\ \A j \in 1 .. k - 1 : tasks[j] \in Task
        /\ \A j \in k + 1 .. Len(tasks) : tasks[j] \in Task
    BY <2>1, <2>6
  <2>8. /\ SubSeq(tasks, 1, k - 1) \in Seq(Task)
        /\ SubSeq(tasks, k + 1, Len(tasks)) \in Seq(Task)
    BY <2>1, <2>7, SubSeqProperties
  <2> QED
    BY <2>5, <2>8, ConcatProperties
<1>2. CASE ~\E k \in 1 .. Len(tasks) : tasks[k].name = name
  BY <1>2 DEF Camera!WithoutFirst, Camera!RemoveFirstMatch
<1> QED
  BY <1>1, <1>2

LEMMA RemoveTyped ==
  ASSUME NEW name, tasks \in Seq(Task), Camera!RemoveByName(name)
  PROVE  tasks' \in Seq(Task)
BY RestTyped DEF Camera!RemoveByName

LEMMA AppendFacts ==
  ASSUME NEW task \in Task, tasks \in Seq(Task), tasks' = Append(tasks, task)
  PROVE  /\ tasks' \in Seq(Task) /\ Len(tasks') = Len(tasks) + 1
         /\ DOMAIN tasks = 1 .. Len(tasks) /\ DOMAIN tasks' = 1 .. Len(tasks) + 1
         /\ \A j \in 1 .. Len(tasks) : tasks'[j] = tasks[j]
         /\ tasks'[Len(tasks) + 1] = task
BY AppendProperties, LenProperties

LEMMA ConstantFacts ==
  /\ Temperatures \notin Stream /\ NoStream \notin Stream
  /\ Window \in Nat \ {0} /\ Rate \in Nat \ {0} /\ Period \in Nat \ {0}
  /\ Late \in Nat /\ MaxFrames \in Nat
BY DiagnosticsAssumption DEF Camera!DiagnosticsAssumption

LEMMA ListedFacts ==
  ASSUME NEW task, Listed(task)
  PROVE  /\ task = Entry(task.name, task.object)
         /\ task.object \in {"node", "temporary", "kept"}
         /\ task.object = "node" => up /\ task.name = Temperatures
         /\ task.object = "temporary" => temp # NoStream /\ task.name = temp
         /\ task.object = "kept" => task.name \in registered
<1>1. CASE up /\ task = Entry(Temperatures, "node")
  BY <1>1 DEF Entry
<1>2. CASE temp # NoStream /\ task = Entry(temp, "temporary")
  BY <1>2 DEF Entry
<1>3. CASE \E s \in registered : task = Entry(s, "kept")
  BY <1>3 DEF Entry
<1> QED
  BY <1>1, <1>2, <1>3 DEF Listed

(* An entry that is new comes last: the list gains it and keeps its order. *)
LEMMA EntryAdded ==
  ASSUME ListInv, NEW task \in Task, tasks' = Append(tasks, task),
         \A other \in Task : Listed(other)' <=> Listed(other) \/ other = task,
         ~Listed(task),
         task.object = "temporary" => task.name \notin registered
  PROVE  ListInv'
<1>1. /\ tasks' \in Seq(Task) /\ Len(tasks') = Len(tasks) + 1 /\ Len(tasks) \in Nat
      /\ DOMAIN tasks = 1 .. Len(tasks) /\ DOMAIN tasks' = 1 .. Len(tasks) + 1
      /\ \A j \in 1 .. Len(tasks) : tasks'[j] = tasks[j] /\ tasks[j] \in Task
      /\ tasks'[Len(tasks) + 1] = task
  BY AppendFacts, LenProperties, ElementOfSeq DEF ListInv
<1>3. \A other \in Task : Listed(other)' <=> \E k \in DOMAIN tasks' : tasks'[k] = other
  BY <1>1 DEF ListInv
<1>4. \A j \in 1 .. Len(tasks) : tasks[j] # task
  BY <1>1 DEF ListInv
<1>5. \A j, k \in DOMAIN tasks' : tasks'[j] = tasks'[k] => j = k
  BY <1>1, <1>4 DEF ListInv
<1>6. ASSUME NEW j \in DOMAIN tasks', NEW k \in DOMAIN tasks',
             tasks'[j].name = tasks'[k].name, tasks'[j].object = "temporary",
             tasks'[k].object = "kept"
      PROVE  j < k
  <2>1. CASE j \in 1 .. Len(tasks) /\ k \in 1 .. Len(tasks)
    BY <1>1, <1>6, <2>1 DEF ListInv
  <2>2. CASE j \in 1 .. Len(tasks) /\ k = Len(tasks) + 1
    BY <1>1, <2>2
  <2>3. CASE j = Len(tasks) + 1 /\ k = Len(tasks) + 1
    BY <1>1, <1>6, <2>3
  <2>4. CASE j = Len(tasks) + 1 /\ k \in 1 .. Len(tasks)
    <3>1. Listed(tasks[k]) /\ tasks[k].object = "kept" /\ tasks[k].name = task.name
      BY <1>1, <1>6, <2>4 DEF ListInv
    <3>2. task.name \in registered
      BY <3>1, ListedFacts
    <3> QED
      BY <1>1, <1>6, <2>4, <3>2
  <2> QED
    BY <1>1, <2>1, <2>2, <2>3, <2>4
<1> QED
  BY <1>1, <1>3, <1>5, <1>6 DEF ListInv

(* The first entry of a name leaves: the temporary, if there are two. *)
LEMMA EntryRemoved ==
  ASSUME ListInv, NEW task \in Task, Camera!RemoveByName(task.name),
         \A other \in Task : Listed(other)' <=> Listed(other) /\ other # task,
         Listed(task),
         task.object = "temporary" \/ temp # task.name,
         task.object \in {"temporary", "kept"}, task.name \in Stream
  PROVE  ListInv'
<1>1. /\ Len(tasks) \in Nat /\ DOMAIN tasks = 1 .. Len(tasks)
      /\ \A j \in 1 .. Len(tasks) : tasks[j] \in Task
  BY LenProperties, ElementOfSeq DEF ListInv
<1>2. PICK i \in 1 .. Len(tasks) : tasks[i] = task
  BY <1>1 DEF ListInv
<1>3. PICK k \in 1 .. Len(tasks) :
        /\ tasks[k].name = task.name
        /\ \A j \in 1 .. Len(tasks) : tasks[j].name = task.name => k <= j
        /\ tasks' \in Seq(Task) /\ Len(tasks') = Len(tasks) - 1
        /\ \A j \in 1 .. Len(tasks) - 1 : tasks'[j] = tasks[IF j < k THEN j ELSE j + 1]
  BY <1>2, RemoveFacts DEF ListInv
<1>4. k = i
  <2>1. Listed(tasks[k]) /\ k <= i /\ i \in Int /\ k \in Int
    BY <1>1, <1>2, <1>3 DEF ListInv
  <2>2. /\ tasks[k].object \in {"temporary", "kept"} /\ task = Entry(task.name, task.object)
        /\ tasks[k] = Entry(task.name, tasks[k].object)
        /\ tasks[k].object = "temporary" => temp = task.name
    BY <1>3, <2>1, ListedFacts, ConstantFacts
  <2>3. CASE tasks[k].object = task.object
    <3>1. tasks[k] = task
      BY <2>2, <2>3
    <3> QED
      BY <1>1, <1>2, <3>1 DEF ListInv
  <2>4. CASE tasks[k].object = "kept" /\ task.object = "temporary"
    <3>1. i < k
      BY <1>1, <1>2, <1>3, <2>4 DEF ListInv
    <3> QED
      BY <3>1, <2>1
  <2>5. CASE tasks[k].object = "temporary" /\ task.object = "kept"
    BY <2>2, <2>5
  <2> QED
    BY <2>2, <2>3, <2>4, <2>5
<1>5. DOMAIN tasks' = 1 .. Len(tasks) - 1
  BY <1>3, LenProperties
<1> DEFINE Old(j) == IF j < k THEN j ELSE j + 1
<1>6. \A j \in DOMAIN tasks' : Old(j) \in DOMAIN tasks /\ Old(j) # k /\ tasks'[j] = tasks[Old(j)]
  BY <1>1, <1>3, <1>5
<1>7. \A j, m \in DOMAIN tasks' : (Old(j) = Old(m) => j = m) /\ (Old(j) < Old(m) => j < m)
  BY <1>1, <1>5
<1>8. \A m \in DOMAIN tasks : m # k => \E j \in DOMAIN tasks' : Old(j) = m
  <2> SUFFICES ASSUME NEW m \in DOMAIN tasks, m # k PROVE \E j \in DOMAIN tasks' : Old(j) = m
    OBVIOUS
  <2>1. CASE m < k
    BY <1>1, <1>5, <2>1
  <2>2. CASE m > k
    <3>1. m - 1 \in DOMAIN tasks' /\ Old(m - 1) = m
      BY <1>1, <1>5, <2>2
    <3> QED
      BY <3>1
  <2> QED
    BY <1>1, <2>1, <2>2
<1> HIDE DEF Old
<1>9. ASSUME NEW other \in Task
      PROVE  Listed(other)' <=> \E j \in DOMAIN tasks' : tasks'[j] = other
  <2>1. CASE other = task
    BY <2>1, <1>1, <1>2, <1>4, <1>6 DEF ListInv
  <2>2. CASE other # task
    BY <2>2, <1>1, <1>2, <1>4, <1>6, <1>8 DEF ListInv
  <2> QED
    BY <2>1, <2>2
<1>11. \A j, m \in DOMAIN tasks' : tasks'[j] = tasks'[m] => j = m
  BY <1>6, <1>7 DEF ListInv
<1>12. \A j, m \in DOMAIN tasks' :
         tasks'[j].name = tasks'[m].name /\ tasks'[j].object = "temporary"
           /\ tasks'[m].object = "kept" => j < m
  BY <1>6, <1>7 DEF ListInv
<1> QED
  BY <1>3, <1>9, <1>11, <1>12 DEF ListInv

-----------------------------------------------------------------------------
(* The list of tasks through starts, stops, resets and ends. *)
threadVars == <<up, open, pc, resetting, todo, temp, registered, tasks, clashed, dead>>

LEMMA Entries ==
  /\ Entry(Temperatures, "node") \in Task
  /\ \A s \in Stream : Entry(s, "temporary") \in Task /\ Entry(s, "kept") \in Task
                      /\ Entry(s, "copy") \in Task
BY DEF Task, Camera!Task, Entry

LEMMA Announced ==
  ASSUME NEW name, NEW object, Camera!AddTask(name, object)
  PROVE  /\ tasks' = Append(tasks, Entry(name, object))
         /\ outbox' = <<[name |-> name, level |-> 0]>>
BY DEF Camera!AddTask, Camera!Announce, Camera!OK, Entry

(* The thread and the type of the list, whether or not there was a clash. *)
LEMMA EntryTyped ==
  ASSUME ThreadInv, NEW name, NEW object, Camera!AddTask(name, object), Entry(name, object) \in Task
  PROVE  tasks' \in Seq(Task)
BY Announced, AppendFacts DEF ThreadInv

LEMMA InputsKeepThread ==
  ASSUME ThreadInv, Operate
  PROVE  ThreadInv'
<1>1. CASE Camera!Boot
  <2>1. tasks' \in Seq(Task)
    BY <1>1, Entries, EntryTyped DEF Camera!Boot
  <2> QED
    BY <1>1, <2>1 DEF ThreadInv, Camera!Boot
<1>2. CASE Camera!Die
  <2>1. tasks' \in Seq(Task)
    BY <1>2 DEF Camera!Die, Camera!UpdaterEnds
  <2> QED
    BY <1>2, <2>1 DEF ThreadInv, Camera!Die, Camera!UpdaterEnds
<1>3. CASE Camera!Close
  BY <1>3 DEF ThreadInv, Camera!Close
<1>4. CASE Camera!StopSensor
  BY <1>4 DEF ThreadInv, Camera!StopSensor
<1>5. CASE Camera!Reset
  BY <1>5 DEF ThreadInv, Camera!Reset
<1>6. CASE \E profiles \in (SUBSET Stream) \ {{}} : Camera!StartSensor(profiles)
  BY <1>6 DEF ThreadInv, Camera!StartSensor
<1> QED
  BY <1>1, <1>2, <1>3, <1>4, <1>5, <1>6 DEF Operate

LEMMA StopsKeepThread ==
  ASSUME ThreadInv, StartOrStop
  PROVE  ThreadInv'
<1>1. CASE \E s \in Stream : Camera!Clear(s)
  <2>1. PICK s \in Stream : Camera!Clear(s)
    BY <1>1
  <2>2. tasks' \in Seq(Task)
    BY <2>1, RemoveTyped DEF Camera!Clear, ThreadInv
  <2> QED
    BY <2>1, <2>2 DEF ThreadInv, Camera!Clear, Camera!streamVars
<1>2. CASE Camera!StartReturns
  BY <1>2 DEF ThreadInv, Camera!StartReturns
<1>3. CASE Camera!StopReturns
  BY <1>3 DEF ThreadInv, Camera!StopReturns
<1>4. CASE Camera!ResetReturns
  BY <1>4 DEF ThreadInv, Camera!ResetReturns
<1>5. CASE Camera!MembersGo
  BY <1>5 DEF ThreadInv, Camera!MembersGo
<1>6. CASE Camera!Dispose
  <2>1. tasks' \in Seq(Task)
    BY <1>6 DEF Camera!Dispose, Camera!UpdaterEnds
  <2> QED
    BY <1>6, <2>1 DEF ThreadInv, Camera!Dispose, Camera!UpdaterEnds
<1> QED
  BY <1>1, <1>2, <1>3, <1>4, <1>5, <1>6 DEF StartOrStop, Camera!StartOrStop

LEMMA EmplaceKeepsThread ==
  ASSUME ThreadInv, Emplace
  PROVE  ThreadInv'
<1>1. CASE \E s \in Stream : Camera!Construct(s)
  <2>1. PICK s \in Stream : Camera!Construct(s)
    BY <1>1
  <2>2. tasks' \in Seq(Task)
    BY <2>1, Entries, EntryTyped DEF Camera!Construct
  <2> QED
    BY <2>1, <2>2 DEF ThreadInv, Camera!Construct, Camera!streamVars
<1>2. CASE Camera!Copy
  <2>1. temp \in Stream /\ pc = "start"
    BY <1>2 DEF Camera!Copy, ThreadInv
  <2>2. tasks' \in Seq(Task)
    BY <1>2, <2>1, Entries, EntryTyped DEF Camera!Copy
  <2> QED
    BY <1>2, <2>1, <2>2 DEF ThreadInv, Camera!Copy, Camera!streamVars
<1>3. CASE Camera!KeyTaken
  <2>1. temp \in Stream /\ pc = "start"
    BY <1>3 DEF Camera!KeyTaken, ThreadInv
  <2>2. Camera!WithoutFirst(temp) \in Seq(Task)
    BY RestTyped DEF ThreadInv
  <2>3. tasks' = tasks \/ tasks' = Append(Camera!WithoutFirst(temp), Entry(temp, "copy"))
    BY <1>3 DEF Camera!KeyTaken, Entry
  <2>4. tasks' \in Seq(Task)
    BY <2>1, <2>2, <2>3, Entries, AppendProperties DEF ThreadInv
  <2> QED
    BY <1>3, <2>1, <2>4 DEF ThreadInv, Camera!KeyTaken, Camera!streamVars
<1>4. CASE Camera!DropTemporary
  <2>1. tasks' \in Seq(Task)
    BY <1>4, RemoveTyped DEF Camera!DropTemporary, ThreadInv
  <2> QED
    BY <1>4, <2>1 DEF ThreadInv, Camera!DropTemporary, Camera!streamVars
<1> QED
  BY <1>1, <1>2, <1>3, <1>4 DEF Emplace, Camera!Emplace

LEMMA ThreadStep == ThreadInv /\ [Next]_vars => ThreadInv'
<1> SUFFICES ASSUME ThreadInv, [Next]_vars PROVE ThreadInv'
  OBVIOUS
<1>1. CASE Operate \/ StartOrStop \/ Emplace
  BY <1>1, InputsKeepThread, StopsKeepThread, EmplaceKeepsThread
<1>2. CASE Update
  <2>1. CASE Camera!Update
    BY <2>1 DEF ThreadInv, Camera!Update, Camera!streamVars
  <2>2. CASE Camera!UpdateDead
    <3>1. \A i \in DOMAIN tasks : tasks[i].name \in Stream \cup {Temperatures}
      <4>1. \A i \in DOMAIN tasks : tasks[i] \in Task
        BY ElementOfSeq, LenProperties DEF ThreadInv
      <4> QED
        BY <4>1 DEF Task, Camera!Task
    <3>2. dead' \in Stream \cup {Temperatures}
      BY <2>2, <3>1 DEF Camera!UpdateDead
    <3> QED
      BY <2>2, <3>2 DEF ThreadInv, Camera!UpdateDead
  <2> QED
    BY <1>2, <2>1, <2>2 DEF Update
<1>3. CASE Reconfigure \/ Frame \/ Receive \/ Publish \/ Tick \/ UNCHANGED vars
  <2>1. UNCHANGED threadVars
    BY <1>3 DEF Reconfigure, Frame, Receive, Publish, Tick, vars, cameraVars, threadVars,
                Camera!Frame, Camera!Age, Camera!streamVars
  <2> QED
    BY <2>1 DEF ThreadInv, threadVars
<1> QED
  BY <1>1, <1>2, <1>3 DEF Next

-----------------------------------------------------------------------------
(* What is in the list, without a clash. *)
LEMMA BootKeepsList ==
  ASSUME ThreadInv, OrderInv, ListInv, Camera!Boot
  PROVE  OrderInv' /\ ListInv'
<1>1. OrderInv'
  BY DEF ThreadInv, OrderInv, Camera!Boot
<1> DEFINE task == Entry(Temperatures, "node")
<1>2. tasks' = Append(tasks, task)
  BY Announced DEF Camera!Boot
<1>3. \A other : Listed(other)' <=> Listed(other) \/ other = task
  BY DEF Listed, Camera!Boot, ThreadInv
<1>4. ~Listed(task)
  BY ConstantFacts DEF Listed, Camera!Boot, Entry, ThreadInv
<1>5. task.object # "temporary"
  BY DEF Entry
<1> QED
  BY <1>1, <1>2, <1>3, <1>4, <1>5, Entries, EntryAdded

(* The list ends with the updater, and the next one starts anew. *)
LEMMA EndClearsList ==
  ASSUME ThreadInv, Camera!Die \/ Camera!Dispose
  PROVE  OrderInv' /\ ListInv'
<1>1. /\ tasks' = <<>> /\ up' = FALSE /\ temp' = NoStream /\ registered' = {} /\ open' = {}
      /\ todo' = {} /\ pc' = "idle"
  BY DEF Camera!Die, Camera!Dispose, Camera!UpdaterEnds, ThreadInv
<1>2. \A other : ~Listed(other)'
  BY <1>1 DEF Listed
<1>3. tasks' \in Seq(Task) /\ DOMAIN tasks' = {}
  BY <1>1
<1> QED
  BY <1>1, <1>2, <1>3 DEF OrderInv, ListInv

LEMMA ConstructKeepsList ==
  ASSUME ThreadInv, OrderInv, ListInv, NEW s \in Stream, Camera!Construct(s)
  PROVE  OrderInv' /\ ListInv'
<1>1. OrderInv'
  BY DEF OrderInv, Camera!Construct, Camera!streamVars
<1> DEFINE task == Entry(s, "temporary")
<1>2. tasks' = Append(tasks, task)
  BY Announced DEF Camera!Construct
<1>3. \A other : Listed(other)' <=> Listed(other) \/ other = task
  BY ConstantFacts DEF Listed, Camera!Construct, Camera!streamVars
<1>4. ~Listed(task)
  BY DEF Listed, Camera!Construct, Entry
<1>5. task.name \notin registered
  BY DEF Entry, OrderInv, Camera!Construct
<1> QED
  BY <1>1, <1>2, <1>3, <1>4, <1>5, Entries, EntryAdded

LEMMA CopyKeepsList ==
  ASSUME ThreadInv, OrderInv, ListInv, Camera!Copy
  PROVE  OrderInv' /\ ListInv'
<1>1. temp \in Stream /\ temp \notin registered /\ pc = "start"
  BY DEF ThreadInv, Camera!Copy
<1>2. OrderInv'
  BY <1>1 DEF OrderInv, Camera!Copy, Camera!streamVars
<1> DEFINE task == Entry(temp, "kept")
<1>3. tasks' = Append(tasks, task)
  BY Announced DEF Camera!Copy
<1>4. \A other : Listed(other)' <=> Listed(other) \/ other = task
  BY DEF Listed, Camera!Copy, Camera!streamVars
<1>5. ~Listed(task)
  BY <1>1 DEF Listed, Entry
<1>6. task.object # "temporary"
  BY DEF Entry
<1> QED
  BY <1>1, <1>2, <1>3, <1>4, <1>5, <1>6, Entries, EntryAdded

LEMMA DropKeepsList ==
  ASSUME ThreadInv, OrderInv, ListInv, Camera!DropTemporary
  PROVE  OrderInv' /\ ListInv'
<1>1. temp \in Stream /\ temp # NoStream
  BY ConstantFacts DEF ThreadInv, Camera!DropTemporary
<1>2. OrderInv'
  BY DEF OrderInv, Camera!DropTemporary, Camera!streamVars
<1> DEFINE task == Entry(temp, "temporary")
<1>3. task.name = temp /\ task.object = "temporary"
  BY DEF Entry
<1>4. \A other : Listed(other)' <=> Listed(other) /\ other # task
  BY <1>1 DEF Listed, Camera!DropTemporary, Camera!streamVars, Entry
<1>5. Listed(task) /\ Camera!RemoveByName(temp)
  BY <1>1 DEF Listed, Camera!DropTemporary
<1> QED
  BY <1>1, <1>2, <1>3, <1>4, <1>5, Entries, EntryRemoved

LEMMA ClearKeepsList ==
  ASSUME ThreadInv, OrderInv, ListInv, NEW s \in Stream, Camera!Clear(s)
  PROVE  OrderInv' /\ ListInv'
<1>1. temp = NoStream /\ pc # "start"
  BY DEF ThreadInv, OrderInv, Camera!Clear
<1>2. OrderInv'
  BY <1>1 DEF OrderInv, Camera!Clear, Camera!streamVars
<1> DEFINE task == Entry(s, "kept")
<1>3. task.name = s /\ task.object = "kept" /\ temp # s
  BY <1>1, ConstantFacts DEF Entry
<1>4. \A other : Listed(other)' <=> Listed(other) /\ other # task
  BY <1>1 DEF Listed, Camera!Clear, Camera!streamVars, Entry
<1>5. Listed(task) /\ Camera!RemoveByName(s)
  BY DEF Listed, Camera!Clear
<1> QED
  BY <1>1, <1>2, <1>3, <1>4, <1>5, Entries, EntryRemoved

LEMMA SameList ==
  ASSUME ListInv, UNCHANGED <<up, temp, registered, tasks>>
  PROVE  ListInv'
<1>1. \A other : Listed(other)' <=> Listed(other)
  BY DEF Listed
<1> QED
  BY <1>1 DEF ListInv

(* A reset, a start or a stop that meets nobody in the sensor. *)
LEMMA CallsKeepList ==
  ASSUME ThreadInv, OrderInv, ListInv, ~clashed',
         \/ \E profiles \in (SUBSET Stream) \ {{}} : Camera!StartSensor(profiles)
         \/ Camera!StopSensor \/ Camera!Reset \/ Camera!Close
  PROVE  OrderInv' /\ ListInv'
<1>1. UNCHANGED <<up, temp, registered, tasks>>
  BY DEF Camera!StartSensor, Camera!StopSensor, Camera!Reset, Camera!Close
<1>2. CASE \E profiles \in (SUBSET Stream) \ {{}} : Camera!StartSensor(profiles)
  <2>1. ~resetting
    BY <1>2 DEF Camera!StartSensor, ThreadInv
  <2> QED
    BY <1>1, <1>2, <2>1, SameList DEF ThreadInv, OrderInv, Camera!StartSensor
<1>3. CASE Camera!StopSensor
  <2>1. ~resetting
    BY <1>3 DEF Camera!StopSensor, ThreadInv
  <2> QED
    BY <1>1, <1>3, <2>1, SameList DEF ThreadInv, OrderInv, Camera!StopSensor
<1>4. CASE Camera!Reset
  <2>1. pc = "idle"
    BY <1>4 DEF Camera!Reset, ThreadInv
  <2> QED
    BY <1>1, <1>4, <2>1, SameList DEF ThreadInv, OrderInv, Camera!Reset
<1>5. CASE Camera!Close
  BY <1>1, <1>5, SameList DEF ThreadInv, OrderInv, Camera!Close
<1> QED
  BY <1>2, <1>3, <1>4, <1>5

LEMMA ReturnsKeepList ==
  ASSUME ThreadInv, OrderInv, ListInv,
         \/ Camera!StartReturns \/ Camera!StopReturns \/ Camera!ResetReturns
         \/ Camera!MembersGo \/ UNCHANGED threadVars
  PROVE  OrderInv' /\ ListInv'
<1>1. UNCHANGED <<up, temp, registered, tasks>>
  BY DEF Camera!StartReturns, Camera!StopReturns, Camera!ResetReturns, Camera!MembersGo, threadVars
<1>2. OrderInv'
  <2>1. CASE Camera!StartReturns
    BY <2>1 DEF ThreadInv, OrderInv, Camera!StartReturns
  <2>2. CASE Camera!StopReturns
    BY <2>2 DEF ThreadInv, OrderInv, Camera!StopReturns
  <2>3. CASE Camera!ResetReturns
    BY <2>3 DEF ThreadInv, OrderInv, Camera!ResetReturns
  <2>4. CASE Camera!MembersGo
    BY <2>4 DEF ThreadInv, OrderInv, Camera!MembersGo
  <2>5. CASE UNCHANGED threadVars
    BY <2>5 DEF OrderInv, threadVars
  <2> QED
    BY <2>1, <2>2, <2>3, <2>4, <2>5
<1> QED
  BY <1>1, <1>2, SameList

LEMMA ListStep == ThreadInv /\ TasksInv /\ [Next]_vars => ThreadInv' /\ TasksInv'
<1> SUFFICES ASSUME ThreadInv, TasksInv, [Next]_vars, ~clashed'
             PROVE  OrderInv' /\ ListInv'
  BY ThreadStep DEF TasksInv
<1>1. CASE Camera!Die \/ Camera!Dispose
  BY <1>1, EndClearsList
<1>2. CASE ~(Camera!Die \/ Camera!Dispose)
  <2>1. CASE Operate
    <3>1. ~clashed
      BY <1>2, <2>1 DEF Operate, Camera!Boot, Camera!Close, Camera!StartSensor,
                        Camera!StopSensor, Camera!Reset, ThreadInv
    <3> QED
      BY <1>2, <2>1, <3>1, BootKeepsList, CallsKeepList DEF Operate, TasksInv
  <2>2. CASE StartOrStop
    <3>1. ~clashed
      BY <1>2, <2>2 DEF StartOrStop, Camera!StartOrStop, Camera!Clear, Camera!StartReturns,
           Camera!StopReturns, Camera!ResetReturns, Camera!MembersGo, Camera!streamVars
    <3> QED
      BY <1>2, <2>2, <3>1, ClearKeepsList, ReturnsKeepList
         DEF StartOrStop, Camera!StartOrStop, TasksInv
  <2>3. CASE Emplace
    <3>1. ~clashed /\ ~Camera!KeyTaken
      <4>1. ~clashed
        BY <2>3 DEF Emplace, Camera!Emplace, Camera!Construct, Camera!Copy, Camera!KeyTaken,
             Camera!DropTemporary, Camera!streamVars
      <4>2. todo \cap registered = {}
        BY <4>1 DEF TasksInv, OrderInv, ThreadInv
      <4> QED
        BY <4>1, <4>2 DEF Camera!KeyTaken
    <3> QED
      BY <2>3, <3>1, ConstructKeepsList, CopyKeepsList, DropKeepsList
         DEF Emplace, Camera!Emplace, TasksInv
  <2>4. CASE Update \/ Reconfigure \/ Frame \/ Receive \/ Publish \/ Tick \/ UNCHANGED vars
    <3>1. /\ UNCHANGED <<up, open, pc, resetting, todo, temp, registered, tasks, clashed>>
      BY <2>4 DEF Update, Reconfigure, Frame, Receive, Publish, Tick, vars, cameraVars,
                  Camera!Update, Camera!UpdateDead, Camera!Frame, Camera!Age, Camera!streamVars
    <3>2. OrderInv /\ ListInv
      BY <3>1 DEF TasksInv
    <3> QED
      BY <3>1, <3>2, SameList DEF OrderInv
  <2> QED
    BY <2>1, <2>2, <2>3, <2>4 DEF Next
<1> QED
  BY <1>1, <1>2

LEMMA ListInit == Init => ThreadInv /\ TasksInv
<1> SUFFICES ASSUME Init PROVE ThreadInv /\ OrderInv /\ ListInv
  BY DEF TasksInv
<1>1. /\ up = FALSE /\ open = {} /\ pc = "idle" /\ resetting = FALSE /\ todo = {}
      /\ temp = NoStream /\ registered = {} /\ tasks = <<>> /\ clashed = FALSE /\ dead = NoStream
  BY DEF Init, Camera!Init
<1>2. tasks \in Seq(Task) /\ DOMAIN tasks = {} /\ \A other : ~Listed(other)
  BY <1>1 DEF Listed
<1> QED
  BY <1>1, <1>2 DEF ThreadInv, OrderInv, ListInv

LEMMA ListHolds == Spec => [](ThreadInv /\ TasksInv)
BY ListInit, ListStep, PTL DEF Spec

(* As long as no reset meets a start or stop: between start and stop the   *)
(* list has a task for the node and one for each stream that runs, and at  *)
(* no time one of a stream that is gone.                                   *)
THEOREM TasksStayAlive == Spec => []TasksAlive
<1>1. ASSUME ThreadInv, OrderInv, ListInv PROVE TasksAlive
  <2>1. /\ Len(tasks) \in Nat /\ DOMAIN tasks = 1 .. Len(tasks)
        /\ \A k \in DOMAIN tasks : tasks[k] \in Task /\ Listed(tasks[k])
    BY <1>1, LenProperties, ElementOfSeq DEF ListInv
  <2>2. \A k \in DOMAIN tasks :
          Camera!Exists(tasks[k]) \/ (pc = "gone" /\ tasks[k].name = Temperatures)
    BY <2>1, ListedFacts DEF Camera!Exists
  <2>3. ASSUME up, pc = "idle", ~resetting
        PROVE  /\ Len(tasks) = Cardinality(registered) + 1
               /\ {task.name : task \in Camera!ToSet(tasks)} = open \cup {Temperatures}
    <3>1. temp = NoStream /\ registered = open /\ open \subseteq Stream
      BY <1>1, <2>3 DEF ThreadInv, OrderInv
    <3> DEFINE Names == registered \cup {Temperatures}
               Nth == [k \in 1 .. Len(tasks) |-> tasks[k].name]
    <3>2. \A k \in 1 .. Len(tasks) : Nth[k] \in Names
      BY <2>1, <3>1, ListedFacts
    <3>3. \A j, k \in 1 .. Len(tasks) : Nth[j] = Nth[k] => j = k
      <4> SUFFICES ASSUME NEW j \in 1 .. Len(tasks), NEW k \in 1 .. Len(tasks), Nth[j] = Nth[k]
                   PROVE  j = k
        OBVIOUS
      <4>1. tasks[j].name = tasks[k].name /\ Listed(tasks[j]) /\ Listed(tasks[k])
        BY <2>1
      <4>2. tasks[j].object = tasks[k].object
        BY <3>1, <4>1, ListedFacts, ConstantFacts
      <4>3. tasks[j] = tasks[k]
        BY <4>1, <4>2, ListedFacts
      <4> QED
        BY <1>1, <2>1, <4>3 DEF ListInv
    <3>4. ASSUME NEW name \in Names PROVE \E k \in 1 .. Len(tasks) : Nth[k] = name
      <4>1. \E task \in Task : Listed(task) /\ task.name = name
        <5>1. CASE name = Temperatures
          <6>1. Listed(Entry(Temperatures, "node")) /\ Entry(Temperatures, "node").name = name
            BY <2>3, <5>1 DEF Listed, Entry
          <6> QED
            BY <6>1, Entries
        <5>2. CASE name \in registered
          <6>1. Listed(Entry(name, "kept")) /\ Entry(name, "kept").name = name
            BY <5>2 DEF Listed, Entry
          <6> QED
            BY <6>1, <3>1, <5>2, Entries
        <5> QED
          BY <5>1, <5>2
      <4> QED
        BY <1>1, <2>1, <4>1 DEF ListInv
    <3>5. Nth \in Bijection(1 .. Len(tasks), Names)
      <4>1. Nth \in [1 .. Len(tasks) -> Names]
        BY <3>2
      <4> HIDE DEF Nth, Names
      <4> QED
        BY <3>3, <3>4, <4>1 DEF Bijection, Injection, Surjection, IsInjective
    <3>6. IsFiniteSet(1 .. Len(tasks)) /\ Cardinality(1 .. Len(tasks)) = Len(tasks)
      BY <2>1, FS_Interval
    <3>7. IsFiniteSet(Names) /\ Cardinality(Names) = Len(tasks)
      BY <3>5, <3>6, FS_Bijection, FS_SameCardinalityBij DEF ExistsBijection
    <3>8. IsFiniteSet(registered)
      BY <3>7, FS_Subset
    <3>9. Cardinality(Names) = Cardinality(registered) + 1
      BY <3>1, <3>8, FS_AddElement, ConstantFacts
    <3>10. {task.name : task \in Camera!ToSet(tasks)} = Names
      BY <2>1, <3>2, <3>4 DEF Camera!ToSet
    <3> QED
      BY <3>1, <3>7, <3>9, <3>10
  <2>4. Camera!Cardinality(registered) = Cardinality(registered)
    BY DEF Camera!Cardinality, Cardinality
  <2>5. Camera!TasksAlive
    BY <2>2, <2>3, <2>4 DEF Camera!TasksAlive
  <2> QED
    BY <2>5 DEF TasksAlive
<1>2. clashed => TasksAlive
  BY DEF TasksAlive, Camera!TasksAlive
<1>3. ThreadInv /\ TasksInv => TasksAlive
  BY <1>1, <1>2 DEF TasksInv
<1> QED
  BY <1>3, ListHolds, PTL

-----------------------------------------------------------------------------
(* The analyzers.  What a name's statuses go to is cached as it is matched. *)
StatusNames == Stream \cup {Temperatures}
Owners(n) == IF Node!MatchedBy(n) = {} THEN {Other} ELSE Node!MatchedBy(n)

CacheInv ==
  /\ loaded \subseteq Node!RootInits
  /\ \A n \in StatusNames : cache[n] = NotCached \/ cache[n] = Node!MatchedBy(n)

(* What every analyzer holds, against the last status of each name. *)
RoutedBy(all, last) ==
  \A l \in Node!Analyzer, n \in StatusNames :
    /\ n \in DOMAIN all[l] => l \in Owners(n) /\ n \in DOMAIN last /\ all[l][n] = last[n]
    /\ l \in Owners(n) /\ n \in DOMAIN last =>
         n \in DOMAIN all[l] \/ (Node!Discards(l) /\ Node!IsStale(l, last[n]))

AggregatorInv ==
  /\ CacheInv /\ RoutedBy(items, latest) /\ Node!IsHeld(latest)
  /\ DOMAIN items = Node!Analyzer /\ \A l \in Node!Analyzer : Node!IsHeld(items[l])
  /\ lastTop \in 0 .. 3 /\ failed \in BOOLEAN
  /\ cache \in [StatusNames -> (SUBSET Leaf) \cup {NotCached}]
  /\ sincePublish \in 0 .. PubPeriod + PubLate

LEMMA GreatestElement ==
  ASSUME NEW set, IsFiniteSet(set), set \subseteq Int, set # {}
  PROVE  \E m \in set : \A x \in set : m >= x
<1> DEFINE Bad(T) == T # {} /\ \A m \in T : \E x \in T : ~(m >= x)
           sizes == {Cardinality(T) : T \in {U \in SUBSET set : Bad(U)}}
<1> SUFFICES ASSUME Bad(set) PROVE FALSE
  OBVIOUS
<1>1. \A T \in SUBSET set : IsFiniteSet(T) /\ Cardinality(T) \in Nat
  BY FS_Subset, FS_CardinalityType
<1>2. sizes \subseteq Nat /\ sizes # {}
  BY <1>1
<1> HIDE DEF Bad
<1>3. PICK T \in SUBSET set :
        Bad(T) /\ \A U \in SUBSET set : Bad(U) => Cardinality(T) <= Cardinality(U)
  <2>1. PICK n \in sizes : \A x \in sizes : n <= x
    BY <1>2, LeastElement
  <2> QED
    BY <2>1
<1>4. PICK x \in T : TRUE
  BY <1>3 DEF Bad
<1>5. T \ {x} \in SUBSET set /\ Cardinality(T \ {x}) = Cardinality(T) - 1
  BY <1>1, <1>3, <1>4, FS_RemoveElement
<1>6. ~Bad(T \ {x})
  BY <1>1, <1>3, <1>5
<1>7. CASE T \ {x} = {}
  <2>1. T = {x} /\ x \in Int
    BY <1>4, <1>7
  <2> QED
    BY <1>3, <2>1 DEF Bad
<1>8. CASE T \ {x} # {}
  <2>1. PICK m \in T \ {x} : \A y \in T \ {x} : m >= y
    BY <1>6, <1>8 DEF Bad
  <2>2. x \in Int /\ m \in Int /\ T \subseteq Int
    BY <1>3, <1>4, <2>1
  <2>3. CASE m >= x
    <3>1. \A y \in T : m >= y
      BY <2>1, <2>3
    <3> QED
      BY <1>3, <2>1, <3>1 DEF Bad
  <2>4. CASE ~(m >= x)
    <3>1. \A y \in T : x >= y
      BY <2>1, <2>2, <2>4
    <3> QED
      BY <1>3, <1>4, <3>1 DEF Bad
  <2> QED
    BY <2>3, <2>4
<1> QED
  BY <1>7, <1>8

LEMMA MaxFacts ==
  ASSUME NEW set, IsFiniteSet(set), set \subseteq Int, set # {}
  PROVE  /\ Max(set) \in set /\ \A x \in set : Max(set) >= x
         /\ Node!Max(set) = Max(set)
BY GreatestElement DEF Max, Node!Max

LEMMA ParameterFacts ==
  /\ IsFiniteSet(Leaf) /\ Leaf \cap Group = {} /\ Other \notin Leaf \cup Group
  /\ Kind \in [Leaf -> {"generic", "discard", "ignore"}]
  /\ Timeout \in [Leaf -> Nat] /\ OtherTimeout \in Nat \ {0}
  /\ DiscardStale \in [Leaf -> BOOLEAN] /\ NumItems \in [Leaf -> Int]
  /\ Members \in [Group -> Seq(Leaf)] /\ {OtherAsErrors, Critical, BasePath} \subseteq BOOLEAN
  /\ PubPeriod \in Nat \ {0} /\ PubLate \in Nat /\ MaxInputs \in Nat
<1>1. Node!IsFiniteSet(Leaf) <=> IsFiniteSet(Leaf)
  BY DEF Node!IsFiniteSet, IsFiniteSet
<1> QED
  BY <1>1, DiagnosticsAssumption DEF Node!AggregatorAssumption

(* An item's age is told apart from every timeout. *)
LEMMA AgeFacts ==
  /\ Node!MaxItemAge \in Nat
  /\ \A l \in Node!Analyzer : Node!TimeoutOf(l) \in Nat /\ Node!TimeoutOf(l) < Node!MaxItemAge
  /\ LongestTimeout \in Nat /\ \A l \in Leaf : Timeout[l] <= LongestTimeout
<1> DEFINE timeouts == {Timeout[l] : l \in Leaf}
           all == timeouts \cup {OtherTimeout}
           longest == {0} \cup timeouts
<1>1. timeouts \subseteq Nat /\ all \subseteq Int /\ longest \subseteq Int
  BY ParameterFacts
<1>2. IsFiniteSet(timeouts)
  <2>1. Timeout \in Surjection(Leaf, timeouts)
    BY ParameterFacts DEF Surjection
  <2> QED
    BY <2>1, ParameterFacts, FS_Surjection
<1>3. /\ \A l \in Leaf : Timeout[l] \in timeouts
      /\ \A l \in Node!Analyzer : Node!TimeoutOf(l) \in all
  BY ParameterFacts DEF Node!Analyzer, Node!TimeoutOf
<1>4. Node!MaxItemAge = Node!Max(all) + 1 /\ LongestTimeout = Max(longest)
  BY DEF Node!MaxItemAge, LongestTimeout
<1> HIDE DEF timeouts
<1>5. IsFiniteSet(all) /\ all # {} /\ IsFiniteSet(longest) /\ longest # {}
  <2>1. IsFiniteSet({OtherTimeout}) /\ IsFiniteSet({0})
    BY FS_Singleton
  <2> QED
    BY <1>2, <2>1, FS_Union
<1>6. all \subseteq Nat /\ longest \subseteq Nat /\ timeouts \subseteq longest
  BY <1>1, ParameterFacts
<1> HIDE DEF all, longest
<1>7. Node!Max(all) \in all /\ \A x \in all : Node!Max(all) >= x
  BY <1>1, <1>5, MaxFacts
<1>8. Max(longest) \in longest /\ \A x \in longest : Max(longest) >= x
  BY <1>1, <1>5, MaxFacts
<1>9. Node!Max(all) \in Nat /\ Max(longest) \in Nat
  BY <1>6, <1>7, <1>8
<1>10. ASSUME NEW l \in Node!Analyzer
       PROVE  Node!TimeoutOf(l) \in Nat /\ Node!TimeoutOf(l) < Node!Max(all) + 1
  <2>1. Node!TimeoutOf(l) \in Nat /\ Node!Max(all) >= Node!TimeoutOf(l)
    BY <1>3, <1>6, <1>7
  <2> QED
    BY <1>9, <2>1
<1>11. ASSUME NEW l \in Leaf PROVE Timeout[l] <= Max(longest)
  BY <1>3, <1>6, <1>8, <1>9
<1> QED
  BY <1>4, <1>9, <1>10, <1>11

LEMMA LoadedFacts ==
  ASSUME NEW types
  PROVE  /\ Node!RootInits \subseteq [type : {"generic", "discard", "ignore", "group"},
                                      of : Leaf \cup Group]
         /\ \A entry \in Node!RootInits : Node!Leaves(entry, types) \subseteq Leaf
<1>1. ASSUME NEW entry \in Node!RootInits
      PROVE  /\ entry \in [type : {"generic", "discard", "ignore", "group"}, of : Leaf \cup Group]
             /\ Node!Leaves(entry, types) \subseteq Leaf
  <2>1. CASE entry \in Node!LeafInits
    <3>1. entry \in [type : {"generic", "discard", "ignore"}, of : Leaf]
      BY <2>1 DEF Node!LeafInits
    <3>2. entry.of \in Leaf /\ entry.of \notin Group
      BY <3>1, ParameterFacts
    <3> QED
      BY <3>1, <3>2 DEF Node!Leaves
  <2>2. CASE \E g \in Group : entry = Node!Own(g)
    <3>1. PICK g \in Group : entry = [type |-> "group", of |-> g]
      BY <2>2 DEF Node!Own, Node!TypeOf
    <3>2. Node!ToSet(Members[g]) \subseteq Leaf
      BY ParameterFacts, ElementOfSeq DEF Node!ToSet
    <3> QED
      BY <3>1, <3>2 DEF Node!Leaves
  <2> QED
    BY <2>1, <2>2 DEF Node!RootInits
<1> QED
  BY <1>1

LEMMA OwnersFacts ==
  ASSUME loaded \subseteq Node!RootInits, NEW n
  PROVE  /\ Node!MatchedBy(n) \subseteq Leaf /\ Owners(n) \subseteq Node!Analyzer
         /\ Owners(n) \ {Other} = Node!MatchedBy(n)
<1>1. Node!MatchedBy(n) \subseteq Leaf
  BY LoadedFacts DEF Node!MatchedBy, Node!LoadedLeaves
<1> QED
  BY <1>1, ParameterFacts DEF Owners, Node!Analyzer

LEMMA TargetsFacts ==
  ASSUME CacheInv, NEW n \in StatusNames
  PROVE  Node!Targets(n) = Owners(n)
BY DEF CacheInv, Node!Targets, Owners

-----------------------------------------------------------------------------
(* The levels that are published, and that none of them hides a worse one. *)
LEMMA MaxLevel ==
  ASSUME NEW levels \in SUBSET (0 .. 3), levels # {}
  PROVE  Node!Max(levels) \in 0 .. 3 /\ \A x \in levels : Node!Max(levels) >= x
<1>1. IsFiniteSet(0 .. 3)
  <2>1. 0 \in Int /\ 3 \in Int
    OBVIOUS
  <2> QED
    BY <2>1, FS_Interval, Zenon
<1>2. IsFiniteSet(levels)
  BY <1>1, FS_Subset
<1>3. levels \subseteq Int
  OBVIOUS
<1>4. Node!Max(levels) \in levels /\ \A x \in levels : Node!Max(levels) >= x
  BY <1>2, <1>3, MaxFacts
<1> QED
  BY <1>4

LEMMA RolledFacts ==
  ASSUME NEW levels \in SUBSET (0 .. 3)
  PROVE  /\ Node!Rolled(levels) \in 0 .. 3
         /\ \A x \in levels : x >= 2 => Node!Rolled(levels) >= 2
<1> DEFINE all == {0} \cup levels
<1>1. all \in SUBSET (0 .. 3) /\ all # {} /\ levels \subseteq all
  OBVIOUS
<1>2. Node!Rolled(levels) = IF 3 \in levels /\ levels # {3} THEN 2 ELSE Node!Max(all)
  BY DEF Node!Rolled, Node!OK, Node!Error, Node!Stale
<1> HIDE DEF all
<1>3. Node!Max(all) \in 0 .. 3 /\ \A x \in all : Node!Max(all) >= x
  BY <1>1, MaxLevel
<1>4. \A x \in levels : x \in 0 .. 3 /\ x \in all
  BY <1>1
<1> QED
  BY <1>2, <1>3, <1>4

LEMMA ItemFacts ==
  ASSUME NEW l, NEW held, Node!IsHeld(held)
  PROVE  /\ Node!ItemLevels(l, held) \in SUBSET (0 .. 3)
         /\ Node!IsHeld(Node!Kept(l, held))
BY DEF Node!IsHeld, Node!ItemLevels, Node!Kept, Node!OK, Node!Stale

LEMMA HeaderFacts ==
  ASSUME NEW l, NEW held, Node!IsHeld(held)
  PROVE  Node!Header(l, held) \in 0 .. 3
<1> DEFINE levels == Node!ItemLevels(l, held)
           rolled == IF levels \subseteq {Node!Stale}
                     THEN IF Node!Discards(l) THEN Node!OK ELSE Node!Stale
                     ELSE Node!Rolled(levels)
<1>1. levels \in SUBSET (0 .. 3) /\ Node!Rolled(levels) \in 0 .. 3
  BY ItemFacts, RolledFacts
<1>2. rolled \in 0 .. 3
  BY <1>1 DEF Node!OK, Node!Stale
<1> HIDE DEF rolled
<1>3. {2, rolled} \in SUBSET (0 .. 3) /\ {2, rolled} # {}
  BY <1>2
<1>4. Node!Max({2, rolled}) \in 0 .. 3
  BY <1>3, MaxLevel
<1>5. Node!Header(l, held) \in {0, rolled, Node!Max({2, rolled})}
  BY DEF Node!Header, rolled, Node!OK, Node!Error
<1> QED
  BY <1>2, <1>4, <1>5

LEMMA LevelsFacts ==
  ASSUME loaded \subseteq Node!RootInits, NEW all,
         \A l \in Node!Analyzer : Node!IsHeld(all[l])
  PROVE  /\ Node!RootLevels(all) \in SUBSET (0 .. 3)
         /\ Node!OtherLevels(all[Other]) \in SUBSET (0 .. 3)
<1>1. \A entry \in loaded : Node!Reporting(entry) \subseteq Leaf
  BY LoadedFacts DEF Node!Reporting
<1>2. \A l \in Leaf \cup {Other} :
        Node!Header(l, all[l]) \in 0 .. 3 /\ Node!ItemLevels(l, all[l]) \in SUBSET (0 .. 3)
  BY HeaderFacts, ItemFacts DEF Node!Analyzer
<1>3. ASSUME NEW entry \in loaded PROVE Node!Headers(entry, all) \in SUBSET (0 .. 3)
  <2> DEFINE headers == {Node!Header(l, all[l]) : l \in Node!Reporting(entry)}
  <2>1. headers \in SUBSET (0 .. 3)
    BY <1>1, <1>2
  <2> HIDE DEF headers
  <2>2. Node!Rolled(headers) \in 0 .. 3
    BY <2>1, RolledFacts
  <2> QED
    BY <2>1, <2>2 DEF Node!Headers, headers
<1>4. ASSUME NEW entry \in loaded PROVE Node!Levels(entry, all) \in SUBSET (0 .. 3)
  BY <1>1, <1>2, <1>3 DEF Node!Levels, Node!LeafLevels
<1> DEFINE headers == UNION {Node!Headers(entry, all) : entry \in loaded}
<1>5. headers \in SUBSET (0 .. 3)
  BY <1>3
<1> HIDE DEF headers
<1>6. Node!Rolled(headers) \in 0 .. 3
  BY <1>5, RolledFacts
<1>7. UNION {Node!Levels(entry, all) : entry \in loaded} \in SUBSET (0 .. 3)
  BY <1>4
<1>8. Node!RootLevels(all) \in SUBSET (0 .. 3)
  <2>1. CASE loaded = {}
    BY <2>1 DEF Node!RootLevels, Node!Error
  <2>2. CASE loaded # {}
    <3> DEFINE base == IF BasePath THEN {Node!Rolled(headers)} ELSE {}
               stale == IF failed THEN {Node!Stale} ELSE {}
               reported == UNION {Node!Levels(entry, all) : entry \in loaded}
    <3>1. base \in SUBSET (0 .. 3) /\ stale \in SUBSET (0 .. 3)
      BY <1>6 DEF Node!Stale
    <3>2. Node!RootLevels(all) = reported \cup base \cup stale
      BY <2>2 DEF Node!RootLevels, headers
    <3>3. reported \in SUBSET (0 .. 3)
      BY <1>7
    <3> HIDE DEF base, stale, reported
    <3> QED
      BY <3>1, <3>2, <3>3
  <2> QED
    BY <2>1, <2>2
<1>9. Node!OtherLevels(all[Other]) \in SUBSET (0 .. 3)
  BY <1>2 DEF Node!OtherLevels, Node!Error
<1> QED
  BY <1>8, <1>9

(* publishData: what it keeps is well formed, and a status of an analyzer   *)
(* that does not discard, if bad or stale, makes the top level bad.         *)
LEMMA PublishFacts ==
  ASSUME loaded \subseteq Node!RootInits, NEW all, Node!PublishData(all),
         \A l \in Node!Analyzer : Node!IsHeld(all[l])
  PROVE  /\ lastTop' \in 0 .. 3
         /\ DOMAIN items' = Node!Analyzer
         /\ \A l \in Node!Analyzer : items'[l] = Node!Kept(l, all[l]) /\ Node!IsHeld(items'[l])
         /\ \A l \in Node!LoadedLeaves({"generic"}) : \A n \in DOMAIN all[l] :
              ~Node!Discards(l) /\ (Node!IsStale(l, all[l][n]) \/ all[l][n].level >= 2)
                => lastTop' >= 2
<1> DEFINE kept == [l \in Node!Analyzer |-> Node!Kept(l, all[l])]
           levels == Node!RootLevels(kept) \cup Node!OtherLevels(kept[Other])
<1>1. items' = kept /\ lastTop' = Node!TopLevel(levels)
  BY DEF Node!PublishData
<1>2. \A l \in Node!Analyzer : kept[l] = Node!Kept(l, all[l]) /\ Node!IsHeld(kept[l])
  BY ItemFacts
<1>3. DOMAIN kept = Node!Analyzer
  OBVIOUS
<1> HIDE DEF kept
<1>4. levels \in SUBSET (0 .. 3)
  BY <1>2, LevelsFacts
<1>5. ASSUME NEW l \in Node!LoadedLeaves({"generic"}), NEW n \in DOMAIN all[l],
             ~Node!Discards(l), Node!IsStale(l, all[l][n]) \/ all[l][n].level >= 2
      PROVE  \E x \in levels : x >= 2
  <2>1. PICK entry \in loaded : l \in Node!Reporting(entry)
    BY <1>5 DEF Node!LoadedLeaves, Node!Reporting
  <2>2. l \in Node!Analyzer
    BY <2>1, LoadedFacts DEF Node!Reporting, Node!Analyzer
  <2>3. kept[l] = all[l]
    BY <1>2, <1>5, <2>2 DEF Node!Kept
  <2>4. \E x \in Node!ItemLevels(l, kept[l]) : x >= 2
    BY <1>5, <2>3 DEF Node!ItemLevels, Node!Stale
  <2>5. Node!ItemLevels(l, kept[l]) \subseteq Node!RootLevels(kept)
    <3>1. Node!ItemLevels(l, kept[l]) \subseteq Node!LeafLevels(l, kept[l])
      BY DEF Node!LeafLevels
    <3>2. Node!LeafLevels(l, kept[l]) \subseteq Node!Levels(entry, kept)
      BY <2>1, Zenon DEF Node!Levels
    <3>3. Node!Levels(entry, kept) \subseteq Node!RootLevels(kept)
      BY <2>1, Zenon DEF Node!RootLevels
    <3> QED
      BY <3>1, <3>2, <3>3
  <2> QED
    BY <2>4, <2>5
<1> HIDE DEF levels
<1>6. Node!TopLevel(levels) \in 0 .. 3 /\ \A x \in levels : x >= 2 => Node!TopLevel(levels) >= 2
  BY <1>4, RolledFacts DEF Node!TopLevel, Node!Error
<1> QED
  BY <1>1, <1>2, <1>3, <1>5, <1>6

-----------------------------------------------------------------------------
LEMMA OwnersKept ==
  ASSUME loaded' = loaded
  PROVE  /\ \A n : Node!MatchedBy(n)' = Node!MatchedBy(n) /\ Owners(n)' = Owners(n)
         /\ \A all, last : RoutedBy(all, last)' <=> RoutedBy(all', last')
<1>1. Node!LoadedLeaves({"generic", "discard"})' = Node!LoadedLeaves({"generic", "discard"})
  BY DEF Node!LoadedLeaves
<1>2. \A n : Node!MatchedBy(n)' = Node!MatchedBy(n)
  BY <1>1 DEF Node!MatchedBy
<1> QED
  BY <1>2 DEF Owners, RoutedBy

LEMMA KeptRoutes ==
  ASSUME NEW all, NEW last, RoutedBy(all, last), NEW kept,
         \A l \in Node!Analyzer : kept[l] = Node!Kept(l, all[l])
  PROVE  RoutedBy(kept, last)
<1> SUFFICES ASSUME NEW l \in Node!Analyzer, NEW n \in StatusNames
             PROVE  /\ n \in DOMAIN kept[l] =>
                         l \in Owners(n) /\ n \in DOMAIN last /\ kept[l][n] = last[n]
                    /\ l \in Owners(n) /\ n \in DOMAIN last =>
                         n \in DOMAIN kept[l] \/ (Node!Discards(l) /\ Node!IsStale(l, last[n]))
  BY DEF RoutedBy
<1>1. CASE ~Node!Discards(l)
  BY <1>1 DEF Node!Kept, RoutedBy
<1>2. CASE Node!Discards(l)
  <2>1. /\ DOMAIN kept[l] = {m \in DOMAIN all[l] : ~Node!IsStale(l, all[l][m])}
        /\ \A m \in DOMAIN kept[l] : kept[l][m] = all[l][m]
    BY <1>2 DEF Node!Kept
  <2> QED
    BY <1>2, <2>1 DEF RoutedBy
<1> QED
  BY <1>1, <1>2

LEMMA LastOfFacts ==
  ASSUME NEW message \in Seq(Camera!Status), NEW n \in Node!Named(message)
  PROVE  /\ n \in StatusNames /\ Node!LastOf(message, n).level \in 0 .. 2
         /\ \E k \in DOMAIN message :
              message[k].name = n /\ Node!LastOf(message, n).level = message[k].level
<1> DEFINE named == {k \in DOMAIN message : message[k].name = n}
<1>1. /\ Len(message) \in Nat /\ DOMAIN message = 1 .. Len(message)
      /\ \A k \in DOMAIN message : message[k] \in Camera!Status
  BY LenProperties, ElementOfSeq
<1>2. named # {}
  BY DEF Node!Named, Node!ToSet
<1>3. IsFiniteSet(named) /\ named \subseteq Int
  <2>1. IsFiniteSet(1 .. Len(message))
    BY <1>1, FS_Interval
  <2> QED
    BY <1>1, <2>1, FS_Subset
<1>4. Node!LastOf(message, n) = message[Node!Max(named)]
  BY DEF Node!LastOf
<1> HIDE DEF named
<1>5. Node!Max(named) \in named
  BY <1>2, <1>3, MaxFacts
<1>6. Node!Max(named) \in DOMAIN message /\ message[Node!Max(named)].name = n
  BY <1>5 DEF named
<1> QED
  BY <1>1, <1>4, <1>6 DEF Camera!Status, Camera!OK, Camera!Warn, Camera!Error, StatusNames

Holds(new, held, message, names) ==
  /\ DOMAIN new = DOMAIN held \cup names
  /\ \A n \in names : new[n] = [level |-> Node!LastOf(message, n).level, age |-> 0]
  /\ \A n \in DOMAIN held \ names : new[n] = held[n]

LEMMA HoldFacts ==
  ASSUME NEW message \in Seq(Camera!Status), NEW names \in SUBSET Node!Named(message),
         NEW held, Node!IsHeld(held), NEW new, new = Node!Hold(held, message, names)
  PROVE  Node!IsHeld(new) /\ Holds(new, held, message, names)
<1>1. Holds(new, held, message, names)
  BY DEF Node!Hold, Holds
<1>2. \A n \in names : n \in StatusNames /\ Node!LastOf(message, n).level \in 0 .. 2
  BY LastOfFacts
<1>3. ASSUME NEW n \in DOMAIN new
      PROVE  new[n] \in [level : 0 .. 3, age : 0 .. Node!MaxItemAge] /\ n \in StatusNames
  <2>1. CASE n \in names
    <3>1. Node!LastOf(message, n).level \in 0 .. 3 /\ 0 \in 0 .. Node!MaxItemAge
      BY <1>2, <2>1, AgeFacts
    <3>2. new[n] = [level |-> Node!LastOf(message, n).level, age |-> 0]
      BY <1>1, <2>1 DEF Holds
    <3> QED
      BY <1>2, <2>1, <3>1, <3>2
  <2>2. CASE n \notin names
    BY <1>1, <2>2 DEF Holds, Node!IsHeld, Node!OK, Node!Stale, StatusNames
  <2> QED
    BY <2>1, <2>2
<1>4. Node!IsHeld(new)
  BY <1>3 DEF Node!IsHeld, Node!OK, Node!Stale, StatusNames
<1> QED
  BY <1>1, <1>4

(* A message that is analyzed reaches the analyzers that match its names. *)
LEMMA AnalyzeFacts ==
  ASSUME AggregatorInv, NEW message \in Seq(Camera!Status)
  PROVE  /\ \A l \in Node!Analyzer : Node!IsHeld(Node!Analyze(message)[l])
         /\ Node!IsHeld(Node!Hold(latest, message, Node!Named(message)))
         /\ RoutedBy(Node!Analyze(message), Node!Hold(latest, message, Node!Named(message)))
<1> DEFINE all == Node!Analyze(message)
           last == Node!Hold(latest, message, Node!Named(message))
           Taken(l) == {n \in Node!Named(message) : l \in Node!Targets(n)}
<1>1. /\ Node!IsHeld(latest) /\ RoutedBy(items, latest)
      /\ \A l \in Node!Analyzer : Node!IsHeld(items[l])
  BY DEF AggregatorInv
<1>2. \A n \in Node!Named(message) : n \in StatusNames /\ Node!Targets(n) = Owners(n)
  BY LastOfFacts, TargetsFacts DEF AggregatorInv
<1>3. \A l \in Node!Analyzer : all[l] = Node!Hold(items[l], message, Taken(l))
  BY DEF Node!Analyze
<1> HIDE DEF all, last
<1>4. ASSUME NEW l \in Node!Analyzer
      PROVE  Node!IsHeld(all[l]) /\ Holds(all[l], items[l], message, Taken(l))
  <2>1. Taken(l) \in SUBSET Node!Named(message)
    OBVIOUS
  <2> HIDE DEF Taken
  <2>2. Node!IsHeld(items[l]) /\ all[l] = Node!Hold(items[l], message, Taken(l))
    BY <1>1, <1>3
  <2> QED
    BY <2>1, <2>2, HoldFacts
<1>5. Node!IsHeld(last) /\ Holds(last, latest, message, Node!Named(message))
  BY <1>1, HoldFacts DEF last
<1>6. RoutedBy(all, last)
  <2> SUFFICES ASSUME NEW l \in Node!Analyzer, NEW n \in StatusNames
               PROVE  /\ n \in DOMAIN all[l] =>
                           l \in Owners(n) /\ n \in DOMAIN last /\ all[l][n] = last[n]
                      /\ l \in Owners(n) /\ n \in DOMAIN last =>
                           n \in DOMAIN all[l] \/ (Node!Discards(l) /\ Node!IsStale(l, last[n]))
    BY DEF RoutedBy
  <2>1. CASE n \in Node!Named(message)
    <3>1. n \in Taken(l) <=> l \in Owners(n)
      BY <1>2, <2>1
    <3>2. n \in DOMAIN last /\ last[n] = [level |-> Node!LastOf(message, n).level, age |-> 0]
      BY <1>5, <2>1 DEF Holds
    <3>3. n \in DOMAIN items[l] => l \in Owners(n)
      BY <1>1 DEF RoutedBy
    <3>4. n \in DOMAIN all[l] <=> l \in Owners(n)
      BY <1>4, <3>1, <3>3 DEF Holds
    <3>5. l \in Owners(n) => all[l][n] = last[n]
      BY <1>4, <3>1, <3>2 DEF Holds
    <3> QED
      BY <3>2, <3>4, <3>5
  <2>2. CASE n \notin Node!Named(message)
    <3>1. n \notin Taken(l)
      BY <2>2
    <3> HIDE DEF Taken
    <3>2. /\ n \in DOMAIN all[l] <=> n \in DOMAIN items[l]
          /\ n \in DOMAIN items[l] => all[l][n] = items[l][n]
      BY <1>4, <3>1 DEF Holds
    <3>3. /\ n \in DOMAIN last <=> n \in DOMAIN latest
          /\ n \in DOMAIN latest => last[n] = latest[n]
      BY <1>5, <2>2 DEF Holds
    <3> QED
      BY <1>1, <3>2, <3>3 DEF RoutedBy
  <2> QED
    BY <2>1, <2>2
<1> QED
  BY <1>4, <1>5, <1>6 DEF all, last

-----------------------------------------------------------------------------
(* The analyzers through messages, publications, new parameters and time. *)
LEMMA AggregatorShows ==
  ASSUME AggregatorInv
  PROVE  Node!TypeOK /\ Node!Routed
<1>1. loaded \subseteq [type : {"generic", "discard", "ignore", "group"}, of : Leaf \cup Group]
  BY LoadedFacts DEF AggregatorInv, CacheInv
<1>2. Node!TypeOK
  BY <1>1 DEF AggregatorInv, Node!TypeOK, StatusNames, Node!OK, Node!Stale
<1>3. Node!Routed
  BY DEF AggregatorInv, RoutedBy, Node!Routed, Owners, StatusNames
<1> QED
  BY <1>2, <1>3

LEMMA PublishKeeps ==
  ASSUME AggregatorInv, Node!Publish
  PROVE  AggregatorInv'
<1>1. Node!PublishData(items) /\ sincePublish' = 0 /\ UNCHANGED <<loaded, failed, cache, latest>>
  BY DEF Node!Publish
<1>2. /\ lastTop' \in 0 .. 3 /\ sincePublish' = 0 /\ DOMAIN items' = Node!Analyzer
      /\ \A l \in Node!Analyzer :
           items'[l] = Node!Kept(l, items[l]) /\ Node!IsHeld(items'[l])
  BY <1>1, PublishFacts DEF AggregatorInv, CacheInv
<1>3. RoutedBy(items', latest)
  BY <1>2, KeptRoutes DEF AggregatorInv
<1>4. CacheInv'
  BY <1>1, OwnersKept DEF AggregatorInv, CacheInv
<1>5. Node!IsHeld(latest)' /\ \A l \in Node!Analyzer : Node!IsHeld(items[l])'
  BY <1>1, <1>2 DEF AggregatorInv, Node!IsHeld
<1>6. RoutedBy(items, latest)'
  BY <1>1, <1>3, OwnersKept
<1>7. sincePublish' \in 0 .. PubPeriod + PubLate
  BY <1>2, ParameterFacts
<1> QED
  BY <1>1, <1>2, <1>4, <1>5, <1>6, <1>7 DEF AggregatorInv

LEMMA ReceiveKeeps ==
  ASSUME AggregatorInv, NEW message \in Seq(Camera!Status), Node!Receive(message)
  PROVE  AggregatorInv'
<1> DEFINE all == Node!Analyze(message)
<1>1. /\ latest' = Node!Hold(latest, message, Node!Named(message))
      /\ UNCHANGED <<loaded, failed, sincePublish>>
  BY DEF Node!Receive
<1>2. /\ \A l \in Node!Analyzer : Node!IsHeld(all[l])
      /\ Node!IsHeld(latest') /\ RoutedBy(all, latest') /\ DOMAIN all = Node!Analyzer
  BY <1>1, AnalyzeFacts DEF Node!Analyze
<1> HIDE DEF all
<1>3. \/ Node!PublishData(all)
      \/ items' = all /\ lastTop' = lastTop
  BY DEF Node!Receive, all
<1>4. /\ lastTop' \in 0 .. 3 /\ sincePublish' \in 0 .. PubPeriod + PubLate
      /\ DOMAIN items' = Node!Analyzer
      /\ \A l \in Node!Analyzer : Node!IsHeld(items'[l])
      /\ RoutedBy(items', latest')
  <2>1. CASE Node!PublishData(all)
    <3>1. /\ lastTop' \in 0 .. 3 /\ DOMAIN items' = Node!Analyzer
          /\ \A l \in Node!Analyzer :
               items'[l] = Node!Kept(l, all[l]) /\ Node!IsHeld(items'[l])
      BY <1>2, <2>1, PublishFacts DEF AggregatorInv, CacheInv
    <3>2. RoutedBy(items', latest')
      BY <1>2, <3>1, KeptRoutes
    <3> QED
      BY <1>1, <3>1, <3>2 DEF AggregatorInv
  <2>2. CASE items' = all /\ lastTop' = lastTop
    BY <1>1, <1>2, <2>2 DEF AggregatorInv
  <2> QED
    BY <1>3, <2>1, <2>2
<1>5. /\ cache' \in [StatusNames -> (SUBSET Leaf) \cup {NotCached}]
      /\ \A n \in StatusNames : cache'[n] = NotCached \/ cache'[n] = Node!MatchedBy(n)
  <2>1. /\ DOMAIN cache' = StatusNames
        /\ cache' = [n \in StatusNames |->
             IF n \in Node!Named(message) /\ loaded # {}
             THEN Node!Targets(n) \ {Other} ELSE cache[n]]
    BY DEF Node!Receive, StatusNames
  <2>2. \A n \in StatusNames :
          /\ cache[n] \in (SUBSET Leaf) \cup {NotCached}
          /\ cache[n] = NotCached \/ cache[n] = Node!MatchedBy(n)
          /\ Node!Targets(n) \ {Other} = Node!MatchedBy(n)
          /\ Node!MatchedBy(n) \in SUBSET Leaf
    BY TargetsFacts, OwnersFacts DEF AggregatorInv, CacheInv
  <2> QED
    BY <2>1, <2>2
<1>6. CacheInv'
  BY <1>1, <1>5, OwnersKept DEF AggregatorInv, CacheInv
<1>7. Node!IsHeld(latest)' /\ \A l \in Node!Analyzer : Node!IsHeld(items[l])'
  BY <1>2, <1>4 DEF Node!IsHeld
<1>8. RoutedBy(items, latest)'
  BY <1>1, <1>4, OwnersKept
<1> QED
  BY <1>1, <1>4, <1>5, <1>6, <1>7, <1>8 DEF AggregatorInv

(* New analyzers hold nothing, and what a name goes to is found anew. *)
LEMMA ReloadKeeps ==
  ASSUME AggregatorInv, Node!Reload
  PROVE  AggregatorInv' /\ latest' = Node!Empty
<1>1. PICK config \in Config : Node!MakeAnalyzers(config)
  BY DEF Node!Reload
<1>2. /\ loaded' \subseteq Node!RootInits /\ failed' \in BOOLEAN
      /\ items' = [l \in Node!Analyzer |-> Node!Empty] /\ latest' = Node!Empty
      /\ cache' = [n \in StatusNames |-> NotCached]
  BY <1>1 DEF Node!MakeAnalyzers, Node!LoadFrom, StatusNames
<1>3. lastTop' = lastTop /\ sincePublish' = sincePublish
  BY DEF Node!Reload
<1>4. DOMAIN Node!Empty = {} /\ Node!IsHeld(Node!Empty)
  BY DEF Node!Empty, Node!IsHeld
<1>5. CacheInv' /\ RoutedBy(items, latest)'
  BY <1>2, <1>4 DEF CacheInv, RoutedBy
<1>6. Node!IsHeld(latest)' /\ \A l \in Node!Analyzer : Node!IsHeld(items[l])'
  BY <1>2, <1>4 DEF Node!IsHeld
<1> QED
  BY <1>2, <1>3, <1>5, <1>6 DEF AggregatorInv

LEMMA AggregatorInit ==
  ASSUME Node!Init
  PROVE  AggregatorInv
<1>1. /\ loaded \subseteq Node!RootInits /\ failed \in BOOLEAN
      /\ items = [l \in Node!Analyzer |-> Node!Empty] /\ latest = Node!Empty
      /\ cache = [n \in StatusNames |-> NotCached]
      /\ lastTop = 3 /\ sincePublish = 0
  BY DEF Node!Init, StatusNames, Node!Stale
<1>2. DOMAIN Node!Empty = {} /\ Node!IsHeld(Node!Empty)
  BY DEF Node!Empty, Node!IsHeld
<1>3. CacheInv /\ RoutedBy(items, latest)
  BY <1>1, <1>2 DEF CacheInv, RoutedBy
<1> QED
  BY <1>1, <1>2, <1>3, ParameterFacts DEF AggregatorInv

LEMMA OlderFacts ==
  ASSUME NEW held, Node!IsHeld(held)
  PROVE  /\ DOMAIN Node!Older(held) = DOMAIN held /\ Node!IsHeld(Node!Older(held))
         /\ \A n \in DOMAIN held :
              /\ held[n].age \in 0 .. Node!MaxItemAge
              /\ Node!Older(held)[n].level = held[n].level
              /\ Node!Older(held)[n].age
                   = IF held[n].age < Node!MaxItemAge THEN held[n].age + 1
                     ELSE Node!MaxItemAge
<1>1. Node!Older(held) = [n \in DOMAIN held |->
        [held[n] EXCEPT !.age = Node!Min({held[n].age + 1, Node!MaxItemAge})]]
  BY DEF Node!Older
<1>2. ASSUME NEW n \in DOMAIN held
      PROVE  /\ held[n] \in [level : 0 .. 3, age : 0 .. Node!MaxItemAge]
             /\ Node!Min({held[n].age + 1, Node!MaxItemAge})
                  = IF held[n].age < Node!MaxItemAge THEN held[n].age + 1
                    ELSE Node!MaxItemAge
  <2>1. held[n] \in [level : 0 .. 3, age : 0 .. Node!MaxItemAge]
    BY DEF Node!IsHeld, Node!OK, Node!Stale
  <2>2. held[n].age \in 0 .. Node!MaxItemAge /\ Node!MaxItemAge \in Nat
    BY <2>1, AgeFacts
  <2> QED
    BY <2>1, <2>2 DEF Node!Min
<1>3. DOMAIN held \subseteq Stream \cup {Temperatures}
  BY DEF Node!IsHeld
<1> QED
  BY <1>1, <1>2, <1>3, AgeFacts DEF Node!IsHeld, Node!OK, Node!Stale

LEMMA AgeKeeps ==
  ASSUME AggregatorInv, Node!Age, ~Node!PublishDue
  PROVE  AggregatorInv'
<1>1. /\ items' = [l \in Node!Analyzer |-> Node!Older(items[l])]
      /\ latest' = Node!Older(latest) /\ sincePublish' = sincePublish + 1
      /\ UNCHANGED <<loaded, failed, cache, lastTop>>
  BY DEF Node!Age
<1>2. /\ Node!IsHeld(latest') /\ DOMAIN latest' = DOMAIN latest
      /\ DOMAIN items' = Node!Analyzer
      /\ \A l \in Node!Analyzer : Node!IsHeld(items'[l]) /\ DOMAIN items'[l] = DOMAIN items[l]
  BY <1>1, OlderFacts DEF AggregatorInv
<1>3. ASSUME NEW l \in Node!Analyzer, NEW n \in StatusNames
      PROVE  /\ n \in DOMAIN items'[l] =>
                  l \in Owners(n) /\ n \in DOMAIN latest' /\ items'[l][n] = latest'[n]
             /\ l \in Owners(n) /\ n \in DOMAIN latest' =>
                  n \in DOMAIN items'[l] \/ (Node!Discards(l) /\ Node!IsStale(l, latest'[n]))
  <2>1. ASSUME n \in DOMAIN items[l] PROVE items'[l][n] = latest'[n]
    <3>1. n \in DOMAIN latest /\ items[l][n] = latest[n]
      BY <2>1 DEF AggregatorInv, RoutedBy
    <3> QED
      BY <1>1, <2>1, <3>1 DEF Node!Older
  <2>2. ASSUME n \in DOMAIN latest, Node!IsStale(l, latest[n]) PROVE Node!IsStale(l, latest'[n])
    <3>1. /\ latest[n].age \in 0 .. Node!MaxItemAge
          /\ latest'[n].age = IF latest[n].age < Node!MaxItemAge THEN latest[n].age + 1
                              ELSE Node!MaxItemAge
      BY <1>1, <2>2, OlderFacts DEF AggregatorInv
    <3>2. Node!TimeoutOf(l) \in Nat /\ Node!TimeoutOf(l) < Node!MaxItemAge
      BY AgeFacts
    <3> QED
      BY <2>2, <3>1, <3>2, AgeFacts DEF Node!IsStale
  <2> QED
    BY <1>2, <2>1, <2>2 DEF AggregatorInv, RoutedBy
<1>4. RoutedBy(items, latest)'
  BY <1>1, <1>3, OwnersKept DEF RoutedBy
<1>5. CacheInv'
  BY <1>1, OwnersKept DEF AggregatorInv, CacheInv
<1>6. Node!IsHeld(latest)' /\ \A l \in Node!Analyzer : Node!IsHeld(items[l])'
  BY <1>2 DEF Node!IsHeld
<1>7. sincePublish' \in 0 .. PubPeriod + PubLate
  BY <1>1, ParameterFacts DEF AggregatorInv, Node!PublishDue
<1> QED
  BY <1>1, <1>2, <1>4, <1>5, <1>6, <1>7 DEF AggregatorInv

LEMMA AggregatorUnchanged ==
  ASSUME AggregatorInv, UNCHANGED aggregatorVars
  PROVE  AggregatorInv'
<1>1. CacheInv'
  BY OwnersKept DEF AggregatorInv, CacheInv, aggregatorVars
<1>2. RoutedBy(items, latest)'
  BY OwnersKept DEF AggregatorInv, aggregatorVars
<1>3. Node!IsHeld(latest)' /\ \A l \in Node!Analyzer : Node!IsHeld(items[l])'
  BY DEF AggregatorInv, Node!IsHeld, aggregatorVars
<1> QED
  BY <1>1, <1>2, <1>3 DEF AggregatorInv, aggregatorVars

-----------------------------------------------------------------------------
(* The window of a stream.  A slot is Before(i) old when an update is due,  *)
(* at the latest, and counts no more frames than fit in its age.            *)
Before(i) == (Window - i) * (Period + Late)
Slots == [1 .. Window -> [events : 0 .. MaxFrames * (Camera!MaxAge + 1),
                          age : 0 .. Camera!MaxAge]]

Bounded(slots, counted, since) ==
  \A i \in 1 .. Window :
    /\ slots[i].age <= Before(i) + since
    /\ slots[i].events <= MaxFrames * slots[i].age + counted

(* An event that a slot has counted is no older than the slot. *)
Recent(slots, quiet, since) ==
  \A i \in 1 .. Window : slots[i].events > 0 => quiet <= Before(i) + since

LEMMA BeforeFacts ==
  /\ Period + Late \in Nat /\ Camera!MaxAge \in Nat
  /\ \A i \in 1 .. Window : Before(i) \in Nat /\ Before(i) + (Period + Late) <= Camera!MaxAge
  /\ \A i \in 1 .. Window : i # Window => Before(i) = Before(i + 1) + (Period + Late)
<1> DEFINE B == Period + Late
<1>1. B \in Nat /\ Window \in Nat
  BY ConstantFacts
<1> HIDE DEF B
<1>2. \A n, m \in Nat : n * m \in Nat
  OBVIOUS
<1>3. \A n \in Nat : (n + 1) * B = n * B + B
  BY <1>1
<1>4. \A n, m \in Nat : n <= m => n * B <= m * B
  <2> SUFFICES ASSUME NEW n \in Nat, NEW m \in Nat, n <= m PROVE n * B <= m * B
    OBVIOUS
  <2>1. m - n \in Nat /\ m = n + (m - n)
    OBVIOUS
  <2>2. m * B = n * B + (m - n) * B
    BY <1>1
  <2>3. n * B \in Nat /\ (m - n) * B \in Nat
    BY <1>1, <1>2, <2>1
  <2> QED
    BY <2>2, <2>3
<1>5. Camera!MaxAge = Window * B /\ \A i : Before(i) = (Window - i) * B
  BY DEF Camera!MaxAge, Before, B
<1>6. ASSUME NEW i \in 1 .. Window
      PROVE  Before(i) \in Nat /\ Before(i) + B <= Window * B
  <2>1. Window - i \in Nat /\ (Window - i) + 1 \in Nat /\ (Window - i) + 1 <= Window
    BY <1>1
  <2>2. ((Window - i) + 1) * B = (Window - i) * B + B
    BY <1>3, <2>1
  <2>3. ((Window - i) + 1) * B <= Window * B
    BY <1>1, <1>4, <2>1
  <2> QED
    BY <1>1, <1>2, <1>5, <2>1, <2>2, <2>3
<1>7. ASSUME NEW i \in 1 .. Window, i # Window PROVE Before(i) = Before(i + 1) + B
  <2>1. Window - (i + 1) \in Nat /\ (Window - (i + 1)) + 1 = Window - i
    BY <1>1, <1>7
  <2> QED
    BY <1>3, <1>5, <2>1
<1> QED
  BY <1>1, <1>2, <1>5, <1>6, <1>7 DEF B

LEMMA FrameBound ==
  ASSUME NEW age \in Nat, NEW limit \in Nat, age <= limit
  PROVE  /\ MaxFrames * age \in Nat /\ MaxFrames * (age + 1) = MaxFrames * age + MaxFrames
         /\ MaxFrames * age + MaxFrames <= MaxFrames * (limit + 1)
<1>1. MaxFrames \in Nat
  BY ConstantFacts
<1>2. limit - age \in Nat /\ limit + 1 = (age + 1) + (limit - age)
  OBVIOUS
<1>3. MaxFrames * (limit + 1) = MaxFrames * (age + 1) + MaxFrames * (limit - age)
  BY <1>1, <1>2
<1>4. MaxFrames * (age + 1) = MaxFrames * age + MaxFrames
  BY <1>1
<1>5. \A n, m \in Nat : n * m \in Nat
  OBVIOUS
<1>6. MaxFrames * age \in Nat /\ MaxFrames * (limit - age) \in Nat
  BY <1>1, <1>2, <1>5
<1>7. \A a, b \in Nat : a + MaxFrames <= (a + MaxFrames) + b
  BY <1>1
<1> QED
  BY <1>3, <1>4, <1>6, <1>7

LEMMA SlotsFrom ==
  ASSUME NEW slots \in [1 .. Window -> [events : Nat, age : Nat]],
         NEW counted \in 0 .. MaxFrames, NEW since \in 0 .. Period + Late,
         Bounded(slots, counted, since)
  PROVE  slots \in Slots
<1>1. ASSUME NEW i \in 1 .. Window
      PROVE  slots[i] \in [events : 0 .. MaxFrames * (Camera!MaxAge + 1), age : 0 .. Camera!MaxAge]
  <2>1. slots[i] \in [events : Nat, age : Nat] /\ slots[i].events \in Nat /\ slots[i].age \in Nat
    OBVIOUS
  <2>2. slots[i].age <= Camera!MaxAge
    BY <2>1, BeforeFacts DEF Bounded
  <2>3. slots[i].events <= MaxFrames * slots[i].age + MaxFrames
    <3>1. slots[i].events <= MaxFrames * slots[i].age + counted
      BY DEF Bounded
    <3>2. MaxFrames * slots[i].age \in Nat
      BY <2>1, <2>2, BeforeFacts, FrameBound
    <3>3. \A a, b \in Nat : a <= b + counted => a <= b + MaxFrames
      BY ConstantFacts
    <3> QED
      BY <2>1, <3>1, <3>2, <3>3
  <2>4. slots[i].events <= MaxFrames * (Camera!MaxAge + 1)
    <3>1. /\ MaxFrames * slots[i].age \in Nat
          /\ MaxFrames * slots[i].age + MaxFrames <= MaxFrames * (Camera!MaxAge + 1)
      BY <2>1, <2>2, BeforeFacts, FrameBound
    <3>2. \A a, b, c \in Int : a <= b /\ b <= c => a <= c
      OBVIOUS
    <3>3. MaxFrames * (Camera!MaxAge + 1) \in Int
      BY BeforeFacts, ConstantFacts
    <3> QED
      BY <2>1, <2>3, <3>1, <3>2, <3>3, ConstantFacts
  <2>5. MaxFrames * (Camera!MaxAge + 1) \in Int
    BY BeforeFacts, ConstantFacts
  <2> QED
    BY <2>1, <2>2, <2>4, <2>5, BeforeFacts
<1> QED
  BY <1>1 DEF Slots

LEMMA SlotsFacts ==
  ASSUME NEW slots \in Slots
  PROVE  /\ slots \in [1 .. Window -> [events : Nat, age : Nat]]
         /\ slots \in Seq([events : Nat, age : Nat]) /\ Len(slots) = Window
         /\ DOMAIN slots = 1 .. Window
         /\ \A i \in 1 .. Window : slots[i].events \in Nat /\ slots[i].age \in Nat
<1>1. slots \in [1 .. Window -> [events : Nat, age : Nat]]
  BY BeforeFacts, ConstantFacts DEF Slots
<1>2. Window \in Nat /\ DOMAIN slots = 1 .. Window
  BY <1>1, ConstantFacts
<1>3. slots \in Seq([events : Nat, age : Nat])
  <2> DEFINE Slot == [events : Nat, age : Nat]
  <2>1. slots \in [1 .. Window -> Slot] /\ Window \in Nat
    BY <1>1, <1>2
  <2> HIDE DEF Slot
  <2>2. slots \in Seq(Slot)
    BY <2>1, SeqDef
  <2> QED
    BY <2>2 DEF Slot
<1>4. Len(slots) \in Nat /\ DOMAIN slots = 1 .. Len(slots)
  BY <1>3, LenProperties
<1>5. \A n, m \in Nat : 1 .. n = 1 .. m => n = m
  <2> SUFFICES ASSUME NEW n \in Nat, NEW m \in Nat, 1 .. n = 1 .. m PROVE n = m
    OBVIOUS
  <2>1. (n \in 1 .. n \/ n = 0) /\ (m \in 1 .. m \/ m = 0)
    OBVIOUS
  <2>2. (n \in 1 .. m \/ n = 0) /\ (m \in 1 .. n \/ m = 0)
    BY <2>1
  <2> QED
    BY <2>2
<1>6. Len(slots) = Window
  BY <1>2, <1>4, <1>5
<1> QED
  BY <1>1, <1>2, <1>3, <1>6

LEMMA ClearedFacts ==
  /\ Camera!Cleared \in Slots
  /\ \A i \in 1 .. Window : Camera!Cleared[i].events = 0 /\ Camera!Cleared[i].age = 0
  /\ \A counted, since \in Nat : Bounded(Camera!Cleared, counted, since)
  /\ \A quiet, since : Recent(Camera!Cleared, quiet, since)
<1>1. Camera!Cleared = [i \in 1 .. Window |-> [events |-> 0, age |-> 0]]
  BY DEF Camera!Cleared
<1>2. \A i \in 1 .. Window : Camera!Cleared[i].events = 0 /\ Camera!Cleared[i].age = 0
  BY <1>1
<1>3. MaxFrames * 0 = 0 /\ 0 \in 0 .. Camera!MaxAge
  BY BeforeFacts, ConstantFacts
<1>4. \A counted, since \in Nat : Bounded(Camera!Cleared, counted, since)
  BY <1>2, <1>3, BeforeFacts DEF Bounded
<1>5. Camera!Cleared \in Slots
  <2>1. Camera!Cleared \in [1 .. Window -> [events : Nat, age : Nat]]
    BY <1>1
  <2>2. 0 \in 0 .. MaxFrames /\ 0 \in 0 .. Period + Late
    BY ConstantFacts
  <2> QED
    BY <1>4, <2>1, <2>2, SlotsFrom
<1> QED
  BY <1>2, <1>4, <1>5 DEF Recent

LEMMA AdvanceFacts ==
  ASSUME NEW slots \in Slots, NEW counted \in 0 .. MaxFrames,
         NEW since \in 0 .. Period + Late, Bounded(slots, counted, since)
  PROVE  /\ Camera!Advance(slots) \in Slots /\ Bounded(Camera!Advance(slots), counted, 0)
         /\ \A quiet \in Int :
              Recent(slots, quiet, since) => Recent(Camera!Advance(slots), quiet, 0)
<1> DEFINE Slot == [events : Nat, age : Nat]
           new == Camera!Advance(slots)
<1>1. slots \in Seq(Slot) /\ Len(slots) = Window /\ Window \in Nat /\ Window >= 1
  BY SlotsFacts, ConstantFacts
<1>2. slots # <<>>
  BY <1>1, EmptySeq
<1>3. /\ Tail(slots) \in Seq(Slot) /\ Len(Tail(slots)) = Window - 1
      /\ \A i \in 1 .. Window - 1 : Tail(slots)[i] = slots[i + 1]
  BY <1>1, <1>2, HeadTailProperties
<1>4. 1 \in 1 .. Window /\ Camera!Cleared[1] = [events |-> 0, age |-> 0]
  BY <1>1 DEF Camera!Cleared
<1>5. new = Append(Tail(slots), [events |-> 0, age |-> 0])
  BY <1>4 DEF Camera!Advance
<1> HIDE DEF new
<1>6. [events |-> 0, age |-> 0] \in Slot
  OBVIOUS
<1>7. /\ new \in Seq(Slot) /\ Len(new) = Window
      /\ \A i \in 1 .. Window - 1 : new[i] = slots[i + 1]
      /\ new[Window] = [events |-> 0, age |-> 0]
  BY <1>1, <1>3, <1>5, <1>6, AppendProperties
<1>8. new \in [1 .. Window -> Slot]
  BY <1>7, LenProperties
<1>9. ASSUME NEW i \in 1 .. Window
      PROVE  /\ i # Window => i + 1 \in 1 .. Window /\ new[i] = slots[i + 1]
                              /\ Before(i) = Before(i + 1) + (Period + Late)
             /\ i = Window => new[i].events = 0 /\ new[i].age = 0
             /\ Before(i) \in Nat
  <2>1. i # Window => i \in 1 .. Window - 1 /\ i + 1 \in 1 .. Window
    <3>1. Window \in Nat
      BY <1>1
    <3> QED
      BY <3>1
  <2>2. i = Window => new[i].events = 0 /\ new[i].age = 0
    BY <1>7
  <2> QED
    BY <1>7, <2>1, <2>2, BeforeFacts
<1>10. Bounded(new, counted, 0)
  <2> SUFFICES ASSUME NEW i \in 1 .. Window
               PROVE  /\ new[i].age <= Before(i) + 0
                      /\ new[i].events <= MaxFrames * new[i].age + counted
    BY DEF Bounded
  <2>1. CASE i = Window
    BY <1>9, <2>1, ConstantFacts
  <2>2. CASE i # Window
    <3>1. i + 1 \in 1 .. Window /\ new[i] = slots[i + 1]
          /\ Before(i) = Before(i + 1) + (Period + Late)
      BY <1>9, <2>2
    <3>2. /\ slots[i + 1].age <= Before(i + 1) + since
          /\ slots[i + 1].events <= MaxFrames * slots[i + 1].age + counted
          /\ slots[i + 1].age \in Nat /\ Before(i + 1) \in Nat
      BY <3>1, SlotsFacts, BeforeFacts DEF Bounded
    <3> QED
      BY <3>1, <3>2, BeforeFacts
  <2> QED
    BY <2>1, <2>2
<1>11. new \in Slots
  <2>1. 0 \in 0 .. Period + Late
    BY ConstantFacts
  <2> QED
    BY <1>8, <1>10, <2>1, SlotsFrom
<1>12. ASSUME NEW quiet \in Int, Recent(slots, quiet, since)
       PROVE  Recent(new, quiet, 0)
  <2> SUFFICES ASSUME NEW i \in 1 .. Window, new[i].events > 0
               PROVE  quiet <= Before(i) + 0
    BY DEF Recent
  <2>1. i # Window
    BY <1>9
  <2>2. i + 1 \in 1 .. Window /\ new[i] = slots[i + 1]
        /\ Before(i) = Before(i + 1) + (Period + Late)
    BY <1>9, <2>1
  <2>3. quiet <= Before(i + 1) + since
    BY <1>12, <2>2 DEF Recent
  <2> QED
    BY <2>2, <2>3, BeforeFacts
<1> QED
  BY <1>10, <1>11, <1>12 DEF new

LEMMA CountFacts ==
  ASSUME NEW slots \in Slots, NEW counted \in 0 .. MaxFrames - 1,
         NEW since \in 0 .. Period + Late, Bounded(slots, counted, since),
         NEW new, new = [i \in DOMAIN slots |-> [slots[i] EXCEPT !.events = slots[i].events + 1]]
  PROVE  new \in Slots /\ Bounded(new, counted + 1, since) /\ Recent(new, 0, since)
<1>1. /\ DOMAIN slots = 1 .. Window
      /\ \A i \in 1 .. Window : slots[i].events \in Nat /\ slots[i].age \in Nat
      /\ slots \in [1 .. Window -> [events : Nat, age : Nat]]
  BY SlotsFacts
<1>2. /\ new \in [1 .. Window -> [events : Nat, age : Nat]]
      /\ \A i \in 1 .. Window : new[i].events = slots[i].events + 1 /\ new[i].age = slots[i].age
  BY <1>1
<1>3. Bounded(new, counted + 1, since)
  <2> SUFFICES ASSUME NEW i \in 1 .. Window
               PROVE  /\ new[i].age <= Before(i) + since
                      /\ new[i].events <= MaxFrames * new[i].age + (counted + 1)
    BY DEF Bounded
  <2> DEFINE product == MaxFrames * slots[i].age
  <2>1. /\ product \in Nat /\ MaxFrames * new[i].age = product
        /\ slots[i].events <= product + counted
    BY <1>1, <1>2, FrameBound DEF Bounded
  <2>2. new[i].age <= Before(i) + since
    BY <1>2 DEF Bounded
  <2> HIDE DEF product
  <2>3. slots[i].events + 1 <= product + (counted + 1)
    BY <1>1, <2>1, ConstantFacts
  <2> QED
    BY <1>2, <2>1, <2>2, <2>3
<1>4. new \in Slots
  <2>1. counted + 1 \in 0 .. MaxFrames
    BY ConstantFacts
  <2> QED
    BY <1>2, <1>3, <2>1, SlotsFrom
<1>5. Recent(new, 0, since)
  BY BeforeFacts DEF Recent
<1> QED
  BY <1>3, <1>4, <1>5

LEMMA AgedFacts ==
  ASSUME NEW slots \in Slots, NEW counted \in 0 .. MaxFrames,
         NEW since \in 0 .. (Period + Late) - 1, Bounded(slots, counted, since),
         NEW new, new = [i \in DOMAIN slots |-> [slots[i] EXCEPT !.age = slots[i].age + 1]]
  PROVE  /\ new \in Slots /\ Bounded(new, 0, since + 1)
         /\ \A quiet \in Nat, later \in Nat :
              Recent(slots, quiet, since) /\ later <= quiet + 1 => Recent(new, later, since + 1)
<1>1. /\ DOMAIN slots = 1 .. Window
      /\ \A i \in 1 .. Window : slots[i].events \in Nat /\ slots[i].age \in Nat
      /\ slots \in [1 .. Window -> [events : Nat, age : Nat]]
  BY SlotsFacts
<1>2. /\ new \in [1 .. Window -> [events : Nat, age : Nat]]
      /\ \A i \in 1 .. Window : new[i].events = slots[i].events /\ new[i].age = slots[i].age + 1
  BY <1>1
<1>3. Bounded(new, 0, since + 1)
  <2> SUFFICES ASSUME NEW i \in 1 .. Window
               PROVE  /\ new[i].age <= Before(i) + (since + 1)
                      /\ new[i].events <= MaxFrames * new[i].age + 0
    BY DEF Bounded
  <2>1. /\ MaxFrames * slots[i].age \in Nat
        /\ MaxFrames * (slots[i].age + 1) = MaxFrames * slots[i].age + MaxFrames
    BY <1>1, FrameBound
  <2>2. slots[i].events <= MaxFrames * slots[i].age + counted
    BY DEF Bounded
  <2>3. slots[i].age <= Before(i) + since /\ Before(i) \in Nat
    BY BeforeFacts DEF Bounded
  <2>4. new[i].age <= Before(i) + (since + 1)
    BY <1>1, <1>2, <2>3
  <2> DEFINE product == MaxFrames * slots[i].age
  <2>5. product \in Nat /\ MaxFrames * new[i].age = product + MaxFrames
        /\ slots[i].events <= product + counted
    BY <1>2, <2>1, <2>2
  <2> HIDE DEF product
  <2>6. slots[i].events <= product + MaxFrames
    BY <1>1, <2>5, ConstantFacts
  <2>7. new[i].events <= product + MaxFrames /\ product + MaxFrames = MaxFrames * new[i].age + 0
    BY <1>2, <2>5, <2>6, ConstantFacts
  <2> QED
    BY <2>4, <2>7
<1>4. new \in Slots
  <2>1. 0 \in 0 .. MaxFrames /\ since + 1 \in 0 .. Period + Late
    BY ConstantFacts
  <2> QED
    BY <1>2, <1>3, <2>1, SlotsFrom
<1>5. ASSUME NEW quiet \in Nat, NEW later \in Nat, Recent(slots, quiet, since),
             later <= quiet + 1
      PROVE  Recent(new, later, since + 1)
  BY <1>2, <1>5, BeforeFacts DEF Recent
<1> QED
  BY <1>3, <1>4, <1>5

-----------------------------------------------------------------------------
(* What the camera knows and says of its streams.  A status that is not bad *)
(* is of a stream whose frames are no older than the window.                *)
FrequencyInv ==
  /\ frames \in [Stream -> 0 .. MaxFrames] /\ sinceUpdate \in 0 .. Period + Late
  /\ outbox \in Seq(Camera!Status)
  /\ history \in [Stream -> Slots]
  /\ \A s \in registered : Bounded(history[s], frames[s], sinceUpdate)

SampledInv ==
  /\ silent \in [Stream -> 0 .. Horizon]
  /\ \A s \in registered : Recent(history[s], silent[s], sinceUpdate)
  /\ \A k \in DOMAIN outbox : outbox[k].name \in Stream /\ outbox[k].level < 2 =>
       silent[outbox[k].name] <= Camera!MaxAge

LEMMA HorizonFacts ==
  /\ Horizon = Camera!MaxAge + LongestTimeout + 1 + PubPeriod + PubLate
  /\ Horizon \in Nat
<1>1. Horizon = Camera!MaxAge + LongestTimeout + 1 + PubPeriod + PubLate
  BY DEF Horizon, Camera!MaxAge
<1> QED
  BY <1>1, BeforeFacts, AgeFacts, ParameterFacts

LEMMA StatusFacts ==
  ASSUME NEW name \in StatusNames, NEW level \in 0 .. 2
  PROVE  /\ [name |-> name, level |-> level] \in Camera!Status
         /\ <<[name |-> name, level |-> level]>> \in Seq(Camera!Status)
         /\ DOMAIN <<[name |-> name, level |-> level]>> = {1}
BY DEF Camera!Status, Camera!OK, Camera!Warn, Camera!Error, StatusNames

LEMMA RunFacts ==
  ASSUME NEW task \in Task, Camera!Exists(task), FrequencyInv
  PROVE  /\ Camera!Run(task) \in Camera!Status /\ Camera!Run(task).name = task.name
         /\ task.name \in Stream /\ Camera!Run(task).level < 2 =>
              task.name \in registered /\ history[task.name][1].events > 0
<1>1. /\ task.name \in StatusNames /\ task.object \in {"node", "temporary", "kept"}
      /\ task.object = "node" => task.name = Temperatures
      /\ task.object = "kept" => task.name \in registered
  BY DEF Task, Camera!Task, Camera!Exists, StatusNames
<1>2. ASSUME NEW slot
      PROVE  /\ Camera!FrequencyLevel(slot) \in 0 .. 2
             /\ slot.events \in Nat /\ Camera!FrequencyLevel(slot) < 2 => slot.events > 0
  <2>1. CASE slot.events = 0
    BY <2>1 DEF Camera!FrequencyLevel, Camera!Error
  <2>2. CASE slot.events # 0
    <3>1. Camera!FrequencyLevel(slot) \in 0 .. 1
      BY <2>2 DEF Camera!FrequencyLevel, Camera!Warn, Camera!OK
    <3> QED
      BY <2>2, <3>1
  <2> QED
    BY <2>1, <2>2
<1>3. Camera!Run(task) = [name |-> task.name, level |->
        IF task.object = "node" THEN 0 ELSE
        IF task.object = "temporary" THEN 2
        ELSE Camera!FrequencyLevel(Head(history[task.name]))]
  BY <1>1 DEF Camera!Run, Camera!OK, Camera!Error
<1>4. ASSUME task.name \in Stream
      PROVE  Head(history[task.name]) = history[task.name][1]
             /\ history[task.name][1].events \in Nat
  <2>1. history[task.name] \in Slots
    BY <1>4 DEF FrequencyInv
  <2>2. 1 \in 1 .. Window
    BY ConstantFacts
  <2> QED
    BY <2>1, <2>2, SlotsFacts
<1>5. Camera!Run(task) \in Camera!Status /\ Camera!Run(task).name = task.name
  <2> DEFINE level == IF task.object = "node" THEN 0 ELSE
                      IF task.object = "temporary" THEN 2
                      ELSE Camera!FrequencyLevel(Head(history[task.name]))
  <2>1. level \in 0 .. 2 /\ Camera!Run(task) = [name |-> task.name, level |-> level]
    BY <1>2, <1>3
  <2> HIDE DEF level
  <2>2. [name |-> task.name, level |-> level] \in Camera!Status
    BY <1>1, <2>1 DEF Camera!Status, Camera!OK, Camera!Warn, Camera!Error, StatusNames
  <2> QED
    BY <2>1, <2>2
<1>6. ASSUME task.name \in Stream, Camera!Run(task).level < 2
      PROVE  task.name \in registered /\ history[task.name][1].events > 0
  <2>1. task.object = "kept"
    BY <1>1, <1>3, <1>6, ConstantFacts
  <2> QED
    BY <1>1, <1>2, <1>3, <1>4, <1>6, <2>1
<1> QED
  BY <1>5, <1>6

LEMMA RecentLess ==
  ASSUME NEW slots, NEW since \in 0 .. Period + Late, NEW quiet \in Nat, NEW later \in Nat,
         later <= quiet, Recent(slots, quiet, since)
  PROVE  Recent(slots, later, since)
<1> SUFFICES ASSUME NEW i \in 1 .. Window, slots[i].events > 0
             PROVE  later <= Before(i) + since
  BY DEF Recent
<1>1. quiet <= Before(i) + since
  BY DEF Recent
<1> QED
  BY <1>1, BeforeFacts

LEMMA OperateSamples ==
  ASSUME ThreadInv, FrequencyInv, SampledInv, Operate
  PROVE  FrequencyInv' /\ SampledInv'
<1>1. UNCHANGED <<history, frames, silent>>
  BY DEF Operate, Camera!Boot, Camera!Die, Camera!Close, Camera!StopSensor, Camera!Reset,
         Camera!StartSensor, Camera!clockVars
<1>2. /\ registered' \subseteq registered
      /\ registered' # {} => sinceUpdate' = sinceUpdate
      /\ sinceUpdate' \in {sinceUpdate, 0}
  BY DEF Operate, Camera!Boot, Camera!Die, Camera!Close, Camera!StopSensor, Camera!Reset,
         Camera!StartSensor, Camera!clockVars, ThreadInv
<1>3. outbox' \in {outbox, <<>>, <<[name |-> Temperatures, level |-> 0]>>}
  BY DEF Operate, Camera!Boot, Camera!Die, Camera!UpdaterEnds, Camera!Close, Camera!StopSensor,
         Camera!Reset, Camera!StartSensor, Camera!AddTask, Camera!Announce, Camera!OK
<1>4. /\ outbox' \in Seq(Camera!Status)
      /\ \A k \in DOMAIN outbox' : outbox'[k].name \in Stream /\ outbox'[k].level < 2 =>
           silent[outbox'[k].name] <= Camera!MaxAge
  <2>1. CASE outbox' = outbox
    BY <2>1 DEF FrequencyInv, SampledInv
  <2>2. CASE outbox' = <<>>
    BY <2>2
  <2>3. CASE outbox' = <<[name |-> Temperatures, level |-> 0]>>
    <3>1. Temperatures \in StatusNames /\ 0 \in 0 .. 2
      BY DEF StatusNames
    <3>2. outbox' \in Seq(Camera!Status) /\ DOMAIN outbox' = {1} /\ outbox'[1].name = Temperatures
      BY <2>3, <3>1, StatusFacts
    <3> QED
      BY <3>2, ConstantFacts
  <2> QED
    BY <1>3, <2>1, <2>2, <2>3
<1>5. sinceUpdate' \in 0 .. Period + Late
  BY <1>2, BeforeFacts DEF FrequencyInv
<1>6. \A s \in registered' :
        /\ Bounded(history[s], frames[s], sinceUpdate')
        /\ Recent(history[s], silent[s], sinceUpdate')
  BY <1>2 DEF FrequencyInv, SampledInv
<1> QED
  BY <1>1, <1>4, <1>5, <1>6 DEF FrequencyInv, SampledInv, Bounded, Recent

(* The sensor stops or the updater ends: fewer streams are entered. *)
LEMMA StartOrStopSamples ==
  ASSUME ThreadInv, FrequencyInv, SampledInv, StartOrStop
  PROVE  FrequencyInv' /\ SampledInv'
<1>1. UNCHANGED <<history, frames, sinceUpdate, silent>>
  BY DEF StartOrStop, Camera!StartOrStop, Camera!Clear, Camera!StartReturns, Camera!StopReturns,
         Camera!ResetReturns, Camera!MembersGo, Camera!Dispose, Camera!clockVars
<1>2. registered' \subseteq registered /\ outbox' \in {outbox, <<>>}
  BY DEF StartOrStop, Camera!StartOrStop, Camera!Clear, Camera!StartReturns, Camera!StopReturns,
         Camera!ResetReturns, Camera!MembersGo, Camera!Dispose, Camera!UpdaterEnds
<1>3. /\ outbox' \in Seq(Camera!Status)
      /\ \A k \in DOMAIN outbox' : outbox'[k].name \in Stream /\ outbox'[k].level < 2 =>
           silent[outbox'[k].name] <= Camera!MaxAge
  <2>1. CASE outbox' = outbox
    BY <2>1 DEF FrequencyInv, SampledInv
  <2>2. CASE outbox' = <<>>
    BY <2>2
  <2> QED
    BY <1>2, <2>1, <2>2
<1> QED
  BY <1>1, <1>2, <1>3 DEF FrequencyInv, SampledInv, Bounded, Recent

LEMMA EmplaceSamples ==
  ASSUME ThreadInv, FrequencyInv, SampledInv, Emplace
  PROVE  /\ FrequencyInv' /\ SampledInv'
         /\ \A s \in Stream : silent'[s] <= silent[s]
<1>1. /\ silent' \in [Stream -> 0 .. Horizon]
      /\ \A s \in Stream : silent'[s] \in {0, silent[s]}
      /\ temp \in Stream => silent'[temp] = 0
      /\ temp' \in Stream => silent'[temp'] = 0
  BY HorizonFacts DEF Emplace, SampledInv
<1>2. \A s \in Stream : silent[s] \in Nat /\ silent'[s] <= silent[s]
  BY <1>1, HorizonFacts DEF SampledInv
<1>3. UNCHANGED <<frames, sinceUpdate>>
  BY DEF Emplace, Camera!Emplace, Camera!Construct, Camera!Copy, Camera!KeyTaken,
         Camera!DropTemporary, Camera!clockVars
<1>4. /\ history' \in [Stream -> Slots]
      /\ \A s \in registered' : s \in Stream /\ Bounded(history'[s], frames[s], sinceUpdate)
                                /\ Recent(history'[s], silent'[s], sinceUpdate)
  <2>1. CASE Camera!Copy
    <3>1. /\ temp \in Stream /\ registered' = registered \cup {temp}
          /\ history' = [history EXCEPT ![temp] = Camera!Cleared]
      BY <2>1 DEF Camera!Copy, ThreadInv
    <3>2. /\ history' \in [Stream -> Slots] /\ history'[temp] = Camera!Cleared
          /\ \A s \in registered \ {temp} : history'[s] = history[s]
      BY <3>1, ClearedFacts DEF FrequencyInv, ThreadInv
    <3>3. frames[temp] \in Nat /\ sinceUpdate \in Nat
      BY <3>1, ConstantFacts DEF FrequencyInv
    <3>4. /\ Bounded(history'[temp], frames[temp], sinceUpdate)
          /\ Recent(history'[temp], silent'[temp], sinceUpdate)
      BY <3>2, <3>3, ClearedFacts
    <3>5. ASSUME NEW s \in registered, s # temp
          PROVE  /\ s \in Stream /\ Bounded(history'[s], frames[s], sinceUpdate)
                 /\ Recent(history'[s], silent'[s], sinceUpdate)
      <4>1. s \in Stream /\ Recent(history[s], silent[s], sinceUpdate)
        BY DEF SampledInv, ThreadInv
      <4>2. Recent(history[s], silent'[s], sinceUpdate)
        BY <1>1, <1>2, <4>1, RecentLess DEF FrequencyInv
      <4> QED
        BY <3>2, <3>5, <4>1, <4>2 DEF FrequencyInv
    <3> QED
      BY <3>1, <3>2, <3>4, <3>5
  <2>2. CASE ~Camera!Copy
    <3>1. history' = history /\ registered' \subseteq registered
      BY <2>2 DEF Emplace, Camera!Emplace, Camera!Construct, Camera!KeyTaken,
                  Camera!DropTemporary, Camera!clockVars
    <3>2. ASSUME NEW s \in registered
          PROVE  /\ s \in Stream /\ Bounded(history[s], frames[s], sinceUpdate)
                 /\ Recent(history[s], silent'[s], sinceUpdate)
      <4>1. s \in Stream /\ Recent(history[s], silent[s], sinceUpdate)
        BY DEF SampledInv, ThreadInv
      <4>2. Recent(history[s], silent'[s], sinceUpdate)
        BY <1>1, <1>2, <4>1, RecentLess DEF FrequencyInv
      <4> QED
        BY <4>1, <4>2 DEF FrequencyInv
    <3> QED
      BY <3>1, <3>2 DEF FrequencyInv
  <2> QED
    BY <2>1, <2>2
<1>5. /\ outbox' \in Seq(Camera!Status)
      /\ \A k \in DOMAIN outbox' : outbox'[k].name \in Stream /\ outbox'[k].level < 2 =>
           silent'[outbox'[k].name] <= Camera!MaxAge
  <2>1. CASE outbox' = outbox
    <3>1. \A k \in DOMAIN outbox : outbox[k].name \in Stream /\ outbox[k].level < 2 =>
            silent[outbox[k].name] <= Camera!MaxAge
      BY DEF SampledInv
    <3> QED
      BY <1>1, <1>2, <2>1, <3>1, BeforeFacts DEF FrequencyInv
  <2>2. CASE \E s \in Stream : /\ outbox' = <<[name |-> s, level |-> 0]>>
                               /\ s = temp \/ s = temp'
    <3>1. PICK s \in Stream : outbox' = <<[name |-> s, level |-> 0]>> /\ (s = temp \/ s = temp')
      BY <2>2
    <3>2. s \in StatusNames /\ 0 \in 0 .. 2
      BY DEF StatusNames
    <3>3. outbox' \in Seq(Camera!Status) /\ DOMAIN outbox' = {1} /\ outbox'[1].name = s
      BY <3>1, <3>2, StatusFacts
    <3> QED
      BY <1>1, <3>1, <3>3, BeforeFacts
  <2>3. \/ outbox' = outbox
        \/ \E s \in Stream : /\ outbox' = <<[name |-> s, level |-> 0]>>
                             /\ s = temp \/ s = temp'
    BY DEF Emplace, Camera!Emplace, Camera!Construct, Camera!Copy, Camera!KeyTaken,
           Camera!DropTemporary, ThreadInv, Camera!AddTask, Camera!Announce, Camera!OK
  <2> QED
    BY <2>1, <2>2, <2>3
<1> QED
  BY <1>1, <1>2, <1>3, <1>4, <1>5 DEF FrequencyInv, SampledInv, Bounded, Recent

LEMMA FrameSamples ==
  ASSUME ThreadInv, FrequencyInv, SampledInv, Frame
  PROVE  /\ FrequencyInv' /\ SampledInv'
         /\ \A s \in Stream : silent'[s] <= silent[s]
<1>1. PICK s \in Stream :
        /\ Camera!Frame(s)
        /\ silent' = [silent EXCEPT ![s] = IF s \in registered THEN 0 ELSE @]
  BY DEF Frame
<1>2. /\ s \in open /\ frames[s] < MaxFrames
      /\ frames' = [frames EXCEPT ![s] = frames[s] + 1]
      /\ history' = IF s \in registered
                    THEN [history EXCEPT ![s] = [i \in DOMAIN history[s] |->
                            [history[s][i] EXCEPT !.events = history[s][i].events + 1]]]
                    ELSE history
      /\ UNCHANGED <<registered, sinceUpdate, outbox>>
  BY <1>1 DEF Camera!Frame, Camera!Counted
<1>3. frames[s] \in 0 .. MaxFrames - 1 /\ history[s] \in Slots /\ sinceUpdate \in 0 .. Period + Late
  BY <1>2, ConstantFacts DEF FrequencyInv
<1>4. frames' \in [Stream -> 0 .. MaxFrames]
  <2>1. frames[s] + 1 \in 0 .. MaxFrames
    BY <1>3, ConstantFacts
  <2> QED
    BY <1>2, <2>1 DEF FrequencyInv
<1>5. /\ silent' \in [Stream -> 0 .. Horizon]
      /\ \A r \in Stream : silent[r] \in Nat /\ silent'[r] \in Nat /\ silent'[r] <= silent[r]
      /\ s \in registered => silent'[s] = 0
      /\ \A r \in Stream : r # s => silent'[r] = silent[r]
  BY <1>1, HorizonFacts DEF SampledInv
<1>6. CASE s \notin registered
  <2>1. history' = history /\ \A r \in registered : r \in Stream /\ frames'[r] = frames[r]
    BY <1>2, <1>6 DEF FrequencyInv, ThreadInv
  <2>2. silent' = silent
    BY <1>1, <1>6 DEF SampledInv
  <2> QED
    BY <1>2, <1>4, <1>5, <2>1, <2>2 DEF FrequencyInv, SampledInv, Bounded, Recent
<1>7. CASE s \in registered
  <2> DEFINE new == [i \in DOMAIN history[s] |->
                       [history[s][i] EXCEPT !.events = history[s][i].events + 1]]
  <2>1. Bounded(history[s], frames[s], sinceUpdate)
    BY <1>7 DEF FrequencyInv
  <2>2. /\ new \in Slots /\ Bounded(new, frames[s] + 1, sinceUpdate)
        /\ Recent(new, 0, sinceUpdate)
    BY <1>3, <2>1, CountFacts
  <2>3. history' = [history EXCEPT ![s] = new]
    BY <1>2, <1>7
  <2> HIDE DEF new
  <2>4. /\ history' \in [Stream -> Slots] /\ history'[s] = new /\ frames'[s] = frames[s] + 1
        /\ \A r \in Stream : r # s => history'[r] = history[r] /\ frames'[r] = frames[r]
    BY <1>2, <2>2, <2>3 DEF FrequencyInv
  <2>5. ASSUME NEW r \in registered
        PROVE  /\ Bounded(history'[r], frames'[r], sinceUpdate)
               /\ Recent(history'[r], silent'[r], sinceUpdate)
    <3>1. CASE r = s
      BY <1>5, <1>7, <2>2, <2>4, <3>1
    <3>2. CASE r # s
      <4>1. r \in Stream
        BY DEF ThreadInv
      <4> QED
        BY <1>5, <2>4, <3>2, <4>1 DEF FrequencyInv, SampledInv
    <3> QED
      BY <3>1, <3>2
  <2>6. \A k \in DOMAIN outbox : outbox[k].name \in Stream /\ outbox[k].level < 2 =>
          silent'[outbox[k].name] <= Camera!MaxAge
    BY <1>5, BeforeFacts DEF SampledInv
  <2> QED
    BY <1>2, <1>4, <1>5, <2>4, <2>5, <2>6 DEF FrequencyInv, SampledInv, Bounded, Recent
<1> QED
  BY <1>5, <1>6, <1>7

LEMMA UpdateSamples ==
  ASSUME ThreadInv, FrequencyInv, SampledInv, Camera!Update, UNCHANGED silent
  PROVE  FrequencyInv' /\ SampledInv'
<1>1. /\ outbox' = [k \in DOMAIN tasks |-> Camera!Run(tasks[k])]
      /\ history' = [s \in Stream |->
           IF s \in registered THEN Camera!Advance(history[s]) ELSE history[s]]
      /\ sinceUpdate' = 0
      /\ UNCHANGED <<registered, frames, silent>>
  BY DEF Camera!Update
<1>2. /\ Len(tasks) \in Nat /\ DOMAIN tasks = 1 .. Len(tasks)
      /\ \A k \in DOMAIN tasks : tasks[k] \in Task /\ Camera!Exists(tasks[k])
  BY LenProperties, ElementOfSeq DEF ThreadInv, Camera!Update
<1>3. outbox' \in Seq(Camera!Status)
  <2>1. outbox' \in [1 .. Len(tasks) -> Camera!Status]
    BY <1>1, <1>2, RunFacts
  <2> QED
    BY <1>2, <2>1, SeqDef
<1>4. ASSUME NEW s \in registered
      PROVE  /\ s \in Stream /\ history[s] \in Slots /\ frames[s] \in 0 .. MaxFrames
             /\ Bounded(history[s], frames[s], sinceUpdate)
             /\ Recent(history[s], silent[s], sinceUpdate) /\ silent[s] \in Int
  BY HorizonFacts DEF FrequencyInv, SampledInv, ThreadInv
<1>5. sinceUpdate \in 0 .. Period + Late
  BY DEF FrequencyInv
<1>6. ASSUME NEW s \in registered
      PROVE  /\ history'[s] \in Slots /\ Bounded(history'[s], frames[s], 0)
             /\ Recent(history'[s], silent[s], 0)
  <2>1. history'[s] = Camera!Advance(history[s])
    BY <1>1, <1>4
  <2> QED
    BY <1>4, <1>5, <2>1, AdvanceFacts
<1>7. history' \in [Stream -> Slots]
  <2>1. \A s \in Stream : history'[s] \in Slots
    BY <1>1, <1>6 DEF FrequencyInv
  <2> QED
    BY <1>1, <2>1
<1>8. ASSUME NEW k \in DOMAIN outbox', outbox'[k].name \in Stream, outbox'[k].level < 2
      PROVE  silent[outbox'[k].name] <= Camera!MaxAge
  <2> DEFINE s == outbox'[k].name
  <2>1. k \in DOMAIN tasks /\ outbox'[k] = Camera!Run(tasks[k])
    BY <1>1
  <2>2. s \in registered /\ history[s][1].events > 0
    BY <1>2, <1>8, <2>1, RunFacts
  <2> HIDE DEF s
  <2>3. 1 \in 1 .. Window
    BY ConstantFacts
  <2>4. silent[s] <= Before(1) + sinceUpdate
    BY <1>4, <2>2, <2>3 DEF Recent
  <2>5. silent[s] <= Camera!MaxAge
    BY <1>4, <1>5, <2>2, <2>3, <2>4, BeforeFacts
  <2> QED
    BY <2>5 DEF s
<1>9. sinceUpdate' \in 0 .. Period + Late
  BY <1>1, BeforeFacts
<1> QED
  BY <1>1, <1>3, <1>6, <1>7, <1>8, <1>9 DEF FrequencyInv, SampledInv, Bounded, Recent

(* Nothing of the camera changes, or a message is taken from it. *)
LEMMA OthersSample ==
  ASSUME ThreadInv, FrequencyInv, SampledInv,
         UNCHANGED <<registered, history, frames, sinceUpdate>>,
         outbox' \in {outbox, <<>>},
         silent' \in [Stream -> Nat], \A s \in Stream : silent'[s] <= silent[s]
  PROVE  FrequencyInv' /\ SampledInv'
<1>1. /\ silent' \in [Stream -> 0 .. Horizon]
      /\ \A s \in Stream : silent[s] \in Nat /\ silent'[s] \in Nat
  BY HorizonFacts DEF SampledInv
<1>2. \A s \in registered : s \in Stream /\ Recent(history[s], silent'[s], sinceUpdate)
  BY <1>1, RecentLess DEF FrequencyInv, SampledInv, ThreadInv
<1>3. /\ outbox' \in Seq(Camera!Status)
      /\ \A k \in DOMAIN outbox' : outbox'[k].name \in Stream /\ outbox'[k].level < 2 =>
           silent'[outbox'[k].name] <= Camera!MaxAge
  <2>1. CASE outbox' = <<>>
    BY <2>1
  <2>2. CASE outbox' = outbox
    <3>1. ASSUME NEW k \in DOMAIN outbox, outbox[k].name \in Stream, outbox[k].level < 2
          PROVE  silent'[outbox[k].name] <= Camera!MaxAge
      <4>1. silent[outbox[k].name] <= Camera!MaxAge
        BY <3>1 DEF SampledInv
      <4> QED
        BY <1>1, <3>1, <4>1, BeforeFacts
    <3> QED
      BY <2>2, <3>1 DEF FrequencyInv
  <2> QED
    BY <2>1, <2>2
<1> QED
  BY <1>1, <1>2, <1>3 DEF FrequencyInv, SampledInv, Bounded, Recent

LEMMA TickSamples ==
  ASSUME ThreadInv, FrequencyInv, SampledInv, Tick
  PROVE  /\ FrequencyInv' /\ SampledInv'
         /\ \A s \in Stream : silent'[s] <= silent[s] + 1
<1>1. /\ outbox = <<>> /\ outbox' = outbox /\ UNCHANGED <<up, registered>>
      /\ history' = [s \in Stream |->
           IF s \in registered
           THEN [i \in DOMAIN history[s] |->
                   [history[s][i] EXCEPT !.age = history[s][i].age + 1]]
           ELSE history[s]]
      /\ frames' = [s \in Stream |-> 0]
      /\ sinceUpdate' = IF up THEN sinceUpdate + 1 ELSE 0
      /\ silent' = [s \in Stream |-> Min({silent[s] + 1, Horizon})]
      /\ up => sinceUpdate < Period + Late
  BY BeforeFacts DEF Tick, Camera!Age, Camera!UpdateDue, Camera!streamVars, FrequencyInv
<1>2. sinceUpdate' \in 0 .. Period + Late
  BY <1>1, BeforeFacts DEF FrequencyInv
<1>3. ASSUME NEW s \in Stream
      PROVE  silent[s] \in Nat /\ silent'[s] \in 0 .. Horizon /\ silent'[s] <= silent[s] + 1
  <2>1. silent[s] \in 0 .. Horizon /\ Horizon \in Nat
    BY HorizonFacts DEF SampledInv
  <2>2. \A a, b \in Nat : Min({a, b}) = IF a <= b THEN a ELSE b
    BY DEF Min
  <2>3. silent'[s] = Min({silent[s] + 1, Horizon})
    BY <1>1
  <2> QED
    BY <2>1, <2>2, <2>3
<1>4. ASSUME NEW s \in registered
      PROVE  /\ history'[s] \in Slots /\ Bounded(history'[s], 0, sinceUpdate')
             /\ Recent(history'[s], silent'[s], sinceUpdate')
  <2>1. /\ s \in Stream /\ history[s] \in Slots /\ frames[s] \in 0 .. MaxFrames
        /\ Bounded(history[s], frames[s], sinceUpdate)
        /\ Recent(history[s], silent[s], sinceUpdate)
    BY DEF FrequencyInv, SampledInv, ThreadInv
  <2>2. up
    BY DEF ThreadInv
  <2>3. sinceUpdate \in 0 .. (Period + Late) - 1 /\ sinceUpdate' = sinceUpdate + 1
    BY <1>1, <2>2, BeforeFacts DEF FrequencyInv
  <2>4. history'[s] = [i \in DOMAIN history[s] |->
                         [history[s][i] EXCEPT !.age = history[s][i].age + 1]]
    BY <1>1, <2>1
  <2>5. silent[s] \in Nat /\ silent'[s] \in Nat /\ silent'[s] <= silent[s] + 1
    BY <1>3, <2>1
  <2> QED
    BY <2>1, <2>3, <2>4, <2>5, AgedFacts
<1>5. history' \in [Stream -> Slots]
  <2>1. \A s \in Stream : history'[s] \in Slots
    BY <1>1, <1>4 DEF FrequencyInv
  <2> QED
    BY <1>1, <2>1
<1>6. frames' \in [Stream -> 0 .. MaxFrames] /\ \A s \in registered : frames'[s] = 0
  BY <1>1, ConstantFacts DEF ThreadInv
<1>7. silent' \in [Stream -> 0 .. Horizon]
  BY <1>1, <1>3
<1>8. FrequencyInv'
  BY <1>1, <1>2, <1>4, <1>5, <1>6 DEF FrequencyInv, Bounded
<1>9. SampledInv'
  <2>1. DOMAIN outbox' = {} /\ registered' = registered
    BY <1>1
  <2> QED
    BY <1>4, <1>7, <2>1 DEF SampledInv, Recent
<1> QED
  BY <1>3, <1>8, <1>9

-----------------------------------------------------------------------------
(* What the analyzers know of a stream.  A level that is not bad is not much *)
(* younger than the frames it was told for, and a silence that outlasts the  *)
(* window and every timeout is shown by the next publication.                *)
ShownInv ==
  /\ \A s \in Stream : s \in DOMAIN latest /\ latest[s].level < 2 =>
       latest[s].age = Node!MaxItemAge \/ silent[s] <= Camera!MaxAge + latest[s].age
  /\ \A s \in Stream :
       Watched(s) /\ silent[s] >= Camera!MaxAge + LongestTimeout + 1 + sincePublish
         => lastTop >= 2

Watcher(l) == l \in Node!LoadedLeaves({"generic"}) /\ Timeout[l] > 0 /\ ~DiscardStale[l]

LEMMA WatchedFacts ==
  /\ \A s : Watched(s) <=> \E l : Watcher(l) /\ s \in DOMAIN items[l]
  /\ \A s : Watched(s)' <=> \E l : Watcher(l)' /\ s \in DOMAIN items'[l]
  /\ loaded' = loaded => \A l : Watcher(l)' <=> Watcher(l)
BY DEF Watched, Watcher, Node!LoadedLeaves

LEMMA WatcherFacts ==
  ASSUME loaded \subseteq Node!RootInits, NEW l, Watcher(l)
  PROVE  /\ l \in Leaf /\ l \in Node!Analyzer /\ ~Node!Discards(l)
         /\ Node!TimeoutOf(l) = Timeout[l] /\ Timeout[l] \in Nat \ {0}
         /\ Timeout[l] <= LongestTimeout /\ Timeout[l] < Node!MaxItemAge
         /\ \A held : Node!Kept(l, held) = held
<1>1. l \in Leaf
  BY LoadedFacts DEF Watcher, Node!LoadedLeaves
<1>2. l # Other /\ l \in Node!Analyzer
  BY <1>1, ParameterFacts DEF Node!Analyzer
<1>3. ~Node!Discards(l) /\ Node!TimeoutOf(l) = Timeout[l]
  BY <1>2 DEF Node!Discards, Node!TimeoutOf, Watcher
<1>4. Timeout[l] \in Nat \ {0} /\ Timeout[l] <= LongestTimeout /\ Timeout[l] < Node!MaxItemAge
  BY <1>1, <1>2, <1>3, ParameterFacts, AgeFacts DEF Watcher
<1>5. \A held : Node!Kept(l, held) = held
  BY <1>3 DEF Node!Kept
<1> QED
  BY <1>1, <1>2, <1>3, <1>4, <1>5

(* A publication shows a silence of a watched stream. *)
LEMMA PublicationShows ==
  ASSUME loaded \subseteq Node!RootInits, NEW all, Node!PublishData(all),
         \A l \in Node!Analyzer : Node!IsHeld(all[l]),
         NEW l, Watcher(l), NEW s \in DOMAIN all[l], NEW quiet \in Nat,
         all[l][s].level < 2 =>
           all[l][s].age = Node!MaxItemAge \/ quiet <= Camera!MaxAge + all[l][s].age,
         quiet >= Camera!MaxAge + LongestTimeout + 1
  PROVE  lastTop' >= 2
<1>1. /\ l \in Node!Analyzer /\ ~Node!Discards(l) /\ Node!TimeoutOf(l) = Timeout[l]
      /\ Timeout[l] \in Nat \ {0} /\ Timeout[l] <= LongestTimeout
      /\ Timeout[l] < Node!MaxItemAge
  BY WatcherFacts
<1>2. all[l][s].level \in 0 .. 3 /\ all[l][s].age \in Nat
  BY <1>1, AgeFacts DEF Node!IsHeld, Node!OK, Node!Stale
<1>3. all[l][s].level >= 2 \/ Node!IsStale(l, all[l][s])
  <2> SUFFICES ASSUME all[l][s].level < 2 PROVE Node!IsStale(l, all[l][s])
    BY <1>2
  <2>1. all[l][s].age > Timeout[l]
    BY <1>1, <1>2, BeforeFacts, AgeFacts
  <2> QED
    BY <1>1, <2>1 DEF Node!IsStale
<1>4. l \in Node!LoadedLeaves({"generic"})
  BY DEF Watcher
<1> QED
  BY <1>1, <1>3, <1>4, PublishFacts

LEMMA PublishShows ==
  ASSUME AggregatorInv, SampledInv, ShownInv, Publish
  PROVE  ShownInv'
<1>1. /\ Node!PublishData(items) /\ sincePublish' = 0 /\ UNCHANGED <<loaded, latest, silent>>
      /\ \A s \in Stream : silent[s] \in Nat
      /\ loaded \subseteq Node!RootInits
  BY HorizonFacts DEF Publish, Node!Publish, SampledInv, AggregatorInv, CacheInv
<1>2. /\ sincePublish' = 0 /\ lastTop' \in 0 .. 3
      /\ \A l \in Node!Analyzer : items'[l] = Node!Kept(l, items[l])
  BY <1>1, PublishFacts DEF AggregatorInv
<1>3. ASSUME NEW s \in Stream, Watched(s)',
             silent'[s] >= Camera!MaxAge + LongestTimeout + 1 + sincePublish'
      PROVE  lastTop' >= 2
  <2>1. PICK l : Watcher(l) /\ s \in DOMAIN items'[l]
    BY <1>1, <1>3, WatchedFacts
  <2>2. l \in Node!Analyzer /\ items'[l] = items[l]
    BY <1>1, <1>2, <2>1, WatcherFacts
  <2>3. s \in DOMAIN latest /\ items[l][s] = latest[s]
    BY <2>1, <2>2 DEF AggregatorInv, RoutedBy, StatusNames
  <2>4. items[l][s].level < 2 =>
          items[l][s].age = Node!MaxItemAge \/ silent[s] <= Camera!MaxAge + items[l][s].age
    BY <2>3 DEF ShownInv
  <2>5. silent[s] >= Camera!MaxAge + LongestTimeout + 1
    BY <1>1, <1>2, <1>3, BeforeFacts, AgeFacts
  <2>6. \A m \in Node!Analyzer : Node!IsHeld(items[m])
    BY DEF AggregatorInv
  <2>7. s \in DOMAIN items[l] /\ silent[s] \in Nat
    BY <1>1, <2>1, <2>2
  <2> QED
    BY <1>1, <2>1, <2>4, <2>5, <2>6, <2>7, PublicationShows
<1> QED
  BY <1>1, <1>3 DEF ShownInv

LEMMA ReceiveShows ==
  ASSUME AggregatorInv, FrequencyInv, SampledInv, ShownInv, Receive
  PROVE  ShownInv' /\ silent' \in [Stream -> Nat] /\ \A s \in Stream : silent'[s] <= silent[s]
<1> DEFINE all == Node!Analyze(outbox)
<1>1. /\ latest' = Node!Hold(latest, outbox, Node!Named(outbox)) /\ loaded' = loaded
      /\ sincePublish' = sincePublish /\ sincePublish \in Nat
      /\ silent' = [s \in Stream |->
           IF s \in DOMAIN latest' /\ s \notin DOMAIN latest THEN 0 ELSE silent[s]]
      /\ outbox \in Seq(Camera!Status)
  BY ParameterFacts DEF Receive, Node!Receive, FrequencyInv, AggregatorInv
<1>2. \A s \in Stream : silent[s] \in Nat /\ silent'[s] \in {0, silent[s]}
  BY <1>1, HorizonFacts DEF SampledInv
<1>3. /\ \A l \in Node!Analyzer : Node!IsHeld(all[l])
      /\ Node!IsHeld(latest') /\ RoutedBy(all, latest')
  BY <1>1, AnalyzeFacts
<1>4. Holds(latest', latest, outbox, Node!Named(outbox))
  BY <1>1, HoldFacts DEF AggregatorInv
<1> HIDE DEF all
<1>5. \/ Node!PublishData(all)
      \/ items' = all /\ lastTop' = lastTop
  BY DEF Receive, Node!Receive, all
<1>6. ASSUME NEW s \in Stream, s \in DOMAIN latest', latest'[s].level < 2
      PROVE  latest'[s].age = Node!MaxItemAge \/ silent'[s] <= Camera!MaxAge + latest'[s].age
  <2>1. CASE s \in Node!Named(outbox)
    <3>1. latest'[s] = [level |-> Node!LastOf(outbox, s).level, age |-> 0]
      BY <1>4, <2>1 DEF Holds
    <3>2. PICK k \in DOMAIN outbox :
            outbox[k].name = s /\ Node!LastOf(outbox, s).level = outbox[k].level
      BY <1>1, <2>1, LastOfFacts
    <3>3. silent[s] <= Camera!MaxAge /\ latest'[s].age = 0
      BY <1>6, <3>1, <3>2 DEF SampledInv
    <3> QED
      BY <1>2, <3>3, BeforeFacts
  <2>2. CASE s \notin Node!Named(outbox)
    <3>1. s \in DOMAIN latest /\ latest'[s] = latest[s]
      BY <1>4, <1>6, <2>2 DEF Holds
    <3>2. silent'[s] = silent[s]
      BY <1>1, <3>1
    <3> QED
      BY <1>6, <3>1, <3>2 DEF ShownInv
  <2> QED
    BY <2>1, <2>2
<1>7. ASSUME NEW s \in Stream, Watched(s)',
             silent'[s] >= Camera!MaxAge + LongestTimeout + 1 + sincePublish'
      PROVE  lastTop' >= 2
  <2>1. PICK l : Watcher(l) /\ s \in DOMAIN items'[l]
    BY <1>1, <1>7, WatchedFacts
  <2>2. loaded \subseteq Node!RootInits
    BY DEF AggregatorInv, CacheInv
  <2>3. l \in Node!Analyzer /\ ~Node!Discards(l) /\ \A held : Node!Kept(l, held) = held
    BY <2>1, <2>2, WatcherFacts
  <2>4. items'[l] = all[l]
    BY <1>3, <1>5, <2>2, <2>3, PublishFacts
  <2>5. s \in DOMAIN latest' /\ all[l][s] = latest'[s] /\ l \in Owners(s)
    BY <1>3, <2>1, <2>3, <2>4 DEF RoutedBy, StatusNames
  <2>6. CASE Node!PublishData(all)
    <3>1. silent'[s] \in Nat /\ silent'[s] >= Camera!MaxAge + LongestTimeout + 1
      BY <1>1, <1>2, <1>7, BeforeFacts, AgeFacts
    <3>2. all[l][s].level < 2 =>
            all[l][s].age = Node!MaxItemAge \/ silent'[s] <= Camera!MaxAge + all[l][s].age
      BY <1>6, <2>5
    <3>3. s \in DOMAIN all[l]
      BY <2>1, <2>4
    <3> QED
      BY <1>3, <2>1, <2>2, <2>6, <3>1, <3>2, <3>3, PublicationShows
  <2>7. CASE items' = all /\ lastTop' = lastTop
    <3>1. silent'[s] # 0
      BY <1>1, <1>2, <1>7, BeforeFacts, AgeFacts
    <3>2. s \in DOMAIN latest /\ silent'[s] = silent[s]
      BY <1>1, <2>5, <3>1
    <3>3. s \in DOMAIN items[l]
      BY <2>3, <2>5, <3>2 DEF AggregatorInv, RoutedBy, StatusNames
    <3>4. Watched(s)
      BY <2>1, <3>3, WatchedFacts
    <3> QED
      BY <1>1, <1>7, <2>7, <3>2, <3>4 DEF ShownInv
  <2> QED
    BY <1>5, <2>6, <2>7
<1>8. silent' \in [Stream -> Nat] /\ \A s \in Stream : silent'[s] <= silent[s]
  BY <1>1, <1>2
<1> QED
  BY <1>6, <1>7, <1>8 DEF ShownInv

LEMMA TickShows ==
  ASSUME AggregatorInv, SampledInv, ShownInv, Tick,
         \A s \in Stream : silent'[s] <= silent[s] + 1, silent' \in [Stream -> 0 .. Horizon]
  PROVE  ShownInv'
<1>1. /\ items' = [l \in Node!Analyzer |-> Node!Older(items[l])]
      /\ latest' = Node!Older(latest) /\ sincePublish' = sincePublish + 1
      /\ UNCHANGED <<loaded, lastTop>>
  BY DEF Tick, Node!Age
<1>2. \A s \in Stream : silent[s] \in Nat /\ silent'[s] \in Nat
  BY HorizonFacts DEF SampledInv
<1>3. ASSUME NEW s \in Stream, s \in DOMAIN latest', latest'[s].level < 2
      PROVE  latest'[s].age = Node!MaxItemAge \/ silent'[s] <= Camera!MaxAge + latest'[s].age
  <2>1. Node!IsHeld(latest)
    BY DEF AggregatorInv
  <2>2. /\ s \in DOMAIN latest /\ latest[s].age \in 0 .. Node!MaxItemAge
        /\ latest[s].level = latest'[s].level
        /\ latest'[s].age = IF latest[s].age < Node!MaxItemAge THEN latest[s].age + 1
                            ELSE Node!MaxItemAge
    BY <1>1, <1>3, <2>1, OlderFacts
  <2>3. latest[s].age = Node!MaxItemAge \/ silent[s] <= Camera!MaxAge + latest[s].age
    BY <1>3, <2>2 DEF ShownInv
  <2>4. CASE latest[s].age < Node!MaxItemAge
    BY <1>2, <2>2, <2>3, <2>4, BeforeFacts, AgeFacts
  <2>5. CASE ~(latest[s].age < Node!MaxItemAge)
    BY <2>2, <2>5
  <2> QED
    BY <2>4, <2>5
<1>4. ASSUME NEW s \in Stream, Watched(s)',
             silent'[s] >= Camera!MaxAge + LongestTimeout + 1 + sincePublish'
      PROVE  lastTop' >= 2
  <2>1. PICK l : Watcher(l) /\ s \in DOMAIN items'[l]
    BY <1>1, <1>4, WatchedFacts
  <2>2. l \in Node!Analyzer
    BY <2>1, WatcherFacts DEF AggregatorInv, CacheInv
  <2>3. s \in DOMAIN items[l]
    BY <1>1, <2>1, <2>2 DEF Node!Older
  <2>4. Watched(s)
    BY <2>1, <2>3, WatchedFacts
  <2>5. sincePublish \in Nat
    BY ParameterFacts DEF AggregatorInv
  <2>6. silent[s] >= Camera!MaxAge + LongestTimeout + 1 + sincePublish
    BY <1>1, <1>2, <1>4, <2>5, BeforeFacts, AgeFacts
  <2> QED
    BY <1>1, <2>4, <2>6 DEF ShownInv
<1> QED
  BY <1>3, <1>4 DEF ShownInv

LEMMA ReconfigureShows ==
  ASSUME AggregatorInv, SampledInv, Reconfigure
  PROVE  ShownInv' /\ silent' \in [Stream -> Nat] /\ \A s \in Stream : silent'[s] <= silent[s]
<1>1. silent' = [s \in Stream |-> 0] /\ latest' = Node!Empty
  BY ReloadKeeps DEF Reconfigure
<1>2. \A s \in Stream : silent[s] \in Nat /\ silent'[s] = 0
  BY <1>1, HorizonFacts DEF SampledInv
<1>3. sincePublish' \in Nat
  BY ReloadKeeps, ParameterFacts DEF Reconfigure, AggregatorInv
<1>4. \A s \in Stream : ~(silent'[s] >= Camera!MaxAge + LongestTimeout + 1 + sincePublish')
  BY <1>2, <1>3, BeforeFacts, AgeFacts
<1>5. DOMAIN latest' = {}
  BY <1>1 DEF Node!Empty
<1> QED
  BY <1>1, <1>2, <1>4, <1>5 DEF ShownInv

LEMMA OthersShow ==
  ASSUME AggregatorInv, SampledInv, ShownInv, UNCHANGED aggregatorVars,
         silent' \in [Stream -> Nat], \A s \in Stream : silent'[s] <= silent[s]
  PROVE  ShownInv'
<1>1. \A s \in Stream : silent[s] \in Nat /\ silent'[s] \in Nat
  BY HorizonFacts DEF SampledInv
<1>2. UNCHANGED <<loaded, items, latest, lastTop, sincePublish>> /\ sincePublish \in Nat
  BY ParameterFacts DEF aggregatorVars, AggregatorInv
<1>3. ASSUME NEW s \in Stream, s \in DOMAIN latest, latest[s].level < 2
      PROVE  latest[s].age = Node!MaxItemAge \/ silent'[s] <= Camera!MaxAge + latest[s].age
  <2>1. latest[s].age \in Nat
    BY <1>3, AgeFacts DEF AggregatorInv, Node!IsHeld
  <2>2. latest[s].age = Node!MaxItemAge \/ silent[s] <= Camera!MaxAge + latest[s].age
    BY <1>3 DEF ShownInv
  <2> QED
    BY <1>1, <2>1, <2>2, BeforeFacts
<1>4. ASSUME NEW s \in Stream, Watched(s)',
             silent'[s] >= Camera!MaxAge + LongestTimeout + 1 + sincePublish
      PROVE  lastTop >= 2
  <2>1. Watched(s)
    BY <1>2, <1>4, WatchedFacts
  <2>2. silent[s] >= Camera!MaxAge + LongestTimeout + 1 + sincePublish
    BY <1>1, <1>2, <1>4, BeforeFacts, AgeFacts
  <2> QED
    BY <2>1, <2>2 DEF ShownInv
<1> QED
  BY <1>2, <1>3, <1>4 DEF ShownInv

-----------------------------------------------------------------------------
(* All of it: the task list, the counters, the analyzers and the silence. *)
IInv ==
  /\ ThreadInv /\ TasksInv /\ FrequencyInv /\ SampledInv
  /\ AggregatorInv /\ ShownInv
  /\ inputs \in 0 .. MaxInputs

LEMMA InitHolds == Init => IInv
<1> SUFFICES ASSUME Init PROVE IInv
  OBVIOUS
<1>1. ThreadInv /\ TasksInv
  BY ListInit
<1>2. AggregatorInv
  BY AggregatorInit DEF Init
<1>3. /\ frames = [s \in Stream |-> 0] /\ sinceUpdate = 0 /\ outbox = <<>>
      /\ history = [s \in Stream |-> Camera!Cleared] /\ registered = {}
      /\ silent = [s \in Stream |-> 0] /\ inputs = MaxInputs
      /\ latest = Node!Empty /\ items = [l \in Node!Analyzer |-> Node!Empty]
  BY DEF Init, Camera!Init, Node!Init
<1>4. FrequencyInv
  <2>1. outbox \in Seq(Camera!Status)
    BY <1>3
  <2> QED
    BY <1>3, <2>1, ClearedFacts, BeforeFacts, ConstantFacts DEF FrequencyInv
<1>5. SampledInv
  BY <1>3, HorizonFacts DEF SampledInv
<1>6. ShownInv
  <2>1. DOMAIN latest = {} /\ DOMAIN Node!Empty = {}
    BY <1>3 DEF Node!Empty
  <2>2. \A l \in Node!Analyzer : DOMAIN items[l] = {}
    BY <1>3, <2>1
  <2>3. \A l : Watcher(l) => l \in Node!Analyzer
    BY <1>2, WatcherFacts DEF AggregatorInv, CacheInv
  <2>4. \A s : ~Watched(s)
    BY <2>2, <2>3, WatchedFacts
  <2> QED
    BY <2>1, <2>4 DEF ShownInv
<1> QED
  BY <1>1, <1>2, <1>3, <1>4, <1>5, <1>6, ParameterFacts DEF IInv

LEMMA InputsKept == inputs \in 0 .. MaxInputs /\ [Next]_vars => inputs' \in 0 .. MaxInputs
<1> SUFFICES ASSUME inputs \in 0 .. MaxInputs, [Next]_vars PROVE inputs' \in 0 .. MaxInputs
  OBVIOUS
<1>1. inputs' = inputs \/ (inputs > 0 /\ inputs' = inputs - 1)
  BY DEF Next, Operate, Reconfigure, StartOrStop, Emplace, Frame, Update, Receive, Publish, Tick,
         Input, vars
<1> QED
  BY <1>1, ParameterFacts

LEMMA StepHolds == IInv /\ [Next]_vars => IInv'
<1> SUFFICES ASSUME IInv, [Next]_vars PROVE IInv'
  OBVIOUS
<1>1. ThreadInv' /\ TasksInv' /\ inputs' \in 0 .. MaxInputs
  BY ListStep, InputsKept DEF IInv
<1>2. ThreadInv /\ FrequencyInv /\ SampledInv /\ AggregatorInv /\ ShownInv
  BY DEF IInv
<1>3. silent \in [Stream -> Nat] /\ \A s \in Stream : silent[s] \in Nat
  BY <1>2, HorizonFacts DEF SampledInv
<1>4. CASE Operate
  <2>1. UNCHANGED aggregatorVars /\ silent' = silent
    BY <1>4 DEF Operate
  <2>2. \A s \in Stream : silent'[s] <= silent[s]
    BY <1>3, <2>1
  <2> QED
    BY <1>1, <1>2, <1>3, <1>4, <2>1, <2>2, OperateSamples, AggregatorUnchanged, OthersShow
       DEF IInv
<1>5. CASE StartOrStop
  <2>1. UNCHANGED aggregatorVars /\ silent' = silent
    BY <1>5 DEF StartOrStop
  <2>2. \A s \in Stream : silent'[s] <= silent[s]
    BY <1>3, <2>1
  <2> QED
    BY <1>1, <1>2, <1>3, <1>5, <2>1, <2>2, StartOrStopSamples, AggregatorUnchanged, OthersShow
       DEF IInv
<1>6. CASE Frame
  <2>1. UNCHANGED aggregatorVars
    BY <1>6 DEF Frame
  <2>2. FrequencyInv' /\ SampledInv' /\ \A s \in Stream : silent'[s] <= silent[s]
    BY <1>2, <1>6, FrameSamples
  <2>3. silent' \in [Stream -> Nat]
    BY <2>2, HorizonFacts DEF SampledInv
  <2> QED
    BY <1>1, <1>2, <2>1, <2>2, <2>3, AggregatorUnchanged, OthersShow DEF IInv
<1>7. CASE Update
  <2>1. UNCHANGED aggregatorVars /\ silent' = silent
    BY <1>7 DEF Update
  <2>2. \A s \in Stream : silent'[s] <= silent[s]
    BY <1>3, <2>1
  <2>3. FrequencyInv' /\ SampledInv'
    <3>1. CASE Camera!Update
      BY <1>2, <2>1, <3>1, UpdateSamples
    <3>2. CASE Camera!UpdateDead
      <4>1. UNCHANGED <<registered, history, frames, sinceUpdate, outbox>>
        BY <3>2 DEF Camera!UpdateDead, Camera!clockVars
      <4> QED
        BY <1>2, <1>3, <2>1, <2>2, <4>1, OthersSample
    <3> QED
      BY <1>7, <3>1, <3>2 DEF Update
  <2> QED
    BY <1>1, <1>2, <1>3, <2>1, <2>2, <2>3, AggregatorUnchanged, OthersShow DEF IInv
<1>8. CASE Reconfigure
  <2>1. AggregatorInv' /\ UNCHANGED cameraVars
    BY <1>2, <1>8, ReloadKeeps DEF Reconfigure
  <2>2. ShownInv' /\ silent' \in [Stream -> Nat] /\ \A s \in Stream : silent'[s] <= silent[s]
    BY <1>2, <1>8, ReconfigureShows
  <2>3. FrequencyInv' /\ SampledInv'
    BY <1>2, <2>1, <2>2, OthersSample DEF cameraVars
  <2> QED
    BY <1>1, <2>1, <2>2, <2>3 DEF IInv
<1>9. CASE Receive
  <2>1. AggregatorInv'
    BY <1>2, <1>9, ReceiveKeeps DEF Receive, FrequencyInv
  <2>2. ShownInv' /\ silent' \in [Stream -> Nat] /\ \A s \in Stream : silent'[s] <= silent[s]
    BY <1>2, <1>9, ReceiveShows
  <2>3. FrequencyInv' /\ SampledInv'
    BY <1>2, <1>9, <2>2, OthersSample DEF Receive
  <2> QED
    BY <1>1, <2>1, <2>2, <2>3 DEF IInv
<1>10. CASE Publish
  <2>1. AggregatorInv' /\ UNCHANGED <<cameraVars, silent>>
    BY <1>2, <1>10, PublishKeeps DEF Publish
  <2>2. \A s \in Stream : silent'[s] <= silent[s]
    BY <1>3, <2>1
  <2>3. FrequencyInv' /\ SampledInv'
    BY <1>2, <1>3, <2>1, <2>2, OthersSample DEF cameraVars
  <2> QED
    BY <1>1, <1>2, <1>10, <2>1, <2>3, PublishShows DEF IInv
<1>11. CASE Tick
  <2>1. AggregatorInv'
    BY <1>2, <1>11, AgeKeeps DEF Tick
  <2>2. FrequencyInv' /\ SampledInv' /\ \A s \in Stream : silent'[s] <= silent[s] + 1
    BY <1>2, <1>11, TickSamples
  <2>3. ShownInv'
    BY <1>2, <1>11, <2>2, TickShows DEF SampledInv
  <2> QED
    BY <1>1, <2>1, <2>2, <2>3 DEF IInv
<1>12. CASE UNCHANGED vars
  <2>1. UNCHANGED aggregatorVars /\ UNCHANGED <<cameraVars, silent>>
    BY <1>12 DEF vars
  <2>2. \A s \in Stream : silent'[s] <= silent[s]
    BY <1>3, <2>1
  <2>3. FrequencyInv' /\ SampledInv'
    BY <1>2, <1>3, <2>1, <2>2, OthersSample DEF cameraVars
  <2> QED
    BY <1>1, <1>2, <1>3, <2>1, <2>2, <2>3, AggregatorUnchanged, OthersShow DEF IInv
<1>13. CASE Emplace
  <2>1. UNCHANGED aggregatorVars
    BY <1>13 DEF Emplace
  <2>2. FrequencyInv' /\ SampledInv' /\ \A s \in Stream : silent'[s] <= silent[s]
    BY <1>2, <1>13, EmplaceSamples
  <2>3. silent' \in [Stream -> Nat]
    BY <2>2, HorizonFacts DEF SampledInv
  <2> QED
    BY <1>1, <1>2, <2>1, <2>2, <2>3, AggregatorUnchanged, OthersShow DEF IInv
<1> QED
  BY <1>4, <1>5, <1>6, <1>7, <1>8, <1>9, <1>10, <1>11, <1>12, <1>13 DEF Next

LEMMA IInvHolds == Spec => []IInv
BY InitHolds, StepHolds, PTL DEF Spec

(* The counters of a window stay within what its frames allow, and every    *)
(* level that is held or published is one.                                  *)
THEOREM TypeCorrect == Spec => []TypeOK
<1>1. ASSUME IInv PROVE TypeOK
  <2>1. Node!TypeOK /\ inputs \in 0 .. MaxInputs /\ silent \in [Stream -> 0 .. Horizon]
    BY <1>1, AggregatorShows DEF IInv, SampledInv
  <2>2. Camera!TypeOK
    BY <1>1 DEF IInv, ThreadInv, FrequencyInv, Camera!TypeOK, Slots, Task
  <2> QED
    BY <2>1, <2>2 DEF TypeOK
<1> QED
  BY <1>1, IInvHolds, PTL

(* Whatever is cached, an analyzer holds the last status of each name that  *)
(* is its own.                                                              *)
THEOREM StatusesAreRouted == Spec => []Routed
<1>1. IInv => Routed
  BY AggregatorShows DEF IInv, Routed
<1> QED
  BY <1>1, IInvHolds, PTL

(* A watched stream that falls silent makes the published level bad within  *)
(* Horizon, whatever stops its frames.                                      *)
THEOREM SilenceIsShown == Spec => []SilenceShown
<1>1. ASSUME IInv PROVE SilenceShown
  <2>1. \A s \in Stream : silent[s] = Horizon =>
          silent[s] >= Camera!MaxAge + LongestTimeout + 1 + sincePublish
    BY <1>1, HorizonFacts, BeforeFacts, AgeFacts, ParameterFacts DEF IInv, AggregatorInv
  <2> QED
    BY <1>1, <2>1 DEF IInv, ShownInv, SilenceShown
<1> QED
  BY <1>1, IInvHolds, PTL
=============================================================================
