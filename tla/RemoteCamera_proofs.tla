-------------------------- MODULE RemoteCamera_proofs --------------------------
(***************************************************************************)
(* Proofs about the MQTT bridge and the cameras it serves, for any cameras,*)
(* requests and scripts of requests.                                       *)
(***************************************************************************)
EXTENDS RemoteCamera, FiniteSetTheorems, SequenceTheorems, TLAPS

-----------------------------------------------------------------------------
(* The requests the broker has for the node. *)
Waiting == {inbox[i] : i \in DOMAIN inbox}

Distinct == \A i, j \in DOMAIN inbox : inbox[i] = inbox[j] => i = j

(* The loop thread is in a handler. *)
Handles == pc \notin {"idle", "ended"}

Calibrations(c) == {r \in Request : Underway(r) /\ Cam(r) = c}

WantedInv ==
  /\ wanted \in Seq([kind : STRING, camera : Camera])
  /\ Len(wanted) <= MaxRequests

(* The two threads: what they hold in their handlers. *)
ThreadInv ==
  /\ Handles => cur \in Request /\ Made(cur)
  /\ pc = "cancel" => held # None
  /\ pc \notin {"await", "ended"} => future = "none"
  /\ pc = "ended" => future # "pending"
  /\ rpc = "idle" => rcam = None
  /\ rpc # "idle" => rcam \in Camera

(* A request is in one place at a time. *)
PlaceInv ==
  /\ Distinct
  /\ \A r \in Waiting : Made(r) /\ (Handles => r # cur) /\ r \notin subs /\ stage[r] = "none"
  /\ Handles => stage[cur] = "none" /\ (cur \in subs => pc = "subscribe")
  /\ \A r \in subs : Made(r) /\ Kind(r) = "frame" /\ stage[r] = "none"
  /\ \A r \in Request : stage[r] # "none" => Made(r) /\ Kind(r) = "calibrate"
  /\ pc \in {"server", "send"} => Kind(cur) = "calibrate"
  /\ \A r \in progressed : stage[r] # "none"

(* A request that is not yet answered, by its place. *)
Unanswered(r) ==
  \/ ~Made(r) \/ r \in Waiting \/ (Handles /\ r = cur) \/ r \in subs
  \/ stage[r] \in {"sent", "accepted"}

ReplyInv ==
  \A r \in Request : replies[r] \in {0, 1} /\ (Unanswered(r) => replies[r] = 0)

(* The table of subscriptions and the one that is being made. *)
FrameInv ==
  /\ \A r \in subs : \/ topicHandle[Cam(r)] = r
                     \/ pc = "subscribe" /\ cur = r /\ topicHandle[Cam(r)] \in {None, Absent}
  /\ \A c \in Camera : topicHandle[c] \in Request => topicHandle[c] \in subs
  /\ pc = "subscribe" => cur \in subs /\ topicHandle[Cam(cur)] \in {None, Absent}

(* The tables of the calibrations. *)
GoalInv ==
  /\ \A c \in Camera : handle[c] # None => stage[handle[c]] \in {"accepted", "over"}
  /\ pc \in {"abort", "cancel"} /\ held # None =>
       stage[held] \in {"accepted", "over"} /\ Cam(held) = Cam(cur)

(* While the calibrations of a camera are orderly, the tables hold the one *)
(* that is under way, and the client of one that is over is about to go.   *)
AloneAt(c) ==
  /\ \A r \in Calibrations(c) : client[c] = r
  /\ \A r \in Calibrations(c) : stage[r] = "accepted" => handle[c] = r
  /\ pc \in {"server", "send"} /\ Cam(cur) = c => client[c] = cur /\ rcam # c
  /\ rcam = c => Calibrations(c) = {}
  /\ \A r \in open : stage[r] = "over" /\ Cam(r) = c =>
       rpc = "destroy" /\ rcam = c /\ client[c] = r

AloneInv == \A c \in Camera : Orderly(c) => AloneAt(c)

(* No progress is told of a calibration that is answered. *)
ProgressInv == \A r \in progressed : replies[r] = 0 \/ ~Orderly(Cam(r))

RemoteInv ==
  /\ RemoteTypeOK /\ WantedInv /\ ThreadInv /\ PlaceInv /\ ReplyInv
  /\ FrameInv /\ GoalInv /\ AloneInv /\ ProgressInv
-----------------------------------------------------------------------------
LEMMA RequestFacts ==
  /\ MaxRequests \in Nat /\ MaxDrops \in Nat /\ MaxInputs \in Nat
  /\ None \notin Request /\ Absent \notin Request /\ None # Absent
  /\ \A r \in Request : r \in Nat /\ r >= 1 /\ r <= MaxRequests
  /\ None \notin Camera
BY BridgeAssumption, RemoteAssumption DEF Request, None, Absent

(* A request that is made is the newest, and the others stay as they were. *)
LEMMA AskFacts ==
  ASSUME WantedInv, AskNext
  PROVE  /\ WantedInv'
         /\ Len(wanted') = Len(wanted) + 1 /\ Len(wanted') \in Request
         /\ ~Made(Len(wanted'))
         /\ \A r \in Request : Made(r) => Made(r)' /\ wanted'[r] = wanted[r]
         /\ \A r \in Request : Made(r)' => Made(r) \/ r = Len(wanted')
<1>1. PICK s \in Scripts :
        /\ Len(wanted) + 1 <= Len(s)
        /\ Ask(s[Len(wanted) + 1].kind, s[Len(wanted) + 1].camera)
  BY DEF AskNext
<1> DEFINE n == Len(wanted) + 1
           new == [kind |-> s[n].kind, camera |-> s[n].camera]
<1>2. wanted \in Seq([kind : STRING, camera : Camera]) /\ Len(wanted) \in Nat
  BY DEF WantedInv
<1>3. s \in Seq([kind : STRING, camera : Camera])
  BY RemoteAssumption
<1>4. n \in 1 .. Len(s)
  BY <1>1, <1>2, <1>3
<1>5. new \in [kind : STRING, camera : Camera]
  <2>1. s[n] \in [kind : STRING, camera : Camera]
    BY <1>3, <1>4, ElementOfSeq
  <2> QED
    BY <2>1
<1>6. wanted' = Append(wanted, new) /\ Len(wanted) < MaxRequests
  BY <1>1 DEF Ask
<1>7. /\ wanted' \in Seq([kind : STRING, camera : Camera])
      /\ Len(wanted') = n
      /\ \A r \in 1 .. Len(wanted) : wanted'[r] = wanted[r]
  BY <1>2, <1>5, <1>6
<1>8. n \in Request
  BY <1>2, <1>6, RequestFacts DEF Request
<1>9. WantedInv'
  BY <1>2, <1>6, <1>7, RequestFacts DEF WantedInv
<1> QED
  BY <1>2, <1>7, <1>8, <1>9, RequestFacts DEF Made

LEMMA WantedSame ==
  ASSUME [RemoteNext]_allVars
  PROVE  AskNext \/ wanted' = wanted
BY DEF RemoteNext, allVars, vars, taking, Environment, LoseLink, Drop, Unplug, LeaveCamera,
       others, Reset, AppearCamera, Link, Connect, Send, StartCalibration, Calibrate, TakeFor,
       Take, StartGoal, SendGoal, Handling, CancelIt, CancelGoal, LoopStep, Loop, AnswerAtOnce,
       Malformed, CallService, Unavailable, Available, Return, GetFrame, StoreSubscription,
       RejectFrame, WaitForServer, SendWithoutClient, Abort, NoGoal, FoundGoal,
       CancelWithoutClient, Executor, HearResponse, Respond, HearImage, Image, EarlyImage,
       Callback, HearAccepted, GoalResponse, HearResult, Result, ClearUp, DestroyClient,
       ClearClient, ClearHandle, Clearing, ServeCall, GoalProgress, HearProgress, Feedback, RunGoal

(* What the invariants say of requests is not changed by later ones. *)
LEMMA MadeStays ==
  ASSUME WantedInv, [RemoteNext]_allVars, NEW r \in Request, Made(r)
  PROVE  Made(r)' /\ wanted'[r] = wanted[r] /\ Cam(r) \in Camera /\ Cam(r)' = Cam(r)
         /\ Kind(r)' = Kind(r)
<1>1. Made(r)' /\ wanted'[r] = wanted[r]
  BY AskFacts, WantedSame DEF Made
<1>2. r \in 1 .. Len(wanted) /\ wanted \in Seq([kind : STRING, camera : Camera])
  BY RequestFacts DEF Made, WantedInv
<1>3. wanted[r] \in [kind : STRING, camera : Camera]
  BY <1>2, ElementOfSeq
<1>4. wanted[r].camera \in Camera
  BY <1>3
<1> QED
  BY <1>1, <1>4 DEF Cam, Kind

LEMMA WantedStep == WantedInv /\ [RemoteNext]_allVars => WantedInv'
BY AskFacts, WantedSame DEF WantedInv

(* The request at the head of the inbox leaves it for good. *)
LEMMA TakeFacts ==
  ASSUME inbox \in Seq(Request), inbox # <<>>, inbox' = Tail(inbox)
  PROVE  /\ Head(inbox) \in Waiting /\ Head(inbox) \in Request
         /\ inbox' \in Seq(Request) /\ Waiting' \subseteq Waiting
         /\ Distinct => Distinct' /\ Head(inbox) \notin Waiting'
<1>1. Len(inbox) \in Nat /\ Len(inbox) > 0 /\ DOMAIN inbox = 1 .. Len(inbox)
  OBVIOUS
<1>2. Head(inbox) = inbox[1] /\ 1 \in DOMAIN inbox
  BY <1>1
<1>3. /\ inbox' \in Seq(Request) /\ DOMAIN inbox' = 1 .. Len(inbox) - 1
      /\ \A i \in DOMAIN inbox' : inbox'[i] = inbox[i + 1] /\ i + 1 \in DOMAIN inbox
  BY <1>1
<1>4. Head(inbox) \in Waiting
  BY <1>2 DEF Waiting
<1>5. Waiting' \subseteq Waiting
  BY <1>3 DEF Waiting
<1>6. ASSUME Distinct PROVE Distinct'
  <2> SUFFICES ASSUME NEW i \in DOMAIN inbox', NEW j \in DOMAIN inbox', inbox'[i] = inbox'[j]
               PROVE  i = j
    BY DEF Distinct
  <2>1. i + 1 = j + 1
    BY <1>3, <1>6 DEF Distinct
  <2> QED
    BY <1>1, <1>3, <2>1
<1>7. ASSUME Distinct PROVE Head(inbox) \notin Waiting'
  <2> SUFFICES ASSUME NEW i \in DOMAIN inbox', inbox'[i] = inbox[1] PROVE FALSE
    BY <1>2 DEF Waiting
  <2>1. i + 1 = 1
    BY <1>2, <1>3, <1>7 DEF Distinct
  <2> QED
    BY <1>1, <1>3, <2>1
<1> QED
  BY <1>2, <1>3, <1>4, <1>5, <1>6, <1>7

(* A request that is made comes last, if it comes at all. *)
LEMMA ArriveFacts ==
  ASSUME inbox \in Seq(Request), NEW n \in Request, inbox' \in {inbox, Append(inbox, n)}
  PROVE  /\ inbox' \in Seq(Request) /\ Waiting' \subseteq Waiting \union {n}
         /\ Distinct /\ n \notin Waiting => Distinct'
<1>1. CASE inbox' = inbox
  BY <1>1 DEF Waiting, Distinct
<1>2. CASE inbox' = Append(inbox, n)
  <2>1. Len(inbox) \in Nat /\ DOMAIN inbox = 1 .. Len(inbox)
    OBVIOUS
  <2>2. /\ inbox' \in Seq(Request) /\ DOMAIN inbox' = 1 .. Len(inbox) + 1
        /\ \A i \in DOMAIN inbox : inbox'[i] = inbox[i]
        /\ inbox'[Len(inbox) + 1] = n
    BY <1>2, <2>1
  <2>3. \A i \in DOMAIN inbox' : i \in DOMAIN inbox \/ i = Len(inbox) + 1
    BY <2>1, <2>2
  <2>4. Waiting' \subseteq Waiting \union {n}
    BY <2>2, <2>3 DEF Waiting
  <2>5. ASSUME Distinct, n \notin Waiting PROVE Distinct'
    BY <2>2, <2>3, <2>5 DEF Distinct, Waiting
  <2> QED
    BY <2>2, <2>4, <2>5
<1> QED
  BY <1>1, <1>2

-----------------------------------------------------------------------------
(* What a step may do to the inbox. *)
LEMMA InboxMoves ==
  ASSUME [RemoteNext]_allVars
  PROVE  \/ AskNext /\ inbox' \in {inbox, Append(inbox, Len(wanted'))}
         \/ inbox' = inbox
         \/ inbox' = <<>>
         \/ inbox # <<>> /\ inbox' = Tail(inbox) /\ pc = "idle"
BY DEF RemoteNext, allVars, vars, taking, Environment, AskNext, Ask, LoseLink, Drop, Unplug,
       LeaveCamera, others, Reset, AppearCamera, Link, Connect, Send, StartCalibration,
       Calibrate, TakeFor, Take, StartGoal, SendGoal, Handling, CancelIt, CancelGoal, LoopStep,
       Loop, AnswerAtOnce, Malformed, CallService, Unavailable, Available, Return, GetFrame,
       StoreSubscription, RejectFrame, WaitForServer, SendWithoutClient, Abort, NoGoal,
       FoundGoal, CancelWithoutClient, Executor, HearResponse, Respond, HearImage, Image,
       EarlyImage, Callback, HearAccepted, GoalResponse, HearResult, Result, ClearUp,
       DestroyClient, ClearClient, ClearHandle, Clearing, ServeCall, GoalProgress, HearProgress, Feedback,
       RunGoal

LoopActs == StartCalibration \/ StartGoal \/ CancelIt \/ LoopStep

(* Only the loop thread, the answer to its call and the loss of its camera *)
(* change what it holds, and only an answer what the executor holds.       *)
LEMMA ThreadMoves ==
  ASSUME [RemoteNext]_allVars
  PROVE  \/ LoopActs /\ UNCHANGED executor
         \/ UNCHANGED <<pc, cur, held, rpc, rcam>> /\
              (\/ future' = future
               \/ future = "pending" /\ future' = "lost"
               \/ HearResponse)
         \/ UNCHANGED thread /\ (ClearUp \/ \E r \in Request : HearResult(r))
BY DEF RemoteNext, allVars, vars, taking, thread, executor, Environment, AskNext, Ask, LoseLink,
       Drop, Unplug, LeaveCamera, LoseCall, others, Reset, AppearCamera, Link, Connect, Send,
       LoopActs, StartCalibration, Calibrate, TakeFor, Take, StartGoal, SendGoal, Handling,
       CancelIt, CancelGoal, LoopStep, Loop, AnswerAtOnce, Malformed, CallService, Unavailable,
       Available, Return, GetFrame, StoreSubscription, RejectFrame, WaitForServer,
       SendWithoutClient, Abort, NoGoal, FoundGoal, CancelWithoutClient, Executor, HearResponse,
       Respond, HearImage, Image, EarlyImage, Callback, HearAccepted, GoalResponse, HearResult,
       Result, ClearUp, DestroyClient, ClearClient, ClearHandle, Clearing, ServeCall,
       GoalProgress, HearProgress, Feedback, RunGoal

Positions ==
  {"idle", "ended", "discover", "await", "subscribe", "server", "send", "abort", "cancel"}

Future == {"none", "pending", "succeeded", "failed", "lost"}

(* What the loop thread may do to its own position. *)
LEMMA LoopMoves ==
  ASSUME LoopActs, inbox \in Seq(Request)
  PROVE  \/ /\ pc = "idle" /\ Head(inbox) \in Waiting /\ Head(inbox) \in Request
            /\ inbox # <<>> /\ inbox' = Tail(inbox)
            /\ cur' = Head(inbox) /\ future' = future
            /\ pc' = "subscribe" => Kind(cur') = "frame"
            /\ pc' = "server" => Kind(cur') = "calibrate"
            /\ \/ pc' \in {"discover", "subscribe", "server"} /\ held' = held
               \/ pc' = "abort" /\ held' = handle[Cam(cur')]
         \/ pc' = "idle" /\ cur' = None /\ held' = None /\ future' = "none"
         \/ pc = "idle" /\ UNCHANGED thread
         \/ pc' = "ended" /\ UNCHANGED <<cur, held, future>>
            /\ (pc = "await" => future \in {"succeeded", "failed"})
         \/ pc = "discover" /\ pc' = "await" /\ future' = "pending" /\ UNCHANGED <<cur, held>>
         \/ pc = "server" /\ pc' = "send" /\ UNCHANGED <<cur, held, future>>
         \/ pc = "abort" /\ held # None /\ pc' = "cancel" /\ UNCHANGED <<cur, held, future>>
<1>1. CASE StartCalibration \/ (CallService \/ GetFrame \/ Abort)
  <2>1. inbox # <<>> /\ inbox' = Tail(inbox)
    BY <1>1 DEF StartCalibration, Calibrate, TakeFor, Take, CallService, GetFrame, Abort
  <2>2. Head(inbox) \in Waiting /\ Head(inbox) \in Request
    BY <2>1, TakeFacts
  <2> QED
    BY <1>1, <2>2
       DEF StartCalibration, Calibrate, TakeFor, Take, CallService, GetFrame, Abort, Goto, Cam,
           Kind
<1>2. CASE StartGoal \/ CancelIt \/
           (AnswerAtOnce \/ RejectFrame \/ Unavailable \/ StoreSubscription \/ NoGoal)
  BY <1>2 DEF StartGoal, SendGoal, CancelIt, CancelGoal, AnswerAtOnce, RejectFrame, Unavailable,
       StoreSubscription, NoGoal, Take, Handling, Finish, Goto, thread
<1>3. CASE (Malformed \/ SendWithoutClient \/ CancelWithoutClient)
  BY <1>3 DEF Malformed, Take, SendWithoutClient, CancelWithoutClient, Handling, Raise, Goto
<1>4. CASE (Available \/ Return \/ WaitForServer \/ FoundGoal)
  BY <1>4 DEF Available, Return, WaitForServer, FoundGoal, Handling, Raise, Finish, Goto
<1>5. \/ StartCalibration \/ (CallService \/ GetFrame \/ Abort)
      \/ StartGoal \/ CancelIt
      \/ (AnswerAtOnce \/ RejectFrame \/ Unavailable \/ StoreSubscription \/ NoGoal)
      \/ (Malformed \/ SendWithoutClient \/ CancelWithoutClient)
      \/ (Available \/ Return \/ WaitForServer \/ FoundGoal)
  BY DEF LoopActs, LoopStep, Loop
<1> QED
  BY <1>1, <1>2, <1>3, <1>4, <1>5

LEMMA ThreadStep ==
  ASSUME RemoteTypeOK, WantedInv, ThreadInv, PlaceInv, [RemoteNext]_allVars
  PROVE  /\ ThreadInv'
         /\ pc' \in Positions /\ cur' \in Request \union {None}
         /\ held' \in Request \union {None} /\ future' \in Future
         /\ rpc' \in {"idle", "destroy", "clearClient", "clearHandle"}
         /\ rcam' \in Camera \union {None}
<1>1. /\ inbox \in Seq(Request) /\ pc \in Positions /\ cur \in Request \union {None}
      /\ held \in Request \union {None} /\ future \in Future
      /\ rpc \in {"idle", "destroy", "clearClient", "clearHandle"}
      /\ rcam \in Camera \union {None}
      /\ \A c \in Camera : handle[c] \in Request \union {None}
  BY DEF RemoteTypeOK, TypeOK, Positions, Future, About
<1>2. \A r \in Request : Made(r) => Made(r)' /\ Cam(r) \in Camera
  BY MadeStays
<1>3. CASE LoopActs /\ UNCHANGED executor
  <2>1. \A r \in Waiting : Made(r)
    BY DEF PlaceInv
  <2>2. Head(inbox) \in Waiting /\ Head(inbox) \in Request =>
          /\ handle[Cam(Head(inbox))] \in Request \union {None}
          /\ Made(Head(inbox)) /\ Head(inbox) <= Len(wanted')
    BY <1>1, <1>2, <2>1 DEF Made
  <2>3. UNCHANGED <<rpc, rcam>>
    BY <1>3 DEF executor
  <2>4. cur \in Request /\ Made(cur) => cur <= Len(wanted')
    BY <1>2 DEF Made
  <2>5. /\ pc' \in Positions /\ cur' \in Request \union {None}
        /\ held' \in Request \union {None} /\ future' \in Future
    BY <1>1, <1>3, <2>2, LoopMoves DEF thread, Positions, Future
  <2>6. ThreadInv'
    BY <1>1, <1>3, <2>2, <2>3, <2>4, LoopMoves, RequestFacts
       DEF ThreadInv, Handles, thread, Positions, Future, Made
  <2> QED
    BY <1>1, <2>3, <2>5, <2>6
<1>4. CASE UNCHANGED <<pc, cur, held, rpc, rcam>> /\
             (\/ future' = future
              \/ future = "pending" /\ future' = "lost"
              \/ HearResponse)
  <2>1. HearResponse => future = "pending" /\ future' \in {"succeeded", "failed"}
    <3> SUFFICES ASSUME HearResponse
                 PROVE  future = "pending" /\ future' \in {"succeeded", "failed"}
      OBVIOUS
    <3>1. future = "pending" /\ future' = reply[Cam(cur)] /\ reply[Cam(cur)] # "none"
      BY DEF HearResponse, Respond, Server!Deliver
    <3>2. pc = "await"
      BY <3>1 DEF ThreadInv
    <3>3. Cam(cur) \in Camera
      BY <1>2, <3>2 DEF ThreadInv, Handles
    <3> QED
      BY <3>1, <3>3 DEF RemoteTypeOK, Server!TypeOK
  <2>2. Handles => cur \in Request /\ cur <= Len(wanted')
    BY <1>2 DEF ThreadInv, Made
  <2> QED
    BY <1>1, <1>4, <2>1, <2>2 DEF ThreadInv, Handles, Made, Future
<1>5. CASE UNCHANGED thread /\ (ClearUp \/ \E r \in Request : HearResult(r))
  <2>1. Handles => cur \in Request /\ cur <= Len(wanted')
    BY <1>2 DEF ThreadInv, Made
  <2>2. CASE ClearUp
    BY <1>1, <1>5, <2>1, <2>2
       DEF ThreadInv, Handles, Made, thread, ClearUp, DestroyClient, ClearClient, ClearHandle,
           Clearing
  <2>3. CASE \E r \in Request : HearResult(r)
    <3>1. PICK r \in Request : Result(r)
      BY <2>3 DEF HearResult
    <3>2. rpc' = "destroy" /\ rcam' = Cam(r) /\ stage[r] = "accepted"
      BY <3>1 DEF Result
    <3>3. rcam' \in Camera
      BY <1>2, <3>2 DEF PlaceInv
    <3> QED
      BY <1>1, <1>5, <2>1, <3>2, <3>3 DEF ThreadInv, Handles, Made, thread
  <2> QED
    BY <1>5, <2>2, <2>3
<1> QED
  BY <1>3, <1>4, <1>5, ThreadMoves

-----------------------------------------------------------------------------
(* What a step may do to the tables, the answers and the link. *)
LEMMA CalibrationMoves ==
  ASSUME [RemoteNext]_allVars
  PROVE  \/ UNCHANGED calibration
         \/ StartCalibration \/ StartGoal \/ ClearUp
         \/ \E r \in Request : HearAccepted(r) \/ HearResult(r) \/ Feedback(r)
BY DEF RemoteNext, allVars, vars, Environment, AskNext, Ask, LoseLink, Drop, Unplug,
       LeaveCamera, others, Reset, AppearCamera, Link, Connect, Send, CancelIt, CancelGoal,
       LoopStep, Loop, AnswerAtOnce, Malformed, CallService, Unavailable, Available, Return,
       GetFrame, StoreSubscription, RejectFrame, WaitForServer, SendWithoutClient, Abort, NoGoal,
       FoundGoal, CancelWithoutClient, Executor, HearResponse, Respond, HearImage, Image,
       EarlyImage, ServeCall, GoalProgress, HearProgress, RunGoal

LEMMA FrameMoves ==
  ASSUME [RemoteNext]_allVars
  PROVE  UNCHANGED frames \/ GetFrame \/ StoreSubscription \/ \E r \in Request : Image(r)
BY DEF RemoteNext, allVars, vars, frames, Environment, AskNext, Ask, LoseLink, Drop, Unplug,
       LeaveCamera, others, Reset, AppearCamera, Link, Connect, Send, StartCalibration,
       Calibrate, StartGoal, SendGoal, Handling, CancelIt, CancelGoal, LoopStep, Loop,
       AnswerAtOnce, Malformed, CallService, Unavailable, Available, Return, RejectFrame,
       WaitForServer, SendWithoutClient, Abort, NoGoal, FoundGoal, CancelWithoutClient, Executor,
       HearResponse, Respond, HearImage, EarlyImage, HearAccepted, GoalResponse,
       HearResult, Result, ClearUp, DestroyClient, ClearClient, ClearHandle, Clearing, ServeCall,
       GoalProgress, HearProgress, Feedback, RunGoal

(* An answer is given at once, by a handler that ends with it, to an image *)
(* or to a result.                                                         *)
AnswersAtOnce(r) ==
  /\ inbox # <<>> /\ r = Head(inbox) /\ inbox' = Tail(inbox) /\ pc = "idle"
  /\ UNCHANGED <<wanted, thread, calibration, frames>>

AnswersCurrent(r) ==
  /\ pc \in {"await", "abort"} /\ r = cur /\ pc' = "idle"
  /\ UNCHANGED <<wanted, inbox, calibration, frames>>

LEMMA ReplyMoves ==
  ASSUME [RemoteNext]_allVars
  PROVE  \/ replies' = replies /\ queue' \subseteq queue
         \/ \E r : Publish(r) /\ (\/ AnswersAtOnce(r) \/ AnswersCurrent(r)
                                  \/ r \in Request /\ (Image(r) \/ HearResult(r)))
BY DEF RemoteNext, allVars, vars, answers, taking, Environment, AskNext, Ask, LoseLink, Drop,
       Unplug, LeaveCamera, others, Reset, AppearCamera, Link, Connect, Send, StartCalibration,
       Calibrate, StartGoal, SendGoal, CancelIt, CancelGoal, LoopStep, Loop, AnswerAtOnce,
       Malformed, CallService, Unavailable, Available, Return, GetFrame, StoreSubscription,
       RejectFrame, WaitForServer, SendWithoutClient, Abort, NoGoal, FoundGoal,
       CancelWithoutClient, Executor, HearResponse, Respond, HearImage, Image, EarlyImage,
       HearAccepted, GoalResponse, HearResult, Result, ClearUp, DestroyClient, ClearClient,
       ClearHandle, Clearing, ServeCall, GoalProgress, HearProgress, Feedback, RunGoal, Take, Handling,
       Finish, Goto, AnswersAtOnce, AnswersCurrent

LEMMA LinkMoves ==
  ASSUME [RemoteNext]_allVars
  PROVE  \/ UNCHANGED <<linked, subscribed, drops>>
         \/ LoseLink
         \/ Link /\ linked' = TRUE /\ subscribed' = TRUE /\ drops' = drops
BY DEF RemoteNext, allVars, vars, taking, Environment, AskNext, Ask, Unplug,
       LeaveCamera, others, Reset, AppearCamera, Link, Connect, Send, StartCalibration,
       Calibrate, TakeFor, Take, StartGoal, SendGoal, Handling, CancelIt, CancelGoal, LoopStep,
       Loop, AnswerAtOnce, Malformed, CallService, Unavailable, Available, Return, GetFrame,
       StoreSubscription, RejectFrame, WaitForServer, SendWithoutClient, Abort, NoGoal,
       FoundGoal, CancelWithoutClient, Executor, HearResponse, Respond, HearImage, Image,
       EarlyImage, Callback, HearAccepted, GoalResponse, HearResult, Result, ClearUp,
       DestroyClient, ClearClient, ClearHandle, Clearing, ServeCall, GoalProgress, HearProgress, Feedback,
       RunGoal

LEMMA UpMoves ==
  ASSUME [RemoteNext]_allVars
  PROVE  up' \in {up, FALSE}
<1>1. CASE LoopActs
  BY <1>1, ThreadMoves DEF executor, LoopActs, StartCalibration, Calibrate, TakeFor, Take,
       StartGoal, SendGoal, Handling, CancelIt, CancelGoal, LoopStep, Loop, AnswerAtOnce,
       Malformed, CallService, Unavailable, Available, Return, GetFrame, StoreSubscription,
       RejectFrame, WaitForServer, SendWithoutClient, Abort, NoGoal, FoundGoal,
       CancelWithoutClient
<1>2. CASE Executor
  BY <1>2 DEF executor, Executor, HearResponse, Respond, HearImage, Image, EarlyImage,
       HearAccepted, GoalResponse, HearProgress, Feedback, HearResult, Result, ClearUp, DestroyClient, ClearClient,
       ClearHandle, Clearing
<1>3. CASE \/ Environment \/ Link \/ ServeCall \/ UNCHANGED allVars
           \/ \E r \in Request : GoalProgress(r) \/ RunGoal(r)
  BY <1>3 DEF allVars, vars, executor, Environment, AskNext, Ask, LoseLink, Drop, Unplug,
       LeaveCamera, others, Reset, AppearCamera, Link, Connect, Send, ServeCall, GoalProgress,
       HearProgress, Feedback, RunGoal
<1> QED
  BY <1>1, <1>2, <1>3 DEF RemoteNext, LoopActs

-----------------------------------------------------------------------------
(* The types. *)
LEMMA BrokerTyped ==
  ASSUME RemoteTypeOK, WantedInv, [RemoteNext]_allVars
  PROVE  /\ inbox' \in Seq(Request) /\ linked' \in BOOLEAN /\ subscribed' \in BOOLEAN
         /\ drops' \in 0 .. MaxDrops
<1>1. inbox \in Seq(Request) /\ linked \in BOOLEAN /\ subscribed \in BOOLEAN
      /\ drops \in 0 .. MaxDrops
  BY DEF RemoteTypeOK, TypeOK
<1>2. inbox' \in Seq(Request)
  <2>1. CASE AskNext /\ inbox' \in {inbox, Append(inbox, Len(wanted'))}
    <3>1. PICK n \in Request : n = Len(wanted')
      BY <2>1, AskFacts
    <3> QED
      BY <1>1, <2>1, <3>1, ArriveFacts
  <2>2. CASE inbox' = inbox
    BY <1>1, <2>2
  <2>3. CASE inbox' = <<>>
    BY <2>3, EmptySeq
  <2>4. CASE inbox # <<>> /\ inbox' = Tail(inbox)
    BY <1>1, <2>4, TakeFacts
  <2> QED
    BY <2>1, <2>2, <2>3, <2>4, InboxMoves
<1>3. LoseLink => linked' = FALSE /\ subscribed' = FALSE /\ drops' \in 0 .. MaxDrops
  BY <1>1, RequestFacts DEF LoseLink, Drop
<1> QED
  BY <1>1, <1>2, <1>3, LinkMoves

LEMMA AboutStays ==
  ASSUME WantedInv, [RemoteNext]_allVars, NEW kind, NEW c
  PROVE  About(kind, c) \subseteq About(kind, c)'
BY MadeStays DEF About

(* The clients' and goals' table hold calibrations of their camera. *)
CalibrationTables ==
  /\ {client, handle} \subseteq [Camera -> Request \union {None}]
  /\ \A c \in Camera : {client[c], handle[c]} \subseteq About("calibrate", c) \union {None}

LEMMA TablesTyped ==
  ASSUME RemoteTypeOK, WantedInv, ThreadInv, PlaceInv, [RemoteNext]_allVars
  PROVE  /\ open' \subseteq Request /\ progressed' \subseteq Request
         /\ stage' \in [Request -> {"none", "sent", "accepted", "over"}]
         /\ CalibrationTables'
<1>1. /\ inbox \in Seq(Request) /\ open \subseteq Request /\ progressed \subseteq Request
      /\ stage \in [Request -> {"none", "sent", "accepted", "over"}]
      /\ {client, handle} \subseteq [Camera -> Request \union {None}]
  BY DEF RemoteTypeOK, TypeOK
<1>2. \A c \in Camera : {client[c], handle[c]} \subseteq About("calibrate", c)' \union {None}
  BY AboutStays DEF RemoteTypeOK, TypeOK
<1>3. CASE UNCHANGED calibration
  BY <1>1, <1>2, <1>3 DEF calibration, CalibrationTables
<1>4. CASE StartCalibration
  <2>1. PICK r : r = Head(inbox)
    OBVIOUS
  <2>2. inbox # <<>> /\ inbox' = Tail(inbox) /\ Kind(r) = "calibrate"
    BY <1>4, <2>1 DEF StartCalibration, Calibrate, TakeFor, Take
  <2>3. r \in Request /\ Made(r)
    BY <1>1, <2>1, <2>2, TakeFacts DEF PlaceInv
  <2>4. r \in About("calibrate", Cam(r))
    BY <2>2, <2>3 DEF About
  <2>5. \A c \in Camera : c = Cam(r) => r \in About("calibrate", c)'
    BY <2>4, AboutStays
  <2>6. client' = [client EXCEPT ![Cam(r)] = r] /\ open' = open \union {r}
        /\ UNCHANGED <<handle, stage, progressed>>
    BY <1>4, <2>1 DEF StartCalibration, Calibrate
  <2> QED
    BY <1>1, <1>2, <2>3, <2>5, <2>6 DEF CalibrationTables
<1>5. CASE StartGoal
  BY <1>1, <1>2, <1>5 DEF StartGoal, SendGoal, CalibrationTables
<1>6. CASE ClearUp
  <2>1. /\ client' = client \/ client' = [client EXCEPT ![rcam] = None]
        /\ handle' = handle \/ handle' = [handle EXCEPT ![rcam] = None]
        /\ open' \subseteq open /\ UNCHANGED <<stage, progressed>>
    BY <1>6 DEF ClearUp, DestroyClient, ClearClient, ClearHandle, Clearing
  <2> QED
    BY <1>1, <1>2, <2>1 DEF CalibrationTables
<1>7. ASSUME NEW r \in Request, HearAccepted(r)
      PROVE  /\ CalibrationTables' /\ UNCHANGED <<open, progressed>>
             /\ stage' = [stage EXCEPT ![r] = "accepted"]
  <2>1. /\ handle' = [handle EXCEPT ![Cam(r)] = r] /\ stage[r] = "sent"
        /\ UNCHANGED <<open, client, progressed>> /\ stage' = [stage EXCEPT ![r] = "accepted"]
    BY <1>7 DEF HearAccepted, GoalResponse
  <2>2. r \in About("calibrate", Cam(r))
    BY <2>1 DEF PlaceInv, About
  <2>3. \A c \in Camera : c = Cam(r) => r \in About("calibrate", c)'
    BY <2>2, AboutStays
  <2> QED
    BY <1>1, <1>2, <2>1, <2>3 DEF CalibrationTables
<1>8. ASSUME NEW r \in Request, HearResult(r) \/ Feedback(r)
      PROVE  /\ UNCHANGED <<open, client, handle>>
             /\ progressed' \subseteq progressed \union {r}
             /\ stage' = stage \/ stage' = [stage EXCEPT ![r] = "over"]
  BY <1>8 DEF HearResult, Result, Feedback
<1>9. ASSUME NEW r \in Request, HearResult(r) \/ Feedback(r)
      PROVE  CalibrationTables'
  BY <1>1, <1>2, <1>8, <1>9 DEF CalibrationTables
<1> QED
  BY <1>1, <1>3, <1>4, <1>5, <1>6, <1>7, <1>8, <1>9, CalibrationMoves

LEMMA FramesTyped ==
  ASSUME RemoteTypeOK, WantedInv, ThreadInv, PlaceInv, FrameInv, [RemoteNext]_allVars
  PROVE  /\ subs' \subseteq Request
         /\ topicHandle' \in [Camera -> Request \union {None, Absent}]
         /\ \A c \in Camera : topicHandle'[c] \in About("frame", c)' \union {None, Absent}
<1>1. inbox \in Seq(Request) /\ subs \subseteq Request
      /\ topicHandle \in [Camera -> Request \union {None, Absent}]
  BY DEF RemoteTypeOK, TypeOK
<1>2. \A c \in Camera : topicHandle[c] \in About("frame", c)' \union {None, Absent}
  BY AboutStays DEF RemoteTypeOK, TypeOK
<1>3. CASE UNCHANGED frames
  BY <1>1, <1>2, <1>3 DEF frames
<1>4. CASE GetFrame
  <2>1. inbox # <<>> /\ inbox' = Tail(inbox) /\ subs' = subs \union {Head(inbox)}
        /\ topicHandle' = topicHandle
    BY <1>4 DEF GetFrame, TakeFor, Take
  <2> QED
    BY <1>1, <1>2, <2>1, TakeFacts
<1>5. CASE StoreSubscription
  <2>1. PICK r : r = cur
    OBVIOUS
  <2>2. pc = "subscribe" /\ topicHandle' = [topicHandle EXCEPT ![Cam(r)] = r] /\ subs' = subs
    BY <1>5, <2>1 DEF StoreSubscription
  <2>3. r \in About("frame", Cam(r)) /\ r \in Request
    BY <2>1, <2>2 DEF FrameInv, PlaceInv, ThreadInv, Handles, About
  <2>4. \A c \in Camera : c = Cam(r) => r \in About("frame", c)'
    BY <2>3, AboutStays
  <2> QED
    BY <1>1, <1>2, <2>2, <2>3, <2>4
<1>6. ASSUME NEW r \in Request, Image(r)
      PROVE  subs' \subseteq subs /\ topicHandle' = [topicHandle EXCEPT ![Cam(r)] = None]
  BY <1>6 DEF Image
<1>7. ASSUME NEW r \in Request, Image(r)
      PROVE  \A c \in Camera : topicHandle'[c] \in About("frame", c)' \union {None, Absent}
  BY <1>1, <1>2, <1>6, <1>7
<1> QED
  BY <1>1, <1>2, <1>3, <1>4, <1>5, <1>6, <1>7, FrameMoves

LEMMA AnswersTyped ==
  ASSUME RemoteTypeOK, WantedInv, ThreadInv, [RemoteNext]_allVars
  PROVE  queue' \subseteq Request /\ replies' \in [Request -> Nat] /\ up' \in BOOLEAN
<1>1. /\ inbox \in Seq(Request) /\ queue \subseteq Request /\ replies \in [Request -> Nat]
      /\ up \in BOOLEAN
  BY DEF RemoteTypeOK, TypeOK
<1>2. ASSUME NEW r, AnswersAtOnce(r) \/ AnswersCurrent(r) PROVE r \in Request
  <2>1. CASE AnswersAtOnce(r)
    BY <1>1, <2>1, TakeFacts DEF AnswersAtOnce
  <2>2. CASE AnswersCurrent(r)
    BY <2>2 DEF AnswersCurrent, ThreadInv, Handles
  <2> QED
    BY <1>2, <2>1, <2>2
<1>3. queue' \subseteq Request /\ replies' \in [Request -> Nat]
  BY <1>1, <1>2, ReplyMoves DEF Publish
<1>4. up' = up \/ up' = FALSE
  BY UpMoves
<1> QED
  BY <1>1, <1>3, <1>4

LEMMA CameraMoves ==
  ASSUME ThreadInv, [RemoteNext]_allVars
  PROVE  \/ UNCHANGED camera
         \/ \E r \in Request : Server!Accept(r) \/ Server!Progress(r) \/ Server!Execute(r)
         \/ CancelIt \/ HearResponse \/ ServeCall
         \/ \E r \in Request : Server!TakeFeedback(r)
         \/ \E c \in Camera : LeaveCamera(c) \/ Server!Appear(c)
<1>1. CASE LoopActs
  <2>1. StartGoal => UNCHANGED camera \/ (pc = "send" /\ Server!Accept(cur))
    BY DEF StartGoal, SendGoal, Handling
  <2>2. CASE CancelIt
    BY <2>2
  <2>3. CASE StartCalibration \/ LoopStep
    BY <2>3 DEF StartCalibration, LoopStep
  <2>4. pc = "send" => cur \in Request
    BY DEF ThreadInv, Handles
  <2> QED
    BY <1>1, <2>1, <2>2, <2>3, <2>4 DEF LoopActs
<1>2. CASE ~LoopActs
  BY <1>2 DEF RemoteNext, LoopActs, allVars, Environment, AskNext, LoseLink, Unplug, Reset,
       AppearCamera, Link, Executor, HearImage, HearAccepted, HearResult, GoalProgress, HearProgress, RunGoal
<1> QED
  BY <1>1, <1>2

LEMMA CamerasTyped ==
  ASSUME RemoteTypeOK, WantedInv, ThreadInv, [RemoteNext]_allVars
  PROVE  Server!TypeOK'
<1> USE DEF Server!TypeOK
<1>1. Server!TypeOK
  BY DEF RemoteTypeOK
<1>2. CASE UNCHANGED camera
  BY <1>1, <1>2 DEF camera
<1>3. ASSUME NEW r \in Request, Server!Accept(r) PROVE Server!TypeOK'
  BY <1>1, <1>3 DEF Server!Accept, Server!Move, Server!State, Server!node
<1>4. ASSUME NEW r \in Request, Server!Progress(r) PROVE Server!TypeOK'
  BY <1>1, <1>4 DEF Server!Progress, Server!node
<1>11. ASSUME NEW r \in Request, Server!TakeFeedback(r) PROVE Server!TypeOK'
  BY <1>1, <1>11 DEF Server!TakeFeedback, Server!node
<1>5. ASSUME NEW r \in Request, Server!Execute(r) PROVE Server!TypeOK'
  <2>1. ASSUME NEW state \in Server!Ended, Server!End(r, state) PROVE Server!TypeOK'
    BY <1>1, <2>1 DEF Server!End, Server!Move, Server!State, Server!node
  <2>2. Server!AbortDevice(r) => Server!TypeOK'
    BY <1>1 DEF Server!AbortDevice, Server!node
  <2> QED
    BY <1>5, <2>1, <2>2 DEF Server!Execute, Server!Return, Server!Throw, Server!Ended
<1>6. CASE CancelIt
  BY <1>1, <1>6 DEF CancelIt, Server!Cancel, Server!Move, Server!State, Server!node
<1>7. CASE HearResponse
  BY <1>1, <1>7 DEF HearResponse, Server!Deliver
<1>8. CASE ServeCall
  <2>1. Cam(cur) \in Camera
    <3>1. cur \in Request /\ Made(cur)
      BY <1>8 DEF ServeCall, ThreadInv, Handles
    <3> QED
      BY <3>1, MadeStays
  <2>2. Verdicts(Kind(cur)) \subseteq {"succeeded", "failed"}
    BY DEF Verdicts, Server!NoVerdict, Server!CalibVerdict, Server!SafetyVerdict,
         Server!ParameterVerdict
  <2>3. /\ \E verdict \in {"succeeded", "failed"} : reply' = [reply EXCEPT ![Cam(cur)] = verdict]
        /\ resetting' \subseteq resetting \union {Cam(cur)}
        /\ UNCHANGED <<alive, goal, complete, told, cancelled>>
    BY <1>8, <2>2 DEF ServeCall, Server!Serve
  <2> QED
    BY <1>1, <2>1, <2>3
<1>9. ASSUME NEW c \in Camera, LeaveCamera(c) PROVE Server!TypeOK'
  <2>1. Server!Leave(c, About("calibrate", c))
    BY <1>9 DEF LeaveCamera
  <2>2. /\ alive' = [alive EXCEPT ![c] = FALSE] /\ resetting' \subseteq resetting
        /\ reply' = reply \/ reply' = [reply EXCEPT ![c] = "none"]
        /\ goal' \in [Request -> Server!State]
        /\ complete' \in [Request -> BOOLEAN] /\ cancelled' \in [Request -> BOOLEAN]
        /\ told' = told
    BY <1>1, <2>1 DEF Server!Leave, Server!State
  <2> QED
    BY <1>1, <2>2
<1>10. ASSUME NEW c \in Camera, Server!Appear(c) PROVE Server!TypeOK'
  BY <1>1, <1>10 DEF Server!Appear
<1> QED
  BY <1>2, <1>3, <1>4, <1>5, <1>6, <1>7, <1>8, <1>9, <1>10, <1>11, CameraMoves

InputLeft == Len(wanted) + drops + departures < MaxInputs

LEMMA HistoryMoves ==
  ASSUME [RemoteNext]_allVars
  PROVE  \/ UNCHANGED history
         \/ AskNext \/ LoseLink \/ StartCalibration
         \/ \E c \in Camera :
              /\ LeaveCamera(c)
              /\ departures' = departures \/ (InputLeft /\ departures' = departures + 1)
<1>1. CASE Environment
  <2>1. \/ AskNext \/ LoseLink
        \/ \E c \in Camera : (InputLeft /\ Unplug(c)) \/ Reset(c) \/ AppearCamera(c)
    BY <1>1 DEF Environment, InputLeft
  <2> QED
    BY <2>1 DEF Unplug, Reset, AppearCamera
<1>2. CASE ~Environment
  BY <1>2 DEF RemoteNext, allVars, Link, StartGoal, CancelIt, LoopStep, Executor, HearResponse,
       HearImage, HearAccepted, HearResult, ServeCall, GoalProgress, HearProgress, RunGoal
<1> QED
  BY <1>1, <1>2

LEMMA HistoryTyped ==
  ASSUME RemoteTypeOK, WantedInv, PlaceInv, [RemoteNext]_allVars
  PROVE  /\ departures' \in 0 .. MaxInputs
         /\ promised' \subseteq Request
         /\ overlapped' \subseteq Camera /\ hurried' \subseteq Camera
<1>1. /\ departures \in 0 .. MaxInputs /\ inbox \in Seq(Request)
      /\ promised \subseteq Request /\ overlapped \subseteq Camera /\ hurried \subseteq Camera
  BY DEF RemoteTypeOK, TypeOK
<1>2. CASE UNCHANGED history
  BY <1>1, <1>2 DEF history
<1>3. CASE AskNext
  <2>1. Len(wanted) + 1 \in Request
    BY <1>3, AskFacts
  <2>2. /\ UNCHANGED <<departures, overlapped, hurried>>
        /\ promised' \subseteq promised \union {Len(wanted) + 1}
    BY <1>3 DEF AskNext
  <2> QED
    BY <1>1, <2>1, <2>2
<1>4. CASE LoseLink
  BY <1>1, <1>4 DEF LoseLink
<1>5. CASE StartCalibration
  <2>1. /\ UNCHANGED <<departures, promised>>
        /\ overlapped' \subseteq overlapped \union {Cam(cur')}
        /\ hurried' \subseteq hurried \union {Cam(cur')}
    BY <1>5 DEF StartCalibration
  <2>2. inbox # <<>> /\ inbox' = Tail(inbox) /\ cur' = Head(inbox)
    BY <1>5 DEF StartCalibration, Calibrate, TakeFor, Take
  <2>3. PICK r : r = cur'
    OBVIOUS
  <2>4. r \in Request /\ Made(r)
    BY <1>1, <2>2, <2>3, TakeFacts DEF PlaceInv
  <2>5. Cam(r) \in Camera
    BY <2>4, MadeStays
  <2> QED
    BY <1>1, <2>1, <2>3, <2>5
<1>6. ASSUME NEW c \in Camera, LeaveCamera(c),
             departures' = departures \/ (InputLeft /\ departures' = departures + 1)
      PROVE  /\ departures' \in 0 .. MaxInputs
             /\ promised' \subseteq Request
             /\ overlapped' \subseteq Camera /\ hurried' \subseteq Camera
  <2>1. promised' \subseteq promised /\ UNCHANGED <<overlapped, hurried>>
    BY <1>6 DEF LeaveCamera
  <2>2. PICK asked \in Nat : asked = Len(wanted)
    BY LenProperties DEF WantedInv
  <2>3. drops \in Nat /\ MaxInputs \in Nat
    BY RequestFacts DEF RemoteTypeOK, TypeOK
  <2>4. InputLeft => departures < MaxInputs
    BY <1>1, <2>2, <2>3 DEF InputLeft
  <2>5. departures' \in 0 .. MaxInputs
    BY <1>1, <1>6, <2>3, <2>4
  <2> QED
    BY <1>1, <2>1, <2>5
<1> QED
  BY <1>2, <1>3, <1>4, <1>5, <1>6, HistoryMoves

LEMMA TypeStep ==
  ASSUME RemoteTypeOK, WantedInv, ThreadInv, PlaceInv, FrameInv, [RemoteNext]_allVars
  PROVE  RemoteTypeOK'
<1>1. TypeOK'
  BY ThreadStep, BrokerTyped, TablesTyped, FramesTyped, AnswersTyped
     DEF TypeOK, Positions, Future, CalibrationTables
<1> QED
  BY <1>1, CamerasTyped, HistoryTyped DEF RemoteTypeOK

-----------------------------------------------------------------------------
(* A request is in one place. *)
LEMMA PlaceStep ==
  ASSUME RemoteTypeOK, WantedInv, ThreadInv, PlaceInv, [RemoteNext]_allVars
  PROVE  PlaceInv'
<1>1. /\ inbox \in Seq(Request) /\ subs \subseteq Request /\ progressed \subseteq Request
      /\ stage \in [Request -> {"none", "sent", "accepted", "over"}] /\ pc \in Positions
  BY DEF RemoteTypeOK, TypeOK, Positions
<1>2. \A r \in Request : Made(r) => Made(r)' /\ Kind(r)' = Kind(r)
  BY MadeStays
<1>3. Handles => cur \in Request /\ Made(cur)
  BY DEF ThreadInv
<1>4. Distinct /\ \A r \in Waiting : r \in Request /\ Made(r)
  BY <1>1 DEF PlaceInv, Waiting
<1>5. CASE AskNext
  <2>1. PICK n \in Request : n = Len(wanted')
    BY <1>5, AskFacts
  <2>2. ~Made(n) /\ Made(n)' /\ inbox' \in {inbox, Append(inbox, n)}
    BY <1>5, <2>1, AskFacts DEF AskNext, Ask, Made
  <2>3. n \notin Waiting /\ n \notin subs /\ stage[n] = "none" /\ (Handles => cur # n)
    BY <1>3, <1>4, <2>2 DEF PlaceInv
  <2>4. Distinct' /\ Waiting' \subseteq Waiting \union {n}
    BY <1>1, <1>4, <2>2, <2>3, ArriveFacts
  <2>5. UNCHANGED <<pc, cur, subs, stage, progressed>>
    BY <1>5 DEF AskNext, Ask, thread, calibration, frames
  <2> QED
    BY <1>1, <1>2, <1>3, <1>4, <2>2, <2>3, <2>4, <2>5 DEF PlaceInv, Handles, Kind
<1>6. ASSUME ~AskNext, Waiting' \subseteq Waiting, Distinct', UNCHANGED <<pc, cur>>,
             subs' \subseteq subs, progressed' \subseteq {r \in Request : stage[r] # "none"},
             stage' = stage \/ \E r \in Request : stage[r] # "none" /\
                               stage' \in {[stage EXCEPT ![r] = "accepted"],
                                           [stage EXCEPT ![r] = "over"]}
      PROVE  PlaceInv'
  <2>1. wanted' = wanted
    BY <1>6, WantedSame
  <2>2. \A r \in Request : stage'[r] # "none" <=> stage[r] # "none"
    BY <1>1, <1>6
  <2>3. stage' \in [Request -> {"none", "sent", "accepted", "over"}]
    BY <1>1, <1>6
  <2> QED
    BY <1>1, <1>3, <1>4, <1>6, <2>1, <2>2, <2>3 DEF PlaceInv, Handles, Kind, Made
<1>7. ASSUME ~AskNext PROVE Distinct' /\ Waiting' \subseteq Waiting
  <2>1. CASE inbox' = inbox
    BY <1>4, <2>1 DEF Distinct, Waiting
  <2>2. CASE inbox' = <<>>
    <3>1. DOMAIN inbox' = {}
      BY <2>2
    <3> QED
      BY <3>1 DEF Distinct, Waiting
  <2>3. CASE inbox # <<>> /\ inbox' = Tail(inbox)
    BY <1>1, <1>4, <2>3, TakeFacts
  <2> QED
    BY <1>7, <2>1, <2>2, <2>3, InboxMoves
<1>8. ASSUME ~StartGoal
      PROVE  /\ progressed' \subseteq {r \in Request : stage[r] # "none"}
             /\ stage' = stage \/ \E r \in Request : stage[r] # "none" /\
                                    stage' \in {[stage EXCEPT ![r] = "accepted"],
                                                [stage EXCEPT ![r] = "over"]}
  <2>1. progressed \subseteq {r \in Request : stage[r] # "none"}
    BY <1>1 DEF PlaceInv
  <2>2. CASE UNCHANGED calibration \/ StartCalibration \/ ClearUp
    BY <2>1, <2>2 DEF calibration, StartCalibration, Calibrate, ClearUp, DestroyClient,
         ClearClient, ClearHandle, Clearing
  <2>3. ASSUME NEW r \in Request, HearAccepted(r)
        PROVE  progressed' = progressed /\ stage[r] # "none"
               /\ stage' = [stage EXCEPT ![r] = "accepted"]
    BY <2>3 DEF HearAccepted, GoalResponse
  <2>4. ASSUME NEW r \in Request, HearResult(r)
        PROVE  progressed' \subseteq progressed /\ stage[r] # "none"
               /\ stage' = [stage EXCEPT ![r] = "over"]
    BY <2>4 DEF HearResult, Result
  <2>5. ASSUME NEW r \in Request, Feedback(r)
        PROVE  progressed' = progressed \union {r} /\ stage[r] # "none" /\ stage' = stage
    BY <2>5 DEF Feedback
  <2> QED
    BY <1>8, <2>1, <2>2, <2>3, <2>4, <2>5, CalibrationMoves
<1>9. subs' \subseteq subs \/ GetFrame
  BY FrameMoves DEF StoreSubscription, Image, frames
<1>10. CASE ~AskNext /\ UNCHANGED <<pc, cur>>
  <2>1. ~GetFrame /\ ~StartGoal
    BY <1>10 DEF GetFrame, TakeFor, Take, Goto, StartGoal, SendGoal, Handling, Finish
  <2> QED
    BY <1>6, <1>7, <1>8, <1>9, <1>10, <2>1
<1>11. CASE LoopActs /\ ~UNCHANGED <<pc, cur>>
  <2>1. UNCHANGED wanted
    BY <1>11 DEF LoopActs, StartCalibration, Calibrate, TakeFor, Take, StartGoal, SendGoal,
         Handling, CancelIt, CancelGoal, LoopStep, Loop, AnswerAtOnce, Malformed, CallService,
         Unavailable, Available, Return, GetFrame, StoreSubscription, RejectFrame, WaitForServer,
         SendWithoutClient, Abort, NoGoal, FoundGoal, CancelWithoutClient, taking
  <2>2. ~AskNext
    BY <1>11 DEF AskNext, Ask, thread
  <2>3. Distinct' /\ Waiting' \subseteq Waiting
    BY <1>7, <2>2
  <2>4. ~StartGoal => stage' = stage /\ progressed' = progressed
    BY <1>11 DEF LoopActs, StartCalibration, Calibrate, CancelIt, CancelGoal, LoopStep, Loop,
         AnswerAtOnce, Malformed, CallService, Unavailable, Available, Return, GetFrame,
         StoreSubscription, RejectFrame, WaitForServer, SendWithoutClient, Abort, NoGoal,
         FoundGoal, CancelWithoutClient, calibration
  <2>5. StartGoal => /\ pc = "send" /\ stage' = [stage EXCEPT ![cur] = "sent"]
                     /\ progressed' = progressed /\ pc' = "idle"
    BY DEF StartGoal, SendGoal, Handling, Finish, Goto
  <2>6. GetFrame => pc' = "subscribe" /\ subs' = subs \union {Head(inbox)}
    BY DEF GetFrame, TakeFor, Goto
  <2>7. \A r \in progressed : stage'[r] # "none"
    BY <1>1, <2>4, <2>5 DEF PlaceInv
  <2>8. \A r \in Request : stage'[r] # "none" => Made(r) /\ Kind(r) = "calibrate"
    BY <1>1, <1>3, <2>4, <2>5 DEF PlaceInv, Handles
  <2>9. CASE pc' \in {"idle", "ended"}
    <3>1. subs' \subseteq subs
      BY <1>9, <2>6, <2>9
    <3>2. \A r \in Waiting \union subs : stage'[r] = "none"
      BY <1>1, <1>3, <1>4, <2>4, <2>5 DEF PlaceInv, Handles
    <3> QED
      BY <2>1, <2>3, <2>4, <2>5, <2>7, <2>8, <2>9, <3>1, <3>2
         DEF PlaceInv, Handles, Kind, Made
  <2>10. CASE pc' \in {"await", "send", "cancel"} /\ cur' = cur /\ pc # "idle" /\ pc # "subscribe"
                /\ Handles /\ (pc' = "send" => pc = "server")
    <3>1. subs' \subseteq subs /\ stage' = stage /\ progressed' = progressed
      BY <1>9, <2>4, <2>5, <2>6, <2>10
    <3> QED
      BY <1>3, <1>4, <2>1, <2>3, <2>10, <3>1 DEF PlaceInv, Handles, Kind, Made
  <2>11. CASE /\ inbox # <<>> /\ inbox' = Tail(inbox) /\ pc = "idle"
              /\ pc' \in {"discover", "subscribe", "server", "abort"}
              /\ cur' = Head(inbox) /\ Head(inbox) \in Waiting
              /\ pc' = "subscribe" => Kind(cur') = "frame"
              /\ pc' = "server" => Kind(cur') = "calibrate"
    <3>1. PICK r : r = Head(inbox)
      OBVIOUS
    <3>2. r \in Waiting /\ r \notin Waiting' /\ cur' = r /\ Made(r) /\ r \in Request
      BY <1>1, <1>4, <2>11, <3>1, TakeFacts
    <3>3. stage' = stage /\ progressed' = progressed
      BY <2>4, <2>5, <2>11
    <3>4. subs' \subseteq subs \/ (subs' = subs \union {r} /\ pc' = "subscribe")
      BY <1>9, <2>6, <3>1
    <3>5. (pc' = "subscribe" => Kind(r) = "frame") /\ (pc' = "server" => Kind(r) = "calibrate")
      BY <2>11, <3>1 DEF Kind
    <3> QED
      BY <1>4, <2>1, <2>3, <2>11, <3>2, <3>3, <3>4, <3>5 DEF PlaceInv, Handles, Kind, Made
  <2> QED
    BY <1>1, <1>11, <2>9, <2>10, <2>11, LoopMoves DEF thread, Handles
<1> QED
  BY <1>5, <1>10, <1>11, ThreadMoves DEF thread, AskNext, Ask

-----------------------------------------------------------------------------
(* A request is answered once. *)
LEMMA ReplyStep ==
  ASSUME RemoteTypeOK, WantedInv, ThreadInv, PlaceInv, FrameInv, ReplyInv,
         [RemoteNext]_allVars
  PROVE  ReplyInv'
<1>1. /\ inbox \in Seq(Request) /\ subs \subseteq Request
      /\ stage \in [Request -> {"none", "sent", "accepted", "over"}]
      /\ replies \in [Request -> Nat]
  BY DEF RemoteTypeOK, TypeOK
<1>2. \A r \in Request : Made(r) => Made(r)'
  BY MadeStays
<1>3. \A r \in Waiting : r \in Request /\ Made(r)
  BY <1>1 DEF PlaceInv, Waiting
(* Nothing becomes unanswered again. *)
<1>4. \A r \in Request : Unanswered(r)' => Unanswered(r)
  <2> SUFFICES ASSUME NEW r \in Request, ~Unanswered(r) PROVE ~Unanswered(r)'
    OBVIOUS
  <2>1. Made(r) /\ r \notin Waiting /\ r \notin subs /\ stage[r] \notin {"sent", "accepted"}
        /\ (Handles => r # cur)
    BY DEF Unanswered
  <2>2. Made(r)'
    BY <1>2, <2>1
  <2>3. r \notin Waiting'
    <3>1. CASE AskNext /\ inbox' \in {inbox, Append(inbox, Len(wanted'))}
      <4>1. PICK n \in Request : n = Len(wanted') /\ ~Made(n)
        BY <3>1, AskFacts
      <4>2. Waiting' \subseteq Waiting \union {n}
        BY <1>1, <3>1, <4>1, ArriveFacts
      <4> QED
        BY <2>1, <4>1, <4>2
    <3>2. CASE inbox' = inbox
      BY <2>1, <3>2 DEF Waiting
    <3>3. CASE inbox' = <<>>
      <4>1. DOMAIN inbox' = {}
        BY <3>3
      <4> QED
        BY <4>1 DEF Waiting
    <3>4. CASE inbox # <<>> /\ inbox' = Tail(inbox)
      BY <1>1, <2>1, <3>4, TakeFacts
    <3> QED
      BY <3>1, <3>2, <3>3, <3>4, InboxMoves
  <2>4. Handles' => r # cur'
    <3>1. CASE UNCHANGED <<pc, cur>>
      BY <2>1, <3>1 DEF Handles
    <3>2. CASE LoopActs
      BY <1>1, <2>1, <3>2, LoopMoves DEF Handles, thread
    <3> QED
      BY <3>1, <3>2, ThreadMoves DEF thread
  <2>5. r \notin subs'
    <3>1. GetFrame => Head(inbox) \in Waiting /\ subs' = subs \union {Head(inbox)}
      BY <1>1, TakeFacts DEF GetFrame, TakeFor, Take
    <3> QED
      BY <2>1, <3>1, FrameMoves DEF frames, StoreSubscription, Image
  <2>6. stage'[r] \notin {"sent", "accepted"}
    <3>1. CASE UNCHANGED calibration \/ StartCalibration \/ ClearUp
      BY <2>1, <3>1 DEF calibration, StartCalibration, Calibrate, ClearUp, DestroyClient,
           ClearClient, ClearHandle, Clearing
    <3>2. CASE StartGoal
      BY <1>1, <2>1, <3>2 DEF StartGoal, SendGoal, Handling, Handles
    <3>3. ASSUME NEW q \in Request, HearAccepted(q) \/ HearResult(q) \/ Feedback(q)
          PROVE  stage'[r] \notin {"sent", "accepted"}
      BY <1>1, <2>1, <3>3 DEF HearAccepted, GoalResponse, HearResult, Result, Feedback
    <3> QED
      BY <3>1, <3>2, <3>3, CalibrationMoves
  <2> QED
    BY <2>2, <2>3, <2>4, <2>5, <2>6 DEF Unanswered
(* What is answered was unanswered and is no longer. *)
<1>5. ASSUME NEW r, Publish(r), AnswersAtOnce(r)
      PROVE  r \in Request /\ Unanswered(r) /\ ~Unanswered(r)'
  <2>1. r \in Waiting /\ r \in Request /\ r \notin Waiting'
    BY <1>1, <1>5, TakeFacts DEF AnswersAtOnce, PlaceInv
  <2>2. Made(r) /\ r \notin subs /\ stage[r] = "none" /\ ~Handles
    BY <1>5, <2>1 DEF AnswersAtOnce, PlaceInv, Handles
  <2>3. Made(r)' /\ UNCHANGED <<pc, subs, stage>>
    BY <1>2, <1>5, <2>1, <2>2 DEF AnswersAtOnce, thread, calibration, frames
  <2> QED
    BY <2>1, <2>2, <2>3 DEF Unanswered, Handles
<1>6. ASSUME NEW r, Publish(r), AnswersCurrent(r)
      PROVE  r \in Request /\ Unanswered(r) /\ ~Unanswered(r)'
  <2>1. r \in Request /\ Made(r) /\ r = cur /\ Handles
    BY <1>6 DEF AnswersCurrent, ThreadInv, Handles
  <2>2. r \notin Waiting /\ r \notin subs /\ stage[r] = "none"
    BY <1>6, <2>1 DEF AnswersCurrent, PlaceInv
  <2>3. Made(r)' /\ Waiting' = Waiting /\ UNCHANGED <<subs, stage>> /\ ~Handles'
    BY <1>2, <1>6, <2>1 DEF AnswersCurrent, calibration, frames, Waiting, Handles
  <2> QED
    BY <2>1, <2>2, <2>3 DEF Unanswered
<1>7. ASSUME NEW r \in Request, Publish(r), Image(r)
      PROVE  Unanswered(r) /\ ~Unanswered(r)'
  <2>1. r \in subs /\ topicHandle[Cam(r)] \notin {None, Absent}
    BY <1>7 DEF Image
  <2>2. topicHandle[Cam(r)] = r /\ ~(Handles /\ r = cur)
    BY <2>1 DEF FrameInv, PlaceInv
  <2>3. Made(r) /\ r \notin Waiting /\ stage[r] = "none"
    BY <2>1 DEF PlaceInv
  <2>4. r \notin subs' /\ UNCHANGED <<inbox, pc, cur, stage>>
    BY <1>7, <2>2 DEF Image, Callback, taking, thread, calibration
  <2>5. Made(r)' /\ Waiting' = Waiting
    BY <1>2, <2>3, <2>4 DEF Waiting
  <2> QED
    BY <2>1, <2>2, <2>3, <2>4, <2>5 DEF Unanswered, Handles
<1>8. ASSUME NEW r \in Request, Publish(r), HearResult(r)
      PROVE  Unanswered(r) /\ ~Unanswered(r)'
  <2>1. stage[r] = "accepted" /\ stage' = [stage EXCEPT ![r] = "over"]
        /\ UNCHANGED <<inbox, pc, cur, subs>>
    BY <1>8 DEF HearResult, Result, Callback, taking, thread, frames
  <2>2. Made(r) /\ r \notin Waiting /\ r \notin subs /\ ~(Handles /\ r = cur)
    BY <2>1 DEF PlaceInv
  <2>3. Made(r)' /\ Waiting' = Waiting /\ stage'[r] = "over"
    BY <1>1, <1>2, <2>1, <2>2 DEF Waiting
  <2> QED
    BY <2>1, <2>2, <2>3 DEF Unanswered, Handles
<1>9. CASE replies' = replies
  BY <1>4, <1>9 DEF ReplyInv
<1>10. CASE \E r : Publish(r) /\ (\/ AnswersAtOnce(r) \/ AnswersCurrent(r)
                                  \/ r \in Request /\ (Image(r) \/ HearResult(r)))
  <2>1. PICK r : Publish(r) /\ (\/ AnswersAtOnce(r) \/ AnswersCurrent(r)
                                \/ r \in Request /\ (Image(r) \/ HearResult(r)))
    BY <1>10
  <2>2. r \in Request /\ Unanswered(r) /\ ~Unanswered(r)'
    BY <1>5, <1>6, <1>7, <1>8, <2>1
  <2>3. replies' = [replies EXCEPT ![r] = 1]
    <3>1. replies[r] = 0
      BY <2>2 DEF ReplyInv
    <3> QED
      BY <1>1, <2>1, <2>2, <3>1 DEF Publish
  <2>4. replies'[r] = 1 /\ \A q \in Request \ {r} : replies'[q] = replies[q]
    BY <1>1, <2>2, <2>3
  <2> QED
    BY <1>4, <2>2, <2>4 DEF ReplyInv
<1> QED
  BY <1>9, <1>10, ReplyMoves

-----------------------------------------------------------------------------
(* The tables of subscriptions. *)
LEMMA SubscribeMoves ==
  ASSUME LoopActs
  PROVE  GetFrame \/ StoreSubscription \/ (pc # "subscribe" /\ pc' # "subscribe")
BY DEF LoopActs, StartCalibration, Calibrate, TakeFor, Take, StartGoal, SendGoal, Handling,
       CancelIt, CancelGoal, LoopStep, Loop, AnswerAtOnce, Malformed, CallService, Unavailable,
       Available, Return, RejectFrame, WaitForServer, SendWithoutClient, Abort, NoGoal,
       FoundGoal, CancelWithoutClient, Goto, Finish, Raise, thread

LEMMA FrameStep ==
  ASSUME RemoteTypeOK, WantedInv, ThreadInv, PlaceInv, FrameInv, [RemoteNext]_allVars
  PROVE  FrameInv'
<1>1. /\ inbox \in Seq(Request) /\ subs \subseteq Request
      /\ topicHandle \in [Camera -> Request \union {None, Absent}]
  BY DEF RemoteTypeOK, TypeOK
<1>2. \A r \in subs : r \in Request /\ Cam(r) \in Camera /\ Cam(r)' = Cam(r)
  BY <1>1, MadeStays DEF PlaceInv
<1>3. pc = "subscribe" => cur \in subs
  BY DEF FrameInv
<1>4. \A c \in Camera : topicHandle[c] \in Request => Cam(topicHandle[c]) = c
  BY RequestFacts DEF RemoteTypeOK, TypeOK, About
<1>5. CASE UNCHANGED frames /\ UNCHANGED <<pc, cur>>
  <2>1. pc = "subscribe" => Cam(cur)' = Cam(cur)
    BY <1>2, <1>3, <1>5 DEF Cam
  <2> QED
    BY <1>2, <1>5, <2>1 DEF FrameInv, frames
<1>6. CASE UNCHANGED frames /\ pc # "subscribe" /\ pc' # "subscribe"
  BY <1>2, <1>6 DEF FrameInv, frames
<1>7. CASE GetFrame
  <2>1. PICK r : r = Head(inbox)
    OBVIOUS
  <2>2. /\ inbox # <<>> /\ inbox' = Tail(inbox) /\ pc = "idle" /\ wanted' = wanted
        /\ subs' = subs \union {r} /\ topicHandle' = topicHandle
        /\ topicHandle[Cam(r)] \in {None, Absent} /\ pc' = "subscribe" /\ cur' = r
    BY <1>7, <2>1 DEF GetFrame, TakeFor, Take, Goto
  <2>3. Cam(cur)' = Cam(r) /\ Cam(r)' = Cam(r)
    BY <2>2 DEF Cam
  <2> QED
    BY <1>2, <2>2, <2>3 DEF FrameInv
<1>8. CASE StoreSubscription
  <2>1. PICK r : r = cur
    OBVIOUS
  <2>2. /\ pc = "subscribe" /\ pc' = "idle" /\ subs' = subs
        /\ topicHandle' = [topicHandle EXCEPT ![Cam(r)] = r]
    BY <1>8, <2>1 DEF StoreSubscription, Finish, Goto
  <2>3. r \in subs /\ topicHandle[Cam(r)] \in {None, Absent}
    BY <2>1, <2>2 DEF FrameInv
  <2>4. \A q \in subs : q = r \/ (topicHandle[Cam(q)] = q /\ Cam(q) # Cam(r))
    BY <1>1, <2>1, <2>3, RequestFacts DEF FrameInv
  <2> QED
    BY <1>1, <1>2, <2>2, <2>3, <2>4 DEF FrameInv
<1>9. ASSUME NEW r \in Request, Image(r) PROVE FrameInv'
  <2>1. /\ r \in subs /\ topicHandle[Cam(r)] \notin {None, Absent}
        /\ subs' = subs \ {topicHandle[Cam(r)]}
        /\ topicHandle' = [topicHandle EXCEPT ![Cam(r)] = None] /\ UNCHANGED <<pc, cur>>
    BY <1>9 DEF Image, Callback, thread
  <2>2. topicHandle[Cam(r)] = r
    BY <2>1 DEF FrameInv
  <2>3. \A q \in subs' : q \in subs /\ Cam(q) # Cam(r)
    BY <1>1, <2>1, <2>2, RequestFacts DEF FrameInv
  <2>4. \A c \in Camera : topicHandle'[c] \in Request => topicHandle'[c] \in subs'
    BY <1>1, <1>2, <1>4, <2>1, <2>2, RequestFacts DEF FrameInv
  <2>5. pc = "subscribe" => /\ cur \in subs' /\ topicHandle'[Cam(cur)] \in {None, Absent}
                            /\ Cam(cur)' = Cam(cur)
    BY <1>1, <1>2, <1>3, <2>1, <2>2 DEF FrameInv
  <2>6. \A q \in subs' : topicHandle'[Cam(q)'] = topicHandle[Cam(q)]
    BY <1>1, <1>2, <2>1, <2>3
  <2> QED
    BY <1>2, <2>1, <2>3, <2>4, <2>5, <2>6 DEF FrameInv
<1> QED
  BY <1>5, <1>6, <1>7, <1>8, <1>9, FrameMoves, ThreadMoves, SubscribeMoves DEF thread

LEMMA FrameInvKeepsFrames == RemoteTypeOK /\ PlaceInv /\ ReplyInv /\ FrameInv => FrameKept
<1> SUFFICES ASSUME RemoteTypeOK, PlaceInv, ReplyInv, FrameInv, NEW c \in Camera
             PROVE  LET waiting == {r \in subs : Cam(r) = c}
                    IN  /\ Cardinality(waiting) <= 1
                        /\ \A r \in waiting : replies[r] = 0
                        /\ topicHandle[c] \in Request => waiting = {topicHandle[c]}
  BY DEF FrameKept
<1> DEFINE waiting == {r \in subs : Cam(r) = c}
<1>1. subs \subseteq Request /\ topicHandle[c] \in About("frame", c) \union {None, Absent}
  BY DEF RemoteTypeOK, TypeOK
<1>2. \A r, q \in waiting : r = q
  BY <1>1, RequestFacts DEF FrameInv
<1>3. Cardinality(waiting) <= 1
  <2>1. CASE waiting = {}
    BY <2>1, FS_EmptySet
  <2>2. CASE waiting # {}
    <3>1. PICK r : waiting = {r}
      BY <1>2, <2>2
    <3> HIDE DEF waiting
    <3>2. Cardinality(waiting) = 1
      BY <3>1, FS_Singleton
    <3> QED
      BY <3>2
  <2> QED
    BY <2>1, <2>2
<1>4. \A r \in waiting : replies[r] = 0
  BY <1>1 DEF ReplyInv, Unanswered
<1>5. topicHandle[c] \in Request => topicHandle[c] \in waiting
  BY <1>1, RequestFacts DEF FrameInv, About
<1>6. topicHandle[c] \in Request => waiting = {topicHandle[c]}
  BY <1>2, <1>5
<1> QED
  BY <1>3, <1>4, <1>6

-----------------------------------------------------------------------------
(* The tables of the calibrations. *)
LEMMA GoalStep ==
  ASSUME RemoteTypeOK, WantedInv, ThreadInv, PlaceInv, GoalInv, [RemoteNext]_allVars
  PROVE  GoalInv'
<1>1. /\ inbox \in Seq(Request) /\ {client, handle} \subseteq [Camera -> Request \union {None}]
      /\ stage \in [Request -> {"none", "sent", "accepted", "over"}]
      /\ held \in Request \union {None}
      /\ \A c \in Camera : handle[c] # None => Cam(handle[c]) = c
  BY DEF RemoteTypeOK, TypeOK, About
<1>2. \A r \in Request : Made(r) => Cam(r) \in Camera /\ Cam(r)' = Cam(r)
  BY MadeStays
<1>3. Handles => cur \in Request /\ Made(cur) /\ stage[cur] = "none"
  BY DEF ThreadInv, PlaceInv
<1>4. \A r \in Request : stage[r] \in {"accepted", "over"} => stage'[r] \in {"accepted", "over"}
  <2>1. CASE UNCHANGED calibration \/ StartCalibration \/ ClearUp
    BY <2>1 DEF calibration, StartCalibration, Calibrate, ClearUp, DestroyClient, ClearClient,
         ClearHandle, Clearing
  <2>2. CASE StartGoal
    BY <1>1, <1>3, <2>2 DEF StartGoal, SendGoal, Handling, Handles
  <2>3. ASSUME NEW r \in Request, HearAccepted(r) \/ HearResult(r) \/ Feedback(r)
        PROVE  stage' \in {stage, [stage EXCEPT ![r] = "accepted"], [stage EXCEPT ![r] = "over"]}
    BY <2>3 DEF HearAccepted, GoalResponse, HearResult, Result, Feedback
  <2> QED
    BY <1>1, <2>1, <2>2, <2>3, CalibrationMoves
<1>5. \A c \in Camera : handle'[c] # None => stage'[handle'[c]] \in {"accepted", "over"}
  <2>1. CASE handle' = handle
    BY <1>1, <1>4, <2>1 DEF GoalInv
  <2>2. CASE ClearUp
    <3>1. handle' = handle \/ handle' = [handle EXCEPT ![rcam] = None]
      BY <2>2 DEF ClearUp, DestroyClient, ClearClient, ClearHandle
    <3> QED
      BY <1>1, <1>4, <3>1 DEF GoalInv
  <2>3. ASSUME NEW r \in Request, HearAccepted(r)
        PROVE  \A c \in Camera : handle'[c] # None => stage'[handle'[c]] \in {"accepted", "over"}
    <3>1. /\ handle' = [handle EXCEPT ![Cam(r)] = r]
          /\ stage' = [stage EXCEPT ![r] = "accepted"]
      BY <2>3 DEF HearAccepted, GoalResponse
    <3> QED
      BY <1>1, <1>4, <3>1 DEF GoalInv
  <2> QED
    BY <2>1, <2>2, <2>3, CalibrationMoves
       DEF calibration, StartCalibration, Calibrate, StartGoal, SendGoal, HearResult, Result,
           Feedback
<1>6. pc' \in {"abort", "cancel"} /\ held' # None =>
        stage'[held'] \in {"accepted", "over"} /\ Cam(held)' = Cam(cur)'
  <2> SUFFICES ASSUME pc' \in {"abort", "cancel"}, held' # None
               PROVE  stage'[held'] \in {"accepted", "over"} /\ Cam(held)' = Cam(cur)'
    OBVIOUS
  <2>1. CASE UNCHANGED <<cur, held>> /\ pc \in {"abort", "cancel"}
    <3>1. held \in Request /\ stage[held] \in {"accepted", "over"} /\ Cam(held) = Cam(cur)
      BY <1>1, <2>1 DEF GoalInv
    <3>2. Made(held) /\ Made(cur) /\ cur \in Request
      BY <1>3, <2>1, <3>1 DEF PlaceInv, Handles
    <3> QED
      BY <1>2, <1>4, <2>1, <3>1, <3>2 DEF Cam
  <2>2. CASE /\ LoopActs /\ Head(inbox) \in Waiting /\ Head(inbox) \in Request
             /\ cur' = Head(inbox) /\ held' = handle[Cam(cur')]
    <3>1. PICK r : r = Head(inbox)
      OBVIOUS
    <3>2. r \in Request /\ Made(r) /\ cur' = r /\ Cam(cur') = Cam(r)
      BY <2>2, <3>1 DEF PlaceInv, Cam
    <3>3. held' = handle[Cam(r)] /\ Cam(r) \in Camera
      BY <1>2, <2>2, <3>2
    <3>4. held' \in Request /\ stage[held'] \in {"accepted", "over"} /\ Cam(held') = Cam(r)
      BY <1>1, <3>3 DEF GoalInv
    <3>5. Made(held')
      BY <3>4 DEF PlaceInv
    <3>6. PICK h \in Request : h = held'
      BY <3>4
    <3>7. Cam(h)' = Cam(h) /\ Cam(r)' = Cam(r) /\ Cam(h) = Cam(r)
      BY <1>2, <3>2, <3>4, <3>5, <3>6
    <3> QED
      BY <1>4, <3>2, <3>4, <3>6, <3>7 DEF Cam
  <2>3. CASE LoopActs
    BY <1>1, <2>1, <2>2, <2>3, LoopMoves DEF thread
  <2> QED
    BY <2>1, <2>3, ThreadMoves DEF thread
<1> QED
  BY <1>5, <1>6 DEF GoalInv

LEMMA OverlapMoves ==
  ASSUME [RemoteNext]_allVars
  PROVE  overlapped \subseteq overlapped' /\ hurried \subseteq hurried'
BY HistoryMoves DEF history, AskNext, LoseLink, StartCalibration, LeaveCamera

(* A goal is there once it is accepted, and stays lost once it is lost. *)
LEMMA GoalMoves ==
  ASSUME RemoteTypeOK, [RemoteNext]_allVars, ~StartGoal, NEW r \in Request
  PROVE  /\ goal[r] = "none" => goal'[r] = "none"
         /\ goal[r] = "lost" => goal'[r] = "lost"
<1>1. goal \in [Request -> Server!State]
  BY DEF RemoteTypeOK, Server!TypeOK
<1>2. CASE UNCHANGED goal
  BY <1>2
<1>3. CASE CancelIt \/ \E q \in Request : Server!Execute(q)
  BY <1>1, <1>3
     DEF CancelIt, Server!Cancel, Server!Execute, Server!AbortDevice, Server!Return,
         Server!Throw, Server!End, Server!Move
<1>4. ASSUME NEW c \in Camera, LeaveCamera(c)
      PROVE  /\ goal[r] = "none" => goal'[r] = "none"
             /\ goal[r] = "lost" => goal'[r] = "lost"
  BY <1>1, <1>4 DEF LeaveCamera, Server!Leave
<1>5. \/ UNCHANGED goal
      \/ CancelIt \/ \E q \in Request : Server!Execute(q)
      \/ \E c \in Camera : LeaveCamera(c)
  BY DEF RemoteNext, allVars, camera, Environment, AskNext, LoseLink, Unplug, Reset,
       AppearCamera, Server!Appear, Link, StartCalibration, StartGoal, LoopStep, Executor,
       HearResponse, Server!Deliver, HearImage, HearAccepted, HearProgress, Server!TakeFeedback,
       Server!node, HearResult, ServeCall, Server!Serve, GoalProgress, Server!Progress, RunGoal
<1> QED
  BY <1>2, <1>3, <1>4, <1>5

(* Only a goal that is sent comes under way. *)
LEMMA UnderwayMoves ==
  ASSUME RemoteTypeOK, ThreadInv, [RemoteNext]_allVars, NEW r \in Request, Underway(r)'
  PROVE  Underway(r) \/ (StartGoal /\ r = cur)
<1>1. /\ stage \in [Request -> {"none", "sent", "accepted", "over"}]
      /\ goal \in [Request -> Server!State]
  BY DEF RemoteTypeOK, TypeOK, Server!TypeOK
<1>2. CASE StartGoal
  <2>1. cur \in Request /\ stage' = [stage EXCEPT ![cur] = "sent"]
    BY <1>2 DEF StartGoal, SendGoal, Handling, ThreadInv, Handles
  <2>2. r # cur => stage'[r] = stage[r] /\ goal'[r] = goal[r]
    BY <1>1, <1>2, <2>1 DEF StartGoal, Server!Accept, Server!Move, camera
  <2> QED
    BY <1>2, <2>2 DEF Underway
<1>3. CASE ~StartGoal
  <2>1. /\ goal[r] = "none" => goal'[r] = "none"
        /\ goal[r] = "lost" => goal'[r] = "lost"
    BY <1>3, GoalMoves
  <2>2. \/ stage'[r] = stage[r]
        \/ stage[r] = "sent" /\ goal[r] # "none"
        \/ stage'[r] = "over"
    <3>1. CASE UNCHANGED calibration \/ StartCalibration \/ ClearUp
      BY <3>1 DEF calibration, StartCalibration, Calibrate, ClearUp, DestroyClient, ClearClient,
           ClearHandle, Clearing
    <3>2. ASSUME NEW q \in Request, HearAccepted(q) \/ HearResult(q) \/ Feedback(q)
          PROVE  \/ stage'[r] = stage[r]
                 \/ stage[r] = "sent" /\ goal[r] # "none"
                 \/ stage'[r] = "over"
      BY <1>1, <3>2 DEF HearAccepted, GoalResponse, HearResult, Result, Feedback
    <3> QED
      BY <1>3, <3>1, <3>2, CalibrationMoves
  <2> QED
    BY <2>1, <2>2 DEF Underway
<1> QED
  BY <1>2, <1>3

(* The calibrations of a camera are those there were, and one that is sent. *)
LEMMA CalibrationsStep ==
  ASSUME RemoteTypeOK, WantedInv, ThreadInv, PlaceInv, [RemoteNext]_allVars, NEW c \in Camera,
         NEW r \in Calibrations(c)'
  PROVE  /\ r \in Request /\ Made(r) /\ Cam(r) = c
         /\ r \in Calibrations(c) \/ (StartGoal /\ r = cur)
<1>1. r \in Request /\ Underway(r)' /\ Cam(r)' = c
  BY DEF Calibrations
<1>2. Underway(r) \/ (StartGoal /\ r = cur)
  BY <1>1, UnderwayMoves
<1>3. Made(r)
  <2>1. CASE Underway(r)
    BY <1>1, <2>1 DEF Underway, PlaceInv
  <2>2. CASE StartGoal /\ r = cur
    BY <2>2 DEF StartGoal, SendGoal, Handling, ThreadInv, Handles
  <2> QED
    BY <1>2, <2>1, <2>2
<1>4. Cam(r) = c
  BY <1>1, <1>3, MadeStays
<1> QED
  BY <1>1, <1>2, <1>3, <1>4 DEF Calibrations

LEMMA CallMoves ==
  ASSUME LoopActs
  PROVE  \/ StartCalibration
         \/ StartGoal
         \/ UNCHANGED calibration /\ (pc' \in {"server", "send"} => cur' = cur)
            /\ (pc' \in {"server", "send"} => pc \in {"server", "send"})
BY DEF LoopActs, CancelIt, CancelGoal, LoopStep, Loop, AnswerAtOnce, Malformed, CallService,
       TakeFor, Take, Unavailable, Available, Return, GetFrame, StoreSubscription, RejectFrame,
       WaitForServer, SendWithoutClient, Abort, NoGoal, FoundGoal, CancelWithoutClient, Handling,
       Goto, Finish, Raise, thread

LEMMA AloneStep ==
  ASSUME RemoteTypeOK, WantedInv, ThreadInv, PlaceInv, AloneInv, [RemoteNext]_allVars
  PROVE  AloneInv'
<1> SUFFICES ASSUME NEW c \in Camera, Orderly(c)' PROVE AloneAt(c)'
  BY DEF AloneInv
<1>1. /\ inbox \in Seq(Request) /\ {client, handle} \subseteq [Camera -> Request \union {None}]
      /\ stage \in [Request -> {"none", "sent", "accepted", "over"}] /\ open \subseteq Request
  BY DEF RemoteTypeOK, TypeOK
<1>2. AloneAt(c)
  BY OverlapMoves DEF AloneInv, Orderly
<1>3. \A r \in Request : Made(r) => Cam(r) \in Camera /\ Cam(r)' = Cam(r)
  BY MadeStays
<1>4. \A r \in Request : stage[r] # "none" => Made(r)
  BY DEF PlaceInv
<1>5. Handles => cur \in Request /\ Made(cur) /\ stage[cur] = "none"
  BY DEF ThreadInv, PlaceInv
<1>6. c # None
  BY RequestFacts
<1>7. \A r \in Calibrations(c)' : r \in Request /\ (r \in Calibrations(c) \/ (StartGoal /\ r = cur))
  BY CalibrationsStep
<1>8. CASE stage' = stage /\ client'[c] = client[c] /\ handle'[c] = handle[c] /\ ~StartGoal
           /\ UNCHANGED <<open, rpc, rcam>>
           /\ (pc' \in {"server", "send"} => pc \in {"server", "send"} /\ cur' = cur)
  <2>1. Calibrations(c)' \subseteq Calibrations(c)
    BY <1>7, <1>8
  <2>2. pc' \in {"server", "send"} => Cam(cur)' = Cam(cur)
    BY <1>3, <1>5, <1>8 DEF Handles, Cam
  <2>3. \A r \in open : stage[r] = "over" => Cam(r)' = Cam(r)
    BY <1>1, <1>3, <1>4
  <2> QED
    BY <1>2, <1>6, <1>8, <2>1, <2>2, <2>3 DEF AloneAt
<1>9. CASE StartCalibration
  <2>1. PICK r : r = Head(inbox)
    OBVIOUS
  <2>2. /\ inbox # <<>> /\ inbox' = Tail(inbox) /\ cur' = r /\ pc' = "server" /\ wanted' = wanted
        /\ client' = [client EXCEPT ![Cam(r)] = r] /\ open' = open \union {r}
        /\ UNCHANGED <<handle, stage, rpc, rcam>>
        /\ overlapped' = overlapped \union {d \in {Cam(r)} : Busy(d)}
        /\ hurried' = hurried \union ({Cam(r)} \intersect {rcam})
    BY <1>9, <2>1
       DEF StartCalibration, Calibrate, TakeFor, Take, Goto, executor, Cam
  <2>3. r \in Request /\ Made(r) /\ stage[r] = "none"
    BY <1>1, <2>1, <2>2, TakeFacts DEF PlaceInv
  <2>4. Calibrations(c)' \subseteq Calibrations(c) /\ Cam(cur)' = Cam(r)
    <3>1. ~StartGoal
      BY <2>2 DEF StartGoal, SendGoal, Finish, Goto
    <3> QED
      BY <1>7, <2>2, <3>1 DEF Cam
  <2>5. \A q : Cam(q)' = Cam(q)
    BY <2>2 DEF Cam
  <2>6. CASE Cam(r) = c
    <3>1. ~Busy(c) /\ rcam # c
      BY <2>2, <2>6 DEF Orderly
    <3>2. Calibrations(c) = {}
      BY <3>1 DEF Busy, Calibrations
    <3>3. \A q \in open' : Cam(q) = c => stage[q] # "over"
      BY <1>2, <2>2, <2>3, <3>1 DEF AloneAt
    <3> QED
      BY <1>1, <2>2, <2>4, <2>5, <2>6, <3>1, <3>2, <3>3 DEF AloneAt
  <2>7. CASE Cam(r) # c
    <3>1. client'[c] = client[c]
      BY <1>1, <2>2, <2>7
    <3> QED
      BY <1>2, <2>2, <2>3, <2>4, <2>5, <2>7, <3>1 DEF AloneAt
  <2> QED
    BY <2>6, <2>7
<1>10. CASE StartGoal
  <2>1. /\ pc = "send" /\ pc' = "idle" /\ stage' = [stage EXCEPT ![cur] = "sent"]
        /\ UNCHANGED <<wanted, client, open, handle, rpc, rcam>>
    BY <1>10 DEF StartGoal, SendGoal, Handling, Finish, Goto, taking, executor
  <2>2. cur \in Request /\ stage[cur] = "none"
    BY <1>5, <2>1 DEF Handles
  <2>3. \A q : Cam(q)' = Cam(q)
    BY <2>1 DEF Cam
  <2>4. \A q \in Request : /\ stage'[q] = "accepted" => stage[q] = "accepted" /\ q # cur
                           /\ stage'[q] = "over" => stage[q] = "over"
    BY <1>1, <2>1, <2>2
  <2>5. \A q \in open' : stage'[q] = "over" /\ Cam(q)' = c =>
          rpc' = "destroy" /\ rcam' = c /\ client'[c] = q
    BY <1>1, <1>2, <2>1, <2>3, <2>4 DEF AloneAt
  <2>6. CASE Cam(cur) = c
    <3>1. client[c] = cur /\ rcam # c
      BY <1>2, <2>1, <2>6 DEF AloneAt
    <3> QED
      BY <1>2, <1>7, <2>1, <2>4, <2>5, <3>1 DEF AloneAt
  <2>7. CASE Cam(cur) # c
    <3>1. cur \notin Calibrations(c)'
      BY <2>3, <2>7 DEF Calibrations
    <3> QED
      BY <1>2, <1>7, <2>1, <2>4, <2>5, <3>1 DEF AloneAt
  <2> QED
    BY <2>6, <2>7
<1>11. CASE ClearUp
  <2>1. /\ UNCHANGED <<wanted, pc, cur, stage>>
        /\ \/ UNCHANGED <<client, handle, rpc, rcam, open>> /\ rpc = "destroy"
           \/ /\ rpc = "destroy" /\ client[rcam] # None /\ open' = open \ {client[rcam]}
              /\ UNCHANGED <<client, handle, rcam>>
           \/ /\ rpc # "destroy" /\ client' = [client EXCEPT ![rcam] = None]
              /\ UNCHANGED <<handle, rcam, open>>
           \/ /\ rpc # "destroy" /\ handle' = [handle EXCEPT ![rcam] = None]
              /\ client' = client /\ rcam' = None /\ open' = open
    BY <1>11 DEF ClearUp, DestroyClient, ClearClient, ClearHandle, Clearing, taking, thread
  <2>2. \A q : Cam(q)' = Cam(q)
    BY <2>1 DEF Cam
  <2>3. Calibrations(c)' \subseteq Calibrations(c) /\ Cam(cur)' = Cam(cur)
    <3>1. ~StartGoal
      BY <1>11 DEF StartGoal, SendGoal, Handling, ClearUp, DestroyClient, ClearClient,
           ClearHandle, Clearing, thread, Finish, Goto
    <3> QED
      BY <1>7, <2>1, <3>1 DEF Cam
  <2>4. \A q \in open' : stage'[q] = "over" /\ Cam(q)' = c =>
          rpc' = "destroy" /\ rcam' = c /\ client'[c] = q
    BY <1>2, <2>1, <2>2 DEF AloneAt
  <2>5. CASE rcam = c
    <3>1. Calibrations(c) = {} /\ ~(pc \in {"server", "send"} /\ Cam(cur) = c)
      BY <1>2, <2>5 DEF AloneAt
    <3> QED
      BY <2>1, <2>3, <2>4, <3>1 DEF AloneAt
  <2>6. CASE rcam # c
    <3>1. client'[c] = client[c] /\ handle'[c] = handle[c] /\ rcam' # c
      BY <1>1, <1>6, <2>1, <2>6
    <3> QED
      BY <1>2, <2>1, <2>3, <2>4, <3>1 DEF AloneAt
  <2> QED
    BY <2>5, <2>6
<1>12. ASSUME NEW r \in Request, HearAccepted(r) PROVE AloneAt(c)'
  <2>1. /\ UNCHANGED <<wanted, pc, cur, client, open, rpc, rcam>> /\ stage[r] = "sent"
        /\ handle' = [handle EXCEPT ![Cam(r)] = r] /\ goal[r] # "none"
        /\ stage' = [stage EXCEPT ![r] = "accepted"]
    BY <1>12 DEF HearAccepted, GoalResponse, Callback, taking, thread, executor
  <2>2. \A q : Cam(q)' = Cam(q)
    BY <2>1 DEF Cam
  <2>3. Calibrations(c)' \subseteq Calibrations(c)
    <3>1. ~StartGoal
      BY <2>1 DEF StartGoal, SendGoal, Handling, Finish, Goto
    <3> QED
      BY <1>7, <3>1
  <2>4. \A q \in open' : stage'[q] = "over" /\ Cam(q)' = c =>
          rpc' = "destroy" /\ rcam' = c /\ client'[c] = q
    BY <1>1, <1>2, <2>1, <2>2 DEF AloneAt
  <2>5. \A q \in Calibrations(c)' : stage'[q] = "accepted" => handle'[c] = q
    <3>1. CASE Cam(r) = c
      <4>1. r \in Calibrations(c) /\ handle'[c] = r
        BY <1>1, <2>1, <3>1 DEF Calibrations, Underway
      <4>2. \A q \in Calibrations(c) : q = r
        BY <1>2, <4>1 DEF AloneAt
      <4> QED
        BY <2>3, <4>1, <4>2
    <3>2. CASE Cam(r) # c
      <4>1. \A q \in Calibrations(c) : stage'[q] = stage[q]
        BY <1>1, <2>1, <3>2 DEF Calibrations
      <4>2. handle'[c] = handle[c]
        BY <1>1, <2>1, <3>2
      <4> QED
        BY <1>2, <2>3, <4>1, <4>2 DEF AloneAt
    <3> QED
      BY <3>1, <3>2
  <2> QED
    BY <1>2, <2>1, <2>2, <2>3, <2>4, <2>5 DEF AloneAt
<1>13. ASSUME NEW r \in Request, HearResult(r) PROVE AloneAt(c)'
  <2>1. /\ UNCHANGED <<wanted, pc, cur, client, open, handle>> /\ stage[r] = "accepted"
        /\ goal[r] \in Server!Ended /\ r \in open
        /\ stage' = [stage EXCEPT ![r] = "over"]
        /\ rpc = "idle" /\ rpc' = "destroy" /\ rcam' = Cam(r)
    BY <1>13 DEF HearResult, Result, Callback, taking, thread
  <2>2. \A q : Cam(q)' = Cam(q)
    BY <2>1 DEF Cam
  <2>3. Calibrations(c)' \subseteq Calibrations(c) \ {r}
    <3>1. ~StartGoal
      BY <2>1, <1>5 DEF StartGoal, SendGoal, Handling, Handles, Finish, Goto
    <3>2. r \notin Calibrations(c)'
      BY <1>1, <2>1 DEF Calibrations, Underway
    <3> QED
      BY <1>7, <3>1, <3>2
  <2>4. \A q \in Calibrations(c)' : stage'[q] = stage[q]
    BY <1>1, <2>1, <2>3
  <2>5. \A q \in open \ {r} : Cam(q) = c => stage'[q] # "over"
    BY <1>1, <1>2, <2>1 DEF AloneAt
  <2>6. CASE Cam(r) = c
    <3>1. r \in Calibrations(c)
      BY <2>1, <2>6 DEF Calibrations, Underway, Server!Ended
    <3>2. client[c] = r /\ \A q \in Calibrations(c) : q = r
      BY <1>2, <3>1 DEF AloneAt
    <3>3. Calibrations(c)' = {}
      BY <2>3, <3>2
    <3>4. ~(pc \in {"server", "send"} /\ Cam(cur) = c)
      BY <1>2, <1>5, <2>1, <3>2 DEF AloneAt, Handles
    <3> QED
      BY <2>1, <2>2, <2>5, <2>6, <3>2, <3>3, <3>4 DEF AloneAt
  <2>7. CASE Cam(r) # c
    BY <1>2, <2>1, <2>2, <2>3, <2>4, <2>5, <2>7 DEF AloneAt
  <2> QED
    BY <2>6, <2>7
<1>14. CASE UNCHANGED calibration /\ ~ClearUp /\ ~StartCalibration /\ ~StartGoal
            /\ ~(\E r \in Request : HearResult(r))
  <2>1. UNCHANGED <<stage, client, open, handle>>
    BY <1>14 DEF calibration
  <2>2. /\ UNCHANGED <<rpc, rcam>>
        /\ pc' \in {"server", "send"} => pc \in {"server", "send"} /\ cur' = cur
    BY <1>14, ThreadMoves, CallMoves DEF executor
  <2> QED
    BY <1>8, <1>14, <2>1, <2>2
<1>15. ASSUME NEW r \in Request, Feedback(r) PROVE AloneAt(c)'
  <2>1. UNCHANGED <<pc, cur, stage, client, open, handle, rpc, rcam>>
    BY <1>15 DEF Feedback, Callback, thread, executor
  <2>2. ~StartGoal
    BY <2>1, <1>5 DEF StartGoal, SendGoal, Handling, Handles, Finish, Goto
  <2> QED
    BY <1>8, <2>1, <2>2
<1> QED
  BY <1>9, <1>10, <1>11, <1>12, <1>13, <1>14, <1>15, CalibrationMoves

(* Progress is told of a goal that is not over, and its answer ends it. *)
LEMMA ProgressStep ==
  ASSUME RemoteTypeOK, WantedInv, ThreadInv, PlaceInv, FrameInv, ReplyInv, AloneInv, ProgressInv,
         [RemoteNext]_allVars
  PROVE  ProgressInv'
<1>1. /\ inbox \in Seq(Request) /\ progressed \subseteq Request /\ open \subseteq Request
      /\ stage \in [Request -> {"none", "sent", "accepted", "over"}]
      /\ replies \in [Request -> Nat]
  BY DEF RemoteTypeOK, TypeOK
<1>2. \A r \in Request : stage[r] # "none" => Made(r)
  BY DEF PlaceInv
<1>3. \A r \in progressed : stage[r] # "none"
  BY DEF PlaceInv
<1>4. \A r \in Request : Made(r) => Cam(r) \in Camera /\ Cam(r)' = Cam(r)
  BY MadeStays
<1>5. \A r \in Request : Made(r) /\ Orderly(Cam(r))' => Orderly(Cam(r))
  BY <1>4, OverlapMoves DEF Orderly
<1>6. \A r \in progressed : Orderly(Cam(r))' => replies[r] = 0
  BY <1>1, <1>2, <1>3, <1>5 DEF ProgressInv
<1>7. ASSUME NEW r \in progressed' \ progressed, Orderly(Cam(r))'
      PROVE  r \in Request /\ replies[r] = 0 /\ stage[r] # "none" /\ Feedback(r)
  <2>1. r \in Request /\ Feedback(r)
    BY <1>7, CalibrationMoves
       DEF calibration, StartCalibration, Calibrate, StartGoal, SendGoal, ClearUp, DestroyClient,
           ClearClient, ClearHandle, Clearing, HearAccepted, GoalResponse, HearResult, Result,
           Feedback
  <2>2. rpc = "idle" /\ r \in open /\ stage[r] # "none"
    BY <2>1 DEF Feedback, Callback
  <2>3. Made(r) /\ Cam(r) \in Camera /\ Orderly(Cam(r))
    BY <1>2, <1>4, <1>5, <1>7, <2>1, <2>2
  <2>4. stage[r] # "over"
    BY <2>2, <2>3 DEF AloneInv, AloneAt
  <2>5. Unanswered(r)
    BY <1>1, <2>1, <2>2, <2>4 DEF Unanswered
  <2> QED
    BY <2>1, <2>2, <2>5 DEF ReplyInv
<1>8. CASE replies' = replies
  BY <1>6, <1>7, <1>8 DEF ProgressInv
<1>9. CASE \E r : Publish(r) /\ (\/ AnswersAtOnce(r) \/ AnswersCurrent(r)
                                 \/ r \in Request /\ (Image(r) \/ HearResult(r)))
  <2>1. PICK r : Publish(r) /\ (\/ AnswersAtOnce(r) \/ AnswersCurrent(r)
                                \/ r \in Request /\ (Image(r) \/ HearResult(r)))
    BY <1>9
  <2>2. progressed' \subseteq progressed /\ r \notin progressed'
    <3>1. CASE AnswersAtOnce(r)
      <4>1. r \in Waiting
        BY <1>1, <3>1, TakeFacts DEF AnswersAtOnce
      <4> QED
        BY <1>3, <3>1, <4>1 DEF AnswersAtOnce, calibration, PlaceInv
    <3>2. CASE AnswersCurrent(r)
      BY <1>3, <3>2 DEF AnswersCurrent, calibration, PlaceInv, Handles
    <3>3. CASE Image(r)
      BY <1>3, <3>3 DEF Image, calibration, PlaceInv
    <3>4. CASE HearResult(r)
      BY <3>4 DEF HearResult, Result
    <3> QED
      BY <2>1, <3>1, <3>2, <3>3, <3>4
  <2>3. \A q \in progressed' : replies'[q] = replies[q]
    BY <1>1, <2>1, <2>2 DEF Publish
  <2> QED
    BY <1>6, <2>2, <2>3 DEF ProgressInv
<1> QED
  BY <1>8, <1>9, ReplyMoves

-----------------------------------------------------------------------------
LEMMA RemoteInvInit == RemoteInit => RemoteInv
<1> SUFFICES ASSUME RemoteInit PROVE RemoteInv
  OBVIOUS
<1>1. Init /\ Server!Init /\ departures = 0 /\ promised = {} /\ overlapped = {} /\ hurried = {}
  BY DEF RemoteInit
<1>2. wanted = <<>> /\ inbox = <<>> /\ Len(wanted) = 0 /\ DOMAIN inbox = {}
  BY <1>1 DEF Init
<1>3. Waiting = {} /\ Distinct
  BY <1>2 DEF Waiting, Distinct
<1>4. WantedInv
  BY <1>2, EmptySeq, RequestFacts DEF WantedInv
<1>5. TypeOK
  <2>1. inbox \in Seq(Request)
    BY <1>2, EmptySeq
  <2>2. drops \in 0 .. MaxDrops
    BY <1>1, RequestFacts DEF Init
  <2> QED
    BY <1>1, <2>1, <2>2 DEF Init, TypeOK
<1>6. Server!TypeOK
  BY <1>1 DEF Server!Init, Server!TypeOK, Server!State
<1>7. RemoteTypeOK
  BY <1>1, <1>5, <1>6, RequestFacts DEF RemoteTypeOK
<1>8. ThreadInv /\ PlaceInv /\ FrameInv /\ GoalInv
  BY <1>1, <1>3, RequestFacts
     DEF Init, ThreadInv, Handles, PlaceInv, FrameInv, GoalInv
<1>9. ReplyInv
  BY <1>1 DEF Init, ReplyInv
<1>10. AloneInv
  BY <1>1, RequestFacts DEF Init, AloneInv, AloneAt, Calibrations, Underway
<1>11. ProgressInv
  BY <1>1 DEF Init, ProgressInv
<1> QED
  BY <1>4, <1>7, <1>8, <1>9, <1>10, <1>11 DEF RemoteInv

LEMMA RemoteInvStep == RemoteInv /\ [RemoteNext]_allVars => RemoteInv'
BY TypeStep, WantedStep, ThreadStep, PlaceStep, ReplyStep, FrameStep, GoalStep, AloneStep,
   ProgressStep DEF RemoteInv

LEMMA RemoteInvariant == RemoteSpec => []RemoteInv
BY RemoteInvInit, RemoteInvStep, PTL DEF RemoteSpec

(* The tables, the threads and the cameras keep their types. *)
THEOREM RemoteTypesKept == RemoteSpec => []RemoteTypeOK
BY RemoteInvariant, PTL DEF RemoteInv

(* A camera has one subscription at most, that of the request still to be  *)
(* answered, however the thread that makes it and the one that receives    *)
(* the image interleave.                                                   *)
THEOREM FramesAreKept == RemoteSpec => []FrameKept
<1>1. RemoteInv => FrameKept
  BY FrameInvKeepsFrames DEF RemoteInv
<1> QED
  BY <1>1, RemoteInvariant, PTL

-----------------------------------------------------------------------------
LEMMA AbortMoves ==
  ASSUME LoopActs, pc = "abort" \/ pc' = "abort"
  PROVE  Abort \/ NoGoal \/ FoundGoal
BY DEF LoopActs, StartCalibration, Calibrate, TakeFor, Take, StartGoal, SendGoal, Handling,
       CancelIt, CancelGoal, LoopStep, Loop, AnswerAtOnce, Malformed, CallService, Unavailable,
       Available, Return, GetFrame, StoreSubscription, RejectFrame, WaitForServer,
       SendWithoutClient, CancelWithoutClient, Goto, Finish, Raise, thread

(* "calib abort" reaches the goal that runs on its camera, and no other. *)
THEOREM AbortsReach == RemoteSpec => AbortReaches
<1> DEFINE Finds == pc # "abort" /\ pc' = "abort" =>
                      ~Orderly(Cam(cur')) \/ Running(Cam(cur')) \subseteq {held'}
           Tells == pc = "abort" /\ pc' = "idle" =>
                      \/ ~Orderly(Cam(cur)) \/ held = None
                      \/ stage[held] = "over" \/ goal[held] = "lost"
           Cancels == pc = "cancel" /\ pc' = "idle" => Cam(held) = Cam(cur)
<1>1. ASSUME RemoteInv, [RemoteNext]_allVars PROVE Finds /\ Tells /\ Cancels
  <2>1. (pc = "abort" \/ pc' = "abort") /\ pc' # pc => Abort \/ NoGoal \/ FoundGoal
    BY <1>1, ThreadMoves, AbortMoves DEF thread
  <2>2. inbox \in Seq(Request) /\ held \in Request \union {None}
    BY <1>1 DEF RemoteInv, RemoteTypeOK, TypeOK
  <2>3. Finds
    <3> SUFFICES ASSUME pc # "abort", pc' = "abort", Orderly(Cam(cur'))
                 PROVE  Running(Cam(cur')) \subseteq {held'}
      OBVIOUS
    <3>1. Abort
      BY <2>1 DEF NoGoal, FoundGoal, Handling
    <3>2. PICK r : r = Head(inbox)
      OBVIOUS
    <3>3. inbox # <<>> /\ inbox' = Tail(inbox) /\ cur' = r /\ held' = handle[Cam(r)]
      BY <3>1, <3>2 DEF Abort, TakeFor, Take
    <3>4. r \in Request /\ Made(r)
      BY <1>1, <2>2, <3>2, <3>3, TakeFacts DEF RemoteInv, PlaceInv
    <3>5. Cam(cur') = Cam(r) /\ Cam(r) \in Camera
      BY <1>1, <3>3, <3>4, MadeStays DEF RemoteInv, Cam
    <3>6. AloneAt(Cam(r))
      BY <1>1, <3>5 DEF RemoteInv, AloneInv
    <3>7. Running(Cam(r)) \subseteq {handle[Cam(r)]}
      BY <3>6 DEF AloneAt, Running, Calibrations, Underway
    <3> QED
      BY <3>3, <3>5, <3>7
  <2>4. Tells
    <3> SUFFICES ASSUME pc = "abort", pc' = "idle", Orderly(Cam(cur)), held # None,
                        stage[held] # "over", goal[held] # "lost"
                 PROVE  FALSE
      OBVIOUS
    <3>1. NoGoal
      BY <2>1 DEF Abort, FoundGoal, TakeFor, Goto
    <3>2. client[Cam(cur)] = None
      BY <3>1 DEF NoGoal
    <3>3. stage[held] = "accepted" /\ Cam(held) = Cam(cur) /\ held \in Request
      BY <1>1, <2>2 DEF RemoteInv, GoalInv
    <3>4. Cam(cur) \in Camera
      BY <1>1, MadeStays DEF RemoteInv, ThreadInv, Handles
    <3>5. AloneAt(Cam(cur))
      BY <1>1, <3>4 DEF RemoteInv, AloneInv
    <3>6. held \in Calibrations(Cam(cur))
      BY <3>3 DEF Calibrations, Underway
    <3> QED
      BY <3>2, <3>5, <3>6 DEF AloneAt
  <2>5. Cancels
    BY <1>1 DEF RemoteInv, GoalInv, ThreadInv
  <2> QED
    BY <2>3, <2>4, <2>5
<1>2. RemoteInv /\ [RemoteNext]_allVars => [Finds /\ Tells /\ Cancels]_allVars
  BY <1>1
<1> QED
  BY <1>2, RemoteInvariant, PTL DEF RemoteSpec, AbortReaches

-----------------------------------------------------------------------------
(* What a client sees of its request: its phase. *)
Phases == [r \in Request |-> Phase(r)]

(* Progress that is told after the answer, of orderly calibrations. *)
TakenBack(r) == replies[r] = 1 /\ r \in progressed /\ Orderly(Cam(r))

LEMMA NeverTakenBack ==
  ASSUME RemoteInv, RemoteInv', NEW r \in Request
  PROVE  ~TakenBack(r) /\ ~TakenBack(r)'
<1>1. ~TakenBack(r)
  BY DEF RemoteInv, ProgressInv, TakenBack
<1>2. ~TakenBack(r)'
  BY DEF RemoteInv, ProgressInv, TakenBack
<1> QED
  BY <1>1, <1>2

LEMMA AskRefines ==
  ASSUME RemoteInv, RemoteInv', AskNext
  PROVE  \E r \in Request : Asked!Ask(r)
<1> USE DEF RemoteInv
<1>1. PICK n \in Request : n = Len(wanted')
  BY AskFacts
<1>2. ~Made(n) /\ Made(n)' /\ \A r \in Request \ {n} : Made(r)' <=> Made(r)
  BY <1>1, AskFacts DEF Made
<1>3. UNCHANGED <<replies, progressed>>
  BY DEF AskNext, Ask, calibration, answers
<1>4. ~(replies[n] > 1) /\ replies[n] = 0 /\ n \notin progressed
  BY <1>2 DEF ReplyInv, Unanswered, PlaceInv
<1>5. Phase(n) = "new" /\ Phase(n)' = "asked"
  BY <1>2, <1>3, <1>4 DEF Phase
<1>6. ASSUME NEW r \in Request \ {n} PROVE Phase(r)' = Phase(r)
  <2>1. ~TakenBack(r) /\ ~TakenBack(r)'
    BY NeverTakenBack
  <2> QED
    BY <1>2, <1>3, <2>1 DEF Phase, TakenBack
<1> QED
  BY <1>5, <1>6 DEF Asked!Ask, Asked!Become

(* The step of an answer, a progress or neither. *)
LEMMA PhaseSame ==
  ASSUME RemoteInv, RemoteInv', wanted' = wanted, NEW r \in Request,
         replies'[r] = replies[r],
         replies[r] = 1 \/ (r \in progressed' <=> r \in progressed)
  PROVE  Phase(r)' = Phase(r)
<1>1. Made(r)' <=> Made(r)
  BY DEF Made
<1>2. ~TakenBack(r) /\ ~TakenBack(r)'
  BY NeverTakenBack
<1> QED
  BY <1>1, <1>2 DEF Phase, TakenBack

LEMMA AnswerRefines ==
  ASSUME RemoteInv, RemoteInv', wanted' = wanted, NEW r \in Request, Publish(r),
         \A q \in Request \ {r} : q \in progressed' <=> q \in progressed
  PROVE  Asked!Reply(r)
<1>1. replies \in [Request -> Nat] /\ replies[r] \in {0, 1} /\ replies'[r] \in {0, 1}
  BY DEF RemoteInv, RemoteTypeOK, TypeOK, ReplyInv
<1>2. replies[r] = 0 /\ replies'[r] = 1
  BY <1>1 DEF Publish
<1>3. Made(r)
  BY <1>2 DEF RemoteInv, ReplyInv, Unanswered, Made
<1>4. Made(r)'
  BY <1>3 DEF Made
<1>0. ~TakenBack(r)'
  BY NeverTakenBack
<1>5. Phase(r) \in {"asked", "progressing"} /\ Phase(r)' = "answered"
  BY <1>0, <1>2, <1>3, <1>4 DEF Phase, TakenBack
<1>6. \A q \in Request \ {r} : replies'[q] = replies[q]
  BY <1>1 DEF Publish
<1>7. \A q \in Request \ {r} : Phase(q)' = Phase(q)
  BY <1>6, PhaseSame
<1> QED
  BY <1>5, <1>7 DEF Asked!Reply, Asked!Become

LEMMA ProgressRefines ==
  ASSUME RemoteInv, RemoteInv', wanted' = wanted, replies' = replies,
         NEW r \in Request, stage[r] # "none", progressed' = progressed \union {r}
  PROVE  Asked!Progress(r) \/ UNCHANGED Phases
<1>1. \A q \in Request \ {r} : Phase(q)' = Phase(q)
  BY PhaseSame
<1>2. CASE replies[r] = 1 \/ r \in progressed
  <2>1. Phase(r)' = Phase(r)
    BY <1>2, PhaseSame
  <2> QED
    BY <1>1, <2>1 DEF Phases
<1>3. CASE replies[r] = 0 /\ r \notin progressed
  <2>1. Made(r)
    BY DEF RemoteInv, PlaceInv
  <2>2. Made(r)'
    BY <2>1 DEF Made
  <2>3. Phase(r) = "asked" /\ Phase(r)' = "progressing"
    BY <1>3, <2>1, <2>2 DEF Phase
  <2> QED
    BY <1>1, <2>3 DEF Asked!Progress, Asked!Become
<1> QED
  BY <1>2, <1>3 DEF RemoteInv, ReplyInv

LEMMA StepRefines ==
  ASSUME RemoteInv, RemoteInv', [RemoteNext]_allVars
  PROVE  Asked!Next \/ UNCHANGED Phases
<1>1. CASE AskNext
  BY <1>1, AskRefines DEF Asked!Next
<1>2. ASSUME wanted' = wanted, NEW r,
             Publish(r), AnswersAtOnce(r) \/ AnswersCurrent(r) PROVE Asked!Next
  <2>1. r \in Request
    BY <1>2, TakeFacts
       DEF AnswersAtOnce, AnswersCurrent, RemoteInv, RemoteTypeOK, TypeOK, ThreadInv, Handles
  <2>2. progressed' = progressed
    BY <1>2 DEF AnswersAtOnce, AnswersCurrent, calibration
  <2> QED
    BY <1>2, <2>1, <2>2, AnswerRefines DEF Asked!Next
<1>3. ASSUME wanted' = wanted, NEW r \in Request, Publish(r), Image(r) \/ HearResult(r)
      PROVE  Asked!Next
  <2>1. \A q \in Request \ {r} : q \in progressed' <=> q \in progressed
    BY <1>3 DEF Image, HearResult, Result, calibration
  <2> QED
    BY <1>3, <2>1, AnswerRefines DEF Asked!Next
<1>4. CASE wanted' = wanted /\ replies' = replies
  <2>1. CASE progressed' = progressed
    BY <1>4, <2>1, PhaseSame DEF Phases
  <2>2. ASSUME NEW r \in Request, Feedback(r) PROVE Asked!Next \/ UNCHANGED Phases
    BY <1>4, <2>2, ProgressRefines DEF Feedback, Asked!Next
  <2>3. ASSUME NEW r \in Request, HearResult(r) PROVE FALSE
    <3>1. replies' = [replies EXCEPT ![r] = @ + 1] /\ replies \in [Request -> Nat]
      BY <2>3 DEF HearResult, Result, Publish, RemoteInv, RemoteTypeOK, TypeOK
    <3> QED
      BY <1>4, <3>1
  <2> QED
    BY <2>1, <2>2, <2>3, CalibrationMoves
       DEF calibration, StartCalibration, Calibrate, StartGoal, SendGoal, ClearUp, DestroyClient,
           ClearClient, ClearHandle, Clearing, HearAccepted, GoalResponse
<1> QED
  BY <1>1, <1>2, <1>3, <1>4, WantedSame, ReplyMoves

(* A request is answered at most once, and progress told before: what the  *)
(* bridge does to the phase of a request is a step of RequestReply.        *)
THEOREM AnsweredOnce == RemoteSpec => RepliesOnce
<1>1. RemoteInit => Asked!Init
  <2> SUFFICES ASSUME RemoteInit PROVE Asked!Init
    OBVIOUS
  <2>1. RemoteInv /\ \A r \in Request : ~Made(r)
    BY RemoteInvInit, RequestFacts DEF RemoteInit, Init, Made
  <2>2. \A r \in Request : Phase(r) = "new"
    BY <2>1 DEF Phase
  <2> QED
    BY <2>2 DEF Asked!Init
<1>2. RemoteInv /\ RemoteInv' /\ [RemoteNext]_allVars => [Asked!Next]_Phases
  BY StepRefines
<1> QED
  BY <1>1, <1>2, RemoteInvariant, PTL DEF RemoteSpec, RepliesOnce, Asked!Spec, Phases
=============================================================================
