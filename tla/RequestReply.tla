---------------------------- MODULE RequestReply ----------------------------
(***************************************************************************)
(* What the MQTT bridge promises its clients: only what was asked is       *)
(* answered, and at most once; progress may be told before the answer.     *)
(***************************************************************************)
CONSTANT Request

VARIABLE phase  \* of every request

Init == phase = [r \in Request |-> "new"]

Become(r, from, to) ==
  /\ phase[r] \in from
  /\ phase' = [phase EXCEPT ![r] = to]

Ask(r) == Become(r, {"new"}, "asked")
Progress(r) == Become(r, {"asked"}, "progressing")
Reply(r) == Become(r, {"asked", "progressing"}, "answered")

Next == \E r \in Request : Ask(r) \/ Progress(r) \/ Reply(r)

Spec == Init /\ [][Next]_phase
=============================================================================
