---------------------------- MODULE MoveService ----------------------------
(***************************************************************************)
(* What arduino/omni_bldc_firmware promises the host over the serial line: *)
(* a mission is acknowledged, runs, and ends with exactly one verdict; the *)
(* wheels are driven only while one runs; every other line the host may    *)
(* read leaves the mission and the wheels alone.                           *)
(***************************************************************************)

VARIABLES
  busy,      \* a mission is running
  driving,   \* some wheel has a nonzero duty
  reply      \* the last line sent to the host

vars == <<busy, driving, reply>>

(* The lines that close a mission (README_omni_bldc.md, Responses). *)
Verdicts == {"ACK DONE", "ACK STOP", "ERR TIMEOUT"}

(* The lines that only answer. *)
Remarks == {"PONG", "ERR BAD_LINE", "ERR CMD_OVERFLOW"}

Init == busy = FALSE /\ driving = FALSE /\ reply = "none"

Accept ==
  /\ ~busy
  /\ busy' = TRUE
  /\ reply' = "ACK MOVE"
  /\ UNCHANGED driving

Steer ==
  /\ busy
  /\ driving' \in BOOLEAN
  /\ UNCHANGED <<busy, reply>>

End ==
  /\ busy
  /\ busy' = FALSE /\ driving' = FALSE
  /\ reply' \in Verdicts

Remark ==
  /\ reply' \in IF busy THEN {"ERR USE_STOP_THEN_RETRY"} ELSE Remarks \union {"ACK STOP"}
  /\ UNCHANGED <<busy, driving>>

Next == Accept \/ Steer \/ End \/ Remark

Spec == Init /\ [][Next]_vars
=============================================================================
