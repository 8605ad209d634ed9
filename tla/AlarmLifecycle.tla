--------------------------- MODULE AlarmLifecycle ---------------------------
(***************************************************************************)
(* What the alarm service promises about the alarm of each point: it is    *)
(* raised, perhaps acknowledged, and ends; each of these changes and the   *)
(* event that reports it become durable in one step, several points at a   *)
(* time.  Two exceptions are part of the promise: an alarm whose point has *)
(* left the configuration may vanish without an event, and a factory reset *)
(* forgets everything.                                                     *)
(***************************************************************************)
CONSTANT Points

VARIABLES
  alarm,   (* "quiet", "raised" or "acknowledged"                          *)
  told     (* the last event written about the point                       *)

Init == alarm = [p \in Points |-> "quiet"] /\ told = [p \in Points |-> "none"]

(* p changes from one of the phases in before to after; the event says so. *)
Reported(p, before, after, event) ==
  /\ alarm[p] \in before /\ alarm'[p] = after
  /\ told'[p] = event

Raise(p)       == Reported(p, {"quiet"}, "raised", "trigger")
Acknowledge(p) == Reported(p, {"raised"}, "acknowledged", "ack")
End(p)         == Reported(p, {"raised", "acknowledged"}, "quiet", "recovery")
Vanish(p)      == Reported(p, {"raised", "acknowledged"}, "quiet", told[p])
Stay(p)        == alarm'[p] = alarm[p] /\ told'[p] = told[p]

Change ==
  /\ alarm' \in [Points -> {"quiet", "raised", "acknowledged"}]
  /\ told' \in [Points -> {"none", "trigger", "ack", "recovery"}]
  /\ \A p \in Points : Raise(p) \/ Acknowledge(p) \/ End(p) \/ Vanish(p) \/ Stay(p)

Reset ==
  /\ alarm' = [p \in Points |-> "quiet"]
  /\ told' = [p \in Points |-> "none"]

Spec == Init /\ [][Change \/ Reset]_<<alarm, told>>
=============================================================================
