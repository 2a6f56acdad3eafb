----------------------------- MODULE EventFate -----------------------------
(***************************************************************************)
(* What the platform promises of a committed user.created event, from end  *)
(* to end: the welcome notification becomes due, it is sent and recorded   *)
(* as sent, or the event is parked for an operator, whose replay may still *)
(* get it sent.  What is recorded stays so.  EventPipeline implements it.  *)
(***************************************************************************)

VARIABLES
    fate,       \* "absent", "due", "parked" or "notified"
    welcomed    \* the channel has accepted a notification

vars == <<fate, welcomed>>

Init == fate = "absent" /\ welcomed = FALSE

Commit ==
    /\ fate = "absent" /\ fate' = "due"
    /\ UNCHANGED welcomed

Send ==
    /\ fate # "absent"
    /\ welcomed' = TRUE
    /\ UNCHANGED fate

Park ==
    /\ fate = "due" /\ fate' = "parked"
    /\ UNCHANGED welcomed

Notify ==
    /\ fate \in {"due", "parked"} /\ welcomed
    /\ fate' = "notified"
    /\ UNCHANGED welcomed

Next == Commit \/ Send \/ Park \/ Notify

Spec == Init /\ [][Next]_vars
=============================================================================
