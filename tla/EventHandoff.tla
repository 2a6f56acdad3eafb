---------------------------- MODULE EventHandoff ---------------------------
(***************************************************************************)
(* What the outbox promises of an event: it is committed with the user, it *)
(* reaches the stream, only then is it recorded as published, and only a   *)
(* recorded event is ever deleted.  OutboxRelay implements it.             *)
(***************************************************************************)
CONSTANT Events

VARIABLE status     \* how far each event has come

Stages == {"absent", "pending", "handed", "recorded", "purged"}

TypeOK == status \in [Events -> Stages]

Init == status = [e \in Events |-> "absent"]

Move(e, from, to) == /\ status[e] = from
                     /\ status' = [status EXCEPT ![e] = to]

Commit(e) == Move(e, "absent", "pending")
Hand(e)   == Move(e, "pending", "handed")
Record(e) == Move(e, "handed", "recorded")

\* Old events are purged many at a time.
Purge(S) ==
    /\ \A e \in S : status[e] = "recorded"
    /\ status' = [e \in Events |-> IF e \in S THEN "purged" ELSE status[e]]

Next == \/ \E e \in Events : Commit(e) \/ Hand(e) \/ Record(e)
        \/ \E S \in SUBSET Events : Purge(S)

Spec == Init /\ [][Next]_status
=============================================================================
