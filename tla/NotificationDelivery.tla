------------------------ MODULE NotificationDelivery ------------------------
(***************************************************************************)
(* The notification service's record of one event's welcome notification:  *)
(* NotificationDeliveryRepository and NotificationService.                 *)
(*                                                                         *)
(* A call is one execution of handleUserCreated for that event, in any     *)
(* replica: redeliveries make several, and they may overlap.  It doubles   *)
(* as its claim token, which is random and never reused.  Rows of other    *)
(* events never meet, so one row is enough.  A step of a call is one       *)
(* statement or one send.                                                  *)
(*                                                                         *)
(* Time is relative as in OutboxRelay: the present is 0 and Tick moves     *)
(* every recorded instant one unit into the past, down to -Horizon.        *)
(***************************************************************************)
EXTENDS Integers, FiniteSets

CONSTANTS
    Calls,          \* executions of handleUserCreated, and their tokens
    Lease,          \* options.leaseDurationMs
    Skew,           \* Skew[c]: how far the clock that c reads is ahead
    MaxSkew,        \* the largest skew
    MaxClaimTicks,  \* bound: clock reading to last statement of one claim
    MaxFaults,      \* bound: database errors, lost replies and crashes
    Horizon,        \* bound: how far into the past instants are told apart
    NULL

ASSUME CallsAssumption == IsFiniteSet(Calls)
ASSUME ClockAssumption ==
    /\ Lease \in Nat \ {0}
    /\ MaxSkew \in Nat /\ Skew \in [Calls -> 0..MaxSkew]
    /\ MaxClaimTicks \in Nat /\ MaxFaults \in Nat
    /\ Horizon \in Nat /\ Horizon > Lease + MaxClaimTicks

Time == (-Horizon)..MaxSkew
Delivery == [claimedAt : Time \cup {NULL}, claimToken : Calls \cup {NULL},
             sentAt : BOOLEAN]

ASSUME NullAssumption ==
    NULL \notin Int /\ NULL \notin Calls /\ NULL \notin Delivery

VARIABLES
    row,        \* the notification_deliveries row of the event, or NULL
    pc,         \* where each call is
    now,        \* `now' of each call's claim, while it needs it
    sent,       \* the calls whose notification the channel accepted
    takeovers,  \* how many claims took over a lapsed lease
    faults      \* how many faults have happened

vars == <<row, pc, now, sent, takeovers, faults>>

Claiming == {"create", "find", "update", "recheck"}
Holding == {"send", "markSent", "markFailed"}

TypeOK ==
    /\ row \in Delivery \cup {NULL}
    /\ pc \in [Calls -> Claiming \cup Holding
                        \cup {"new", "ok", "thrown", "dead"}]
    /\ now \in [Calls -> Time]
    /\ sent \subseteq Calls
    /\ takeovers \in 0..Cardinality(Calls)
    /\ faults \in 0..MaxFaults

Init ==
    /\ row = NULL
    /\ pc = [c \in Calls |-> "new"]
    /\ now = [c \in Calls |-> 0]
    /\ sent = {}
    /\ takeovers = 0
    /\ faults = 0

-----------------------------------------------------------------------------
Fault == faults < MaxFaults /\ faults' = faults + 1

\* Mutant: the row keeps the end of the lease instead of its beginning.
Claimed_UntilExpiry(c) ==
    [claimedAt |-> now[c] + Lease, claimToken |-> c, sentAt |-> FALSE]

Claimed(c) == [claimedAt |-> now[c], claimToken |-> c, sentAt |-> FALSE]
Released(sentAt) == [claimedAt |-> NULL, claimToken |-> NULL, sentAt |-> sentAt]

\* Mutant: the update takes the claim over however young it is.
Available_NoLease(c) == row # NULL /\ ~row.sentAt

\* Mutant: the update relies on the find before it for sentAt.
Available_SentToo(c) ==
    /\ row # NULL
    /\ row.claimedAt # NULL => row.claimedAt < now[c] - Lease

\* The row filter of the update in claim.
Available(c) ==
    /\ row # NULL /\ ~row.sentAt
    /\ row.claimedAt # NULL => row.claimedAt < now[c] - Lease

\* The row filter of markSent and markFailed.
Owned(c) == row # NULL /\ ~row.sentAt /\ row.claimToken = c

Sent == row # NULL /\ row.sentAt

\* The call goes on at `label'.  Its clock reading is kept with the claim.
To(c, label) ==
    /\ pc' = [pc EXCEPT ![c] = label]
    /\ now' = IF label \in Claiming \cup Holding THEN now
              ELSE [now EXCEPT ![c] = 0]

-----------------------------------------------------------------------------
(* claim                                                                   *)

Begin(c) ==
    /\ pc[c] = "new"
    /\ pc' = [pc EXCEPT ![c] = "create"]
    /\ now' = [now EXCEPT ![c] = Skew[c]]
    /\ UNCHANGED <<row, sent, takeovers, faults>>

\* Insert the row, or meet its primary key.
Create(c) ==
    /\ pc[c] = "create"
    /\ \/ row = NULL /\ row' = Claimed(c) /\ To(c, "send")
       \/ row # NULL /\ To(c, "find") /\ UNCHANGED row
    /\ UNCHANGED <<sent, takeovers, faults>>

Find(c) ==
    /\ pc[c] = "find"
    /\ To(c, IF Sent THEN "ok" ELSE "update")
    /\ UNCHANGED <<row, sent, takeovers, faults>>

Reclaim(c) == /\ row' = Claimed(c)
              /\ takeovers' = takeovers + IF row.claimedAt = NULL THEN 0 ELSE 1

Update(c) ==
    /\ pc[c] = "update"
    /\ \/ Available(c) /\ Reclaim(c) /\ To(c, "send")
       \/ ~Available(c) /\ To(c, "recheck") /\ UNCHANGED <<row, takeovers>>
    /\ UNCHANGED <<sent, faults>>

\* Mutant: a row that could not be claimed is taken for a sent one.
Recheck_AlreadySent(c) ==
    /\ pc[c] = "recheck"
    /\ To(c, IF row # NULL THEN "ok" ELSE "thrown")
    /\ UNCHANGED <<row, sent, takeovers, faults>>

\* Someone else holds the claim, or has just sent: the former is an error.
Recheck(c) ==
    /\ pc[c] = "recheck"
    /\ To(c, IF Sent THEN "ok" ELSE "thrown")
    /\ UNCHANGED <<row, sent, takeovers, faults>>

\* A statement of claim fails; a write may have been applied all the same.
ClaimError(c) ==
    /\ pc[c] \in Claiming
    /\ Fault
    /\ \/ UNCHANGED <<row, takeovers>>
       \/ /\ pc[c] = "create" /\ row = NULL
          /\ row' = Claimed(c)
          /\ UNCHANGED takeovers
       \/ pc[c] = "update" /\ Available(c) /\ Reclaim(c)
    /\ To(c, "thrown")
    /\ UNCHANGED sent

-----------------------------------------------------------------------------
(* handleUserCreated once it has the claim                                 *)

SendAccepted(c) ==
    /\ pc[c] = "send"
    /\ sent' = sent \cup {c}
    /\ To(c, "markSent")
    /\ UNCHANGED <<row, takeovers, faults>>

\* The channel refuses, or accepts and its reply is lost.
SendFailed(c) ==
    /\ pc[c] = "send"
    /\ Fault
    /\ sent' = sent \/ sent' = sent \cup {c}
    /\ To(c, "markFailed")
    /\ UNCHANGED <<row, takeovers>>

\* markSent stands outside the try block: when it throws, the claim stays.
MarkSent(c) ==
    /\ pc[c] = "markSent"
    /\ \/ Owned(c) /\ row' = Released(TRUE) /\ To(c, "ok")
       \/ ~Owned(c) /\ To(c, "thrown") /\ UNCHANGED row
    /\ UNCHANGED <<sent, takeovers, faults>>

MarkSentError(c) ==
    /\ pc[c] = "markSent"
    /\ Fault
    /\ UNCHANGED row \/ (Owned(c) /\ row' = Released(TRUE))
    /\ To(c, "thrown")
    /\ UNCHANGED <<sent, takeovers>>

\* Mutant: the claim is released by event id, whoever has it by now.
MarkFailed_ByEvent(c) ==
    /\ pc[c] = "markFailed"
    /\ row' = IF row = NULL THEN NULL ELSE Released(FALSE)
    /\ To(c, "thrown")
    /\ UNCHANGED <<sent, takeovers, faults>>

\* The call throws whether or not the claim was still its own.
MarkFailed(c) ==
    /\ pc[c] = "markFailed"
    /\ \/ Owned(c) /\ row' = Released(FALSE)
       \/ ~Owned(c) /\ UNCHANGED row
    /\ To(c, "thrown")
    /\ UNCHANGED <<sent, takeovers, faults>>

MarkFailedError(c) ==
    /\ pc[c] = "markFailed"
    /\ Fault
    /\ UNCHANGED row \/ (Owned(c) /\ row' = Released(FALSE))
    /\ To(c, "thrown")
    /\ UNCHANGED <<sent, takeovers>>

\* The replica dies in the middle of the call.
Crash(c) ==
    /\ pc[c] \in Claiming \cup Holding
    /\ Fault
    /\ To(c, "dead")
    /\ UNCHANGED <<row, sent, takeovers>>

-----------------------------------------------------------------------------
Aged(t) == IF t = NULL \/ t = -Horizon THEN t ELSE t - 1

\* One claim uses its clock reading for at most MaxClaimTicks.
Tick ==
    /\ \A c \in Calls :
         pc[c] \in Claiming => Skew[c] - now[c] < MaxClaimTicks
    /\ row' = IF row = NULL THEN NULL
              ELSE [row EXCEPT !.claimedAt = Aged(@)]
    /\ now' = [c \in Calls |-> IF pc[c] \in Claiming \cup Holding
                               THEN Aged(now[c]) ELSE now[c]]
    /\ UNCHANGED <<pc, sent, takeovers, faults>>

Next ==
    \/ \E c \in Calls :
         \/ Begin(c) \/ Create(c) \/ Find(c) \/ Update(c) \/ Recheck(c)
         \/ ClaimError(c)
         \/ SendAccepted(c) \/ SendFailed(c)
         \/ MarkSent(c) \/ MarkSentError(c)
         \/ MarkFailed(c) \/ MarkFailedError(c)
         \/ Crash(c)
    \/ Tick

Spec == Init /\ [][Next]_vars

-----------------------------------------------------------------------------
(* What the delivery record must guarantee                                 *)

\* By no clock of the deployment has the claim of c lapsed.
Unexpired(c) == MaxSkew - now[c] <= Lease

\* Two calls never both hold an unexpired claim, so they do not both send,
\* unless one of them has already been recorded as the sender.
ClaimExclusive ==
    \A c, d \in Calls :
        pc[c] \in Holding /\ pc[d] \in Holding /\ Unexpired(c) /\ Unexpired(d)
            => c = d

\* A handler that returns, so that its message is acknowledged, leaves a
\* notification that the channel accepted and a record that says so.
OkMeansSent ==
    \A c \in Calls : pc[c] = "ok" => sent # {} /\ Sent

\* Each notification beyond the first is paid for by a fault or by a lease
\* that lapsed under a call still at work.
DuplicatesAreExplained == Cardinality(sent) <= 1 + faults + takeovers

\* Once marked sent the event is never sent again (docs/architecture.md,
\* line 125: the database prevents duplicates once marked sent).
NoSendAfterSent == [][Sent => sent' = sent]_vars
=============================================================================
