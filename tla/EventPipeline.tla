--------------------------- MODULE EventPipeline ---------------------------
(***************************************************************************)
(* The way of one event through the platform: the outbox hands it to the   *)
(* stream, the durable consumer delivers it to the notification service,   *)
(* whose delivery record decides whether to send, and an operator replays  *)
(* what ended in the dead-letter subject.                                  *)
(*                                                                         *)
(* The outbox is represented by what it implements, EventHandoff; consumer *)
(* and delivery record are the detailed modules, joined where handleEvent  *)
(* is called and returns.  The event may be in the stream several times: a *)
(* copy is one of its stream sequences, and each delivery of a copy is one *)
(* call of handleUserCreated.                                              *)
(***************************************************************************)
EXTENDS Integers, FiniteSets, Sequences

CONSTANTS
    MaxCopies,      \* bound: publishes and replays that the stream stores
    Replicas,       \* replicas of the notification service
    Mortal,         \* those that may crash
    MaxDeliver,     \* config.maxDeliver
    MaxAckPending,  \* config.maxAckPending
    Lease,          \* options.leaseDurationMs
    MaxFaults,      \* bound: faults of any kind
    NULL

VARIABLES
    status,     \* how far the outbox is with the event
    last,       \* the copies in the stream are 1..last
    durable, state, delivered, pc, buffer, handled, dlq,    \* DurableConsumer
    row, call, now, sent, takeovers,                    \* NotificationDelivery
    faults      \* how many faults have happened anywhere

stream == <<status, last>>
consumer == <<durable, state, delivered, pc, buffer, handled, dlq>>
delivery == <<row, call, now, sent, takeovers>>
vars == <<stream, consumer, delivery, faults>>

Copies == 1..MaxCopies
Calls == Copies \X (1..MaxDeliver)

Outbox == INSTANCE EventHandoff WITH Events <- {"event"}

Consumer == INSTANCE DurableConsumer WITH
    Messages <- Copies, EventOf <- [c \in Copies |-> "event"],
    Malformed <- {}, Failing <- {},
    MaxDeliver <- [r \in Replicas |-> MaxDeliver]

\* One clock, and statements of claim() that take no time to speak of.
Record == INSTANCE NotificationDelivery WITH
    pc <- call, Skew <- [c \in Calls |-> 0],
    MaxSkew <- 0, MaxClaimTicks <- 0, Horizon <- Lease + 1

ASSUME SizesAssumption ==
    /\ MaxCopies \in Nat /\ MaxFaults \in Nat
    /\ MaxDeliver \in Nat \ {0} /\ MaxAckPending \in Nat \ {0}
    /\ Lease \in Nat \ {0}
ASSUME NamesAssumption ==
    /\ Mortal \subseteq Replicas
    /\ NULL \notin Int /\ NULL \notin Calls /\ NULL \notin Record!Delivery

TypeOK ==
    /\ Outbox!TypeOK /\ Consumer!TypeOK /\ Record!TypeOK
    /\ last \in 0..MaxCopies
    /\ status["event"] = "absent" <=> last = 0 /\ status["event"] # "pending"
    /\ \A c \in Copies : delivered[c] > 0 => c <= last

Init ==
    /\ Outbox!Init /\ Consumer!Init /\ Record!Init
    /\ last = 0

-----------------------------------------------------------------------------
(* Outbox and stream                                                       *)

Store == last < MaxCopies /\ last' = last + 1

\* The row is inserted with the user, in one transaction.
Commit ==
    /\ Outbox!Commit("event")
    /\ UNCHANGED <<last, consumer, delivery, faults>>

\* Mutant: signUp publishes by itself, beside the transaction.
Publish_DualWrite ==
    /\ status["event"] = "absent"
    /\ Store
    /\ UNCHANGED <<status, consumer, delivery, faults>>

Publish ==
    /\ Outbox!Hand("event")
    /\ Store
    /\ UNCHANGED <<consumer, delivery, faults>>

\* The relay did not learn of its publish, or another one took the row over:
\* even a row that has been marked or purged may be published once more.
\* The stream refuses the event's id for two minutes, but the relay may come
\* back at any time after them, so a second copy may come at any time.
Republish ==
    /\ status["event"] = "handed"
    /\ Store
    /\ UNCHANGED <<status, consumer, delivery, faults>>

-----------------------------------------------------------------------------
(* The dead-letter tool                                                    *)

\* replay --execute of some record.  The message id is new each time, so that
\* the duplicate window cannot swallow the copy; the record stays.
Replay ==
    /\ dlq # {}
    /\ Store
    /\ UNCHANGED <<status, consumer, delivery, faults>>

-----------------------------------------------------------------------------
(* Consumer and delivery record                                            *)

\* The call of handleUserCreated that replica r awaits.
CallOf(r) == <<Consumer!Current(r), Consumer!Count(r)>>

\* What the consumer does without its handler, and what may fail there.
Consume(r) ==
    /\ \/ Consumer!NextMessage(r) \/ Consumer!Ack(r)
       \/ Consumer!DeadLetterStored(r) \/ Consumer!Term(r)
    /\ UNCHANGED <<stream, delivery>>

Start(r) == Consumer!Starting(r) /\ UNCHANGED <<stream, delivery>>

ConsumeFails(r) ==
    /\ Consumer!AddError(r) \/ Consumer!DeadLetterFailed(r)
    /\ UNCHANGED <<stream, delivery>>

Deliver ==
    /\ \E r \in Replicas, c \in 1..last : Consumer!Deliver(r, c)
    /\ UNCHANGED <<stream, delivery>>

Expire(c) ==
    /\ c <= last /\ Consumer!Expire(c)
    /\ UNCHANGED <<stream, delivery>>

\* A statement or a send of the call.
HandlerStep(c) ==
    /\ \/ Record!Begin(c) \/ Record!Create(c) \/ Record!Find(c)
       \/ Record!Update(c) \/ Record!Recheck(c) \/ Record!SendAccepted(c)
       \/ Record!MarkSent(c) \/ Record!MarkFailed(c)
    /\ UNCHANGED <<stream, consumer>>

HandlerFault(c) ==
    /\ \/ Record!ClaimError(c) \/ Record!SendFailed(c)
       \/ Record!MarkSentError(c) \/ Record!MarkFailedError(c)
    /\ UNCHANGED <<stream, consumer>>

HandlerReturns(r) ==
    /\ Consumer!HandlerReturns(r) /\ call[CallOf(r)] = "ok"
    /\ UNCHANGED <<stream, delivery>>

HandlerThrows(r) ==
    /\ Consumer!HandleFailure(r) /\ call[CallOf(r)] = "thrown"
    /\ UNCHANGED <<stream, delivery>>

\* Handle is the loop's await of handleEvent, step by step.
Handle(r) ==
    /\ Consumer!At(r, "handle")
    /\ HandlerStep(CallOf(r)) \/ HandlerReturns(r) \/ HandlerThrows(r)

HandlerFails(r) == Consumer!At(r, "handle") /\ HandlerFault(CallOf(r))

\* A replica dies, and with it the call it is in.
Crash(r) ==
    /\ Consumer!Crash(r)
    /\ \/ Consumer!At(r, "handle") /\ Record!Crash(CallOf(r))
       \/ /\ Consumer!At(r, "handle")
             => call[CallOf(r)] \in {"new", "ok", "thrown"}
          /\ UNCHANGED delivery
    /\ UNCHANGED stream

Tick == Record!Tick /\ UNCHANGED <<stream, consumer>>

-----------------------------------------------------------------------------
Replica(r) == Consume(r) \/ Handle(r)

Next ==
    \/ Commit \/ Publish \/ Republish \/ Replay
    \/ Deliver
    \/ \E c \in Copies : Expire(c)
    \/ \E r \in Replicas :
         \/ Start(r) \/ Replica(r)
         \/ ConsumeFails(r) \/ HandlerFails(r) \/ Crash(r)
    \/ Tick

Spec == Init /\ [][Next]_vars

Live(r) == Replica(r) \/ (r \notin Mortal /\ Start(r))

\* The relay publishes, JetStream delivers and expires, live replicas go on
\* and the immortal ones are started, as in the modules that are composed.
Fairness ==
    /\ WF_vars(Publish \/ Deliver \/ \E c \in Copies : Expire(c))
    /\ \A r \in Replicas : WF_vars(Live(r))

FairSpec == Spec /\ Fairness

-----------------------------------------------------------------------------
(* What the platform must guarantee of the event                           *)

\* A copy leaves the consumer only when the notification is recorded as sent
\* or the copy is in the dead-letter subject, whatever fails on the way.
SettledMeansDone ==
    \A c \in 1..last : state[c] = "settled" => Record!Sent \/ c \in dlq

\* Duplicate publishes, redeliveries and replays of an event that is recorded
\* as sent neither send again nor touch the record, unless a lease has lapsed
\* under a call and let a second one in.
RecordedIsNotResent ==
    [][Record!Sent /\ takeovers = 0 => (Record!Sent)' /\ sent' = sent]_vars

\* Every committed event is recorded as sent or parked, unless a fault makes
\* the consumer abandon a copy of it.
CommittedEventEnds ==
    status["event"] = "pending" ~>
        \/ Record!Sent \/ dlq # {}
        \/ faults > 0 /\ \E c \in Copies : Consumer!Abandoned(c)

Fate ==
    CASE Record!Sent -> "notified"
      [] ~Record!Sent /\ dlq # {} -> "parked"
      [] ~Record!Sent /\ dlq = {} ->
            IF status["event"] = "absent" THEN "absent" ELSE "due"

\* The platform implements EventFate: nothing is sent, recorded or parked
\* before the event is committed, nothing is recorded that was not sent, and
\* whatever fails, overlaps or is replayed, a recorded notification is final.
Promised == INSTANCE EventFate WITH fate <- Fate, welcomed <- sent # {}
ImplementsFate == Promised!Spec
=============================================================================
