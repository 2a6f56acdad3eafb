------------------------- MODULE EventPipelineProofs -------------------------
(***************************************************************************)
(* Theorems about EventPipeline for any number of copies of the event, of  *)
(* replicas, deliveries and faults, and any lease.  They are put together  *)
(* from what is proved about the consumer and about the delivery record:   *)
(* each step of the pipeline is a step of either, or one beside it.        *)
(***************************************************************************)
EXTENDS EventPipeline, FiniteSetTheorems, TLAPS

\* The two components, with what is proved about them.
C == INSTANCE DurableConsumerProofs WITH
    Messages <- Copies, EventOf <- [c \in Copies |-> "event"],
    Malformed <- {}, Failing <- {},
    MaxDeliver <- [r \in Replicas |-> MaxDeliver]

D == INSTANCE NotificationDeliveryProofs WITH
    pc <- call, Skew <- [c \in Calls |-> 0],
    MaxSkew <- 0, MaxClaimTicks <- 0, Horizon <- Lease + 1

(***************************************************************************)
(* What the components assume of their constants holds here                *)
(***************************************************************************)

LEMMA FiniteNames == IsFiniteSet(Copies) /\ IsFiniteSet(Calls)
<1>1. 1 \in Int /\ MaxCopies \in Int /\ MaxDeliver \in Int
  BY SizesAssumption
<1>2. IsFiniteSet(Copies) /\ IsFiniteSet(1..MaxDeliver)
  BY <1>1, FS_Interval DEF Copies
<1>. QED
  BY <1>2, FS_Product DEF Calls

LEMMA ConsumerAssumptions == C!SetsAssumption /\ C!SizesAssumption
<1>1. C!IsFiniteSet(Copies)
  BY FiniteNames DEF C!IsFiniteSet, IsFiniteSet
<1>. QED
  BY <1>1, SizesAssumption, NamesAssumption
     DEF C!SetsAssumption, C!SizesAssumption

LEMMA RecordAssumptions ==
    D!CallsAssumption /\ D!ClockAssumption /\ D!NullAssumption
<1>1. D!IsFiniteSet(Calls)
  BY FiniteNames DEF D!IsFiniteSet, IsFiniteSet
<1>2. D!Delivery = Record!Delivery
  BY DEF D!Delivery, D!Time, Record!Delivery, Record!Time
<1>3. D!ClockAssumption
  BY SizesAssumption DEF D!ClockAssumption
<1>. QED
  BY <1>1, <1>2, <1>3, NamesAssumption DEF D!CallsAssumption, D!NullAssumption

LEMMA ConsumerFacts ==
    /\ C!Init => C!TypeOK
    /\ C!TypeOK /\ C!Moved => C!TypeOK'
    /\ C!TypeOK /\ C!LoopInv /\ C!Moved => C!LoopInv'
    /\ C!TypeOK /\ C!LoopInv /\ C!SettledIsAccountedFor /\ C!Moved
            => C!SettledIsAccountedFor'
BY ConsumerAssumptions, C!TypeInit, C!TypeStep, C!LoopStep, C!SettledStep
   DEF C!SetsAssumption, C!SizesAssumption

LEMMA RecordFacts ==
    /\ D!Init => D!TypeOK /\ D!TakeoversInv
    /\ D!TypeOK /\ D!TakeoversInv /\ D!Moved => (D!TypeOK /\ D!TakeoversInv)'
    /\ D!TypeOK /\ D!SentInv /\ D!Moved => D!SentInv'
    /\ D!TypeOK /\ D!HolderInv /\ D!Moved => D!HolderInv'
    /\ D!TypeOK /\ D!Moved /\ D!Sent => D!Sent'
    /\ D!TypeOK /\ D!HolderInv /\ D!Moved /\ D!Sent /\ takeovers = 0
            => sent' = sent
BY RecordAssumptions, D!TypeInit, D!TypeStep, D!SentStep, D!HolderStep,
   D!SentStays, D!NoMoreSends
   DEF D!CallsAssumption, D!ClockAssumption, D!NullAssumption

(***************************************************************************)
(* Each step is one of the consumer's and one of the record's              *)
(***************************************************************************)

LEMMA SameTypes ==
    /\ C!TypeOK <=> Consumer!TypeOK
    /\ D!TypeOK <=> Record!TypeOK
<1>1. D!Cardinality(Calls) = Record!Cardinality(Calls)
  BY DEF D!Cardinality, Record!Cardinality, D!IsFiniteSet, Record!IsFiniteSet
<1>2. C!TypeOK <=> Consumer!TypeOK
  BY DEF C!TypeOK, Consumer!TypeOK, C!Delivery, Consumer!Delivery, C!Working,
         Consumer!Working
<1>. QED
  BY <1>1, <1>2
     DEF D!TypeOK, Record!TypeOK, D!Delivery, Record!Delivery, D!Time,
         Record!Time, D!Claiming, Record!Claiming, D!Holding, Record!Holding

\* A replica that works has a delivery in hand, of a copy in the stream.
LEMMA InHand ==
    ASSUME TypeOK, NEW r \in Replicas, pc[r] \in Consumer!Working
    PROVE  CallOf(r) \in Calls /\ Consumer!Current(r) \in 1..last
<1>1. C!TypeOK /\ buffer[r] # <<>>
  BY SameTypes DEF TypeOK, Consumer!TypeOK
<1>2. /\ C!Current(r) \in Copies /\ C!Count(r) \in Nat \ {0}
      /\ C!Count(r) <= delivered[C!Current(r)]
  BY <1>1, ConsumerAssumptions, C!CurrentDelivery
     DEF C!SetsAssumption, C!SizesAssumption
<1>3. C!Current(r) = Consumer!Current(r) /\ C!Count(r) = Consumer!Count(r)
  BY DEF C!Current, Consumer!Current, C!Count, Consumer!Count
<1>4. /\ durable \in {0, MaxDeliver} /\ delivered \in [Copies -> 0..durable]
      /\ \A c \in Copies : delivered[c] > 0 => c <= last
      /\ last \in 0..MaxCopies
  BY DEF TypeOK, Consumer!TypeOK
<1>. QED
  BY <1>2, <1>3, <1>4, SizesAssumption DEF CallOf, Calls, Copies

LEMMA FaultCounts ==
    TypeOK /\ (UNCHANGED faults \/ (faults < MaxFaults /\ faults' = faults + 1))
        => faults' \in 0..MaxFaults
BY SizesAssumption DEF TypeOK, Consumer!TypeOK

\* A step of a replica's loop, or the end of its handler.
LoopStep(r) ==
    \/ Consumer!NextMessage(r) \/ Consumer!Ack(r)
    \/ Consumer!DeadLetterStored(r) \/ Consumer!Term(r)
    \/ Consumer!Starting(r) \/ Consumer!AddError(r)
    \/ Consumer!DeadLetterFailed(r) \/ Consumer!HandlerReturns(r)
    \/ Consumer!HandleFailure(r) \/ Consumer!Crash(r)

LEMMA LoopIsConsumer ==
    ASSUME NEW r \in Replicas, LoopStep(r)
    PROVE  C!Step(r)
<1>1. CASE \/ Consumer!NextMessage(r) \/ Consumer!DeadLetterStored(r)
           \/ Consumer!Starting(r) \/ Consumer!AddError(r)
           \/ Consumer!HandlerReturns(r) \/ Consumer!Crash(r)
  BY <1>1
     DEF Consumer!NextMessage, Consumer!DeadLetterStored, Consumer!Starting,
         Consumer!Info, Consumer!Add, Consumer!AddError,
         Consumer!HandlerReturns, Consumer!Crash, Consumer!At, Consumer!To,
         Consumer!Current, Consumer!Created, Consumer!Fault, Consumer!server,
         C!Step, C!NextMessage, C!DeadLetterStored, C!Starting, C!Info, C!Add,
         C!AddError, C!HandlerReturns, C!Crash, C!At, C!To, C!Current,
         C!Created, C!Fault, C!server
<1>2. CASE \/ Consumer!Ack(r) \/ Consumer!Term(r)
           \/ Consumer!DeadLetterFailed(r) \/ Consumer!HandleFailure(r)
  BY <1>2
     DEF Consumer!Ack, Consumer!Term, Consumer!DeadLetterFailed,
         Consumer!HandleFailure, Consumer!Nak, Consumer!Answer,
         Consumer!Settle, Consumer!Requeue, Consumer!Done, Consumer!At,
         Consumer!To, Consumer!Current, Consumer!Count, Consumer!Fault,
         Consumer!server, C!Step, C!Ack, C!Term, C!DeadLetterFailed,
         C!HandleFailure, C!Nak, C!Answer, C!Settle, C!Requeue, C!Done, C!At,
         C!To, C!Current, C!Count, C!Fault, C!server
<1>. QED
  BY <1>1, <1>2 DEF LoopStep

\* A step of the call c, a crash included.
CallStep(c) ==
    \/ Record!Begin(c) \/ Record!Create(c) \/ Record!Find(c)
    \/ Record!Update(c) \/ Record!Recheck(c) \/ Record!ClaimError(c)
    \/ Record!SendAccepted(c) \/ Record!SendFailed(c)
    \/ Record!MarkSent(c) \/ Record!MarkSentError(c)
    \/ Record!MarkFailed(c) \/ Record!MarkFailedError(c) \/ Record!Crash(c)

LEMMA CallIsRecord ==
    ASSUME TypeOK, NEW c \in Calls, CallStep(c)
    PROVE  D!ClaimStep(c) \/ D!ReleaseStep(c) \/ D!QuietStep(c)
<1>1. \/ D!Begin(c) \/ D!Create(c) \/ D!Find(c) \/ D!Update(c)
      \/ D!Recheck(c) \/ D!ClaimError(c)
      \/ D!SendAccepted(c) \/ D!SendFailed(c)
      \/ D!MarkSent(c) \/ D!MarkSentError(c)
      \/ D!MarkFailed(c) \/ D!MarkFailedError(c) \/ D!Crash(c)
  BY DEF CallStep,
         Record!Begin, Record!Create, Record!Find, Record!Update,
         Record!Recheck, Record!ClaimError, Record!SendAccepted,
         Record!SendFailed, Record!MarkSent, Record!MarkSentError,
         Record!MarkFailed, Record!MarkFailedError, Record!Crash, Record!To,
         Record!Claimed, Record!Released, Record!Reclaim, Record!Available,
         Record!Owned, Record!Sent, Record!Fault, Record!Claiming,
         Record!Holding,
         D!Begin, D!Create, D!Find, D!Update, D!Recheck, D!ClaimError,
         D!SendAccepted, D!SendFailed, D!MarkSent, D!MarkSentError,
         D!MarkFailed, D!MarkFailedError, D!Crash, D!To, D!Claimed,
         D!Released, D!Reclaim, D!Available, D!Owned, D!Sent, D!Fault,
         D!Claiming, D!Holding
<1>. QED
  BY <1>1, SameTypes, RecordAssumptions, D!StepKinds
     DEF TypeOK, D!CallsAssumption, D!ClockAssumption, D!NullAssumption

\* What a step of the pipeline is: one of the outbox or the operator; one of a
\* replica's loop, of the call it awaits, or of both when it crashes; one of
\* JetStream; or the passing of time.
Around == UNCHANGED <<consumer, delivery, faults>>

Looping(r) ==
    /\ LoopStep(r) /\ UNCHANGED <<stream, delivery>>
    /\ dlq' # dlq => pc[r] \in Consumer!Working
    /\ handled' # handled =>
         pc[r] \in Consumer!Working /\ call[CallOf(r)] = "ok"

Calling(r) ==
    /\ pc[r] \in Consumer!Working /\ CallStep(CallOf(r))
    /\ UNCHANGED stream
    /\ \/ UNCHANGED consumer
       \/ LoopStep(r) /\ UNCHANGED <<handled, dlq>>

LEMMA StepKinds ==
    [Next]_vars => \/ Commit \/ Publish \/ Republish \/ Replay
                   \/ UNCHANGED vars
                   \/ \E r \in Replicas : Looping(r) \/ Calling(r)
                   \/ Deliver \/ \E c \in Copies : Expire(c)
                   \/ Tick
<1>1. ASSUME NEW r \in Replicas, Start(r) \/ Consume(r) \/ ConsumeFails(r)
      PROVE  Looping(r)
  <2>1. LoopStep(r) /\ UNCHANGED <<stream, delivery>>
    BY <1>1 DEF Start, Consume, ConsumeFails, LoopStep
  <2>2. UNCHANGED handled /\ (dlq' # dlq => pc[r] \in Consumer!Working)
    BY <1>1
       DEF Start, Consume, ConsumeFails, Consumer!Starting, Consumer!Info,
           Consumer!Add, Consumer!NextMessage, Consumer!Ack,
           Consumer!DeadLetterStored, Consumer!Term, Consumer!AddError,
           Consumer!DeadLetterFailed, Consumer!Working
  <2>. QED
    BY <2>1, <2>2 DEF Looping
<1>2. ASSUME NEW r \in Replicas, HandlerReturns(r) \/ HandlerThrows(r)
      PROVE  Looping(r)
  <2>1. LoopStep(r) /\ UNCHANGED <<stream, delivery>>
    BY <1>2 DEF HandlerReturns, HandlerThrows, LoopStep
  <2>2. UNCHANGED dlq /\ pc[r] \in Consumer!Working
    BY <1>2
       DEF HandlerReturns, HandlerThrows, Consumer!HandlerReturns,
           Consumer!HandleFailure, Consumer!At, Consumer!Working
  <2>3. handled' # handled => call[CallOf(r)] = "ok"
    BY <1>2 DEF HandlerReturns, HandlerThrows, Consumer!HandleFailure
  <2>. QED
    BY <2>1, <2>2, <2>3 DEF Looping
<1>3. ASSUME NEW r \in Replicas, Consumer!At(r, "handle"),
             HandlerStep(CallOf(r)) \/ HandlerFault(CallOf(r))
      PROVE  Calling(r)
  BY <1>3 DEF HandlerStep, HandlerFault, Calling, CallStep, Consumer!At,
              Consumer!Working
<1>4. ASSUME NEW r \in Replicas, Crash(r)
      PROVE  Looping(r) \/ Calling(r)
  <2>1. LoopStep(r) /\ UNCHANGED <<stream, handled, dlq>>
    BY <1>4 DEF Crash, LoopStep, Consumer!Crash
  <2>2. \/ Consumer!At(r, "handle") /\ Record!Crash(CallOf(r))
        \/ UNCHANGED delivery
    BY <1>4 DEF Crash
  <2>. QED
    BY <2>1, <2>2 DEF Looping, Calling, CallStep, Consumer!At, Consumer!Working
<1>. QED
  BY <1>1, <1>2, <1>3, <1>4 DEF Next, Replica, Handle, HandlerFails

LEMMA ConsumerMoves == TypeOK /\ [Next]_vars => C!Moved
<1>. SUFFICES ASSUME TypeOK, [Next]_vars PROVE C!Moved
  OBVIOUS
<1>1. faults \in 0..MaxFaults /\ last \in 0..MaxCopies
  BY DEF TypeOK, Consumer!TypeOK
<1>2. UNCHANGED consumer /\ faults' \in 0..MaxFaults => C!Elsewhere
  BY DEF consumer, C!Elsewhere, C!server
<1>3. ASSUME UNCHANGED <<consumer, faults>> PROVE C!Moved
  BY <1>1, <1>2, <1>3 DEF C!Moved
<1>4. CASE Commit \/ Publish \/ Republish \/ Replay \/ Tick \/ UNCHANGED vars
  BY <1>3, <1>4 DEF Commit, Publish, Republish, Replay, Tick, Record!Tick, vars
<1>5. ASSUME NEW r \in Replicas, LoopStep(r) PROVE C!Moved
  BY <1>5, LoopIsConsumer DEF C!Moved
<1>6. ASSUME NEW r \in Replicas, Calling(r), UNCHANGED consumer PROVE C!Moved
  <2>1. UNCHANGED faults \/ (faults < MaxFaults /\ faults' = faults + 1)
    BY <1>6
       DEF Calling, CallStep,
           Record!Begin, Record!Create, Record!Find, Record!Update,
           Record!Recheck, Record!ClaimError, Record!SendAccepted,
           Record!SendFailed, Record!MarkSent, Record!MarkSentError,
           Record!MarkFailed, Record!MarkFailedError, Record!Crash,
           Record!Fault
  <2>. QED
    BY <1>2, <1>6, <2>1, FaultCounts DEF C!Moved
<1>7. CASE Deliver
  <2>1. PICK r \in Replicas, c \in 1..last : Consumer!Deliver(r, c)
    BY <1>7 DEF Deliver
  <2>2. c \in Copies
    BY <1>1, SizesAssumption DEF Copies
  <2>3. C!Deliver(r, c)
    <3>1. C!Cardinality(C!Pending) = Consumer!Cardinality(Consumer!Pending)
      BY DEF C!Cardinality, Consumer!Cardinality, C!IsFiniteSet,
             Consumer!IsFiniteSet, C!Pending, Consumer!Pending
    <3>. QED
      BY <2>1, <3>1 DEF C!Deliver, Consumer!Deliver, C!Working,
                        Consumer!Working
  <2>. QED
    BY <2>2, <2>3 DEF C!Moved
<1>8. ASSUME NEW c \in Copies, Expire(c) PROVE C!Moved
  BY <1>8 DEF Expire, Consumer!Expire, Consumer!Requeue, C!Expire, C!Requeue,
              C!Moved
<1>. QED
  BY <1>4, <1>5, <1>6, <1>7, <1>8, StepKinds DEF Looping, Calling

LEMMA RecordMoves == TypeOK /\ [Next]_vars => D!Moved
<1>. SUFFICES ASSUME TypeOK, [Next]_vars PROVE D!Moved
  OBVIOUS
<1>1. UNCHANGED delivery /\ faults' \in 0..MaxFaults => D!Moved
  BY DEF delivery, D!Elsewhere, D!Moved
<1>2. UNCHANGED delivery => D!Moved
  <2>1. faults' \in 0..MaxFaults
    BY ConsumerMoves, ConsumerFacts, SameTypes DEF TypeOK, C!TypeOK
  <2>. QED
    BY <1>1, <2>1
<1>3. CASE Commit \/ Publish \/ Republish \/ Replay \/ Deliver \/ UNCHANGED vars
  BY <1>2, <1>3 DEF Commit, Publish, Republish, Replay, Deliver, vars
<1>4. ASSUME NEW r \in Replicas, Looping(r) PROVE D!Moved
  BY <1>2, <1>4 DEF Looping
<1>5. ASSUME NEW r \in Replicas, Calling(r) PROVE D!Moved
  BY <1>5, InHand, CallIsRecord DEF Calling, D!Moved
<1>6. ASSUME NEW c \in Copies, Expire(c) PROVE D!Moved
  BY <1>2, <1>6 DEF Expire
<1>7. CASE Tick
  BY <1>7 DEF Tick, Record!Tick, Record!Aged, Record!Claiming, Record!Holding,
              D!Tick, D!Aged, D!Claiming, D!Holding, D!Moved
<1>. QED
  BY <1>3, <1>4, <1>5, <1>6, <1>7, StepKinds

(***************************************************************************)
(* The inductive invariant                                                 *)
(***************************************************************************)

\* A handler has returned only for an event that is recorded as sent.
HandledInv == handled # {} => Record!Sent

\* Before the event is committed, nothing knows of it.
AbsentInv ==
    status["event"] = "absent" => row = NULL /\ dlq = {} /\ sent = {}

\* Besides the invariants of the two components.
PartsInv ==
    /\ C!LoopInv /\ C!SettledIsAccountedFor
    /\ D!TakeoversInv /\ D!SentInv /\ D!HolderInv

IInv == TypeOK /\ PartsInv /\ HandledInv /\ AbsentInv

LEMMA PartsStep ==
    TypeOK /\ PartsInv /\ [Next]_vars
        => Consumer!TypeOK' /\ Record!TypeOK' /\ PartsInv'
<1>. SUFFICES ASSUME TypeOK, PartsInv, [Next]_vars
              PROVE  Consumer!TypeOK' /\ Record!TypeOK' /\ PartsInv'
  OBVIOUS
<1>1. C!TypeOK /\ D!TypeOK
  BY SameTypes DEF TypeOK
<1>2. C!Moved /\ D!Moved
  BY ConsumerMoves, RecordMoves
<1>3. C!TypeOK' /\ C!LoopInv' /\ C!SettledIsAccountedFor'
  BY <1>1, <1>2, ConsumerFacts DEF PartsInv
<1>4. D!TypeOK' /\ D!TakeoversInv' /\ D!SentInv' /\ D!HolderInv'
  BY <1>1, <1>2, RecordFacts DEF PartsInv
<1>5. Consumer!TypeOK' /\ Record!TypeOK'
  BY <1>3, <1>4, SameTypes, PTL
<1>. QED
  BY <1>3, <1>4, <1>5 DEF PartsInv

\* Where a replica works, the event has been committed.
LEMMA WorkIsCommitted ==
    TypeOK => \A r \in Replicas :
                pc[r] \in Consumer!Working => status["event"] # "absent"
<1>. SUFFICES ASSUME TypeOK, NEW r \in Replicas, pc[r] \in Consumer!Working
              PROVE  status["event"] # "absent"
  OBVIOUS
<1>1. Consumer!Current(r) \in 1..last /\ last \in 0..MaxCopies
  BY InHand DEF TypeOK
<1>2. last # 0
  BY <1>1
<1>. QED
  BY <1>2 DEF TypeOK

\* What the steps do to the stream.
LEMMA StreamStep ==
    TypeOK /\ AbsentInv /\ [Next]_vars =>
        /\ Outbox!TypeOK'
        /\ last' \in 0..MaxCopies /\ last <= last'
        /\ status'["event"] = "absent" <=>
             last' = 0 /\ status'["event"] # "pending"
        /\ status'["event"] = "absent" => status["event"] = "absent"
<1>. SUFFICES ASSUME TypeOK, AbsentInv, [Next]_vars
       PROVE  /\ Outbox!TypeOK'
              /\ last' \in 0..MaxCopies /\ last <= last'
              /\ status'["event"] = "absent" <=>
                   last' = 0 /\ status'["event"] # "pending"
              /\ status'["event"] = "absent" => status["event"] = "absent"
  OBVIOUS
<1>1. /\ status \in [{"event"} -> Outbox!Stages] /\ last \in 0..MaxCopies
      /\ status["event"] = "absent" <=> last = 0 /\ status["event"] # "pending"
      /\ MaxCopies \in Nat
  BY SizesAssumption DEF TypeOK, Outbox!TypeOK
<1>2. CASE Commit
  <2>1. status'["event"] = "pending" /\ last' = last
        /\ status' \in [{"event"} -> Outbox!Stages]
    BY <1>1, <1>2 DEF Commit, Outbox!Commit, Outbox!Move, Outbox!Stages
  <2>. QED
    BY <1>1, <2>1 DEF Outbox!TypeOK
<1>3. CASE Publish
  <2>1. /\ status'["event"] = "handed" /\ last' = last + 1
        /\ last < MaxCopies
        /\ status' \in [{"event"} -> Outbox!Stages]
    BY <1>1, <1>3 DEF Publish, Store, Outbox!Hand, Outbox!Move, Outbox!Stages
  <2>. QED
    BY <1>1, <2>1 DEF Outbox!TypeOK
<1>4. CASE Republish \/ Replay
  <2>1. /\ UNCHANGED status /\ last' = last + 1 /\ last < MaxCopies
        /\ status["event"] # "absent"
    BY <1>4 DEF Republish, Replay, Store, AbsentInv
  <2>. QED
    BY <1>1, <2>1 DEF Outbox!TypeOK
<1>5. CASE UNCHANGED stream
  BY <1>1, <1>5 DEF stream, Outbox!TypeOK
<1>6. Commit \/ Publish \/ Republish \/ Replay \/ UNCHANGED stream
  BY StepKinds DEF Looping, Calling, Deliver, Expire, Tick, vars
<1>. QED
  BY <1>2, <1>3, <1>4, <1>5, <1>6

\* Only copies that are in the stream have been delivered.
LEMMA DeliveredStep ==
    ASSUME TypeOK, [Next]_vars, last' >= last, last' \in Nat, NEW c \in Copies,
           delivered'[c] > 0
    PROVE  c <= last'
<1>0. /\ last \in 0..MaxCopies /\ c \in Int
      /\ delivered[c] > 0 => c <= last
  BY SizesAssumption DEF TypeOK, Copies
<1>1. CASE Deliver
  <2>1. PICK r \in Replicas, d \in 1..last : Consumer!Deliver(r, d)
    BY <1>1 DEF Deliver
  <2>2. delivered' = [delivered EXCEPT ![d] = @ + 1]
    BY <2>1 DEF Consumer!Deliver
  <2>. QED
    BY <1>0, <2>2 DEF TypeOK, Consumer!TypeOK
<1>2. CASE UNCHANGED delivered
  BY <1>0, <1>2
<1>3. Deliver \/ UNCHANGED delivered
  <2>1. ASSUME NEW r \in Replicas, LoopStep(r) PROVE UNCHANGED delivered
    BY <2>1
       DEF LoopStep, Consumer!NextMessage, Consumer!Ack,
           Consumer!DeadLetterStored, Consumer!Term, Consumer!Starting,
           Consumer!Info, Consumer!Add, Consumer!AddError,
           Consumer!DeadLetterFailed, Consumer!HandlerReturns,
           Consumer!HandleFailure, Consumer!Crash, Consumer!Nak,
           Consumer!Answer, Consumer!Settle, Consumer!Requeue,
           Consumer!Created, Consumer!server
  <2>. QED
    BY <2>1, StepKinds
       DEF Looping, Calling, Commit, Publish, Republish, Replay, Expire,
           Consumer!Expire, Consumer!Requeue, Tick, consumer, vars
<1>. QED
  BY <1>1, <1>2, <1>3

\* What a step does to the two records that the promises speak of.
LEMMA RecordsStep ==
    TypeOK /\ PartsInv /\ HandledInv /\ AbsentInv /\ [Next]_vars =>
        /\ Record!Sent => Record!Sent'
        /\ dlq \subseteq dlq'
        /\ row = NULL => row' = NULL \/ status["event"] # "absent"
        /\ dlq' # dlq => status["event"] # "absent"
        /\ handled' # handled => Record!Sent
<1>. SUFFICES ASSUME TypeOK, PartsInv, HandledInv, AbsentInv, [Next]_vars
              PROVE  /\ Record!Sent => Record!Sent'
                     /\ dlq \subseteq dlq'
                     /\ row = NULL => row' = NULL \/ status["event"] # "absent"
                     /\ dlq' # dlq => status["event"] # "absent"
                     /\ handled' # handled => Record!Sent
  OBVIOUS
<1>1. Record!Sent => Record!Sent'
  BY RecordMoves, RecordFacts, SameTypes DEF TypeOK, D!Sent, Record!Sent
<1>2. ASSUME NEW r \in Replicas, Looping(r)
      PROVE  /\ dlq \subseteq dlq' /\ UNCHANGED row
             /\ dlq' # dlq => status["event"] # "absent"
             /\ handled' # handled => Record!Sent
  <2>1. dlq \subseteq dlq'
    BY <1>2
       DEF Looping, LoopStep, Consumer!NextMessage, Consumer!Ack,
           Consumer!DeadLetterStored, Consumer!Term, Consumer!Starting,
           Consumer!Info, Consumer!Add, Consumer!AddError,
           Consumer!DeadLetterFailed, Consumer!HandlerReturns,
           Consumer!HandleFailure, Consumer!Crash
  <2>2. handled' # handled => Record!Sent
    BY <1>2, InHand DEF Looping, PartsInv, D!SentInv, D!Sent, Record!Sent
  <2>. QED
    BY <1>2, <2>1, <2>2, WorkIsCommitted DEF Looping, delivery
<1>3. ASSUME NEW r \in Replicas, Calling(r)
      PROVE  UNCHANGED <<handled, dlq>> /\ status["event"] # "absent"
  BY <1>3, WorkIsCommitted DEF Calling, consumer
<1>4. CASE Deliver \/ \E c \in Copies : Expire(c)
  BY <1>1, <1>4 DEF Deliver, Expire, Consumer!Deliver, Consumer!Expire, delivery
<1>5. CASE Tick
  BY <1>1, <1>5 DEF Tick, Record!Tick, consumer
<1>6. CASE Commit \/ Publish \/ Republish \/ Replay \/ UNCHANGED vars
  BY <1>1, <1>6 DEF Commit, Publish, Republish, Replay, vars, consumer, delivery
<1>. QED
  BY <1>1, <1>2, <1>3, <1>4, <1>5, <1>6, StepKinds

\* A notification is sent by a call at work, and that step does nothing else.
LEMMA SendStep ==
    TypeOK /\ [Next]_vars =>
        \/ UNCHANGED sent
        \/ /\ status["event"] # "absent" /\ sent' # {}
           /\ UNCHANGED <<status, row, dlq>>
<1>. SUFFICES ASSUME TypeOK, [Next]_vars, sent' # sent
              PROVE  /\ status["event"] # "absent" /\ sent' # {}
                     /\ UNCHANGED <<status, row, dlq>>
  OBVIOUS
<1>1. PICK r \in Replicas : Calling(r)
  BY StepKinds
     DEF Looping, Commit, Publish, Republish, Replay, Deliver, Expire, Tick,
         Record!Tick, delivery, vars
<1>2. /\ status["event"] # "absent"
      /\ UNCHANGED <<status, dlq>>
  BY <1>1, WorkIsCommitted DEF Calling, stream, consumer
<1>3. sent' # {} /\ UNCHANGED row
  BY <1>1
     DEF Calling, CallStep, Record!Begin, Record!Create, Record!Find,
         Record!Update, Record!Recheck, Record!SendAccepted, Record!MarkSent,
         Record!MarkFailed, Record!ClaimError, Record!SendFailed,
         Record!MarkSentError, Record!MarkFailedError, Record!Crash
<1>. QED
  BY <1>2, <1>3

LEMMA InvStep == IInv /\ [Next]_vars => IInv'
<1>. SUFFICES ASSUME IInv, [Next]_vars PROVE IInv'
  OBVIOUS
<1>1. Consumer!TypeOK' /\ Record!TypeOK' /\ PartsInv'
  BY PartsStep DEF IInv
<1>2. /\ Outbox!TypeOK' /\ last' \in 0..MaxCopies /\ last <= last'
      /\ status'["event"] = "absent" <=>
           last' = 0 /\ status'["event"] # "pending"
      /\ status'["event"] = "absent" => status["event"] = "absent"
  BY StreamStep DEF IInv
<1>3. \A c \in Copies : delivered'[c] > 0 => c <= last'
  <2>1. last' >= last /\ last' \in Nat /\ TypeOK
    BY <1>2 DEF IInv, TypeOK
  <2>. QED
    BY <2>1, DeliveredStep
<1>4. TypeOK'
  BY <1>1, <1>2, <1>3 DEF TypeOK
<1>5. HandledInv' /\ AbsentInv'
  BY <1>2, RecordsStep, SendStep DEF IInv, HandledInv, AbsentInv
<1>. QED
  BY <1>1, <1>4, <1>5 DEF IInv

LEMMA InvInit == Init => IInv
<1>. SUFFICES ASSUME Init PROVE IInv
  OBVIOUS
<1>1. C!Init /\ D!Init
  BY DEF Init, C!Init, Consumer!Init, D!Init, Record!Init
<1>2. C!TypeOK /\ D!TypeOK /\ D!TakeoversInv
  BY <1>1, ConsumerFacts, RecordFacts
<1>3. PartsInv
  BY <1>1, <1>2
     DEF PartsInv, C!Init, C!LoopInv, C!LoopOK, C!SettledIsAccountedFor,
         D!Init, D!SentInv, D!Sent, D!HolderInv, D!Holding
<1>4. TypeOK
  BY <1>2, SameTypes, SizesAssumption
     DEF TypeOK, Init, Outbox!Init, Outbox!TypeOK, Outbox!Stages,
         Consumer!Init
<1>5. HandledInv /\ AbsentInv
  BY DEF Init, Consumer!Init, Record!Init, HandledInv, AbsentInv
<1>. QED
  BY <1>3, <1>4, <1>5 DEF IInv

LEMMA Invariant == Spec => []IInv
BY InvInit, InvStep, PTL DEF Spec

(***************************************************************************)
(* What holds of the event                                                 *)
(***************************************************************************)

\* Every copy that is delivered is in the stream, and the stream has the event
\* only after the outbox published it: the composition keeps its parts' types.
THEOREM TypeCorrect == Spec => []TypeOK
BY Invariant, PTL DEF IInv

\* A copy leaves the consumer only when the notification is recorded as sent
\* or the copy is in the dead-letter subject, whatever fails on the way.
THEOREM CopiesEndAccountedFor == Spec => []SettledMeansDone
<1>1. IInv => SettledMeansDone
  <2>. SUFFICES ASSUME IInv, NEW c \in 1..last, state[c] = "settled"
                PROVE  Record!Sent \/ c \in dlq
    BY DEF SettledMeansDone
  <2>1. c \in Copies
    BY SizesAssumption DEF IInv, TypeOK, Copies
  <2>. QED
    BY <2>1 DEF IInv, PartsInv, C!SettledIsAccountedFor, HandledInv
<1>. QED
  BY <1>1, Invariant, PTL

\* Duplicate publishes, redeliveries and replays of an event that is recorded
\* as sent neither send again nor touch the record before a lease has lapsed.
THEOREM RecordedStays == Spec => RecordedIsNotResent
<1>1. IInv /\ [Next]_vars =>
        [Record!Sent /\ takeovers = 0 => (Record!Sent)' /\ sent' = sent]_vars
  <2>. SUFFICES ASSUME IInv, [Next]_vars, Record!Sent, takeovers = 0
                PROVE  (Record!Sent)' /\ sent' = sent
    OBVIOUS
  <2>1. D!TypeOK /\ D!HolderInv /\ D!Sent
    BY SameTypes DEF IInv, TypeOK, PartsInv, D!Sent, Record!Sent
  <2>2. D!Moved
    BY RecordMoves DEF IInv
  <2>3. D!Sent' /\ sent' = sent
    BY <2>1, <2>2, RecordFacts
  <2>. QED
    BY <2>3 DEF D!Sent, Record!Sent
<1>. QED
  BY <1>1, Invariant, PTL DEF Spec, RecordedIsNotResent

\* The platform implements EventFate: nothing is sent, recorded or parked
\* before the event is committed, nothing is recorded that was not sent, and a
\* recorded notification is final.
THEOREM FateIsKept == Spec => ImplementsFate
<1>1. Init => Promised!Init
  BY DEF Init, Outbox!Init, Consumer!Init, Record!Init, Promised!Init, Fate,
         Record!Sent
<1>2. IInv /\ [Next]_vars => [Promised!Next]_(Promised!vars)
  <2>. SUFFICES ASSUME IInv, [Next]_vars
                PROVE  [Promised!Next]_(Promised!vars)
    OBVIOUS
  <2>1. /\ Record!Sent => Record!Sent'
        /\ dlq \subseteq dlq'
        /\ row = NULL => row' = NULL \/ status["event"] # "absent"
        /\ dlq' # dlq => status["event"] # "absent"
        /\ status'["event"] = "absent" => status["event"] = "absent"
        /\ status["event"] = "absent" => row = NULL /\ dlq = {}
    BY RecordsStep, StreamStep DEF IInv, AbsentInv
  <2>2. Record!Sent' => sent' # {}
    BY InvStep DEF IInv, PartsInv, D!SentInv, D!Sent, Record!Sent
  <2>3. CASE sent' # sent
    <3>1. /\ status["event"] # "absent" /\ sent' # {}
          /\ UNCHANGED <<status, row, dlq>>
      BY <2>3, SendStep DEF IInv
    <3>2. UNCHANGED Fate /\ Fate # "absent"
      BY <3>1 DEF Fate, Record!Sent
    <3>. QED
      BY <3>1, <3>2 DEF Promised!Next, Promised!Send
  <2>4. CASE sent' = sent /\ status["event"] = "absent"
    <3>1. ~Record!Sent /\ dlq = {} /\ ~Record!Sent' /\ dlq' = {}
      BY <2>1, <2>4 DEF Record!Sent
    <3>. QED
      BY <2>4, <3>1 DEF Fate, Promised!Next, Promised!Commit, Promised!vars
  <2>5. CASE sent' = sent /\ status["event"] # "absent"
    BY <2>1, <2>2, <2>5
       DEF Fate, Promised!Next, Promised!Park, Promised!Notify, Promised!vars
  <2>. QED
    BY <2>3, <2>4, <2>5
<1>. QED
  BY <1>1, <1>2, Invariant, PTL DEF Spec, ImplementsFate, Promised!Spec
=============================================================================
