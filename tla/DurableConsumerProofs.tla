------------------------ MODULE DurableConsumerProofs ------------------------
(***************************************************************************)
(* Theorems about DurableConsumer for any stream, any number of replicas,  *)
(* each with its own limit of deliveries, and any number of faults.        *)
(***************************************************************************)
EXTENDS DurableConsumer, SequenceTheorems, TLAPS

(***************************************************************************)
(* Buffers                                                                 *)
(***************************************************************************)

\* What is left when the loop goes on behind the first delivery.
LEMMA TailOfBuffer ==
    ASSUME NEW s \in Seq(Delivery), s # <<>>
    PROVE  /\ Tail(s) \in Seq(Delivery) /\ Len(Tail(s)) = Len(s) - 1
           /\ 1 \in DOMAIN s /\ Head(s) = s[1] /\ Head(s) \in Delivery
           /\ \A i \in DOMAIN Tail(s) : i + 1 \in DOMAIN s /\ Tail(s)[i] = s[i + 1]
           /\ \A i \in DOMAIN s : i = 1 \/ (i - 1 \in DOMAIN Tail(s)
                                           /\ Tail(s)[i - 1] = s[i])
<1>1. Len(s) \in Nat \ {0} /\ DOMAIN s = 1..Len(s)
  BY EmptySeq
<1>2. /\ Tail(s) \in Seq(Delivery) /\ Len(Tail(s)) = Len(s) - 1
      /\ \A i \in 1..Len(Tail(s)) : Tail(s)[i] = s[i + 1]
  BY <1>1, HeadTailProperties
<1>3. Head(s) = s[1] /\ s[1] \in Delivery
  BY <1>1, HeadTailProperties, ElementOfSeq
<1>4. DOMAIN Tail(s) = 1..(Len(s) - 1)
  BY <1>2
<1>. QED
  BY <1>1, <1>2, <1>3, <1>4

\* A delivery that is pulled goes behind the others.
LEMMA AppendToBuffer ==
    ASSUME NEW s \in Seq(Delivery), NEW d \in Delivery
    PROVE  /\ Append(s, d) \in Seq(Delivery) /\ Len(Append(s, d)) = Len(s) + 1
           /\ \A i \in DOMAIN Append(s, d) :
                Append(s, d)[i] = d \/ (i \in DOMAIN s /\ Append(s, d)[i] = s[i])
           /\ \A i \in DOMAIN s : /\ i \in DOMAIN Append(s, d)
                                  /\ Append(s, d)[i] = s[i]
           /\ \E i \in DOMAIN Append(s, d) : Append(s, d)[i] = d
           /\ s # <<>> => Head(Append(s, d)) = Head(s)
           /\ Append(s, d) # <<>>
<1>1. Len(s) \in Nat /\ DOMAIN s = 1..Len(s) /\ (s # <<>> => Len(s) # 0)
  BY EmptySeq
<1>2. /\ Append(s, d) \in Seq(Delivery) /\ Len(Append(s, d)) = Len(s) + 1
      /\ \A i \in 1..Len(s) : Append(s, d)[i] = s[i]
      /\ Append(s, d)[Len(s) + 1] = d
  BY <1>1, AppendProperties
<1>3. DOMAIN Append(s, d) = 1..(Len(s) + 1)
  BY <1>2
<1>4. Append(s, d) # <<>>
  BY <1>1, <1>2, EmptySeq
<1>5. s # <<>> => Head(Append(s, d)) = Head(s)
  BY <1>1, <1>2, <1>4, HeadTailProperties
<1>. QED
  BY <1>1, <1>2, <1>3, <1>4, <1>5

(***************************************************************************)
(* Type correctness                                                        *)
(***************************************************************************)

\* A replica holds no more deliveries than its pull allows, one at least
\* while it works, and none that JetStream has not made.
BufferOK(r) ==
    /\ Len(buffer[r]) <= MaxAckPending
    /\ pc[r] \in Working => buffer[r] # <<>>
    /\ \A i \in DOMAIN buffer[r] :
         buffer[r][i].count <= delivered[buffer[r][i].msg]

\* The whole of TypeOK except what concerns the buffer of each replica.
ShapesOK ==
    /\ durable \in {0} \cup {MaxDeliver[r] : r \in Replicas}
    /\ state \in [Messages -> {"waiting", "out", "settled"}]
    /\ delivered \in [Messages -> 0..durable]
    /\ pc \in [Replicas -> Working \cup {"down", "add", "next"}]
    /\ buffer \in [Replicas -> Seq(Delivery)]
    /\ handled \subseteq Messages
    /\ dlq \subseteq Messages
    /\ faults \in 0..MaxFaults

BuffersOK == \A r \in Replicas : BufferOK(r)

LEMMA TypeParts == TypeOK <=> ShapesOK /\ BuffersOK
BY DEF TypeOK, ShapesOK, BuffersOK, BufferOK

\* What a replica works on while it works.
LEMMA CurrentDelivery ==
    ASSUME TypeOK, NEW r \in Replicas, buffer[r] # <<>>
    PROVE  /\ Current(r) \in Messages /\ Count(r) \in Nat \ {0}
           /\ Count(r) <= delivered[Current(r)]
           /\ 1 \in DOMAIN buffer[r] /\ buffer[r][1] = Head(buffer[r])
<1>1. buffer[r] \in Seq(Delivery)
  BY DEF TypeOK
<1>. QED
  BY <1>1, TailOfBuffer DEF TypeOK, Current, Count, Delivery

\* An answer changes the state of one message, or nothing.
Answered == /\ UNCHANGED <<durable, delivered>>
            /\ state' \in [Messages -> {"waiting", "out", "settled"}]
            /\ faults' \in 0..MaxFaults

LEMMA AnswerEffect ==
    ASSUME TypeOK, NEW m \in Messages,
           UNCHANGED faults \/ Fault,
           Settle(m) \/ Requeue(m) \/ UNCHANGED server
    PROVE  Answered
<1>1. faults' \in 0..MaxFaults
  BY SizesAssumption DEF TypeOK, Fault
<1>2. UNCHANGED <<durable, delivered>>
  BY DEF Settle, Requeue, server
<1>3. state' \in [Messages -> {"waiting", "out", "settled"}]
  <2>1. CASE Settle(m)
    BY <2>1 DEF Settle, TypeOK
  <2>2. CASE Requeue(m)
    BY <2>2 DEF Requeue, TypeOK
  <2>3. CASE UNCHANGED server
    BY <2>3 DEF server, TypeOK
  <2>. QED
    BY <2>1, <2>2, <2>3
<1>. QED
  BY <1>1, <1>2, <1>3 DEF Answered

\* What a step of a replica r does to its buffer: the loop moves to another
\* place with it, goes on behind the first delivery, or forgets everything.
Moves(r) ==
    \/ \E label \in Working \cup {"down", "add", "next"} :
         To(r, label) /\ (label \in Working => buffer[r] # <<>>)
    \/ buffer[r] # <<>> /\ Done(r)
    \/ /\ pc' = [pc EXCEPT ![r] = "down"]
       /\ buffer' = [buffer EXCEPT ![r] = <<>>]

LEMMA MovesEffect ==
    ASSUME TypeOK, NEW r \in Replicas, Moves(r)
    PROVE  /\ pc' \in [Replicas -> Working \cup {"down", "add", "next"}]
           /\ buffer' \in [Replicas -> Seq(Delivery)]
           /\ \A q \in Replicas \ {r} : pc'[q] = pc[q] /\ buffer'[q] = buffer[q]
           /\ Len(buffer'[r]) <= MaxAckPending
           /\ pc'[r] \in Working => buffer'[r] # <<>>
           /\ \A i \in DOMAIN buffer'[r] :
                \E j \in DOMAIN buffer[r] : buffer'[r][i] = buffer[r][j]
<1>0. buffer[r] \in Seq(Delivery)
  BY DEF TypeOK
<1>1. CASE \E label \in Working \cup {"down", "add", "next"} :
             To(r, label) /\ (label \in Working => buffer[r] # <<>>)
  BY <1>1 DEF TypeOK, To
<1>2. CASE buffer[r] # <<>> /\ Done(r)
  <2>1. /\ Tail(buffer[r]) \in Seq(Delivery)
        /\ Len(Tail(buffer[r])) = Len(buffer[r]) - 1 /\ Len(buffer[r]) \in Nat
        /\ \A i \in DOMAIN Tail(buffer[r]) :
             i + 1 \in DOMAIN buffer[r] /\ Tail(buffer[r])[i] = buffer[r][i + 1]
    BY <1>0, <1>2, TailOfBuffer
  <2>2. buffer'[r] = Tail(buffer[r]) /\ pc'[r] = "next"
    BY <1>2 DEF Done, TypeOK
  <2>. QED
    BY <1>2, <2>1, <2>2, SizesAssumption DEF Done, TypeOK, Working
<1>3. CASE /\ pc' = [pc EXCEPT ![r] = "down"]
           /\ buffer' = [buffer EXCEPT ![r] = <<>>]
  <2>1. <<>> \in Seq(Delivery) /\ Len(<<>>) = 0 /\ DOMAIN <<>> = {}
    OBVIOUS
  <2>. QED
    BY <1>3, <2>1, SizesAssumption DEF TypeOK, Working
<1>. QED
  BY <1>1, <1>2, <1>3 DEF Moves

\* A step of a replica other than taking in a delivery.  Nothing here depends
\* on why a handler fails.
Step(r) ==
    \/ Starting(r) \/ AddError(r)
    \/ NextMessage(r) \/ HandlerReturns(r) \/ HandleFailure(r) \/ Ack(r)
    \/ DeadLetterStored(r) \/ Term(r)
    \/ HandlerError(r) \/ DeadLetterFailed(r) \/ Crash(r)

LEMMA StepMoves ==
    ASSUME TypeOK, NEW r \in Replicas, Step(r)
    PROVE  Moves(r)
<1>1. pc[r] \in Working => buffer[r] # <<>>
  BY DEF TypeOK
<1>2. CASE Starting(r) \/ AddError(r)
  BY <1>2 DEF Starting, Info, Add, AddError, Moves, Working
<1>3. CASE NextMessage(r) \/ HandlerReturns(r) \/ DeadLetterStored(r)
  BY <1>1, <1>3 DEF NextMessage, HandlerReturns, DeadLetterStored, At, Moves,
                    Working
<1>4. CASE Ack(r) \/ Term(r) \/ DeadLetterFailed(r)
  BY <1>1, <1>4 DEF Ack, Term, DeadLetterFailed, At, Moves, Working
<1>5. CASE HandleFailure(r) \/ HandlerError(r)
  <2>1. To(r, "deadLetter") \/ Done(r)
    BY <1>5 DEF HandlerError, HandleFailure, Nak
  <2>. QED
    BY <1>1, <1>5, <2>1
       DEF HandleFailure, HandlerError, At, Moves, Working
<1>6. CASE Crash(r)
  BY <1>6 DEF Crash, Moves
<1>. QED
  BY <1>2, <1>3, <1>4, <1>5, <1>6 DEF Step

\* What such a step leaves in JetStream and in the two records.
Kept == /\ delivered' = delivered
        /\ \/ durable' = durable
           \/ durable = 0 /\ durable' \in {MaxDeliver[r] : r \in Replicas}
        /\ state' \in [Messages -> {"waiting", "out", "settled"}]
        /\ handled \subseteq handled' /\ handled' \subseteq Messages
        /\ dlq \subseteq dlq' /\ dlq' \subseteq Messages
        /\ faults' \in 0..MaxFaults /\ faults <= faults'

LEMMA StepKeeps ==
    ASSUME TypeOK, NEW r \in Replicas, Step(r)
    PROVE  Kept
<1>1. pc[r] \in Working => Current(r) \in Messages
  BY CurrentDelivery DEF TypeOK
<1>2. faults \in Nat /\ MaxFaults \in Nat /\ faults \in 0..MaxFaults
      /\ MaxDeliver \in [Replicas -> Nat \ {0}]
  BY SizesAssumption DEF TypeOK
<1>3. Fault => faults' \in 0..MaxFaults /\ faults <= faults'
  BY <1>2 DEF Fault
<1>4. CASE Starting(r) \/ AddError(r)
  <2>1. Created(r) \/ UNCHANGED server
    BY <1>4 DEF Starting, Info, Add, AddError
  <2>2. UNCHANGED <<handled, dlq>> /\ (UNCHANGED faults \/ Fault)
    BY <1>4 DEF Starting, Info, Add, AddError
  <2>. QED
    BY <1>2, <1>3, <2>1, <2>2 DEF Created, server, TypeOK, Kept
<1>5. CASE NextMessage(r) \/ HandlerReturns(r) \/ DeadLetterStored(r)
  BY <1>1, <1>2, <1>5 DEF NextMessage, HandlerReturns, DeadLetterStored, At,
                          Working, server, TypeOK, Kept
<1>6. CASE \/ Ack(r) \/ Term(r) \/ DeadLetterFailed(r) \/ HandleFailure(r)
           \/ HandlerError(r)
  <2>1. /\ handled' = handled
        /\ dlq' = dlq \/ dlq' = dlq \cup {Current(r)}
        /\ UNCHANGED faults \/ Fault
        /\ Current(r) \in Messages
        /\ Settle(Current(r)) \/ Requeue(Current(r)) \/ UNCHANGED server
    BY <1>1, <1>6
       DEF Ack, Term, DeadLetterFailed, HandlerError, HandleFailure, Nak,
           Answer, At, Working
  <2>2. Answered
    BY <2>1, AnswerEffect
  <2>. QED
    BY <1>2, <1>3, <2>1, <2>2 DEF Answered, TypeOK, Kept
<1>7. CASE Crash(r)
  BY <1>2, <1>3, <1>7 DEF Crash, server, TypeOK, Kept
<1>. QED
  BY <1>4, <1>5, <1>6, <1>7 DEF Step

\* A delivery reaches one buffer and is counted.
LEMMA DeliverEffect ==
    ASSUME TypeOK, NEW r \in Replicas, NEW m \in Messages, Deliver(r, m)
    PROVE  /\ buffer' \in [Replicas -> Seq(Delivery)]
           /\ \A q \in Replicas \ {r} : buffer'[q] = buffer[q]
           /\ \A i \in DOMAIN buffer'[r] :
                \/ buffer'[r][i] = [msg |-> m, count |-> delivered[m] + 1]
                \/ i \in DOMAIN buffer[r] /\ buffer'[r][i] = buffer[r][i]
           /\ \E i \in DOMAIN buffer'[r] :
                buffer'[r][i] = [msg |-> m, count |-> delivered[m] + 1]
           /\ \A i \in DOMAIN buffer[r] :
                i \in DOMAIN buffer'[r] /\ buffer'[r][i] = buffer[r][i]
           /\ buffer[r] # <<>> => Head(buffer'[r]) = Head(buffer[r])
           /\ buffer'[r] # <<>>
           /\ Len(buffer'[r]) <= MaxAckPending
           /\ delivered' \in [Messages -> 0..durable]
           /\ delivered'[m] = delivered[m] + 1
           /\ \A n \in Messages \ {m} : delivered'[n] = delivered[n]
<1>1. buffer[r] \in Seq(Delivery) /\ delivered[m] \in Nat
      /\ durable \in Nat /\ Len(buffer[r]) \in Nat /\ MaxAckPending \in Nat
  BY SizesAssumption DEF TypeOK
<1>. DEFINE d == [msg |-> m, count |-> delivered[m] + 1]
<1>2. d \in Delivery
  BY <1>1 DEF Delivery
<1>3. buffer' = [buffer EXCEPT ![r] = Append(buffer[r], d)]
  BY DEF Deliver
<1>4. Append(buffer[r], d) \in Seq(Delivery)
  BY <1>1, <1>2, AppendToBuffer
<1>5. /\ buffer' \in [Replicas -> Seq(Delivery)]
      /\ buffer'[r] = Append(buffer[r], d)
      /\ \A q \in Replicas \ {r} : buffer'[q] = buffer[q]
  BY <1>3, <1>4 DEF TypeOK
<1>6. /\ delivered' \in [Messages -> 0..durable]
      /\ delivered'[m] = delivered[m] + 1
      /\ \A n \in Messages \ {m} : delivered'[n] = delivered[n]
  BY <1>1 DEF Deliver, TypeOK
<1>7. Len(buffer'[r]) <= MaxAckPending
  BY <1>1, <1>2, <1>5, AppendToBuffer DEF Deliver
<1>8. /\ \A i \in DOMAIN buffer'[r] :
           \/ buffer'[r][i] = d
           \/ i \in DOMAIN buffer[r] /\ buffer'[r][i] = buffer[r][i]
      /\ \A i \in DOMAIN buffer[r] :
           i \in DOMAIN buffer'[r] /\ buffer'[r][i] = buffer[r][i]
      /\ \E i \in DOMAIN buffer'[r] : buffer'[r][i] = d
      /\ buffer[r] # <<>> => Head(buffer'[r]) = Head(buffer[r])
      /\ buffer'[r] # <<>>
  <2>. HIDE DEF d
  <2>. DEFINE s == buffer[r]
              a == Append(s, d)
  <2>1. /\ \A i \in DOMAIN a : a[i] = d \/ (i \in DOMAIN s /\ a[i] = s[i])
        /\ \A i \in DOMAIN s : i \in DOMAIN a /\ a[i] = s[i]
        /\ \E i \in DOMAIN a : a[i] = d
        /\ s # <<>> => Head(a) = Head(s)
        /\ a # <<>>
    BY <1>1, <1>2, AppendToBuffer
  <2>2. buffer'[r] = a
    BY <1>5
  <2>. HIDE DEF a
  <2>. QED
    BY <2>1, <2>2
<1>. QED
  BY <1>5, <1>6, <1>7, <1>8

\* A step of a system around the consumer, perhaps a fault counted with those
\* of the consumer.
Elsewhere == /\ UNCHANGED <<server, pc, buffer, handled, dlq>>
             /\ faults' \in 0..MaxFaults

\* The steps that the invariants survive.  They allow more than Next does, so
\* that a module which gives the handler a life of its own may use them.
Moved ==
    \/ \E r \in Replicas : Step(r) \/ \E m \in Messages : Deliver(r, m)
    \/ \E m \in Messages : Expire(m)
    \/ Elsewhere

LEMMA NextMoves == TypeOK /\ [Next]_vars => Moved
BY DEF Next, Processing, HandlerThrows, Step, Moved, Elsewhere, vars, TypeOK

LEMMA TypeStep == TypeOK /\ Moved => TypeOK'
<1>. SUFFICES ASSUME TypeOK, Moved PROVE TypeOK'
  OBVIOUS
<1>1. ASSUME NEW r \in Replicas, Step(r) PROVE TypeOK'
  <2>1. Kept
    BY <1>1, StepKeeps
  <2>2. /\ pc' \in [Replicas -> Working \cup {"down", "add", "next"}]
        /\ buffer' \in [Replicas -> Seq(Delivery)]
        /\ \A q \in Replicas \ {r} : pc'[q] = pc[q] /\ buffer'[q] = buffer[q]
        /\ Len(buffer'[r]) <= MaxAckPending
        /\ pc'[r] \in Working => buffer'[r] # <<>>
        /\ \A i \in DOMAIN buffer'[r] :
             \E j \in DOMAIN buffer[r] : buffer'[r][i] = buffer[r][j]
    BY <1>1, StepMoves, MovesEffect
  <2>3. ShapesOK'
    <3>1. durable' \in {0} \cup {MaxDeliver[q] : q \in Replicas}
      BY <2>1 DEF Kept, TypeOK
    <3>2. delivered' \in [Messages -> 0..durable']
      <4>1. CASE durable' = durable
        BY <2>1, <4>1 DEF Kept, TypeOK
      <4>2. CASE durable = 0 /\ durable' \in {MaxDeliver[q] : q \in Replicas}
        BY <2>1, <4>2, SizesAssumption DEF Kept, TypeOK
      <4>. QED
        BY <2>1, <4>1, <4>2 DEF Kept
    <3>. QED
      BY <2>1, <2>2, <3>1, <3>2 DEF Kept, ShapesOK
  <2>4. ASSUME NEW q \in Replicas PROVE BufferOK(q)'
    <3>1. CASE q = r
      BY <2>1, <2>2, <3>1 DEF BufferOK, TypeOK, Kept
    <3>2. CASE q # r
      BY <2>1, <2>2, <3>2 DEF BufferOK, TypeOK, Kept
    <3>. QED
      BY <3>1, <3>2
  <2>. QED
    <3>1. BuffersOK'
      BY <2>4 DEF BuffersOK
    <3>. QED
      BY <2>3, <3>1, TypeParts, PTL
<1>2. ASSUME NEW r \in Replicas, NEW m \in Messages, Deliver(r, m) PROVE TypeOK'
  <2>1. ShapesOK'
    <3>1. UNCHANGED <<durable, pc, handled, dlq, faults>>
      BY <1>2 DEF Deliver
    <3>2. state' \in [Messages -> {"waiting", "out", "settled"}]
      BY <1>2 DEF Deliver, TypeOK
    <3>. QED
      BY <1>2, <3>1, <3>2, DeliverEffect DEF TypeOK, ShapesOK
  <2>2. ASSUME NEW q \in Replicas PROVE BufferOK(q)'
    <3>1. pc' = pc /\ delivered[m] \in Nat
          /\ \A n \in Messages :
               /\ delivered[n] \in Nat /\ delivered'[n] \in Nat
               /\ delivered[n] <= delivered'[n]
      <4>1. pc' = pc /\ delivered \in [Messages -> Nat]
        BY <1>2, SizesAssumption DEF Deliver, TypeOK
      <4>2. /\ delivered'[m] = delivered[m] + 1
            /\ \A n \in Messages \ {m} : delivered'[n] = delivered[n]
        BY <1>2, DeliverEffect
      <4>. QED
        BY <4>1, <4>2
    <3>2. buffer[q] \in Seq(Delivery)
      BY DEF TypeOK
    <3>3. ASSUME NEW i \in DOMAIN buffer[q]
          PROVE  buffer[q][i].count <= delivered'[buffer[q][i].msg]
      <4>1. buffer[q][i] \in Delivery
        BY <3>2
      <4>2. buffer[q][i].msg \in Messages /\ buffer[q][i].count \in Nat
        BY <4>1 DEF Delivery
      <4>3. buffer[q][i].count <= delivered[buffer[q][i].msg]
        BY DEF TypeOK
      <4>4. /\ delivered[buffer[q][i].msg] \in Nat
            /\ delivered'[buffer[q][i].msg] \in Nat
            /\ delivered[buffer[q][i].msg] <= delivered'[buffer[q][i].msg]
        BY <3>1, <4>2
      <4>. QED
        BY <4>2, <4>3, <4>4
    <3>4. CASE q # r
      <4>1. buffer'[q] = buffer[q]
        <5>1. \A k \in Replicas \ {r} : buffer'[k] = buffer[k]
          BY <1>2, DeliverEffect
        <5>. QED
          BY <3>4, <5>1
      <4>2. BufferOK(q)
        BY TypeParts DEF BuffersOK
      <4>. QED
        BY <3>1, <3>3, <4>1, <4>2 DEF BufferOK
    <3>5. CASE q = r
      <4>1. ASSUME NEW i \in DOMAIN buffer'[r]
            PROVE  buffer'[r][i].count <= delivered'[buffer'[r][i].msg]
        <5>1. CASE buffer'[r][i] = [msg |-> m, count |-> delivered[m] + 1]
          BY <1>2, <3>1, <5>1, DeliverEffect
        <5>2. CASE i \in DOMAIN buffer[r] /\ buffer'[r][i] = buffer[r][i]
          BY <3>3, <3>5, <5>2
        <5>. QED
          BY <1>2, <5>1, <5>2, DeliverEffect
      <4>. QED
        BY <1>2, <3>5, <4>1, DeliverEffect DEF BufferOK
    <3>. QED
      BY <3>4, <3>5
  <2>3. BuffersOK'
    BY <2>2 DEF BuffersOK
  <2>. QED
    BY <2>1, <2>3, TypeParts, PTL
<1>3. ASSUME NEW m \in Messages, Expire(m) PROVE TypeOK'
  BY <1>3 DEF Expire, Requeue, TypeOK
<1>4. CASE Elsewhere
  BY <1>4 DEF Elsewhere, server, TypeOK
<1>. QED
  BY <1>1, <1>2, <1>3, <1>4 DEF Moved

LEMMA TypeInit == Init => TypeOK
<1>. SUFFICES ASSUME Init PROVE TypeOK
  OBVIOUS
<1>1. <<>> \in Seq(Delivery) /\ Len(<<>>) = 0 /\ DOMAIN <<>> = {}
  OBVIOUS
<1>. QED
  BY <1>1, SizesAssumption DEF Init, TypeOK, Working

\* JetStream never counts more deliveries than the consumer allows, no replica
\* pulls more than max_messages and none works without a delivery in hand.
THEOREM TypeCorrect == Spec => []TypeOK
BY TypeInit, NextMoves, TypeStep, PTL DEF Spec

(***************************************************************************)
(* What becomes of a message                                               *)
(***************************************************************************)

\* What the loop knows of the delivery it works on.
LoopOK(r) ==
    /\ pc[r] \in {"handle", "ack", "deadLetter"} => Current(r) \notin Malformed
    /\ pc[r] = "ack" => Current(r) \in handled
    /\ pc[r] = "preserve" => Current(r) \in Malformed
    /\ pc[r] = "deadLetter" => Count(r) >= MaxDeliver[r]
    /\ pc[r] = "term" => Current(r) \in dlq

LoopInv == \A r \in Replicas : LoopOK(r)

\* The records only grow, and another replica's delivery stays where it is.
LEMMA OthersLoop ==
    ASSUME TypeOK, LoopInv, NEW r \in Replicas, NEW q \in Replicas \ {r}, Step(r)
    PROVE  LoopOK(q)'
<1>1. pc'[q] = pc[q] /\ buffer'[q] = buffer[q]
  BY StepMoves, MovesEffect
<1>2. handled \subseteq handled' /\ dlq \subseteq dlq'
  BY StepKeeps DEF Kept
<1>3. Current(q)' = Current(q) /\ Count(q)' = Count(q)
  BY <1>1 DEF Current, Count
<1>. QED
  BY <1>1, <1>2, <1>3 DEF LoopInv, LoopOK

LEMMA OwnLoop ==
    ASSUME TypeOK, LoopInv, NEW r \in Replicas, Step(r)
    PROVE  LoopOK(r)'
<1>0. LoopOK(r) /\ handled \subseteq handled' /\ dlq \subseteq dlq'
  BY StepKeeps DEF Kept, LoopInv
<1>1. CASE pc'[r] \in {"down", "add", "next"}
  BY <1>1 DEF LoopOK
<1>2. CASE NextMessage(r) \/ HandlerReturns(r) \/ DeadLetterStored(r)
  <2>1. Current(r)' = Current(r) /\ Count(r)' = Count(r)
    BY <1>2
       DEF NextMessage, HandlerReturns, DeadLetterStored, To, Current, Count
  <2>. QED
    BY <1>0, <1>2, <2>1
       DEF NextMessage, HandlerReturns, DeadLetterStored, To, At, LoopOK, TypeOK
<1>3. CASE To(r, "deadLetter") /\ At(r, "handle") /\ Count(r) >= MaxDeliver[r]
  <2>1. /\ Current(r)' = Current(r) /\ Count(r)' = Count(r)
        /\ pc'[r] = "deadLetter"
    BY <1>3 DEF To, Current, Count, TypeOK
  <2>. QED
    BY <1>0, <1>3, <2>1 DEF At, LoopOK
<1>4. CASE Done(r) \/ Crash(r) \/ Starting(r) \/ AddError(r)
  <2>1. pc'[r] \in {"down", "add", "next"}
    BY <1>4 DEF Done, Crash, Starting, Info, Add, AddError, To, TypeOK
  <2>. QED
    BY <1>1, <2>1
<1>. QED
  BY <1>2, <1>3, <1>4
     DEF Step, Ack, Term, DeadLetterFailed, HandlerError, HandleFailure, Nak

LEMMA LoopStep == TypeOK /\ LoopInv /\ Moved => LoopInv'
<1>. SUFFICES ASSUME TypeOK, LoopInv, Moved PROVE LoopInv'
  OBVIOUS
<1>1. ASSUME NEW r \in Replicas, Step(r) PROVE LoopInv'
  BY <1>1, OthersLoop, OwnLoop DEF LoopInv
<1>2. ASSUME NEW r \in Replicas, NEW m \in Messages, Deliver(r, m)
      PROVE LoopInv'
  <2>. SUFFICES ASSUME NEW q \in Replicas PROVE LoopOK(q)'
    BY DEF LoopInv
  <2>1. UNCHANGED <<pc, handled, dlq>> /\ LoopOK(q)
    BY <1>2 DEF Deliver, LoopInv
  <2>2. CASE pc[q] \notin Working
    BY <2>1, <2>2 DEF LoopOK, Working
  <2>3. CASE pc[q] \in Working
    <3>1. buffer[q] # <<>>
      BY <2>3 DEF TypeOK
    <3>2. Head(buffer'[q]) = Head(buffer[q])
      BY <1>2, <3>1, DeliverEffect
    <3>. QED
      BY <2>1, <3>2 DEF LoopOK, Current, Count
  <2>. QED
    BY <2>2, <2>3
<1>3. ASSUME NEW m \in Messages, Expire(m) PROVE LoopInv'
  BY <1>3 DEF Expire, LoopInv, LoopOK, Current, Count
<1>4. CASE Elsewhere
  BY <1>4 DEF Elsewhere, LoopInv, LoopOK, Current, Count
<1>. QED
  BY <1>1, <1>2, <1>3, <1>4 DEF Moved

LEMMA LoopInit == Init => LoopInv
BY DEF Init, LoopInv, LoopOK

\* Only the two places that know what became of the message settle it.
LEMMA SettledStep ==
    TypeOK /\ LoopInv /\ SettledIsAccountedFor /\ Moved
        => SettledIsAccountedFor'
<1>. SUFFICES ASSUME TypeOK, LoopInv, SettledIsAccountedFor, Moved
              PROVE  SettledIsAccountedFor'
  OBVIOUS
<1>. DEFINE Accounted(m) == m \in dlq \/ (m \in handled /\ m \notin Malformed)
            Fresh == \A m \in Messages :
                       state'[m] = "settled" => state[m] = "settled" \/ Accounted(m)
<1>1. ASSUME Fresh, handled \subseteq handled', dlq \subseteq dlq'
      PROVE  SettledIsAccountedFor'
  BY <1>1 DEF SettledIsAccountedFor
<1>2. ASSUME NEW r \in Replicas, Step(r) PROVE SettledIsAccountedFor'
  <2>1. handled \subseteq handled' /\ dlq \subseteq dlq' /\ LoopOK(r)
    BY <1>2, StepKeeps DEF Kept, LoopInv
  <2>2. CASE Ack(r) \/ Term(r)
    <3>1. Accounted(Current(r))
      BY <2>1, <2>2 DEF Ack, Term, At, LoopOK
    <3>2. Settle(Current(r)) \/ UNCHANGED server
      BY <2>2 DEF Ack, Term, Answer
    <3>. QED
      BY <1>1, <2>1, <3>1, <3>2 DEF Settle, server, TypeOK
  <2>3. CASE ~(Ack(r) \/ Term(r))
    <3>1. UNCHANGED state \/ Requeue(Current(r))
      BY <1>2, <2>3
         DEF Step, Starting, Info, Add, AddError, Created, NextMessage,
             HandlerReturns, HandleFailure, Nak, Answer, DeadLetterStored,
             HandlerError, DeadLetterFailed, Crash, server
    <3>. QED
      BY <1>1, <2>1, <3>1 DEF Requeue, TypeOK
  <2>. QED
    BY <2>2, <2>3
<1>3. ASSUME NEW r \in Replicas, NEW m \in Messages, Deliver(r, m)
      PROVE  SettledIsAccountedFor'
  BY <1>1, <1>3 DEF Deliver, TypeOK
<1>4. ASSUME NEW m \in Messages, Expire(m) PROVE SettledIsAccountedFor'
  BY <1>1, <1>4 DEF Expire, Requeue, TypeOK
<1>5. CASE Elsewhere
  BY <1>1, <1>5 DEF Elsewhere, server
<1>. QED
  BY <1>2, <1>3, <1>4, <1>5 DEF Moved

\* Whatever crashes, expires, overlaps or gets lost: a message leaves the
\* pending set only when a handler has returned for it or its copy is stored.
THEOREM SettledMeansAccountedFor == Spec => []SettledIsAccountedFor
<1>1. Init => SettledIsAccountedFor
  BY DEF Init, SettledIsAccountedFor
<1>. QED
  BY <1>1, TypeInit, NextMoves, TypeStep, LoopInit, LoopStep, SettledStep, PTL
     DEF Spec

(***************************************************************************)
(* Messages are not lost by themselves                                     *)
(***************************************************************************)

Patient == /\ faults = 0
           /\ \A r \in Replicas : Bound(r) => MaxDeliver[r] <= durable

\* A replica has the last delivery of m: no other one decides about m.
HeldLast(m) ==
    \E r \in Replicas : \E i \in DOMAIN buffer[r] :
        buffer[r][i].msg = m /\ buffer[r][i].count = durable

LastInv ==
    Patient => \A m \in Messages :
        delivered[m] > 0 /\ delivered[m] = durable /\ m \notin handled \cup dlq
            => HeldLast(m)

\* Only a crash ends what a replica is bound to.
LEMMA StaysBound ==
    ASSUME TypeOK, NEW r \in Replicas, Step(r), faults' = faults
    PROVE  \A q \in Replicas : Bound(q) => Bound(q)'
<1>. ~Fault
  BY DEF Fault, TypeOK
<1>. QED
  BY DEF Step, Starting, Info, Add, AddError, To, Done, NextMessage,
         HandlerReturns, HandleFailure, Nak, Ack, Term, DeadLetterStored,
         HandlerError, DeadLetterFailed, Crash, At, Working, Bound, TypeOK

\* Only a delivery that settled the matter, or was not the last, is let go.
LEMMA LastOfReplica ==
    ASSUME TypeOK, LoopInv, LastInv, NEW r \in Replicas, Step(r), Patient',
           NEW m \in Messages, delivered'[m] > 0, delivered'[m] = durable',
           m \notin handled' \cup dlq'
    PROVE  HeldLast(m)'
<1>1. /\ delivered' = delivered /\ delivered[m] \in 0..durable
      /\ faults \in Nat /\ faults <= faults' /\ faults' \in Nat
      /\ handled \subseteq handled' /\ dlq \subseteq dlq' /\ durable \in Nat
      /\ durable' = durable \/ durable = 0
  BY StepKeeps, SizesAssumption DEF Kept, TypeOK
<1>2. durable' = durable /\ faults = 0 /\ faults' = 0 /\ Patient
  <2>1. durable' = durable /\ faults = 0 /\ faults' = 0
    BY <1>1 DEF Patient
  <2>2. \A q \in Replicas : Bound(q) => Bound(q)'
    BY <2>1, StaysBound
  <2>. QED
    BY <2>1, <2>2 DEF Patient
<1>3. m \notin handled \cup dlq /\ HeldLast(m)
  BY <1>1, <1>2 DEF LastInv
<1>4. PICK q \in Replicas : \E i \in DOMAIN buffer[q] :
         buffer[q][i].msg = m /\ buffer[q][i].count = durable
  BY <1>3 DEF HeldLast
<1>5. PICK i \in DOMAIN buffer[q] :
        buffer[q][i].msg = m /\ buffer[q][i].count = durable
  BY <1>4
<1>6. CASE buffer'[q] = buffer[q]
  BY <1>2, <1>5, <1>6 DEF HeldLast
<1>7. CASE buffer'[q] # buffer[q]
  <2>1. q = r /\ pc[r] \in Working /\ Done(r)
    <3>1. q = r
      BY <1>7, StepMoves, MovesEffect
    <3>2. ~Fault
      BY <1>2 DEF Fault
    <3>3. ~UNCHANGED buffer
      BY <1>7
    <3>. QED
      BY <3>1, <3>2, <3>3
         DEF Step, Starting, Info, Add, AddError, To, NextMessage,
             HandlerReturns, HandleFailure, Nak, Ack, Term, DeadLetterStored,
             HandlerError, DeadLetterFailed, Crash, At, Working
  <2>2. /\ buffer[r] \in Seq(Delivery) /\ buffer[r] # <<>>
        /\ buffer'[r] = Tail(buffer[r])
    BY <2>1 DEF Done, TypeOK
  <2>3. CASE i = 1
    <3>1. Current(r) = m /\ Count(r) = durable
      BY <1>5, <2>1, <2>2, <2>3, TailOfBuffer DEF Current, Count
    <3>2. ~UNCHANGED buffer /\ ~Fault
      BY <1>2, <1>7 DEF Fault
    <3>3. Ack(r) \/ Term(r) \/ (HandleFailure(r) /\ Count(r) < MaxDeliver[r])
      BY <3>2
         DEF Step, Starting, Info, Add, AddError, To, NextMessage,
             HandlerReturns, HandleFailure, DeadLetterStored, HandlerError,
             DeadLetterFailed, Crash
    <3>4. ~(Count(r) < MaxDeliver[r])
      <4>1. Bound(r)
        BY <2>1 DEF Bound, Working
      <4>. QED
        BY <1>1, <1>2, <3>1, <4>1, SizesAssumption DEF Patient
    <3>5. Current(r) \in handled \cup dlq
      BY <3>3, <3>4 DEF Ack, Term, At, LoopInv, LoopOK
    <3>. QED
      BY <1>3, <3>1, <3>5
  <2>4. CASE i # 1
    <3>1. /\ i - 1 \in DOMAIN Tail(buffer[r])
          /\ Tail(buffer[r])[i - 1] = buffer[r][i]
      BY <2>1, <2>2, <2>4, TailOfBuffer
    <3>. QED
      BY <1>2, <1>5, <2>1, <2>2, <3>1 DEF HeldLast
  <2>. QED
    BY <2>3, <2>4
<1>. QED
  BY <1>6, <1>7

LEMMA LastStep == TypeOK /\ LoopInv /\ LastInv /\ [Next]_vars => LastInv'
<1>. SUFFICES ASSUME TypeOK, LoopInv, LastInv, [Next]_vars PROVE LastInv'
  OBVIOUS
<1>1. ASSUME NEW r \in Replicas, Step(r) PROVE LastInv'
  BY <1>1, LastOfReplica DEF LastInv
<1>2. ASSUME NEW r \in Replicas, NEW m \in Messages, Deliver(r, m)
      PROVE LastInv'
  <2>. SUFFICES ASSUME Patient', NEW n \in Messages, delivered'[n] > 0,
                       delivered'[n] = durable', n \notin handled' \cup dlq'
                PROVE  HeldLast(n)'
    BY DEF LastInv
  <2>1. Patient /\ UNCHANGED <<durable, handled, dlq>>
    BY <1>2 DEF Deliver, Patient, Bound
  <2>2. CASE n = m
    <3>1. PICK i \in DOMAIN buffer'[r] :
            buffer'[r][i] = [msg |-> m, count |-> delivered[m] + 1]
      BY <1>2, DeliverEffect
    <3>2. delivered'[m] = delivered[m] + 1
      BY <1>2, DeliverEffect
    <3>. QED
      BY <2>1, <2>2, <3>1, <3>2 DEF HeldLast
  <2>3. CASE n # m
    <3>1. delivered'[n] = delivered[n]
      <4>1. \A k \in Messages \ {m} : delivered'[k] = delivered[k]
        BY <1>2, DeliverEffect
      <4>. QED
        BY <2>3, <4>1
    <3>2. PICK q \in Replicas : \E i \in DOMAIN buffer[q] :
            buffer[q][i].msg = n /\ buffer[q][i].count = durable
      BY <2>1, <3>1 DEF LastInv, HeldLast
    <3>3. PICK i \in DOMAIN buffer[q] :
            buffer[q][i].msg = n /\ buffer[q][i].count = durable
      BY <3>2
    <3>4. i \in DOMAIN buffer'[q] /\ buffer'[q][i] = buffer[q][i]
      BY <1>2, DeliverEffect
    <3>. QED
      BY <2>1, <3>3, <3>4 DEF HeldLast
  <2>. QED
    BY <2>2, <2>3
<1>3. ASSUME NEW m \in Messages, Expire(m) PROVE LastInv'
  BY <1>3 DEF Expire, Requeue, LastInv, Patient, Bound, HeldLast
<1>4. CASE UNCHANGED vars
  BY <1>4 DEF vars, server, LastInv, Patient, Bound, HeldLast
<1>. QED
  BY <1>1, <1>2, <1>3, <1>4 DEF Next, Processing, HandlerThrows, Step

\* Expiry, overlap and the sharing between replicas never lose a message as
\* long as nothing fails and nobody expects more deliveries than there are:
\* the replica that has the last one does not answer before it has decided.
THEOREM AbandonmentsAreExplained == Spec => []AbandonmentIsExplained
<1>1. Init => LastInv
  BY DEF Init, LastInv
<1>2. TypeOK /\ LastInv => AbandonmentIsExplained
  <2>1. TypeOK => /\ faults \in Nat /\ durable \in Nat
                  /\ \A r \in Replicas : MaxDeliver[r] \in Nat
    BY SizesAssumption DEF TypeOK
  <2>. QED
    BY <2>1
       DEF LastInv, Patient, HeldLast, AbandonmentIsExplained, Abandoned, Held
<1>. QED
  BY <1>1, <1>2, TypeInit, NextMoves, TypeStep, LoopInit, LoopStep, LastStep,
     PTL DEF Spec
=============================================================================
