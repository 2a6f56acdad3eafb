-------------------------- MODULE DurableConsumer --------------------------
(***************************************************************************)
(* The durable pull consumer of libs/messaging: JetStreamConsumer.start    *)
(* and the processMessages loop of each replica that binds to it.          *)
(*                                                                         *)
(* JetStream itself is external.  It keeps, per message, the number of     *)
(* deliveries and whether the message waits for one, is out for an answer  *)
(* or is settled.  An answer names the message, not the delivery: a late   *)
(* one counts.  Unanswered deliveries expire at a moment nobody can tell,  *)
(* because a replica buffers what it pulls and the backoff starts at 1s.   *)
(* Delays are not modelled: a message that waits may be due at any time.   *)
(***************************************************************************)
EXTENDS Naturals, FiniteSets, Sequences

CONSTANTS
    Messages,       \* the messages of the stream that pass the filter
    EventOf,        \* the event of each: a republished one has several
    Malformed,      \* those that decode() refuses
    Failing,        \* those whose handler always fails
    Replicas,       \* the processes that share the durable consumer
    Mortal,         \* the replicas that may crash or shut down
    MaxDeliver,     \* MaxDeliver[r]: config.maxDeliver of replica r
    MaxAckPending,  \* config.maxAckPending
    MaxFaults       \* bound: crashes, lost answers, handler and broker errors

ASSUME SetsAssumption ==
    /\ IsFiniteSet(Messages)
    /\ Malformed \subseteq Messages /\ Failing \subseteq Messages
    /\ Mortal \subseteq Replicas
    /\ DOMAIN EventOf = Messages
ASSUME SizesAssumption ==
    /\ MaxDeliver \in [Replicas -> Nat \ {0}]
    /\ MaxAckPending \in Nat \ {0}
    /\ MaxFaults \in Nat

VARIABLES
    durable,    \* max_deliver of the consumer in JetStream, 0 without one
    state,      \* each message: "waiting", "out" or "settled"
    delivered,  \* how often JetStream has delivered each message
    pc,         \* where each replica is
    buffer,     \* its pulled deliveries; the loop works on the first one
    handled,    \* the messages for which a handler has returned
    dlq,        \* the messages the dead-letter subject has stored
    faults      \* how many faults have happened

server == <<durable, state, delivered>>
vars == <<server, pc, buffer, handled, dlq, faults>>

Delivery == [msg : Messages, count : Nat \ {0}]

\* A replica works on its first delivery in these places.
Working == {"handle", "ack", "deadLetter", "preserve", "term"}

TypeOK ==
    /\ durable \in {0} \cup {MaxDeliver[r] : r \in Replicas}
    /\ state \in [Messages -> {"waiting", "out", "settled"}]
    /\ delivered \in [Messages -> 0..durable]
    /\ pc \in [Replicas -> Working \cup {"down", "add", "next"}]
    /\ buffer \in [Replicas -> Seq(Delivery)]
    /\ \A r \in Replicas :
         /\ Len(buffer[r]) <= MaxAckPending
         /\ pc[r] \in Working => buffer[r] # <<>>
         /\ \A i \in DOMAIN buffer[r] :
              buffer[r][i].count <= delivered[buffer[r][i].msg]
    /\ handled \subseteq Messages
    /\ dlq \subseteq Messages
    /\ faults \in 0..MaxFaults

Init ==
    /\ durable = 0
    /\ state = [m \in Messages |-> "waiting"]
    /\ delivered = [m \in Messages |-> 0]
    /\ pc = [r \in Replicas |-> "down"]
    /\ buffer = [r \in Replicas |-> <<>>]
    /\ handled = {}
    /\ dlq = {}
    /\ faults = 0

-----------------------------------------------------------------------------
Fault == faults < MaxFaults /\ faults' = faults + 1

To(r, label) == pc' = [pc EXCEPT ![r] = label] /\ UNCHANGED buffer

\* The loop goes on behind its first delivery.
Done(r) == /\ pc' = [pc EXCEPT ![r] = "next"]
           /\ buffer' = [buffer EXCEPT ![r] = Tail(@)]

At(r, label) == pc[r] = label
Current(r) == Head(buffer[r]).msg
Count(r) == Head(buffer[r]).count

-----------------------------------------------------------------------------
(* JetStream (external)                                                    *)

\* Delivered and neither settled nor given up: counts as pending.
Pending == {m \in Messages : /\ delivered[m] > 0 /\ state[m] # "settled"
                             /\ state[m] = "out" \/ delivered[m] < durable}

Settle(m) == /\ state' = [state EXCEPT ![m] = "settled"]
             /\ UNCHANGED <<durable, delivered>>

Requeue(m) == /\ state' = [state EXCEPT ![m] = IF @ = "out" THEN "waiting" ELSE @]
              /\ UNCHANGED <<durable, delivered>>

\* max_ack_pending holds back first deliveries, max_messages the pull.
Deliver(r, m) ==
    /\ pc[r] \in Working \cup {"next"} /\ Len(buffer[r]) < MaxAckPending
    /\ state[m] = "waiting" /\ delivered[m] < durable
    /\ delivered[m] = 0 => Cardinality(Pending) < MaxAckPending
    /\ state' = [state EXCEPT ![m] = "out"]
    /\ delivered' = [delivered EXCEPT ![m] = @ + 1]
    /\ buffer' = [buffer EXCEPT ![r] =
                    Append(@, [msg |-> m, count |-> delivered[m] + 1])]
    /\ UNCHANGED <<durable, pc, handled, dlq, faults>>

Expire(m) ==
    /\ state[m] = "out"
    /\ Requeue(m)
    /\ UNCHANGED <<pc, buffer, handled, dlq, faults>>

\* An answer is a message without reply: it arrives, or is lost.
Answer(effect) == (effect /\ UNCHANGED faults) \/ (Fault /\ UNCHANGED server)

-----------------------------------------------------------------------------
(* start, ensureDurableConsumer                                            *)

\* consumers.info: an existing consumer is used as it is, whatever its
\* max_deliver; without one, the replica goes on to consumers.add.
Info(r) ==
    /\ At(r, "down")
    /\ To(r, IF durable = 0 THEN "add" ELSE "next")
    /\ UNCHANGED <<server, handled, dlq, faults>>

\* Mutant: add overwrites the configuration of an existing consumer.
Created_Overwrites(r) == /\ durable' = MaxDeliver[r]
                         /\ UNCHANGED <<state, delivered>>

Created(r) == /\ durable' = IF durable = 0 THEN MaxDeliver[r] ELSE durable
              /\ UNCHANGED <<state, delivered>>

\* Another replica may have been first; the second info then finds it.
Add(r) ==
    /\ At(r, "add")
    /\ Created(r)
    /\ To(r, "next")
    /\ UNCHANGED <<handled, dlq, faults>>

\* The reply to add is lost; without a consumer to bind to, start throws.
AddError(r) ==
    /\ At(r, "add")
    /\ Fault
    /\ Created(r) \/ UNCHANGED server
    /\ To(r, "down") \/ (durable' # 0 /\ To(r, "next"))
    /\ UNCHANGED <<handled, dlq>>

-----------------------------------------------------------------------------
(* processMessages                                                         *)

\* Mutant: decode stands outside the try block and ends the loop.
NextMessage_DecodeEndsLoop(r) ==
    /\ At(r, "next") /\ buffer[r] # <<>>
    /\ To(r, IF Current(r) \in Malformed THEN "failed" ELSE "handle")
    /\ UNCHANGED <<server, handled, dlq, faults>>

\* Mutant: the message is acknowledged before it is handled.
NextMessage_AcksFirst(r) ==
    /\ At(r, "next") /\ buffer[r] # <<>>
    /\ Answer(Settle(Current(r)))
    /\ To(r, IF Current(r) \in Malformed THEN "preserve" ELSE "handle")
    /\ UNCHANGED <<handled, dlq>>

NextMessage(r) ==
    /\ At(r, "next") /\ buffer[r] # <<>>
    /\ To(r, IF Current(r) \in Malformed THEN "preserve" ELSE "handle")
    /\ UNCHANGED <<server, handled, dlq, faults>>

HandlerReturns(r) ==
    /\ At(r, "handle") /\ Current(r) \notin Failing
    /\ handled' = handled \cup {Current(r)}
    /\ To(r, "ack")
    /\ UNCHANGED <<server, dlq, faults>>

Ack(r) ==
    /\ At(r, "ack")
    /\ Answer(Settle(Current(r)))
    /\ Done(r)
    /\ UNCHANGED <<handled, dlq>>

\* The handler fails by itself, or because it does not have its event's claim:
\* another handler is or was at the event, or a fault has left a claim behind.
HandlerMayFail(r) ==
    LET event == EventOf[Current(r)] IN
    \/ Current(r) \in Failing
    \/ \E q \in Replicas \ {r} : At(q, "handle") /\ EventOf[Current(q)] = event
    \/ \E m \in handled : EventOf[m] = event
    \/ faults > 0

Nak(r) == Answer(Requeue(Current(r))) /\ Done(r)

\* Mutant: the limit is compared with > and never met.
HandleFailure_OffByOne(r) ==
    /\ At(r, "handle")
    /\ \/ /\ Count(r) > MaxDeliver[r]
          /\ To(r, "deadLetter") /\ UNCHANGED <<server, faults>>
       \/ Count(r) <= MaxDeliver[r] /\ Nak(r)
    /\ UNCHANGED <<handled, dlq>>

\* handleFailure up to its first await, or to its nak.
HandleFailure(r) ==
    /\ At(r, "handle")
    /\ \/ /\ Count(r) >= MaxDeliver[r]
          /\ To(r, "deadLetter") /\ UNCHANGED <<server, faults>>
       \/ Count(r) < MaxDeliver[r] /\ Nak(r)
    /\ UNCHANGED <<handled, dlq>>

HandlerThrows(r) == At(r, "handle") /\ HandlerMayFail(r) /\ HandleFailure(r)

\* The database or the channel fails under the handler.
HandlerError(r) ==
    /\ At(r, "handle")
    /\ Fault
    /\ \/ Count(r) >= MaxDeliver[r] /\ To(r, "deadLetter") /\ UNCHANGED server
       \/ Count(r) < MaxDeliver[r] /\ Requeue(Current(r)) /\ Done(r)
    /\ UNCHANGED <<handled, dlq>>

DeadLetterStored(r) ==
    /\ pc[r] \in {"deadLetter", "preserve"}
    /\ dlq' = dlq \cup {Current(r)}
    /\ To(r, "term")
    /\ UNCHANGED <<server, handled, faults>>

\* Mutant: the message is terminated although its copy was refused.
DeadLetterFailed_Terms(r) ==
    /\ pc[r] \in {"deadLetter", "preserve"}
    /\ Fault
    /\ Settle(Current(r))
    /\ Done(r)
    /\ UNCHANGED <<handled, dlq>>

\* The publish is refused or times out, perhaps with the copy stored.  The
\* nak asks for a redelivery, the last delivery included.
DeadLetterFailed(r) ==
    /\ pc[r] \in {"deadLetter", "preserve"}
    /\ Fault
    /\ UNCHANGED dlq \/ dlq' = dlq \cup {Current(r)}
    /\ Requeue(Current(r))
    /\ Done(r)
    /\ UNCHANGED handled

Term(r) ==
    /\ At(r, "term")
    /\ Answer(Settle(Current(r)))
    /\ Done(r)
    /\ UNCHANGED <<handled, dlq>>

\* The process dies, shuts down or loses its loop: the buffer is forgotten.
Crash(r) ==
    /\ r \in Mortal /\ ~At(r, "down")
    /\ Fault
    /\ pc' = [pc EXCEPT ![r] = "down"]
    /\ buffer' = [buffer EXCEPT ![r] = <<>>]
    /\ UNCHANGED <<server, handled, dlq>>

-----------------------------------------------------------------------------
Starting(r) == Info(r) \/ Add(r)

Processing(r) ==
    \/ NextMessage(r) \/ HandlerReturns(r) \/ HandlerThrows(r) \/ Ack(r)
    \/ DeadLetterStored(r) \/ Term(r)

Next ==
    \/ \E r \in Replicas :
         \/ Starting(r) \/ AddError(r)
         \/ \E m \in Messages : Deliver(r, m)
         \/ Processing(r) \/ HandlerError(r) \/ DeadLetterFailed(r)
         \/ Crash(r)
    \/ \E m \in Messages : Expire(m)

Spec == Init /\ [][Next]_vars

\* JetStream delivers and expires, and the immortal replicas keep running.
Fairness ==
    /\ WF_vars(\E r \in Replicas, m \in Messages : Deliver(r, m))
    /\ \A m \in Messages : WF_vars(Expire(m))
    /\ \A r \in Replicas : WF_vars(Processing(r))
    /\ \A r \in Replicas \ Mortal : WF_vars(Starting(r))

FairSpec == Spec /\ Fairness

-----------------------------------------------------------------------------
(* What the consumer must guarantee                                        *)

\* A message leaves the stream's pending set only when it was handled or its
\* bytes are in the dead-letter subject, malformed ones only the latter.
SettledIsAccountedFor ==
    \A m \in Messages :
        state[m] = "settled" => m \in dlq \/ (m \in handled /\ m \notin Malformed)

Held(m) == \E r \in Replicas : \E i \in DOMAIN buffer[r] : buffer[r][i].msg = m

\* JetStream will not deliver m again, nobody holds it, and it is neither
\* handled nor preserved.
Abandoned(m) ==
    /\ delivered[m] > 0 /\ delivered[m] = durable /\ state[m] = "waiting"
    /\ ~Held(m)
    /\ m \notin handled \cup dlq

Bound(r) == pc[r] \notin {"down", "add"}

\* Deliveries that expire, overlap or reach two replicas never lose a message
\* by themselves.  It takes a fault, or a replica at work that waits for more
\* deliveries than the existing durable consumer makes: ensureDurableConsumer
\* uses a consumer of any max_deliver, handleFailure counts to its own.
AbandonmentIsExplained ==
    \A m \in Messages : Abandoned(m) =>
        faults > 0 \/ \E r \in Replicas : Bound(r) /\ MaxDeliver[r] > durable

\* Every message is eventually handled, dead-lettered or abandoned.
EveryMessageEnds ==
    \A m \in Messages : <>(m \in handled \cup dlq \/ Abandoned(m))

\* An exhausted message is in the dead-letter subject (docs/architecture.md,
\* lines 123 and 124, and README.md, line 184).
ExhaustedIsPreserved == \A m \in Messages : ~Abandoned(m)
=============================================================================
