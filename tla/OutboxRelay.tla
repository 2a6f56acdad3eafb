---------------------------- MODULE OutboxRelay ----------------------------
(***************************************************************************)
(* The transactional outbox of the user service and the relays that empty  *)
(* it into JetStream: OutboxRepository (outbox.repository.ts), OutboxRelay *)
(* (outbox.relay.ts) and the insert of UserRepository.createUser.          *)
(*                                                                         *)
(* Every replica of the service runs one relay, a worker.  All workers     *)
(* share the table `row' and coordinate only by its lease columns.  A step *)
(* of a worker is one statement or one publish, that is, what happens      *)
(* between two `await's.                                                   *)
(*                                                                         *)
(* Time is relative: an instant is an integer counted from the present,    *)
(* which is 0, and Tick moves every recorded instant one unit into the     *)
(* past, down to -Horizon, beyond which no comparison of the code can tell *)
(* two instants apart.  The clock of a worker reads Skew[w] at the present.*)
(*                                                                         *)
(* An event is named by its rank in createdAt order, so `older' is <.      *)
(* Transactions overlap, hence rows may appear in another order.           *)
(***************************************************************************)
EXTENDS Integers, FiniteSets

CONSTANTS
    Workers,        \* relay identities (randomUUID); a restart takes a new one
    Events,         \* outbox events, a finite set of naturals
    Mortal,         \* the workers that may crash or be told to stop
    Poison,         \* events that JetStream never accepts
    BatchSize,      \* config.batchSize
    CleanupBatch,   \* config.cleanupBatchSize
    LockTimeout,    \* config.lockTimeoutMs
    Retention,      \* config.publishedRetentionMs
    FirstDelay,     \* 1_000 in retryDelay: the delay after the first failure
    MaxExponent,    \* 10 in retryDelay: the delay doubles no oftener
    MaxRetryDelay,  \* MAX_RETRY_DELAY_MS
    Skew,           \* Skew[w]: how far the clock of w is ahead
    MaxSkew,        \* the largest skew
    MaxCallTicks,   \* bound: clock reading to last statement that uses it
    MaxBatchTicks,  \* bound: claim to last mark of a batch
    MaxFaults,      \* bound: crashes, publish errors and database errors
    Horizon,        \* bound: how far into the past instants are told apart
    NULL

ASSUME SetsAssumption ==
    /\ Events \subseteq Nat /\ IsFiniteSet(Events)
    /\ Mortal \subseteq Workers
    /\ Poison \subseteq Events
ASSUME SizesAssumption ==
    /\ BatchSize \in Nat \ {0} /\ CleanupBatch \in Nat \ {0}
    /\ LockTimeout \in Nat \ {0} /\ Retention \in Nat \ {0}
    /\ MaxCallTicks \in Nat /\ MaxBatchTicks \in Nat /\ MaxFaults \in Nat
ASSUME ClockAssumption ==
    /\ MaxSkew \in Nat
    /\ Skew \in [Workers -> 0..MaxSkew]
    /\ Horizon \in Nat
    /\ Horizon > LockTimeout + MaxCallTicks
    /\ Horizon > Retention
ASSUME BackoffAssumption ==
    /\ FirstDelay \in Nat \ {0} /\ MaxRetryDelay \in Nat \ {0}
    /\ MaxExponent \in Nat
\* Arithmetic the provers do not know.
ASSUME PowersAssumption == \A k \in 0..MaxExponent : 2^k \in Nat \ {0}

\* The retry delay is constant from here on, so attempts are counted to here.
MaxAttempts == MaxExponent + 1

Time == (-Horizon)..(MaxSkew + MaxRetryDelay)
Row == [publishedAt : Time \cup {NULL}, nextAttemptAt : Time,
        attempts : 0..MaxAttempts,
        lockedAt : Time \cup {NULL}, lockedBy : Workers \cup {NULL}]
ClaimedOutboxEvent == [id : Events, attempts : 0..MaxAttempts]

ASSUME NullAssumption ==
    NULL \notin Int /\ NULL \notin Workers /\ NULL \notin Row

VARIABLES
    row,      \* outbox_events: the row of an event, or NULL
    stored,   \* the events the JetStream stream has accepted
    pc,       \* where each worker is
    aborted,  \* the AbortSignal of each worker
    stamp,    \* `now' of the claim a worker is in, or whose batch it holds
    cand,     \* the candidates of claimBatch still to be leased
    batch,    \* the claimed events still to be published and marked
    faults    \* how many faults have happened

vars == <<row, stored, pc, aborted, stamp, cand, batch, faults>>

TypeOK ==
    /\ row \in [Events -> Row \cup {NULL}]
    /\ stored \subseteq Events
    /\ pc \in [Workers -> {"new", "poll", "wait", "claim", "publish", "mark",
                          "fail", "stopped", "dead"}]
    /\ aborted \in [Workers -> BOOLEAN]
    /\ stamp \in [Workers -> Time]
    /\ cand \in [Workers -> SUBSET ClaimedOutboxEvent]
    /\ batch \in [Workers -> SUBSET ClaimedOutboxEvent]
    /\ faults \in 0..MaxFaults

Init ==
    /\ row = [e \in Events |-> NULL]
    /\ stored = {}
    /\ pc = [w \in Workers |-> "new"]
    /\ aborted = [w \in Workers |-> FALSE]
    /\ stamp = [w \in Workers |-> 0]
    /\ cand = [w \in Workers |-> {}]
    /\ batch = [w \in Workers |-> {}]
    /\ faults = 0

-----------------------------------------------------------------------------
\* What `new Date()' returned to w, at most MaxCallTicks before its use.
Readings(w) == {Skew[w] - lag : lag \in 0..MaxCallTicks}

\* Mutant: the lease is not looked at.
Claimable_NoLease(e, now) ==
    /\ row[e] # NULL
    /\ row[e].publishedAt = NULL
    /\ row[e].nextAttemptAt <= now

\* Mutant: the filter forgets the time of the next attempt.
Claimable_NotDue(e, now) ==
    /\ row[e] # NULL
    /\ row[e].publishedAt = NULL
    /\ row[e].lockedAt # NULL => row[e].lockedAt < now - LockTimeout

\* The row filter of claimBatch, used by the select and by every update.
Claimable(e, now) ==
    /\ row[e] # NULL
    /\ row[e].publishedAt = NULL
    /\ row[e].nextAttemptAt <= now
    /\ row[e].lockedAt # NULL => row[e].lockedAt < now - LockTimeout

\* The row filter of markPublished and markFailed.
Owned(e, w) ==
    /\ row[e] # NULL
    /\ row[e].publishedAt = NULL
    /\ row[e].lockedBy = w

\* ORDER BY createdAt ASC LIMIT n
Oldest(S, n) == {e \in S : Cardinality({f \in S : f <= e}) <= n}

IsFirst(c, S) == c \in S /\ \A d \in S : c.id <= d.id

Lesser(m, n) == IF m < n THEN m ELSE n

\* Mutant: the exponential delay without MAX_RETRY_DELAY_MS.
RetryDelay_NoCap(n) == FirstDelay * 2^Lesser(n - 1, MaxExponent)

\* The delay before the next attempt, after n of them have failed.
RetryDelay(n) ==
    Lesser(FirstDelay * 2^Lesser(n - 1, MaxExponent), MaxRetryDelay)

Running(w) == pc[w] \notin {"new", "stopped", "dead"}
\* Before an iteration: wait() ends when its timer fires or the signal does.
AtHead(w) == pc[w] \in {"poll", "wait"}
Busy(w) == pc[w] \in {"publish", "mark", "fail"}

Fault == faults < MaxFaults /\ faults' = faults + 1

-----------------------------------------------------------------------------
(* Writes to one row: the data of the updates                              *)

Lease(e, w) == row' = [row EXCEPT ![e].lockedAt = stamp[w],
                                  ![e].lockedBy = w]

RecordPublished(e, now) == row' = [row EXCEPT ![e].publishedAt = now,
                                              ![e].lockedAt = NULL,
                                              ![e].lockedBy = NULL]

\* Mutant: the refused row is available again at once.
RecordFailed_AtOnce(e, retryAt) ==
    row' = [row EXCEPT ![e].attempts = IF @ < MaxAttempts THEN @ + 1 ELSE @,
                       ![e].lockedAt = NULL,
                       ![e].lockedBy = NULL]

RecordFailed(e, retryAt) ==
    row' = [row EXCEPT ![e].attempts = IF @ < MaxAttempts THEN @ + 1 ELSE @,
                       ![e].nextAttemptAt = retryAt,
                       ![e].lockedAt = NULL,
                       ![e].lockedBy = NULL]

(* Moves of one worker's control                                           *)

\* The iteration ends, and whatever the worker held is forgotten.
Leave(w, label) ==
    /\ pc' = [pc EXCEPT ![w] = label]
    /\ stamp' = [stamp EXCEPT ![w] = 0]
    /\ cand' = [cand EXCEPT ![w] = {}]
    /\ batch' = [batch EXCEPT ![w] = {}]

\* After a batch the next iteration begins at once, after an error or without
\* work the worker waits first.
ToPoll(w) == Leave(w, "poll")
ToWait(w) == Leave(w, "wait")

To(w, label) ==
    /\ pc' = [pc EXCEPT ![w] = label]
    /\ UNCHANGED <<stamp, cand, batch>>

\* The for loop over the claimed events goes on behind c.
Finish(w, c) ==
    IF batch[w] = {c} THEN ToPoll(w)
    ELSE /\ pc' = [pc EXCEPT ![w] = "publish"]
         /\ batch' = [batch EXCEPT ![w] = @ \ {c}]
         /\ UNCHANGED <<stamp, cand>>

\* The for loop over the candidates goes on behind c with `claimed' leased.
Claimed(w, c, claimed) ==
    CASE cand[w] # {c} ->
            /\ cand' = [cand EXCEPT ![w] = @ \ {c}]
            /\ batch' = [batch EXCEPT ![w] = claimed]
            /\ UNCHANGED <<pc, stamp>>
      [] cand[w] = {c} /\ claimed # {} ->
            /\ cand' = [cand EXCEPT ![w] = {}]
            /\ batch' = [batch EXCEPT ![w] = claimed]
            /\ pc' = [pc EXCEPT ![w] = "publish"]
            /\ UNCHANGED stamp
      [] OTHER -> ToWait(w)

-----------------------------------------------------------------------------
(* The service                                                             *)

\* createUser commits the user and the event in one transaction.
CreateUser(e) ==
    /\ row[e] = NULL /\ e \notin stored
    /\ row' = [row EXCEPT ![e] =
                 [publishedAt |-> NULL, nextAttemptAt |-> 0, attempts |-> 0,
                  lockedAt |-> NULL, lockedBy |-> NULL]]
    /\ UNCHANGED <<stored, pc, aborted, stamp, cand, batch, faults>>

Start(w) ==
    /\ pc[w] = "new"
    /\ ToPoll(w)
    /\ UNCHANGED <<row, stored, aborted, faults>>

\* The AbortController fires; the loop sees it only at its head.
Stop(w) ==
    /\ w \in Mortal /\ Running(w) /\ ~aborted[w]
    /\ aborted' = [aborted EXCEPT ![w] = TRUE]
    /\ UNCHANGED <<row, stored, pc, stamp, cand, batch, faults>>

StopReturns(w) ==
    /\ AtHead(w) /\ aborted[w]
    /\ To(w, "stopped")
    /\ UNCHANGED <<row, stored, aborted, faults>>


\* The process dies.  Only the table and the stream keep their contents.
Crash(w) ==
    /\ w \in Mortal /\ Running(w)
    /\ Fault
    /\ pc' = [pc EXCEPT ![w] = "dead"]
    /\ aborted' = [aborted EXCEPT ![w] = FALSE]
    /\ stamp' = [stamp EXCEPT ![w] = 0]
    /\ cand' = [cand EXCEPT ![w] = {}]
    /\ batch' = [batch EXCEPT ![w] = {}]
    /\ UNCHANGED <<row, stored>>

-----------------------------------------------------------------------------
(* claimBatch                                                              *)

\* Mutant: the loop does not look at the signal.
SelectCandidates_NoSignal(w) ==
    /\ AtHead(w)
    /\ \E now \in Readings(w) :
         LET found == Oldest({e \in Events : Claimable(e, now)}, BatchSize)
         IN  /\ found # {}
             /\ stamp' = [stamp EXCEPT ![w] = now]
             /\ cand' = [cand EXCEPT ![w] =
                  {[id |-> e, attempts |-> row[e].attempts] : e \in found}]
    /\ pc' = [pc EXCEPT ![w] = "claim"]
    /\ UNCHANGED <<row, stored, aborted, batch, faults>>

\* The select finds candidates to lease.
SelectCandidates(w) ==
    /\ AtHead(w) /\ ~aborted[w]
    /\ \E now \in Readings(w) :
         LET found == Oldest({e \in Events : Claimable(e, now)}, BatchSize)
         IN  /\ found # {}
             /\ stamp' = [stamp EXCEPT ![w] = now]
             /\ cand' = [cand EXCEPT ![w] =
                  {[id |-> e, attempts |-> row[e].attempts] : e \in found}]
    /\ pc' = [pc EXCEPT ![w] = "claim"]
    /\ UNCHANGED <<row, stored, aborted, batch, faults>>

\* The select finds nothing to do.  After a wait this is no step: the worker
\* waits again.
SelectNothing(w) ==
    /\ pc[w] = "poll" /\ ~aborted[w]
    /\ \E now \in Readings(w) : \A e \in Events : ~Claimable(e, now)
    /\ To(w, "wait")
    /\ UNCHANGED <<row, stored, aborted, faults>>

SelectError(w) ==
    /\ AtHead(w) /\ ~aborted[w]
    /\ Fault
    /\ To(w, "wait")
    /\ UNCHANGED <<row, stored, aborted>>

\* Mutant: the update of a candidate repeats none of the select's conditions.
ClaimCandidate_ById(w, c) ==
    /\ pc[w] = "claim" /\ IsFirst(c, cand[w])
    /\ row[c.id] # NULL
    /\ Lease(c.id, w)
    /\ Claimed(w, c, batch[w] \cup {c})
    /\ UNCHANGED <<stored, aborted, faults>>

\* One conditional update: it leases the row only if its filter still holds.
ClaimCandidate(w, c) ==
    /\ pc[w] = "claim" /\ IsFirst(c, cand[w])
    /\ \/ /\ Claimable(c.id, stamp[w])
          /\ Lease(c.id, w)
          /\ Claimed(w, c, batch[w] \cup {c})
       \/ /\ ~Claimable(c.id, stamp[w])
          /\ Claimed(w, c, batch[w])
          /\ UNCHANGED row
    /\ UNCHANGED <<stored, aborted, faults>>

\* The update fails, before or after the database applied it: claimBatch
\* throws and the worker forgets the rows it has leased so far.
ClaimError(w, c) ==
    /\ pc[w] = "claim" /\ IsFirst(c, cand[w])
    /\ Fault
    /\ \/ Claimable(c.id, stamp[w]) /\ Lease(c.id, w)
       \/ UNCHANGED row
    /\ ToWait(w)
    /\ UNCHANGED <<stored, aborted>>

-----------------------------------------------------------------------------
(* publish                                                                 *)

PublishAcked(w, c) ==
    /\ pc[w] = "publish" /\ IsFirst(c, batch[w])
    /\ c.id \notin Poison
    /\ stored' = stored \cup {c.id}
    /\ To(w, "mark")
    /\ UNCHANGED <<row, aborted, faults>>

\* Mutant: a publish that timed out is taken for an acknowledged one.
PublishFailed_Ignored(w, c) ==
    /\ pc[w] = "publish" /\ IsFirst(c, batch[w])
    /\ Fault
    /\ To(w, "mark")
    /\ UNCHANGED <<row, stored, aborted>>

\* The publish is refused, or times out with or without the event stored.
PublishFailed(w, c) ==
    /\ pc[w] = "publish" /\ IsFirst(c, batch[w])
    /\ \/ c.id \in Poison /\ UNCHANGED <<stored, faults>>
       \/ c.id \notin Poison /\ Fault /\ UNCHANGED stored
       \/ c.id \notin Poison /\ Fault /\ stored' = stored \cup {c.id}
    /\ To(w, "fail")
    /\ UNCHANGED <<row, aborted>>

MarkPublished(w, c) ==
    /\ pc[w] = "mark" /\ IsFirst(c, batch[w])
    /\ \/ /\ Owned(c.id, w)
          /\ \E now \in Readings(w) : RecordPublished(c.id, now)
          /\ Finish(w, c)
       \/ /\ ~Owned(c.id, w)              \* the lease was lost: it throws
          /\ To(w, "fail")
          /\ UNCHANGED row
    /\ UNCHANGED <<stored, aborted, faults>>

MarkPublishedError(w, c) ==
    /\ pc[w] = "mark" /\ IsFirst(c, batch[w])
    /\ Fault
    /\ \/ /\ Owned(c.id, w)
          /\ \E now \in Readings(w) : RecordPublished(c.id, now)
       \/ UNCHANGED row
    /\ To(w, "fail")
    /\ UNCHANGED <<stored, aborted>>

\* markFailed runs in the catch block.  When it throws in turn, publish
\* throws and the worker abandons the rest of its batch.
MarkFailed(w, c) ==
    /\ pc[w] = "fail" /\ IsFirst(c, batch[w])
    /\ \/ /\ Owned(c.id, w)
          /\ \E now \in Readings(w) :
                RecordFailed(c.id, now + RetryDelay(c.attempts + 1))
          /\ Finish(w, c)
       \/ /\ ~Owned(c.id, w)
          /\ ToWait(w)
          /\ UNCHANGED row
    /\ UNCHANGED <<stored, aborted, faults>>

MarkFailedError(w, c) ==
    /\ pc[w] = "fail" /\ IsFirst(c, batch[w])
    /\ Fault
    /\ \/ /\ Owned(c.id, w)
          /\ \E now \in Readings(w) :
                RecordFailed(c.id, now + RetryDelay(c.attempts + 1))
       \/ UNCHANGED row
    /\ ToWait(w)
    /\ UNCHANGED <<stored, aborted>>

-----------------------------------------------------------------------------
\* Mutant: the cleanup goes by the age of a row and deletes pending ones.
DeletePublishedBefore_AnyRow(w) ==
    /\ Running(w)
    /\ \E e \in Events :
         /\ row[e] # NULL /\ row[e].nextAttemptAt < Skew[w] - Retention
         /\ row' = [row EXCEPT ![e] = NULL]
    /\ UNCHANGED <<stored, pc, aborted, stamp, cand, batch, faults>>

\* One batch of a cleanup run: the oldest rows published before the cutoff.
\* The cutoff may be an old one, so any number of them may be past it.  The
\* delete repeats the filter of the select before it, which no other statement
\* changes for a published row: the two are one step.
DeletePublishedBefore(w) ==
    /\ Running(w)
    /\ \E gone \in SUBSET {e \in Events :
                             /\ row[e] # NULL /\ row[e].publishedAt # NULL
                             /\ row[e].publishedAt < Skew[w] - Retention} :
         /\ gone # {} /\ Cardinality(gone) <= CleanupBatch
         /\ row' = [e \in Events |-> IF e \in gone THEN NULL ELSE row[e]]
    /\ UNCHANGED <<stored, pc, aborted, stamp, cand, batch, faults>>

Aged(t) == IF t = NULL \/ t = -Horizon THEN t ELSE t - 1

\* The clock is read in the turn of the event loop that ends a batch or a
\* wait.  A claim uses its reading for at most MaxCallTicks, and a worker holds
\* a batch for at most MaxBatchTicks.
MayTick(w) ==
    /\ pc[w] # "poll"
    /\ pc[w] = "claim" => Skew[w] - stamp[w] < MaxCallTicks
    /\ Busy(w) => Skew[w] - stamp[w] < MaxBatchTicks

Tick ==
    /\ \A w \in Workers : MayTick(w)
    /\ row' = [e \in Events |->
         IF row[e] = NULL THEN NULL
         ELSE [row[e] EXCEPT !.publishedAt = Aged(@),
                             !.nextAttemptAt = Aged(@),
                             !.lockedAt = Aged(@)]]
    /\ stamp' = [w \in Workers |->
         IF pc[w] = "claim" \/ Busy(w) THEN Aged(stamp[w]) ELSE stamp[w]]
    /\ UNCHANGED <<stored, pc, aborted, cand, batch, faults>>

-----------------------------------------------------------------------------
Claim(w) == \E c \in cand[w] : ClaimCandidate(w, c)

Relay(w) == \E c \in batch[w] : \/ PublishAcked(w, c)
                                \/ MarkPublished(w, c)
                                \/ MarkFailed(w, c)
                                \/ c.id \in Poison /\ PublishFailed(w, c)

Failure(w) == \/ SelectError(w)
              \/ \E c \in cand[w] : ClaimError(w, c)
              \/ \E c \in batch[w] : \/ PublishFailed(w, c)
                                     \/ MarkPublishedError(w, c)
                                     \/ MarkFailedError(w, c)
              \/ Crash(w)

Next ==
    \/ \E e \in Events : CreateUser(e)
    \/ \E w \in Workers : \/ Start(w) \/ Stop(w) \/ StopReturns(w)
                          \/ SelectCandidates(w) \/ SelectNothing(w)
                          \/ Claim(w) \/ Relay(w) \/ Failure(w)
                          \/ DeletePublishedBefore(w)
    \/ Tick

Spec == Init /\ [][Next]_vars

\* A live process keeps executing its loop, its timers fire, time passes, and
\* the deployment keeps the immortal replicas running.
Fairness ==
    /\ WF_vars(Tick)
    /\ \A w \in Workers :
         /\ WF_vars(StopReturns(w) \/ SelectCandidates(w) \/ SelectNothing(w)
                    \/ Claim(w) \/ Relay(w))
         /\ w \notin Mortal => WF_vars(Start(w))

FairSpec == Spec /\ Fairness

-----------------------------------------------------------------------------
(* What the relay must guarantee                                           *)

\* A row counts as published, or is gone, only if the stream has the event:
\* an event that was committed is never lost (publish, deletePublishedBefore).
PublishedIsStored ==
    \A e \in Events : row[e] # NULL /\ row[e].publishedAt # NULL => e \in stored

\* By no clock of the deployment has the lease of w's batch expired.
Unexpired(w) == MaxSkew - stamp[w] <= LockTimeout

Pending(e) == row[e] # NULL /\ row[e].publishedAt = NULL

\* Until its lease expires, a claimed row stays with its worker unless it is
\* published, whatever the other workers read, claim or mark in between.
LeaseHolds ==
    \A w \in Workers : \A c \in batch[w] :
        Unexpired(w) /\ Pending(c.id) =>
            row[c.id].lockedBy = w /\ row[c.id].lockedAt = stamp[w]

\* Two workers never both work on a row under unexpired leases.
LeaseExclusive ==
    \A v, w \in Workers : \A c \in batch[v], d \in batch[w] :
        c.id = d.id /\ Unexpired(v) /\ Unexpired(w) => v = w

\* A worker that owns a row knows its number of attempts, so its next retry
\* delay is the right one, although claimBatch returns what it selected and
\* not what it updated.
SnapshotIsCurrent ==
    \A w \in Workers : \A c \in batch[w] :
        Owned(c.id, w) => row[c.id].attempts = c.attempts

\* How far an event has come, read off the table and the stream.
StatusOf(e) ==
    IF row[e] = NULL THEN IF e \in stored THEN "purged" ELSE "absent"
    ELSE IF row[e].publishedAt # NULL THEN "recorded"
    ELSE IF e \in stored THEN "handed" ELSE "pending"

Handoff == INSTANCE EventHandoff WITH status <- [e \in Events |-> StatusOf(e)]

\* The relays, their leases, retries, crashes and the cleanup amount to the
\* one-way handoff of every event.
HandsOff == Handoff!Spec

\* A committed event is eventually recorded as published, although older rows
\* that JetStream refuses forever are first in every batch they are due for
\* (claimBatch's ORDER BY and LIMIT).  It needs batches that end within their
\* lease, and fewer refused rows than fill the batches of one retry delay: with
\* more of them, the first is due again before the last has had its turn.
EveryRowPublished ==
    \A e \in Events \ Poison :
        row[e] # NULL ~> row[e] = NULL \/ row[e].publishedAt # NULL

\* stop() returns: the loop leaves its batch and sees the signal.
StopCompletes ==
    \A w \in Workers : aborted[w] ~> pc[w] \in {"stopped", "dead"}

\* A worker told to stop does not leave its claimed batch while rows behind
\* the current one are leased to it (the comment in OutboxRelay.run, lines
\* 149-150).
FinishesClaimedBatch ==
    [][\A w \in Workers :
         aborted[w] /\ Busy(w) /\ pc'[w] \in {"poll", "wait"} =>
            \A c \in batch[w] : ~IsFirst(c, batch[w]) =>
                ~(row'[c.id] # NULL /\ row'[c.id].publishedAt = NULL
                  /\ row'[c.id].lockedBy = w /\ Unexpired(w))]_vars
=============================================================================
