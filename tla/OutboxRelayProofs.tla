------------------------- MODULE OutboxRelayProofs -------------------------
(***************************************************************************)
(* Theorems about OutboxRelay for any number of workers and events, any    *)
(* clock skew, lease, back-off, batch size and number of faults.           *)
(***************************************************************************)
EXTENDS OutboxRelay, TLAPS

(***************************************************************************)
(* Facts about the helpers                                                 *)
(***************************************************************************)

\* A retry delay is capped, and is the first one or longer (retryDelay).
LEMMA RetryDelayRange ==
    ASSUME NEW n \in Nat \ {0}
    PROVE  /\ RetryDelay(n) \in 1..MaxRetryDelay
           /\ Lesser(FirstDelay, MaxRetryDelay) <= RetryDelay(n)
<1>. DEFINE power == 2^Lesser(n - 1, MaxExponent)
<1>1. power \in Nat \ {0}
  <2>1. Lesser(n - 1, MaxExponent) \in 0..MaxExponent
    BY BackoffAssumption DEF Lesser
  <2>. QED
    BY <2>1, PowersAssumption
<1>. HIDE DEF power
<1>2. FirstDelay * power \in Nat /\ FirstDelay <= FirstDelay * power
  BY <1>1, BackoffAssumption
<1>3. RetryDelay(n) = Lesser(FirstDelay * power, MaxRetryDelay)
  BY DEF RetryDelay, power
<1>. QED
  BY <1>2, <1>3, BackoffAssumption DEF Lesser

LEMMA AttemptsRange == MaxAttempts \in Nat \ {0}
BY BackoffAssumption DEF MaxAttempts

\* A clock reading is at most MaxCallTicks old and at most MaxSkew ahead.
LEMMA ReadingRange ==
    ASSUME NEW w \in Workers, NEW now \in Readings(w)
    PROVE  now \in Time /\ now <= Skew[w] /\ Skew[w] - MaxCallTicks <= now
<1>1. PICK lag \in 0..MaxCallTicks : now = Skew[w] - lag
  BY DEF Readings
<1>2. Skew[w] \in 0..MaxSkew
  BY ClockAssumption
<1>. QED
  BY <1>1, <1>2, ClockAssumption, SizesAssumption, BackoffAssumption DEF Time

\* Ageing keeps an instant an instant and never moves it forward.
LEMMA AgedRange ==
    /\ Aged(NULL) = NULL
    /\ \A t \in Time : Aged(t) \in Time /\ Aged(t) <= t /\ t - 1 <= Aged(t)
    /\ \A t \in Time \cup {NULL} : Aged(t) = NULL <=> t = NULL
BY ClockAssumption, BackoffAssumption, NullAssumption DEF Aged, Time

LEMMA TimeFacts ==
    /\ 0 \in Time /\ Time \subseteq Int /\ NULL \notin Time
    /\ \A w \in Workers : \A now \in Readings(w) : \A n \in Nat \ {0} :
          now + RetryDelay(n) \in Time
<1>1. 0 \in Time /\ Time \subseteq Int /\ NULL \notin Time
  BY ClockAssumption, BackoffAssumption, NullAssumption DEF Time
<1>2. ASSUME NEW w \in Workers, NEW now \in Readings(w), NEW n \in Nat \ {0}
      PROVE  now + RetryDelay(n) \in Time
  <2>1. now \in Time /\ now <= Skew[w] /\ Skew[w] \in 0..MaxSkew
    BY ReadingRange, ClockAssumption
  <2>2. RetryDelay(n) \in 1..MaxRetryDelay
    BY RetryDelayRange
  <2>. QED
    BY <2>1, <2>2, ClockAssumption, BackoffAssumption DEF Time
<1>. QED
  BY <1>1, <1>2

LEMMA EventsOrdered == \A e \in Events : e \in Int
<1>. Events \subseteq Nat
  BY SetsAssumption
<1>. QED
  OBVIOUS

LEMMA RowFields ==
    ASSUME NEW r \in Row
    PROVE  /\ r.publishedAt \in Time \cup {NULL} /\ r.nextAttemptAt \in Time
           /\ r.attempts \in 0..MaxAttempts
           /\ r.lockedAt \in Time \cup {NULL}
           /\ r.lockedBy \in Workers \cup {NULL}
           /\ r # NULL
BY NullAssumption DEF Row

(***************************************************************************)
(* Type correctness                                                        *)
(***************************************************************************)

\* What the three updates do to a row: no other row changes.
WritesOne(e) ==
    /\ row' \in [Events -> Row \cup {NULL}]
    /\ row'[e] \in Row
    /\ \A f \in Events \ {e} : row'[f] = row[f]

LEMMA LeaseEffect ==
    ASSUME TypeOK, NEW e \in Events, row[e] # NULL, NEW w \in Workers,
           Lease(e, w)
    PROVE  /\ WritesOne(e)
           /\ row'[e].publishedAt = row[e].publishedAt
           /\ row'[e].attempts = row[e].attempts
           /\ row'[e].nextAttemptAt = row[e].nextAttemptAt
           /\ row'[e].lockedAt = stamp[w] /\ row'[e].lockedBy = w
<1>. row[e] \in Row /\ row \in [Events -> Row \cup {NULL}] /\ stamp[w] \in Time
  BY DEF TypeOK
<1>. [row[e] EXCEPT !.lockedAt = stamp[w], !.lockedBy = w] \in Row
  BY DEF Row
<1>. QED
  BY DEF Lease, WritesOne, Row

LEMMA RecordPublishedEffect ==
    ASSUME TypeOK, NEW e \in Events, row[e] # NULL, NEW now \in Time,
           RecordPublished(e, now)
    PROVE  /\ WritesOne(e)
           /\ row'[e].publishedAt = now
           /\ row'[e].lockedAt = NULL /\ row'[e].lockedBy = NULL
<1>. row[e] \in Row /\ row \in [Events -> Row \cup {NULL}]
  BY DEF TypeOK
<1>. [row[e] EXCEPT !.publishedAt = now, !.lockedAt = NULL,
                    !.lockedBy = NULL] \in Row
  BY DEF Row
<1>. QED
  BY DEF RecordPublished, WritesOne, Row

LEMMA RecordFailedEffect ==
    ASSUME TypeOK, NEW e \in Events, row[e] # NULL, NEW retryAt \in Time,
           RecordFailed(e, retryAt)
    PROVE  /\ WritesOne(e)
           /\ row'[e].publishedAt = row[e].publishedAt
           /\ row'[e].nextAttemptAt = retryAt
           /\ row'[e].lockedAt = NULL /\ row'[e].lockedBy = NULL
<1>1. row[e] \in Row /\ row \in [Events -> Row \cup {NULL}]
  BY DEF TypeOK
<1>. DEFINE more == IF row[e].attempts < MaxAttempts THEN row[e].attempts + 1
                                                    ELSE row[e].attempts
<1>2. more \in 0..MaxAttempts
  BY <1>1, RowFields, AttemptsRange
<1>3. [row[e] EXCEPT !.attempts = more, !.nextAttemptAt = retryAt,
                     !.lockedAt = NULL, !.lockedBy = NULL] \in Row
  BY <1>1, <1>2 DEF Row
<1>. QED
  <2>. DEFINE new == [row[e] EXCEPT !.attempts = more, !.nextAttemptAt = retryAt,
                                    !.lockedAt = NULL, !.lockedBy = NULL]
  <2>1. row' = [row EXCEPT ![e] = new]
    BY <1>1 DEF RecordFailed
  <2>2. /\ new.publishedAt = row[e].publishedAt /\ new.nextAttemptAt = retryAt
        /\ new.lockedAt = NULL /\ new.lockedBy = NULL
    BY <1>1 DEF Row
  <2>3. new \in Row
    BY <1>3
  <2>. HIDE DEF new
  <2>. QED
    BY <1>1, <2>1, <2>2, <2>3 DEF WritesOne

\* A tick ages every instant of every row and changes nothing else.
LEMMA TickEffect ==
    ASSUME TypeOK, Tick, NEW e \in Events
    PROVE  /\ row[e] = NULL <=> row'[e] = NULL
           /\ row[e] # NULL =>
                /\ row[e] \in Row /\ row'[e] \in Row
                /\ row'[e].publishedAt = Aged(row[e].publishedAt)
                /\ row'[e].nextAttemptAt = Aged(row[e].nextAttemptAt)
                /\ row'[e].lockedAt = Aged(row[e].lockedAt)
                /\ row'[e].lockedBy = row[e].lockedBy
                /\ row'[e].attempts = row[e].attempts
                /\ row'[e].publishedAt = NULL <=> row[e].publishedAt = NULL
<1>1. CASE row[e] = NULL
  BY <1>1 DEF Tick
<1>2. CASE row[e] # NULL
  <2>. DEFINE older(r) == [r EXCEPT !.publishedAt = Aged(r.publishedAt),
                                    !.nextAttemptAt = Aged(r.nextAttemptAt),
                                    !.lockedAt = Aged(r.lockedAt)]
  <2>1. row[e] \in Row
    BY <1>2 DEF TypeOK
  <2>2. row'[e] = older(row[e])
    BY <1>2 DEF Tick
  <2>3. older(row[e]) \in Row
    BY <2>1, AgedRange DEF Row
  <2>4. /\ older(row[e]).publishedAt = Aged(row[e].publishedAt)
        /\ older(row[e]).nextAttemptAt = Aged(row[e].nextAttemptAt)
        /\ older(row[e]).lockedAt = Aged(row[e].lockedAt)
        /\ older(row[e]).lockedBy = row[e].lockedBy
        /\ older(row[e]).attempts = row[e].attempts
    BY <2>1 DEF Row
  <2>5. Aged(row[e].publishedAt) = NULL <=> row[e].publishedAt = NULL
    BY <2>1, RowFields, AgedRange
  <2>. HIDE DEF older
  <2>. QED
    BY <1>2, <2>1, <2>2, <2>3, <2>4, <2>5, NullAssumption
<1>. QED
  BY <1>1, <1>2

\* Where a worker goes next is a place, and what it holds were candidates.
ControlOK ==
    /\ pc \in [Workers -> {"new", "poll", "wait", "claim", "publish", "mark",
                           "fail", "stopped", "dead"}]
    /\ stamp \in [Workers -> Time]
    /\ cand \in [Workers -> SUBSET ClaimedOutboxEvent]
    /\ batch \in [Workers -> SUBSET ClaimedOutboxEvent]

LEMMA MovesKeepControl ==
    ASSUME TypeOK, NEW w \in Workers, NEW c \in ClaimedOutboxEvent
    PROVE  /\ ToPoll(w) \/ ToWait(w) => ControlOK'
           /\ \A label \in {"mark", "fail", "stopped", "wait"} :
                To(w, label) => ControlOK'
           /\ Finish(w, c) => ControlOK'
           /\ \A claimed \in SUBSET ClaimedOutboxEvent :
                Claimed(w, c, claimed) => ControlOK'
<1>1. ToPoll(w) \/ ToWait(w) => ControlOK'
  BY TimeFacts DEF ToPoll, ToWait, Leave, ControlOK, TypeOK
<1>2. ASSUME NEW claimed \in SUBSET ClaimedOutboxEvent, Claimed(w, c, claimed)
      PROVE  ControlOK'
  <2>1. CASE cand[w] # {c}
    BY <1>2, <2>1 DEF Claimed, ControlOK, TypeOK
  <2>2. CASE cand[w] = {c} /\ claimed # {}
    BY <1>2, <2>2 DEF Claimed, ControlOK, TypeOK
  <2>3. CASE cand[w] = {c} /\ claimed = {}
    BY <1>1, <1>2, <2>3 DEF Claimed
  <2>. QED
    BY <2>1, <2>2, <2>3
<1>3. Finish(w, c) => ControlOK'
  BY <1>1 DEF Finish, ControlOK, TypeOK
<1>4. \A label \in {"mark", "fail", "stopped", "wait"} : To(w, label) => ControlOK'
  BY DEF To, ControlOK, TypeOK
<1>. QED
  BY <1>1, <1>2, <1>3, <1>4

\* The moves of a worker that has claimed nothing.
Pauses(w) == StopReturns(w) \/ SelectNothing(w) \/ SelectError(w)

\* One conjunct of TypeOK for each kind of variable.
TableOK ==
    /\ row \in [Events -> Row \cup {NULL}]
    /\ stored \subseteq Events
SwitchesOK ==
    /\ aborted \in [Workers -> BOOLEAN]
    /\ faults \in 0..MaxFaults

LEMMA TypeParts == TypeOK <=> TableOK /\ ControlOK /\ SwitchesOK
BY DEF TypeOK, TableOK, ControlOK, SwitchesOK

LEMMA FaultType == TypeOK /\ Fault => faults' \in 0..MaxFaults
BY SizesAssumption DEF TypeOK, Fault

LEMMA TypeStep == TypeOK /\ [Next]_vars => TypeOK'
<1>. SUFFICES ASSUME TypeOK, [Next]_vars
              PROVE TableOK' /\ ControlOK' /\ SwitchesOK'
  BY DEF TypeOK, TableOK, ControlOK, SwitchesOK
<1>0. TableOK /\ ControlOK /\ SwitchesOK
  BY TypeParts
<1>1. ASSUME NEW e \in Events, CreateUser(e)
      PROVE  TableOK' /\ ControlOK' /\ SwitchesOK'
  <2>. [publishedAt |-> NULL, nextAttemptAt |-> 0, attempts |-> 0,
        lockedAt |-> NULL, lockedBy |-> NULL] \in Row
    BY TimeFacts, AttemptsRange DEF Row
  <2>. QED
    BY <1>0, <1>1 DEF CreateUser, TableOK, ControlOK, SwitchesOK
<1>2. ASSUME NEW w \in Workers,
             Start(w) \/ Stop(w) \/ Pauses(w) \/ Crash(w)
      PROVE  TableOK' /\ ControlOK' /\ SwitchesOK'
  <2>1. CASE Start(w)
    BY <1>0, <2>1, TimeFacts
       DEF Start, ToPoll, Leave, TableOK, ControlOK, SwitchesOK
  <2>2. CASE Stop(w)
    BY <1>0, <2>2 DEF Stop, TableOK, ControlOK, SwitchesOK
  <2>3. CASE Pauses(w)
    <3>1. To(w, "stopped") \/ To(w, "wait")
      BY <2>3 DEF Pauses, StopReturns, SelectNothing, SelectError
    <3>2. ControlOK'
      BY <1>0, <3>1 DEF To, ControlOK
    <3>3. TableOK' /\ SwitchesOK'
      BY <1>0, <2>3, FaultType
         DEF Pauses, StopReturns, SelectNothing, SelectError, TableOK,
             SwitchesOK
    <3>. QED
      BY <3>2, <3>3
  <2>4. CASE Crash(w)
    BY <1>0, <2>4, TimeFacts, FaultType
       DEF Crash, TableOK, ControlOK, SwitchesOK
  <2>. QED
    BY <1>2, <2>1, <2>2, <2>3, <2>4
<1>3. ASSUME NEW w \in Workers, SelectCandidates(w)
      PROVE  TableOK' /\ ControlOK' /\ SwitchesOK'
  <2>1. PICK now \in Readings(w) :
          LET found == Oldest({e \in Events : Claimable(e, now)}, BatchSize)
          IN  /\ stamp' = [stamp EXCEPT ![w] = now]
              /\ cand' = [cand EXCEPT ![w] =
                  {[id |-> e, attempts |-> row[e].attempts] : e \in found}]
    BY <1>3 DEF SelectCandidates
  <2>. DEFINE found == Oldest({e \in Events : Claimable(e, now)}, BatchSize)
              chosen == {[id |-> e, attempts |-> row[e].attempts] : e \in found}
  <2>2. \A e \in found : e \in Events /\ row[e] \in Row
    BY <1>0 DEF Oldest, Claimable, TableOK
  <2>3. chosen \subseteq ClaimedOutboxEvent
    <3>1. \A e \in found : row[e].attempts \in 0..MaxAttempts
      BY <2>2, RowFields
    <3>2. \A e \in found : [id |-> e, attempts |-> row[e].attempts]
                              \in ClaimedOutboxEvent
      BY <2>2, <3>1 DEF ClaimedOutboxEvent
    <3>. HIDE DEF found
    <3>. QED
      BY <3>2
  <2>4. now \in Time
    BY ReadingRange
  <2>5. ControlOK'
    BY <1>0, <1>3, <2>1, <2>3, <2>4 DEF SelectCandidates, ControlOK
  <2>. QED
    BY <1>0, <1>3, <2>5 DEF SelectCandidates, TableOK, SwitchesOK
<1>4. ASSUME NEW w \in Workers, NEW c \in cand[w],
             ClaimCandidate(w, c) \/ ClaimError(w, c)
      PROVE  TableOK' /\ ControlOK' /\ SwitchesOK'
  <2>1. c \in ClaimedOutboxEvent /\ c.id \in Events
    BY <1>0 DEF ControlOK, ClaimedOutboxEvent
  <2>2. batch[w] \in SUBSET ClaimedOutboxEvent
        /\ batch[w] \cup {c} \in SUBSET ClaimedOutboxEvent
    BY <1>0, <2>1 DEF ControlOK
  <2>3. CASE ClaimCandidate(w, c)
    <3>1. ControlOK'
      BY <2>1, <2>2, <2>3, MovesKeepControl DEF ClaimCandidate
    <3>2. TableOK'
      BY <1>0, <2>1, <2>3, LeaseEffect
         DEF ClaimCandidate, Claimable, WritesOne, TableOK
    <3>. QED
      BY <1>0, <2>3, <3>1, <3>2 DEF ClaimCandidate, SwitchesOK
  <2>4. CASE ClaimError(w, c)
    <3>1. ControlOK'
      BY <2>1, <2>4, MovesKeepControl DEF ClaimError
    <3>2. TableOK'
      BY <1>0, <2>1, <2>4, LeaseEffect
         DEF ClaimError, Claimable, WritesOne, TableOK
    <3>. QED
      BY <1>0, <2>4, <3>1, <3>2, FaultType DEF ClaimError, SwitchesOK
  <2>. QED
    BY <1>4, <2>3, <2>4
<1>5. ASSUME NEW w \in Workers, NEW c \in batch[w],
             PublishAcked(w, c) \/ PublishFailed(w, c)
      PROVE  TableOK' /\ ControlOK' /\ SwitchesOK'
  <2>1. c \in ClaimedOutboxEvent /\ c.id \in Events
    BY <1>0 DEF ControlOK, ClaimedOutboxEvent
  <2>2. ControlOK'
    BY <1>5, <2>1, MovesKeepControl DEF PublishAcked, PublishFailed
  <2>3. TableOK'
    BY <1>0, <1>5, <2>1 DEF PublishAcked, PublishFailed, TableOK
  <2>4. SwitchesOK'
    BY <1>0, <1>5, FaultType DEF PublishAcked, PublishFailed, SwitchesOK
  <2>. QED
    BY <2>2, <2>3, <2>4
<1>6. ASSUME NEW w \in Workers, NEW c \in batch[w],
             \/ MarkPublished(w, c) \/ MarkPublishedError(w, c)
             \/ MarkFailed(w, c) \/ MarkFailedError(w, c)
      PROVE  TableOK' /\ ControlOK' /\ SwitchesOK'
  <2>1. c \in ClaimedOutboxEvent /\ c.id \in Events
    BY <1>0 DEF ControlOK, ClaimedOutboxEvent
  <2>2. ControlOK'
    BY <1>6, <2>1, MovesKeepControl
       DEF MarkPublished, MarkPublishedError, MarkFailed, MarkFailedError
  <2>3. c.attempts + 1 \in Nat \ {0}
    BY <2>1, AttemptsRange DEF ClaimedOutboxEvent
  <2>4. \A now \in Readings(w) : now + RetryDelay(c.attempts + 1) \in Time
    BY <2>3, TimeFacts
  <2>5. ASSUME MarkPublished(w, c) \/ MarkPublishedError(w, c)
        PROVE  TableOK'
    <3>1. \/ UNCHANGED row
          \/ row[c.id] # NULL /\ \E now \in Time : RecordPublished(c.id, now)
      BY <2>5, ReadingRange DEF MarkPublished, MarkPublishedError, Owned
    <3>2. stored' = stored
      BY <2>5 DEF MarkPublished, MarkPublishedError
    <3>. QED
      BY <1>0, <2>1, <3>1, <3>2, RecordPublishedEffect DEF WritesOne, TableOK
  <2>6. ASSUME MarkFailed(w, c) \/ MarkFailedError(w, c)
        PROVE  TableOK'
    <3>1. \/ UNCHANGED row
          \/ /\ row[c.id] # NULL
             /\ \E retryAt \in Time : RecordFailed(c.id, retryAt)
      BY <2>4, <2>6 DEF MarkFailed, MarkFailedError, Owned
    <3>2. stored' = stored
      BY <2>6 DEF MarkFailed, MarkFailedError
    <3>. QED
      BY <1>0, <2>1, <3>1, <3>2, RecordFailedEffect DEF WritesOne, TableOK
  <2>7. SwitchesOK'
    BY <1>0, <1>6, FaultType
       DEF MarkPublished, MarkPublishedError, MarkFailed, MarkFailedError,
           SwitchesOK
  <2>. QED
    BY <1>6, <2>2, <2>5, <2>6, <2>7 
<1>7. ASSUME NEW w \in Workers, DeletePublishedBefore(w)
      PROVE  TableOK' /\ ControlOK' /\ SwitchesOK'
  BY <1>0, <1>7 DEF DeletePublishedBefore, TableOK, ControlOK, SwitchesOK
<1>8. CASE Tick
  <2>1. ASSUME NEW r \in Row
        PROVE  [r EXCEPT !.publishedAt = Aged(r.publishedAt),
                         !.nextAttemptAt = Aged(r.nextAttemptAt),
                         !.lockedAt = Aged(r.lockedAt)] \in Row
    BY AgedRange, TimeFacts DEF Row
  <2>2. TableOK'
    BY <1>0, <1>8, <2>1 DEF Tick, TableOK
  <2>3. ControlOK'
    BY <1>0, <1>8, AgedRange DEF Tick, ControlOK
  <2>. QED
    BY <1>0, <1>8, <2>2, <2>3 DEF Tick, SwitchesOK
<1>9. CASE UNCHANGED vars
  BY <1>0, <1>9 DEF vars, TableOK, ControlOK, SwitchesOK
<1>. QED
  BY <1>1, <1>2, <1>3, <1>4, <1>5, <1>6, <1>7, <1>8, <1>9
     DEF Next, Claim, Relay, Failure, Pauses

\* The table, the stream and the workers always hold values of their types,
\* with every instant within the horizon.
THEOREM TypeCorrect == Spec => []TypeOK
<1>1. Init => TypeOK
  BY TimeFacts, SizesAssumption DEF Init, TypeOK
<1>. QED
  BY <1>1, TypeStep, PTL DEF Spec

(***************************************************************************)
(* What a worker knows                                                     *)
(***************************************************************************)

\* A worker holds candidates only while it claims and a batch only until it
\* is back at the head of its loop, each event once, and its clock reading
\* is no later than its clock and, while it claims, recent.
WorkerInv ==
    \A w \in Workers :
        /\ stamp[w] <= Skew[w]
        /\ pc[w] = "claim" => Skew[w] - MaxCallTicks <= stamp[w]
        /\ pc[w] # "claim" => cand[w] = {}
        /\ pc[w] # "claim" /\ ~Busy(w) => batch[w] = {}
        /\ \A c, d \in cand[w] \cup batch[w] : c.id = d.id => c = d

LEMMA WorkerStep ==
    TypeOK /\ TypeOK' /\ WorkerInv /\ [Next]_vars => WorkerInv'
<1>. SUFFICES ASSUME TypeOK, TypeOK', WorkerInv, [Next]_vars PROVE WorkerInv'
  OBVIOUS
<1>0. /\ \A w \in Workers : Skew[w] \in 0..MaxSkew
      /\ MaxSkew \in Nat /\ MaxCallTicks \in Nat
      /\ \A w \in Workers : stamp[w] \in Int
  BY ClockAssumption, SizesAssumption, TimeFacts DEF TypeOK
<1>a. ASSUME NEW w \in Workers, ToPoll(w) \/ ToWait(w) PROVE WorkerInv'
  BY <1>0, <1>a DEF ToPoll, ToWait, Leave, WorkerInv, Busy, TypeOK
<1>1. ASSUME NEW e \in Events, CreateUser(e) PROVE WorkerInv'
  BY <1>1 DEF CreateUser, WorkerInv, Busy
<1>2. ASSUME NEW w \in Workers,
             Start(w) \/ Stop(w) \/ Pauses(w) \/ Crash(w)
      PROVE  WorkerInv'
  <2>1. CASE Start(w)
    BY <1>a, <2>1 DEF Start
  <2>2. CASE Stop(w)
    BY <2>2 DEF Stop, WorkerInv, Busy
  <2>3. CASE Pauses(w)
    BY <2>3 DEF Pauses, StopReturns, SelectNothing, SelectError, AtHead, To,
                WorkerInv, Busy, TypeOK
  <2>4. CASE Crash(w)
    BY <1>0, <2>4 DEF Crash, WorkerInv, Busy, TypeOK
  <2>. QED
    BY <1>2, <2>1, <2>2, <2>3, <2>4
<1>3. ASSUME NEW w \in Workers, SelectCandidates(w) PROVE WorkerInv'
  <2>1. PICK now \in Readings(w) :
          LET found == Oldest({e \in Events : Claimable(e, now)}, BatchSize)
          IN  /\ stamp' = [stamp EXCEPT ![w] = now]
              /\ cand' = [cand EXCEPT ![w] =
                  {[id |-> e, attempts |-> row[e].attempts] : e \in found}]
    BY <1>3 DEF SelectCandidates
  <2>2. \A c, d \in cand'[w] : c.id = d.id => c = d
    <3>. DEFINE found == Oldest({e \in Events : Claimable(e, now)}, BatchSize)
    <3>1. cand' = [cand EXCEPT ![w] =
                    {[id |-> e, attempts |-> row[e].attempts] : e \in found}]
      BY <2>1
    <3>. HIDE DEF found
    <3>2. cand'[w] = {[id |-> e, attempts |-> row[e].attempts] : e \in found}
      BY <3>1 DEF TypeOK
    <3>. QED
      BY <3>2
  <2>3. stamp'[w] = now /\ batch'[w] = {} /\ pc'[w] = "claim"
    BY <1>3, <2>1 DEF SelectCandidates, AtHead, WorkerInv, Busy, TypeOK
  <2>4. \A u \in Workers \ {w} :
            pc'[u] = pc[u] /\ stamp'[u] = stamp[u] /\ cand'[u] = cand[u]
            /\ batch'[u] = batch[u]
    BY <1>3, <2>1 DEF SelectCandidates, TypeOK
  <2>. QED
    BY <2>2, <2>3, <2>4, ReadingRange DEF WorkerInv, Busy
<1>4. ASSUME NEW w \in Workers, NEW c \in cand[w],
             ClaimCandidate(w, c) \/ ClaimError(w, c)
      PROVE  WorkerInv'
  <2>1. CASE ClaimError(w, c)
    BY <1>a, <2>1 DEF ClaimError
  <2>2. ASSUME NEW claimed \in SUBSET (batch[w] \cup {c}), pc[w] = "claim",
               Claimed(w, c, claimed)
        PROVE  WorkerInv'
    <3>1. CASE cand[w] # {c}
      BY <2>2, <3>1 DEF Claimed, WorkerInv, Busy, TypeOK
    <3>2. CASE cand[w] = {c} /\ claimed # {}
      BY <2>2, <3>2 DEF Claimed, WorkerInv, Busy, TypeOK
    <3>3. CASE cand[w] = {c} /\ claimed = {}
      BY <1>a, <2>2, <3>3 DEF Claimed
    <3>. QED
      BY <3>1, <3>2, <3>3
  <2>3. CASE ClaimCandidate(w, c)
    BY <2>2, <2>3 DEF ClaimCandidate
  <2>. QED
    BY <1>4, <2>1, <2>3
<1>5. ASSUME NEW w \in Workers, NEW c \in batch[w], Busy(w),
             ToPoll(w) \/ ToWait(w) \/ Finish(w, c) \/ To(w, "mark") \/ To(w, "fail")
      PROVE  WorkerInv'
  <2>1. CASE ToPoll(w) \/ ToWait(w)
    BY <1>a, <2>1
  <2>2. CASE Finish(w, c)
    BY <1>a, <1>5, <2>2 DEF Finish, WorkerInv, Busy, TypeOK
  <2>3. CASE To(w, "mark") \/ To(w, "fail")
    BY <1>5, <2>3 DEF To, WorkerInv, Busy, TypeOK
  <2>. QED
    BY <1>5, <2>1, <2>2, <2>3
<1>6. ASSUME NEW w \in Workers, NEW c \in batch[w],
             \/ PublishAcked(w, c) \/ PublishFailed(w, c)
             \/ MarkPublished(w, c) \/ MarkPublishedError(w, c)
             \/ MarkFailed(w, c) \/ MarkFailedError(w, c)
      PROVE  WorkerInv'
  BY <1>5, <1>6 DEF PublishAcked, PublishFailed, MarkPublished,
                    MarkPublishedError, MarkFailed, MarkFailedError, Busy
<1>7. ASSUME NEW w \in Workers, DeletePublishedBefore(w) PROVE WorkerInv'
  BY <1>7 DEF DeletePublishedBefore, WorkerInv, Busy
<1>8. CASE Tick
  <2>1. \A w \in Workers : stamp'[w] \in Int /\ stamp'[w] <= stamp[w]
                           /\ stamp'[w] >= stamp[w] - 1
    <3>1. \A w \in Workers : stamp'[w] = stamp[w] \/ stamp'[w] = Aged(stamp[w])
      BY <1>8 DEF Tick
    <3>2. \A w \in Workers : stamp[w] \in Time
      BY DEF TypeOK
    <3>3. \A w \in Workers :
             /\ Aged(stamp[w]) \in Int /\ Aged(stamp[w]) <= stamp[w]
             /\ stamp[w] - 1 <= Aged(stamp[w])
      BY <3>2, AgedRange, TimeFacts
    <3>. QED
      BY <1>0, <3>1, <3>3
  <2>2. \A w \in Workers : pc[w] = "claim" => Skew[w] - stamp[w] < MaxCallTicks
    BY <1>8 DEF Tick, MayTick
  <2>3. UNCHANGED <<pc, cand, batch>>
    BY <1>8 DEF Tick
  <2>. QED
    BY <1>0, <2>1, <2>2, <2>3 DEF WorkerInv, Busy
<1>9. CASE UNCHANGED vars
  BY <1>9 DEF vars, WorkerInv, Busy
<1>. QED
  BY <1>1, <1>2, <1>3, <1>4, <1>6, <1>7, <1>8, <1>9
     DEF Next, Claim, Relay, Failure, Pauses

(***************************************************************************)
(* How a step changes what one worker holds                                *)
(***************************************************************************)

\* Only the select adds candidates, all of them rows; only a claim moves one
\* to the batch; everything else shrinks what a worker holds.
HoldsLess(w) ==
    /\ cand'[w] \subseteq cand[w]
    /\ batch'[w] \subseteq batch[w]
    /\ batch'[w] # {} => stamp'[w] = stamp[w]
    /\ cand'[w] # {} => stamp'[w] = stamp[w]
    /\ pc'[w] = "mark" => pc[w] = "mark" /\ batch'[w] = batch[w]

LEMMA MovesHoldLess ==
    ASSUME TypeOK, NEW w \in Workers
    PROVE  /\ ToPoll(w) \/ ToWait(w) => \A u \in Workers : HoldsLess(u)
           /\ \A label \in {"fail", "stopped", "wait"} :
                To(w, label) => \A u \in Workers : HoldsLess(u)
           /\ Pauses(w) => \A u \in Workers : HoldsLess(u)
           /\ \A c : Finish(w, c) => \A u \in Workers : HoldsLess(u)
<1>1. ToPoll(w) \/ ToWait(w) => \A u \in Workers : HoldsLess(u)
  BY DEF ToPoll, ToWait, Leave, HoldsLess, TypeOK
<1>2. ASSUME NEW c, Finish(w, c) PROVE \A u \in Workers : HoldsLess(u)
  BY <1>1, <1>2 DEF Finish, HoldsLess, TypeOK
<1>3. \A label \in {"fail", "stopped", "wait"} :
         To(w, label) => \A u \in Workers : HoldsLess(u)
  BY DEF To, HoldsLess, TypeOK
<1>4. Pauses(w) => \A u \in Workers : HoldsLess(u)
  BY <1>3 DEF Pauses, StopReturns, SelectNothing, SelectError
<1>. QED
  BY <1>1, <1>2, <1>3, <1>4

\* A claim step: the candidates shrink, the batch gets at most `claimed'.
LEMMA ClaimedHolds ==
    ASSUME TypeOK, NEW w \in Workers, NEW c, NEW claimed, pc[w] = "claim",
           Claimed(w, c, claimed)
    PROVE  /\ \A u \in Workers \ {w} : HoldsLess(u)
           /\ cand'[w] \subseteq cand[w]
           /\ batch'[w] \subseteq claimed
           /\ cand'[w] # {} \/ batch'[w] # {} => stamp'[w] = stamp[w]
           /\ pc'[w] # "mark"
<1>1. CASE cand[w] # {c}
  BY <1>1 DEF Claimed, HoldsLess, TypeOK
<1>2. CASE cand[w] = {c} /\ claimed # {}
  BY <1>2 DEF Claimed, HoldsLess, TypeOK
<1>3. CASE cand[w] = {c} /\ claimed = {}
  BY <1>3 DEF Claimed, ToPoll, ToWait, Leave, HoldsLess, TypeOK
<1>. QED
  BY <1>1, <1>2, <1>3

\* A select: new candidates are rows that are due, with their attempts.
LEMMA SelectHolds ==
    ASSUME TypeOK, WorkerInv, NEW w \in Workers, SelectCandidates(w)
    PROVE  /\ \A u \in Workers \ {w} : HoldsLess(u)
           /\ \A c \in cand'[w] : /\ row[c.id] # NULL
                                  /\ c.attempts = row[c.id].attempts
           /\ batch'[w] = {} /\ pc'[w] = "claim"
           /\ UNCHANGED <<row, stored>>
<1>1. PICK now \in Readings(w) :
        LET found == Oldest({e \in Events : Claimable(e, now)}, BatchSize)
        IN  /\ stamp' = [stamp EXCEPT ![w] = now]
            /\ cand' = [cand EXCEPT ![w] =
                {[id |-> e, attempts |-> row[e].attempts] : e \in found}]
  BY DEF SelectCandidates
<1>. DEFINE found == Oldest({e \in Events : Claimable(e, now)}, BatchSize)
<1>2. \A e \in found : row[e] # NULL
  BY DEF Oldest, Claimable
<1>3. /\ stamp' = [stamp EXCEPT ![w] = now]
      /\ cand' = [cand EXCEPT ![w] =
           {[id |-> e, attempts |-> row[e].attempts] : e \in found}]
  BY <1>1
<1>. HIDE DEF found
<1>4. \A c \in cand'[w] : row[c.id] # NULL /\ c.attempts = row[c.id].attempts
  BY <1>2, <1>3 DEF TypeOK
<1>5. \A u \in Workers \ {w} : HoldsLess(u)
  BY <1>3 DEF SelectCandidates, HoldsLess, TypeOK
<1>. QED
  BY <1>4, <1>5 DEF SelectCandidates, AtHead, WorkerInv, Busy, TypeOK

(***************************************************************************)
(* No event is lost                                                        *)
(***************************************************************************)

\* PublishedIsStored is not inductive: a row is marked on the worker's word
\* that the publish was acknowledged, and deleted on the table's word.
StoredInv ==
    /\ PublishedIsStored
    /\ \A w \in Workers : pc[w] = "mark" =>
          \A c \in batch[w] : IsFirst(c, batch[w]) => c.id \in stored
    /\ \A w \in Workers : \A c \in cand[w] \cup batch[w] :
          row[c.id] = NULL => c.id \in stored

\* A step that adds and deletes no row and marks none but stored ones.
TableSafe ==
    /\ stored \subseteq stored'
    /\ \A e \in Events :
         /\ row'[e] = NULL => row[e] = NULL \/ e \in stored
         /\ row'[e] # NULL /\ row'[e].publishedAt # NULL => e \in stored'


LEMMA TableUntouched ==
    ASSUME PublishedIsStored, row' = row, stored \subseteq stored'
    PROVE  TableSafe
BY DEF TableSafe, PublishedIsStored

LEMMA TableSafeWrites ==
    ASSUME PublishedIsStored, NEW e \in Events, WritesOne(e), stored' = stored,
           row'[e].publishedAt # NULL =>
              e \in stored
              \/ (row[e] # NULL /\ row'[e].publishedAt = row[e].publishedAt)
    PROVE  TableSafe
BY NullAssumption, RowFields DEF TableSafe, PublishedIsStored, WritesOne

\* With a safe table, shrinking what the workers hold keeps StoredInv.
LEMMA SafeSteps ==
    ASSUME StoredInv, TableSafe, TypeOK, \A u \in Workers : HoldsLess(u)
    PROVE  StoredInv'
<1>1. \A w \in Workers : \A c \in cand[w] \cup batch[w] : c.id \in Events
  BY DEF TypeOK, ClaimedOutboxEvent
<1>. QED
  BY <1>1 DEF StoredInv, PublishedIsStored, TableSafe, HoldsLess, IsFirst

LEMMA StoredStep ==
    TypeOK /\ TypeOK' /\ WorkerInv /\ StoredInv /\ [Next]_vars => StoredInv'
<1>. SUFFICES ASSUME TypeOK, TypeOK', WorkerInv, StoredInv, [Next]_vars
              PROVE  StoredInv'
  OBVIOUS
<1>0. /\ PublishedIsStored
      /\ \A w \in Workers : \A c \in cand[w] : c.id \in Events
      /\ \A w \in Workers : \A c \in batch[w] : c.id \in Events
  BY DEF TypeOK, ClaimedOutboxEvent, StoredInv
<1>1. ASSUME NEW e \in Events, CreateUser(e) PROVE StoredInv'
  BY <1>1, NullAssumption DEF CreateUser, StoredInv, PublishedIsStored, TypeOK
<1>2. ASSUME NEW w \in Workers,
             Start(w) \/ Stop(w) \/ Pauses(w) \/ Crash(w)
      PROVE  StoredInv'
  <2>1. TableSafe
    BY <1>0, <1>2, TableUntouched
       DEF Start, Stop, Pauses, StopReturns, SelectNothing, SelectError, Crash
  <2>2. \A u \in Workers : HoldsLess(u)
    BY <1>2, MovesHoldLess
       DEF Start, Stop, Crash, HoldsLess, TypeOK
  <2>. QED
    BY <2>1, <2>2, SafeSteps
<1>3. ASSUME NEW w \in Workers, SelectCandidates(w) PROVE StoredInv'
  BY <1>3, SelectHolds DEF HoldsLess, StoredInv, PublishedIsStored
<1>4. ASSUME NEW w \in Workers, NEW c \in cand[w], ClaimCandidate(w, c)
      PROVE  StoredInv'
  <2>1. TableSafe
    BY <1>0, <1>4, LeaseEffect, TableUntouched, TableSafeWrites
       DEF ClaimCandidate, Claimable
  <2>2. PICK claimed \in SUBSET (batch[w] \cup {c}) : Claimed(w, c, claimed)
    BY <1>4 DEF ClaimCandidate
  <2>3. /\ \A u \in Workers \ {w} : HoldsLess(u)
        /\ cand'[w] \cup batch'[w] \subseteq cand[w] \cup batch[w]
        /\ pc'[w] # "mark"
    BY <1>4, <2>2, ClaimedHolds DEF ClaimCandidate
  <2>. QED
    BY <1>0, <2>1, <2>3
       DEF StoredInv, PublishedIsStored, TableSafe, HoldsLess, IsFirst
<1>5. ASSUME NEW w \in Workers, NEW c \in cand[w], ClaimError(w, c)
      PROVE  StoredInv'
  <2>1. TableSafe
    BY <1>0, <1>5, LeaseEffect, TableUntouched, TableSafeWrites
       DEF ClaimError, Claimable
  <2>. QED
    BY <1>5, <2>1, MovesHoldLess, SafeSteps DEF ClaimError
<1>6. ASSUME NEW w \in Workers, NEW c \in batch[w], PublishAcked(w, c)
      PROVE  StoredInv'
  <2>1. TableSafe
    BY <1>0, <1>6, TableUntouched DEF PublishAcked
  <2>2. /\ pc'[w] = "mark" /\ \A u \in Workers \ {w} : pc'[u] = pc[u]
        /\ UNCHANGED <<cand, batch, row>>
        /\ c.id \in stored'
    BY <1>6 DEF PublishAcked, To, TypeOK
  <2>3. \A d \in batch'[w] : IsFirst(d, batch'[w]) => d.id \in stored'
    <3>1. \A d \in batch[w] : IsFirst(d, batch[w]) => d.id = c.id
      <4>. SUFFICES ASSUME NEW d \in batch[w], IsFirst(d, batch[w])
                    PROVE  d.id = c.id
        OBVIOUS
      <4>1. c.id \in Int /\ d.id \in Int
        BY <1>0, EventsOrdered
      <4>2. d.id <= c.id /\ c.id <= d.id
        BY <1>6 DEF PublishAcked, IsFirst
      <4>. QED
        BY <4>1, <4>2
    <3>. QED
      BY <2>2, <3>1
  <2>. QED
    BY <1>0, <2>1, <2>2, <2>3
       DEF StoredInv, PublishedIsStored, TableSafe
<1>7. ASSUME NEW w \in Workers, NEW c \in batch[w], PublishFailed(w, c)
      PROVE  StoredInv'
  <2>1. TableSafe
    BY <1>0, <1>7, TableUntouched DEF PublishFailed
  <2>. QED
    BY <1>7, <2>1, MovesHoldLess, SafeSteps DEF PublishFailed
<1>8. ASSUME NEW w \in Workers, NEW c \in batch[w],
             MarkPublished(w, c) \/ MarkPublishedError(w, c)
      PROVE  StoredInv'
  <2>1. c.id \in stored
    BY <1>8 DEF MarkPublished, MarkPublishedError, StoredInv
  <2>2. stored' = stored
    BY <1>8 DEF MarkPublished, MarkPublishedError
  <2>3. \/ row' = row
        \/ row[c.id] # NULL /\ \E now \in Time : RecordPublished(c.id, now)
    <3>1. \A now \in Readings(w) : now \in Time
      BY ReadingRange
    <3>. QED
      BY <1>8, <3>1 DEF MarkPublished, MarkPublishedError, Owned
  <2>4. TableSafe
    <3>1. CASE row' = row
      BY <1>0, <2>2, <3>1, TableUntouched
    <3>2. ASSUME row[c.id] # NULL, NEW now \in Time, RecordPublished(c.id, now)
          PROVE  TableSafe
      <4>1. c.id \in Events
        BY <1>0
      <4>2. WritesOne(c.id)
        BY <3>2, <4>1, RecordPublishedEffect
      <4>. QED
        BY <1>0, <2>1, <2>2, <4>1, <4>2, TableSafeWrites
    <3>. QED
      BY <2>3, <3>1, <3>2
  <2>. QED
    BY <1>8, <2>4, MovesHoldLess, SafeSteps
       DEF MarkPublished, MarkPublishedError
<1>9. ASSUME NEW w \in Workers, NEW c \in batch[w],
             MarkFailed(w, c) \/ MarkFailedError(w, c)
      PROVE  StoredInv'
  <2>1. c.attempts + 1 \in Nat \ {0}
    BY AttemptsRange DEF TypeOK, ClaimedOutboxEvent
  <2>2. stored' = stored
    BY <1>9 DEF MarkFailed, MarkFailedError
  <2>3. \/ row' = row
        \/ /\ row[c.id] # NULL
           /\ \E retryAt \in Time : RecordFailed(c.id, retryAt)
    BY <1>9, <2>1, TimeFacts DEF MarkFailed, MarkFailedError, Owned
  <2>4. TableSafe
    BY <1>0, <2>2, <2>3, RecordFailedEffect, TableUntouched,
       TableSafeWrites
  <2>. QED
    BY <1>9, <2>4, MovesHoldLess, SafeSteps DEF MarkFailed, MarkFailedError
<1>10. ASSUME NEW w \in Workers, DeletePublishedBefore(w) PROVE StoredInv'
  <2>1. TableSafe
    BY <1>0, <1>10 DEF DeletePublishedBefore, TableSafe, PublishedIsStored
  <2>2. \A u \in Workers : HoldsLess(u)
    BY <1>10 DEF DeletePublishedBefore, HoldsLess
  <2>. QED
    BY <2>1, <2>2, SafeSteps
<1>11. CASE Tick
  <2>1. \A e \in Events :
          /\ row'[e] = NULL <=> row[e] = NULL
          /\ row[e] # NULL => (row'[e].publishedAt = NULL
                                 <=> row[e].publishedAt = NULL)
    BY <1>11, TickEffect
  <2>2. UNCHANGED <<pc, cand, batch, stored>>
    BY <1>11 DEF Tick
  <2>. QED
    BY <1>0, <2>1, <2>2 DEF StoredInv, PublishedIsStored
<1>12. CASE UNCHANGED vars
  BY <1>12 DEF vars, StoredInv, PublishedIsStored
<1>. QED
  BY <1>1, <1>2, <1>3, <1>4, <1>5, <1>6, <1>7, <1>8, <1>9, <1>10, <1>11, <1>12
     DEF Next, Claim, Relay, Failure, Pauses

\* No event counts as published, or is deleted, that the stream does not hold.
THEOREM PublishedAreStored == Spec => []PublishedIsStored
<1>1. Init => TypeOK /\ WorkerInv /\ StoredInv
  BY TimeFacts, SizesAssumption, ClockAssumption, NullAssumption
     DEF Init, TypeOK, WorkerInv, StoredInv, PublishedIsStored, Busy
<1>2. TypeOK /\ WorkerInv /\ StoredInv /\ [Next]_vars
        => (TypeOK /\ WorkerInv /\ StoredInv)'
  BY TypeStep, WorkerStep, StoredStep
<1>3. StoredInv => PublishedIsStored
  BY DEF StoredInv
<1>. QED
  BY <1>1, <1>2, <1>3, PTL DEF Spec

(***************************************************************************)
(* Leases                                                                  *)
(***************************************************************************)

LeaseInv == LeaseHolds /\ LeaseExclusive

\* With the table unchanged, shrinking what the workers hold keeps it.
LEMMA LeaseSafe ==
    ASSUME LeaseInv, \A u \in Workers : HoldsLess(u),
           \A e \in Events : /\ row'[e] # NULL /\ row'[e].publishedAt = NULL
                             => row'[e] = row[e],
           TypeOK
    PROVE  LeaseInv'
<1>. \A w \in Workers : \A c \in batch[w] : c.id \in Events
  BY DEF TypeOK, ClaimedOutboxEvent
<1>1. \A w \in Workers : \A c \in batch'[w] :
         c \in batch[w] /\ stamp'[w] = stamp[w]
  BY DEF HoldsLess
<1>2. LeaseHolds'
  BY <1>1 DEF LeaseInv, LeaseHolds, Unexpired, Pending
<1>3. LeaseExclusive'
  BY <1>1 DEF LeaseInv, LeaseExclusive, Unexpired
<1>. QED
  BY <1>2, <1>3 DEF LeaseInv

\* The heart of it: a row may be claimed only when every other lease on it
\* has expired by every clock, for the claimant's clock is the latest.
LEMMA ClaimableExpired ==
    ASSUME TypeOK, WorkerInv, LeaseHolds, NEW w \in Workers,
           NEW c \in cand[w], Claimable(c.id, stamp[w]),
           NEW u \in Workers, NEW d \in batch[u], d.id = c.id
    PROVE  ~Unexpired(u)
<1>1. stamp[u] \in Int /\ stamp[w] \in Int /\ stamp[w] <= Skew[w]
      /\ Skew[w] \in 0..MaxSkew /\ MaxSkew \in Nat /\ LockTimeout \in Nat
  BY TimeFacts, ClockAssumption, SizesAssumption DEF TypeOK, WorkerInv
<1>2. ASSUME Unexpired(u) PROVE FALSE
  <2>1. row[c.id].lockedAt = stamp[u] /\ row[c.id].lockedAt # NULL
    BY <1>1, <1>2, NullAssumption DEF LeaseHolds, Pending, Claimable
  <2>2. stamp[u] < stamp[w] - LockTimeout
    BY <2>1 DEF Claimable
  <2>. QED
    BY <1>1, <1>2, <2>2 DEF Unexpired
<1>. QED
  BY <1>2

LEMMA LeaseStep ==
    /\ TypeOK /\ TypeOK' /\ WorkerInv /\ StoredInv /\ LeaseInv /\ [Next]_vars
    => LeaseInv'
<1>. SUFFICES ASSUME TypeOK, TypeOK', WorkerInv, StoredInv, LeaseInv,
                     [Next]_vars
              PROVE  LeaseInv'
  OBVIOUS
<1>0. /\ \A w \in Workers : \A c \in cand[w] : c.id \in Events
      /\ \A w \in Workers : \A c \in batch[w] : c.id \in Events
  BY DEF TypeOK, ClaimedOutboxEvent
<1>1. ASSUME NEW e \in Events, CreateUser(e) PROVE LeaseInv'
  <2>1. \A w \in Workers : \A c \in batch[w] : c.id # e
    BY <1>1 DEF CreateUser, StoredInv
  <2>2. /\ UNCHANGED <<batch, stamp>>
        /\ \A f \in Events \ {e} : row'[f] = row[f]
    BY <1>1 DEF CreateUser, TypeOK
  <2>. QED
    BY <1>0, <2>1, <2>2
       DEF LeaseInv, LeaseHolds, LeaseExclusive, Unexpired, Pending
<1>2. ASSUME NEW w \in Workers,
             Start(w) \/ Stop(w) \/ Pauses(w) \/ Crash(w)
      PROVE  LeaseInv'
  <2>1. \A u \in Workers : HoldsLess(u)
    BY <1>2, MovesHoldLess
       DEF Start, Stop, Crash, HoldsLess, TypeOK
  <2>2. row' = row
    BY <1>2
       DEF Start, Stop, Pauses, StopReturns, SelectNothing, SelectError, Crash
  <2>. QED
    BY <2>1, <2>2, LeaseSafe
<1>3. ASSUME NEW w \in Workers, SelectCandidates(w) PROVE LeaseInv'
  <2>1. \A u \in Workers : \A c \in batch'[u] :
           c \in batch[u] /\ stamp'[u] = stamp[u]
    BY <1>3, SelectHolds DEF HoldsLess
  <2>2. row' = row
    BY <1>3, SelectHolds
  <2>. QED
    BY <2>1, <2>2
       DEF LeaseInv, LeaseHolds, LeaseExclusive, Unexpired, Pending
<1>4. ASSUME NEW w \in Workers, NEW c \in cand[w], ClaimCandidate(w, c)
      PROVE  LeaseInv'
  <2>1. CASE ~Claimable(c.id, stamp[w])
    <3>1. Claimed(w, c, batch[w]) /\ row' = row /\ pc[w] = "claim"
      BY <1>4, <2>1 DEF ClaimCandidate
    <3>2. \A u \in Workers : \A d \in batch'[u] :
             d \in batch[u] /\ stamp'[u] = stamp[u]
      BY <3>1, ClaimedHolds DEF HoldsLess
    <3>. QED
      BY <3>1, <3>2
         DEF LeaseInv, LeaseHolds, LeaseExclusive, Unexpired, Pending
  <2>2. CASE Claimable(c.id, stamp[w])
    <3>1. /\ Claimed(w, c, batch[w] \cup {c}) /\ Lease(c.id, w)
          /\ pc[w] = "claim" /\ row[c.id] # NULL
      BY <1>4, <2>2 DEF ClaimCandidate, Claimable
    <3>2. /\ row'[c.id].lockedAt = stamp[w] /\ row'[c.id].lockedBy = w
          /\ \A f \in Events \ {c.id} : row'[f] = row[f]
      BY <1>0, <3>1, LeaseEffect DEF WritesOne
    <3>3. \A u \in Workers : \A d \in batch'[u] :
             /\ stamp'[u] = stamp[u]
             /\ d \in batch[u] \/ (u = w /\ d = c)
      <4>1. /\ \A u \in Workers \ {w} : HoldsLess(u)
            /\ batch'[w] \subseteq batch[w] \cup {c}
            /\ batch'[w] # {} => stamp'[w] = stamp[w]
        BY <3>1, ClaimedHolds
      <4>. QED
        BY <4>1 DEF HoldsLess
    <3>4. \A u \in Workers : \A d \in batch[u] :
             d.id = c.id => ~Unexpired(u)
      BY <2>2, ClaimableExpired DEF LeaseInv
    <3>5. LeaseHolds'
      BY <1>0, <3>2, <3>3, <3>4 DEF LeaseInv, LeaseHolds, Unexpired, Pending
    <3>6. LeaseExclusive'
      BY <3>3, <3>4 DEF LeaseInv, LeaseExclusive, Unexpired
    <3>. QED
      BY <3>5, <3>6 DEF LeaseInv
  <2>. QED
    BY <2>1, <2>2
<1>5. ASSUME NEW w \in Workers, NEW c \in cand[w], ClaimError(w, c)
      PROVE  LeaseInv'
  <2>1. /\ \A u \in Workers : HoldsLess(u) /\ batch'[w] = {}
        /\ \A u \in Workers \ {w} : batch'[u] = batch[u]
    <3>1. ToWait(w)
      BY <1>5 DEF ClaimError
    <3>2. \A u \in Workers : HoldsLess(u)
      BY <3>1, MovesHoldLess
    <3>. QED
      BY <3>1, <3>2 DEF ToWait, Leave, TypeOK
  <2>2. CASE row' = row
    BY <2>1, <2>2, LeaseSafe
  <2>3. CASE Claimable(c.id, stamp[w]) /\ Lease(c.id, w)
    <3>1. \A f \in Events \ {c.id} : row'[f] = row[f]
      BY <1>0, <2>3, LeaseEffect DEF Claimable, WritesOne
    <3>2. \A u \in Workers : \A d \in batch[u] :
             d.id = c.id => ~Unexpired(u)
      BY <2>3, ClaimableExpired DEF LeaseInv
    <3>3. \A u \in Workers : \A d \in batch'[u] :
             d \in batch[u] /\ stamp'[u] = stamp[u]
      BY <2>1 DEF HoldsLess
    <3>. QED
      BY <1>0, <3>1, <3>2, <3>3
         DEF LeaseInv, LeaseHolds, LeaseExclusive, Unexpired, Pending
  <2>. QED
    BY <1>5, <2>2, <2>3 DEF ClaimError
<1>6. ASSUME NEW w \in Workers, NEW c \in batch[w],
             PublishAcked(w, c) \/ PublishFailed(w, c)
      PROVE  LeaseInv'
  BY <1>6 DEF PublishAcked, PublishFailed, To, LeaseInv, LeaseHolds,
              LeaseExclusive, Unexpired, Pending
<1>7. ASSUME NEW w \in Workers, NEW c \in batch[w],
             MarkPublished(w, c) \/ MarkPublishedError(w, c)
      PROVE  LeaseInv'
  <2>1. \A u \in Workers : HoldsLess(u)
    BY <1>7, MovesHoldLess DEF MarkPublished, MarkPublishedError
  <2>2. CASE row' = row
    BY <2>1, <2>2, LeaseSafe
  <2>3. ASSUME NEW now \in Time, row[c.id] # NULL, RecordPublished(c.id, now)
        PROVE  LeaseInv'
    <3>1. /\ row'[c.id].publishedAt # NULL
          /\ \A f \in Events \ {c.id} : row'[f] = row[f]
      BY <1>0, <2>3, RecordPublishedEffect, TimeFacts DEF WritesOne
    <3>. QED
      BY <1>0, <2>1, <3>1, LeaseSafe
  <2>4. \A now \in Readings(w) : now \in Time
    BY ReadingRange
  <2>. QED
    BY <1>7, <2>2, <2>3, <2>4 DEF MarkPublished, MarkPublishedError, Owned
<1>8. ASSUME NEW w \in Workers, NEW c \in batch[w],
             MarkFailed(w, c) \/ MarkFailedError(w, c)
      PROVE  LeaseInv'
  <2>1. \A u \in Workers : HoldsLess(u)
    BY <1>8, MovesHoldLess DEF MarkFailed, MarkFailedError
  <2>2. CASE row' = row
    BY <2>1, <2>2, LeaseSafe
  <2>3. ASSUME Owned(c.id, w), NEW retryAt \in Time, RecordFailed(c.id, retryAt),
               Finish(w, c) \/ ToWait(w)
        PROVE  LeaseInv'
    <3>1. \A f \in Events \ {c.id} : row'[f] = row[f]
      BY <1>0, <2>3, RecordFailedEffect DEF WritesOne, Owned
    <3>2. \A u \in Workers : \A d \in batch'[u] :
             d \in batch[u] /\ stamp'[u] = stamp[u]
      BY <2>1 DEF HoldsLess
    <3>3. c \notin batch'[w]
      BY <2>3 DEF Finish, ToPoll, ToWait, Leave, TypeOK
    <3>4. \A u \in Workers : \A d \in batch'[u] :
             d.id = c.id => ~Unexpired(u)
      <4>1. \A d \in batch'[w] : d.id # c.id
        BY <3>2, <3>3 DEF WorkerInv
      <4>2. \A u \in Workers \ {w} : \A d \in batch[u] :
               d.id = c.id => ~Unexpired(u)
        BY <2>3 DEF Owned, Pending, LeaseInv, LeaseHolds
      <4>. QED
        BY <3>2, <4>1, <4>2
    <3>. QED
      BY <1>0, <3>1, <3>2, <3>4
         DEF LeaseInv, LeaseHolds, LeaseExclusive, Unexpired, Pending
  <2>4. \A now \in Readings(w) : now + RetryDelay(c.attempts + 1) \in Time
    <3>1. c.attempts + 1 \in Nat \ {0}
      BY AttemptsRange DEF TypeOK, ClaimedOutboxEvent
    <3>. QED
      BY <3>1, TimeFacts
  <2>. QED
    BY <1>8, <2>2, <2>3, <2>4 DEF MarkFailed, MarkFailedError
<1>9. ASSUME NEW w \in Workers, DeletePublishedBefore(w) PROVE LeaseInv'
  <2>1. \A u \in Workers : HoldsLess(u)
    BY <1>9 DEF DeletePublishedBefore, HoldsLess
  <2>2. \A e \in Events : row'[e] # NULL => row'[e] = row[e]
    BY <1>9 DEF DeletePublishedBefore
  <2>. QED
    BY <2>1, <2>2, LeaseSafe
<1>10. CASE Tick
  <2>1. \A e \in Events : Pending(e)' =>
          /\ Pending(e) /\ row'[e].lockedBy = row[e].lockedBy
          /\ row'[e].lockedAt = Aged(row[e].lockedAt)
    BY <1>10, TickEffect DEF Pending
  <2>2. \A w \in Workers : \A c \in batch[w] : stamp'[w] = Aged(stamp[w])
    BY <1>10 DEF Tick, WorkerInv
  <2>3. \A w \in Workers : \A c \in batch[w] : Unexpired(w)' => Unexpired(w)
    <3>1. \A w \in Workers : /\ stamp[w] \in Int /\ Aged(stamp[w]) \in Int
                             /\ Aged(stamp[w]) <= stamp[w]
      BY AgedRange, TimeFacts DEF TypeOK
    <3>. QED
      BY <2>2, <3>1, ClockAssumption, SizesAssumption DEF Unexpired
  <2>4. batch' = batch
    BY <1>10 DEF Tick
  <2>5. LeaseHolds'
    BY <1>0, <2>1, <2>2, <2>3, <2>4 DEF LeaseInv, LeaseHolds
  <2>6. LeaseExclusive'
    BY <2>3, <2>4 DEF LeaseInv, LeaseExclusive
  <2>. QED
    BY <2>5, <2>6 DEF LeaseInv
<1>11. CASE UNCHANGED vars
  BY <1>11 DEF vars, LeaseInv, LeaseHolds, LeaseExclusive, Unexpired, Pending
<1>. QED
  BY <1>1, <1>2, <1>3, <1>4, <1>5, <1>6, <1>7, <1>8, <1>9, <1>10, <1>11
     DEF Next, Claim, Relay, Failure, Pauses

\* A claimed row stays with its worker until its lease expires by every clock
\* of the deployment, and two unexpired leases never cover the same row.
THEOREM LeasesAreExclusive == Spec => [](LeaseHolds /\ LeaseExclusive)
<1>. DEFINE IInv == TypeOK /\ WorkerInv /\ StoredInv /\ LeaseInv
<1>1. Init => IInv
  BY TimeFacts, SizesAssumption, ClockAssumption, NullAssumption
     DEF Init, TypeOK, WorkerInv, StoredInv, PublishedIsStored, LeaseInv,
         LeaseHolds, LeaseExclusive, Busy
<1>2. IInv /\ [Next]_vars => IInv'
  BY TypeStep, WorkerStep, StoredStep, LeaseStep
<1>3. IInv => LeaseHolds /\ LeaseExclusive
  BY DEF LeaseInv
<1>. HIDE DEF IInv
<1>. QED
  BY <1>1, <1>2, <1>3, PTL DEF Spec

\* A claimed row stays with its worker until its lease has expired by every
\* clock of the deployment.
THEOREM LeasesHold == Spec => []LeaseHolds
<1>. QED
  BY LeasesAreExclusive, PTL

(***************************************************************************)
(* The relay implements EventHandoff                                       *)
(***************************************************************************)

Status == [e \in Events |-> StatusOf(e)]

LEMMA StatusUnchanged ==
    ASSUME stored' = stored,
           \A e \in Events : /\ row'[e] = NULL <=> row[e] = NULL
                             /\ row[e] # NULL => (row'[e].publishedAt = NULL
                                                   <=> row[e].publishedAt = NULL)
    PROVE  Status' = Status
<1>1. \A e \in Events : StatusOf(e)' = StatusOf(e)
  BY DEF StatusOf
<1>. QED
  BY <1>1 DEF Status

\* A step that moves one event from one stage to another.
LEMMA StatusMoves ==
    ASSUME NEW e \in Events, NEW from, NEW to, StatusOf(e) = from,
           StatusOf(e)' = to, \A f \in Events \ {e} : StatusOf(f)' = StatusOf(f)
    PROVE  Status[e] = from /\ Status' = [Status EXCEPT ![e] = to]
BY DEF Status

LEMMA HandoffStep ==
    /\ TypeOK /\ TypeOK' /\ WorkerInv /\ StoredInv /\ [Next]_vars
    => [Handoff!Next]_Status
<1>. SUFFICES ASSUME TypeOK, TypeOK', WorkerInv, StoredInv, [Next]_vars
              PROVE  Handoff!Next \/ Status' = Status
  OBVIOUS
<1>0. /\ \A w \in Workers : \A c \in cand[w] : c.id \in Events
      /\ \A w \in Workers : \A c \in batch[w] : c.id \in Events
  BY DEF TypeOK, ClaimedOutboxEvent
<1>1. ASSUME NEW e \in Events, CreateUser(e) PROVE Handoff!Commit(e)
  <2>1. StatusOf(e) = "absent"
    BY <1>1 DEF CreateUser, StatusOf
  <2>2. StatusOf(e)' = "pending"
    <3>1. row'[e] # NULL
      <4>. row'[e] \in Row
        BY <1>1, TimeFacts, AttemptsRange DEF CreateUser, Row, TypeOK
      <4>. QED
        BY RowFields
    <3>. QED
      BY <1>1, <3>1 DEF CreateUser, StatusOf, TypeOK
  <2>3. \A f \in Events \ {e} : StatusOf(f)' = StatusOf(f)
    BY <1>1 DEF CreateUser, StatusOf, TypeOK
  <2>. QED
    BY <2>1, <2>2, <2>3, StatusMoves
       DEF Handoff!Commit, Handoff!Move, Status
<1>2. ASSUME NEW e \in Events, row' = row, stored' = stored \cup {e},
             row[e] = NULL => e \in stored
      PROVE  Handoff!Hand(e) \/ Status' = Status
  <2>1. CASE e \in stored
    <3>. stored' = stored
      BY <1>2, <2>1
    <3>. QED
      BY <1>2, StatusUnchanged
  <2>2. CASE e \notin stored
    <3>1. StatusOf(e) = "pending" /\ StatusOf(e)' = "handed"
      BY <1>2, <2>2 DEF StatusOf, StoredInv, PublishedIsStored
    <3>2. \A f \in Events \ {e} : StatusOf(f)' = StatusOf(f)
      BY <1>2 DEF StatusOf
    <3>. QED
      BY <3>1, <3>2, StatusMoves DEF Handoff!Hand, Handoff!Move, Status
  <2>. QED
    BY <2>1, <2>2
<1>3. ASSUME NEW w \in Workers, NEW c \in cand[w],
             ClaimCandidate(w, c) \/ ClaimError(w, c)
      PROVE  Status' = Status
  <2>1. CASE row' = row
    BY <1>3, <2>1, StatusUnchanged DEF ClaimCandidate, ClaimError
  <2>2. CASE Claimable(c.id, stamp[w]) /\ Lease(c.id, w)
    <3>1. /\ WritesOne(c.id) /\ row[c.id] # NULL
          /\ row'[c.id].publishedAt = row[c.id].publishedAt
      BY <1>0, <2>2, LeaseEffect DEF Claimable
    <3>2. row'[c.id] # NULL
      BY <3>1, RowFields DEF WritesOne
    <3>3. \A e \in Events :
            /\ row'[e] = NULL <=> row[e] = NULL
            /\ row[e] # NULL => (row'[e].publishedAt = NULL
                                   <=> row[e].publishedAt = NULL)
      BY <3>1, <3>2 DEF WritesOne
    <3>. QED
      BY <1>3, <3>3, StatusUnchanged DEF ClaimCandidate, ClaimError
  <2>. QED
    BY <1>3, <2>1, <2>2 DEF ClaimCandidate, ClaimError
<1>4. ASSUME NEW w \in Workers, NEW c \in batch[w],
             PublishAcked(w, c) \/ PublishFailed(w, c)
      PROVE  Handoff!Hand(c.id) \/ Status' = Status
  <2>1. row[c.id] = NULL => c.id \in stored
    BY DEF StoredInv
  <2>2. row' = row /\ (stored' = stored \/ stored' = stored \cup {c.id})
    BY <1>4 DEF PublishAcked, PublishFailed
  <2>. QED
    BY <1>0, <1>2, <2>1, <2>2, StatusUnchanged
<1>5. ASSUME NEW w \in Workers, NEW c \in batch[w],
             MarkPublished(w, c) \/ MarkPublishedError(w, c)
      PROVE  Handoff!Record(c.id) \/ Status' = Status
  <2>1. c.id \in stored /\ stored' = stored
    BY <1>5 DEF MarkPublished, MarkPublishedError, StoredInv
  <2>2. CASE row' = row
    BY <2>1, <2>2, StatusUnchanged
  <2>3. ASSUME Owned(c.id, w), NEW now \in Time, RecordPublished(c.id, now)
        PROVE  Handoff!Record(c.id)
    <3>1. WritesOne(c.id) /\ row'[c.id].publishedAt = now
      BY <1>0, <2>3, RecordPublishedEffect DEF Owned
    <3>2. StatusOf(c.id) = "handed" /\ StatusOf(c.id)' = "recorded"
      BY <2>1, <2>3, <3>1, RowFields, TimeFacts DEF StatusOf, Owned, WritesOne
    <3>3. \A f \in Events \ {c.id} : StatusOf(f)' = StatusOf(f)
      BY <2>1, <3>1 DEF StatusOf, WritesOne
    <3>. QED
      BY <1>0, <3>2, <3>3, StatusMoves
         DEF Handoff!Record, Handoff!Move, Status
  <2>4. \A now \in Readings(w) : now \in Time
    BY ReadingRange
  <2>. QED
    BY <1>5, <2>2, <2>3, <2>4 DEF MarkPublished, MarkPublishedError
<1>6. ASSUME NEW w \in Workers, NEW c \in batch[w],
             MarkFailed(w, c) \/ MarkFailedError(w, c)
      PROVE  Status' = Status
  <2>1. stored' = stored
    BY <1>6 DEF MarkFailed, MarkFailedError
  <2>2. CASE row' = row
    BY <2>1, <2>2, StatusUnchanged
  <2>3. ASSUME row[c.id] # NULL, NEW retryAt \in Time,
               RecordFailed(c.id, retryAt)
        PROVE  Status' = Status
    <3>1. /\ WritesOne(c.id)
          /\ row'[c.id].publishedAt = row[c.id].publishedAt
      BY <1>0, <2>3, RecordFailedEffect
    <3>2. row'[c.id] # NULL
      BY <3>1, RowFields DEF WritesOne
    <3>3. \A e \in Events :
            /\ row'[e] = NULL <=> row[e] = NULL
            /\ row[e] # NULL => (row'[e].publishedAt = NULL
                                   <=> row[e].publishedAt = NULL)
      BY <2>3, <3>1, <3>2 DEF WritesOne
    <3>. QED
      BY <2>1, <3>3, StatusUnchanged
  <2>4. \A now \in Readings(w) : now + RetryDelay(c.attempts + 1) \in Time
    <3>1. c.attempts + 1 \in Nat \ {0}
      BY AttemptsRange DEF TypeOK, ClaimedOutboxEvent
    <3>. QED
      BY <3>1, TimeFacts
  <2>. QED
    BY <1>6, <2>2, <2>3, <2>4 DEF MarkFailed, MarkFailedError, Owned
<1>7. ASSUME NEW w \in Workers, DeletePublishedBefore(w)
      PROVE  Handoff!Next
  <2>1. PICK gone \in SUBSET Events :
          /\ \A e \in gone : row[e] # NULL /\ row[e].publishedAt # NULL
          /\ row' = [e \in Events |-> IF e \in gone THEN NULL ELSE row[e]]
          /\ stored' = stored
    BY <1>7 DEF DeletePublishedBefore
  <2>2. \A e \in gone : StatusOf(e) = "recorded" /\ StatusOf(e)' = "purged"
    BY <2>1 DEF StatusOf, StoredInv, PublishedIsStored
  <2>3. \A e \in Events \ gone : StatusOf(e)' = StatusOf(e)
    BY <2>1 DEF StatusOf
  <2>4. Handoff!Purge(gone)
    BY <2>2, <2>3 DEF Handoff!Purge
  <2>. QED
    BY <2>4 DEF Handoff!Next
<1>8. ASSUME NEW w \in Workers,
             \/ Start(w) \/ Stop(w) \/ Pauses(w) \/ Crash(w)
             \/ SelectCandidates(w)
      PROVE  Status' = Status
  <2>. row' = row /\ stored' = stored
    BY <1>8 DEF Start, Stop, Pauses, StopReturns, SelectNothing, SelectError,
                Crash, SelectCandidates
  <2>. QED
    BY StatusUnchanged
<1>9. CASE Tick
  BY <1>9, TickEffect, StatusUnchanged DEF Tick
<1>10. CASE UNCHANGED vars
  BY <1>10, StatusUnchanged DEF vars
<1>. QED
  BY <1>0, <1>1, <1>3, <1>4, <1>5, <1>6, <1>7, <1>8, <1>9, <1>10
     DEF Next, Claim, Relay, Failure, Pauses, Handoff!Next

\* Every behaviour of the relays, with their leases, retries and crashes, is
\* a behaviour of the one-way handoff of events.
THEOREM RelayHandsOff == Spec => HandsOff
<1>. DEFINE IInv == TypeOK /\ WorkerInv /\ StoredInv
<1>1. Init => IInv
  BY TimeFacts, SizesAssumption, ClockAssumption, NullAssumption
     DEF Init, TypeOK, WorkerInv, StoredInv, PublishedIsStored, Busy
<1>2. IInv /\ [Next]_vars => IInv'
  BY TypeStep, WorkerStep, StoredStep
<1>3. Init => Handoff!Init
  BY DEF Init, Handoff!Init, StatusOf
<1>4. IInv /\ IInv' /\ [Next]_vars => [Handoff!Next]_Status
  BY HandoffStep
<1>. HIDE DEF IInv
<1>. QED
  BY <1>1, <1>2, <1>3, <1>4, PTL DEF Spec, HandsOff, Handoff!Spec, Status

(***************************************************************************)
(* The attempts a worker counts with are the row's                         *)
(***************************************************************************)

\* A row that failed since it was selected is not due by the select's clock
\* reading, so the update that would lease it with stale attempts misses it.
SnapshotInv ==
    \A w \in Workers :
        /\ \A c \in cand[w] : Pending(c.id) =>
              \/ row[c.id].attempts = c.attempts
              \/ row[c.id].nextAttemptAt > stamp[w]
        /\ \A c \in batch[w] : Owned(c.id, w) => row[c.id].attempts = c.attempts

LEMMA SnapshotSafe ==
    ASSUME SnapshotInv, TypeOK, \A u \in Workers : HoldsLess(u),
           \A e \in Events : Pending(e)' => row'[e] = row[e]
    PROVE  SnapshotInv'
<1>. \A w \in Workers : /\ \A c \in cand[w] : c.id \in Events
                        /\ \A c \in batch[w] : c.id \in Events
  BY DEF TypeOK, ClaimedOutboxEvent
<1>. QED
  BY DEF SnapshotInv, HoldsLess, Pending, Owned

LEMMA SnapshotStep ==
    ASSUME Lesser(FirstDelay, MaxRetryDelay) > MaxSkew + MaxCallTicks,
           TypeOK, TypeOK', WorkerInv, StoredInv, SnapshotInv, [Next]_vars
    PROVE  SnapshotInv'
<1>0. /\ \A w \in Workers : \A c \in cand[w] : c.id \in Events
      /\ \A w \in Workers : \A c \in batch[w] : c.id \in Events
      /\ NULL \notin Workers
  BY NullAssumption DEF TypeOK, ClaimedOutboxEvent
<1>1. ASSUME NEW e \in Events, CreateUser(e) PROVE SnapshotInv'
  <2>1. \A w \in Workers : /\ \A c \in cand[w] : c.id # e
                           /\ \A c \in batch[w] : c.id # e
    BY <1>1 DEF CreateUser, StoredInv
  <2>2. /\ UNCHANGED <<cand, batch, stamp>>
        /\ \A f \in Events \ {e} : row'[f] = row[f]
    BY <1>1 DEF CreateUser, TypeOK
  <2>. QED
    BY <1>0, <2>1, <2>2 DEF SnapshotInv, Pending, Owned
<1>2. ASSUME NEW w \in Workers,
             Start(w) \/ Stop(w) \/ Pauses(w) \/ Crash(w)
      PROVE  SnapshotInv'
  <2>1. \A u \in Workers : HoldsLess(u)
    BY <1>2, MovesHoldLess
       DEF Start, Stop, Crash, HoldsLess, TypeOK
  <2>2. row' = row
    BY <1>2
       DEF Start, Stop, Pauses, StopReturns, SelectNothing, SelectError, Crash
  <2>. QED
    BY <2>1, <2>2, SnapshotSafe
<1>3. ASSUME NEW w \in Workers, SelectCandidates(w) PROVE SnapshotInv'
  BY <1>3, SelectHolds DEF HoldsLess, SnapshotInv, Pending, Owned
<1>4. ASSUME NEW w \in Workers, NEW c \in cand[w],
             ClaimCandidate(w, c) \/ ClaimError(w, c)
      PROVE  SnapshotInv'
  <2>1. /\ pc[w] = "claim"
        /\ \A u \in Workers \ {w} : HoldsLess(u)
        /\ cand'[w] \subseteq cand[w]
        /\ cand'[w] # {} \/ batch'[w] # {} => stamp'[w] = stamp[w]
    <3>1. CASE ClaimCandidate(w, c)
      <4>1. PICK claimed : Claimed(w, c, claimed)
        BY <3>1 DEF ClaimCandidate
      <4>. QED
        BY <3>1, <4>1, ClaimedHolds DEF ClaimCandidate
    <3>2. CASE ClaimError(w, c)
      BY <3>2, MovesHoldLess DEF ClaimError, HoldsLess
    <3>. QED
      BY <1>4, <3>1, <3>2
  <2>2. \/ row' = row /\ batch'[w] \subseteq batch[w]
        \/ /\ Claimable(c.id, stamp[w]) /\ Lease(c.id, w)
           /\ batch'[w] \subseteq batch[w] \cup {c}
    <3>1. CASE ClaimCandidate(w, c) /\ Claimable(c.id, stamp[w])
      BY <3>1, ClaimedHolds DEF ClaimCandidate
    <3>2. CASE ClaimCandidate(w, c) /\ ~Claimable(c.id, stamp[w])
      BY <3>2, ClaimedHolds DEF ClaimCandidate
    <3>3. CASE ClaimError(w, c)
      BY <3>3, MovesHoldLess DEF ClaimError, HoldsLess
    <3>. QED
      BY <1>4, <3>1, <3>2, <3>3
  <2>a. ASSUME NEW u \in Workers
        PROVE  /\ \A d \in cand'[u] : d \in cand[u] /\ stamp'[u] = stamp[u]
               /\ u # w => \A d \in batch'[u] : d \in batch[u]
    <3>1. CASE u = w
      BY <2>1, <3>1
    <3>2. CASE u # w
      BY <2>1, <3>2 DEF HoldsLess
    <3>. QED
      BY <3>1, <3>2
  <2>3. CASE row' = row /\ batch'[w] \subseteq batch[w]
    <3>1. \A u \in Workers : \A d \in batch'[u] : d \in batch[u]
      BY <2>a, <2>3
    <3>. QED
      BY <2>a, <2>3, <3>1 DEF SnapshotInv, Pending, Owned
  <2>4. CASE /\ Claimable(c.id, stamp[w]) /\ Lease(c.id, w)
             /\ batch'[w] \subseteq batch[w] \cup {c}
    <3>1. /\ row[c.id] # NULL /\ row'[c.id] # NULL
          /\ row'[c.id].publishedAt = row[c.id].publishedAt
          /\ row'[c.id].attempts = row[c.id].attempts
          /\ row'[c.id].nextAttemptAt = row[c.id].nextAttemptAt
          /\ row'[c.id].lockedBy = w
          /\ \A f \in Events \ {c.id} : row'[f] = row[f]
      BY <1>0, <2>4, LeaseEffect, RowFields DEF Claimable, WritesOne
    <3>2. row[c.id].attempts = c.attempts
      <4>1. /\ row[c.id].nextAttemptAt \in Int /\ stamp[w] \in Int
            /\ row[c.id].nextAttemptAt <= stamp[w]
        BY <1>0, <2>4, RowFields, TimeFacts DEF Claimable, TypeOK
      <4>. QED
        BY <2>4, <4>1 DEF SnapshotInv, Pending, Claimable
    <3>3. \A u \in Workers : \A d \in cand'[u] : Pending(d.id)' =>
             \/ row'[d.id].attempts = d.attempts
             \/ row'[d.id].nextAttemptAt > stamp'[u]
      <4>. SUFFICES ASSUME NEW u \in Workers, NEW d \in cand'[u], Pending(d.id)'
                    PROVE  \/ row'[d.id].attempts = d.attempts
                           \/ row'[d.id].nextAttemptAt > stamp'[u]
        OBVIOUS
      <4>1. d \in cand[u] /\ stamp'[u] = stamp[u] /\ d.id \in Events
        BY <1>0, <2>a
      <4>2. CASE d.id = c.id
        BY <3>1, <4>1, <4>2 DEF SnapshotInv, Pending
      <4>3. CASE d.id # c.id
        BY <3>1, <4>1, <4>3 DEF SnapshotInv, Pending
      <4>. QED
        BY <4>2, <4>3
    <3>4. \A d \in batch'[w] : Owned(d.id, w)' =>
             row'[d.id].attempts = d.attempts
      <4>1. \A d \in batch'[w] : d.id = c.id => d = c
        BY <2>4 DEF WorkerInv
      <4>. QED
        BY <1>0, <2>4, <3>1, <3>2, <4>1 DEF SnapshotInv, Owned
    <3>5. \A u \in Workers \ {w} : \A d \in batch'[u] : Owned(d.id, u)' =>
             row'[d.id].attempts = d.attempts
      <4>1. \A u \in Workers \ {w} : \A d \in batch'[u] : d \in batch[u]
        BY <2>a
      <4>. QED
        BY <1>0, <3>1, <4>1 DEF SnapshotInv, Owned
    <3>. QED
      BY <3>3, <3>4, <3>5 DEF SnapshotInv
  <2>. QED
    BY <2>2, <2>3, <2>4
<1>5. ASSUME NEW w \in Workers, NEW c \in batch[w],
             PublishAcked(w, c) \/ PublishFailed(w, c)
      PROVE  SnapshotInv'
  BY <1>5 DEF PublishAcked, PublishFailed, To, SnapshotInv, Pending, Owned
<1>6. ASSUME NEW w \in Workers, NEW c \in batch[w],
             MarkPublished(w, c) \/ MarkPublishedError(w, c)
      PROVE  SnapshotInv'
  <2>1. \A u \in Workers : HoldsLess(u)
    BY <1>6, MovesHoldLess DEF MarkPublished, MarkPublishedError
  <2>2. CASE row' = row
    BY <2>1, <2>2, SnapshotSafe
  <2>3. ASSUME NEW now \in Time, row[c.id] # NULL, RecordPublished(c.id, now)
        PROVE  SnapshotInv'
    <3>1. /\ row'[c.id].publishedAt # NULL
          /\ \A f \in Events \ {c.id} : row'[f] = row[f]
      BY <1>0, <2>3, RecordPublishedEffect, TimeFacts DEF WritesOne
    <3>. QED
      BY <1>0, <2>1, <3>1, SnapshotSafe DEF Pending
  <2>4. \A now \in Readings(w) : now \in Time
    BY ReadingRange
  <2>. QED
    BY <1>6, <2>2, <2>3, <2>4 DEF MarkPublished, MarkPublishedError, Owned
<1>7. ASSUME NEW w \in Workers, NEW c \in batch[w],
             MarkFailed(w, c) \/ MarkFailedError(w, c)
      PROVE  SnapshotInv'
  <2>1. \A u \in Workers : HoldsLess(u)
    BY <1>7, MovesHoldLess DEF MarkFailed, MarkFailedError
  <2>2. CASE row' = row
    BY <2>1, <2>2, SnapshotSafe
  <2>3. ASSUME NEW now \in Readings(w), row[c.id] # NULL,
               RecordFailed(c.id, now + RetryDelay(c.attempts + 1))
        PROVE  SnapshotInv'
    <3>. DEFINE retryAt == now + RetryDelay(c.attempts + 1)
    <3>1. retryAt \in Time /\ retryAt > MaxSkew
      <4>1. c.attempts + 1 \in Nat \ {0}
        BY AttemptsRange DEF TypeOK, ClaimedOutboxEvent
      <4>2. /\ RetryDelay(c.attempts + 1) > MaxSkew + MaxCallTicks
            /\ RetryDelay(c.attempts + 1) \in Int
        BY <4>1, RetryDelayRange, BackoffAssumption, ClockAssumption,
           SizesAssumption DEF Lesser
      <4>3. /\ Skew[w] - MaxCallTicks <= now /\ now \in Int
            /\ Skew[w] \in 0..MaxSkew
        BY ReadingRange, TimeFacts, ClockAssumption
      <4>4. retryAt \in Time
        BY <4>1, TimeFacts
      <4>. QED
        BY <4>2, <4>3, <4>4, ClockAssumption, SizesAssumption
    <3>. HIDE DEF retryAt
    <3>2. /\ row'[c.id].nextAttemptAt = retryAt /\ row'[c.id].lockedBy = NULL
          /\ \A f \in Events \ {c.id} : row'[f] = row[f]
      BY <1>0, <2>3, <3>1, RecordFailedEffect DEF WritesOne, retryAt
    <3>3. \A u \in Workers : /\ \A d \in cand'[u] : d \in cand[u]
                             /\ \A d \in batch'[u] : d \in batch[u]
                             /\ cand'[u] # {} => stamp'[u] = stamp[u]
      BY <2>1 DEF HoldsLess
    <3>4. \A u \in Workers : stamp[u] \in Int /\ stamp[u] <= MaxSkew
      <4>1. \A u \in Workers : Skew[u] \in 0..MaxSkew /\ stamp[u] <= Skew[u]
                               /\ stamp[u] \in Int
        BY TimeFacts, ClockAssumption DEF TypeOK, WorkerInv
      <4>. QED
        BY <4>1, ClockAssumption
    <3>5. \A u \in Workers : \A d \in cand'[u] : Pending(d.id)' =>
             \/ row'[d.id].attempts = d.attempts
             \/ row'[d.id].nextAttemptAt > stamp'[u]
      <4>. SUFFICES ASSUME NEW u \in Workers, NEW d \in cand'[u], Pending(d.id)'
                    PROVE  \/ row'[d.id].attempts = d.attempts
                           \/ row'[d.id].nextAttemptAt > stamp'[u]
        OBVIOUS
      <4>1. d \in cand[u] /\ stamp'[u] = stamp[u] /\ d.id \in Events
        BY <1>0, <3>3
      <4>2. CASE d.id = c.id
        BY <3>1, <3>2, <3>4, <4>1, <4>2, TimeFacts, ClockAssumption
      <4>3. CASE d.id # c.id
        BY <3>2, <4>1, <4>3 DEF SnapshotInv, Pending
      <4>. QED
        BY <4>2, <4>3
    <3>6. \A u \in Workers : \A d \in batch'[u] : Owned(d.id, u)' =>
             row'[d.id].attempts = d.attempts
      BY <1>0, <3>2, <3>3 DEF SnapshotInv, Owned
    <3>. QED
      BY <3>5, <3>6 DEF SnapshotInv
  <2>. QED
    BY <1>7, <2>2, <2>3 DEF MarkFailed, MarkFailedError, Owned
<1>8. ASSUME NEW w \in Workers, DeletePublishedBefore(w) PROVE SnapshotInv'
  <2>1. \A u \in Workers : HoldsLess(u)
    BY <1>8 DEF DeletePublishedBefore, HoldsLess
  <2>2. \A e \in Events : row'[e] # NULL => row'[e] = row[e]
    BY <1>8 DEF DeletePublishedBefore
  <2>. QED
    BY <2>1, <2>2, SnapshotSafe DEF Pending
<1>9. CASE Tick
  <2>1. \A e \in Events : row'[e] # NULL =>
          /\ row[e] # NULL /\ row[e].nextAttemptAt \in Time
          /\ row'[e].publishedAt = NULL <=> row[e].publishedAt = NULL
          /\ row'[e].lockedBy = row[e].lockedBy
          /\ row'[e].attempts = row[e].attempts
          /\ row'[e].nextAttemptAt = Aged(row[e].nextAttemptAt)
    BY <1>9, TickEffect, RowFields
  <2>2. UNCHANGED <<cand, batch>>
    BY <1>9 DEF Tick
  <2>3. \A w \in Workers : cand[w] # {} =>
           /\ stamp[w] \in Int /\ stamp[w] > -Horizon
           /\ stamp'[w] = stamp[w] - 1
    <3>. SUFFICES ASSUME NEW w \in Workers, cand[w] # {}
                  PROVE  /\ stamp[w] \in Int /\ stamp[w] > -Horizon
                         /\ stamp'[w] = stamp[w] - 1
      OBVIOUS
    <3>1. pc[w] = "claim"
      BY DEF WorkerInv
    <3>2. stamp[w] \in Int /\ Skew[w] - stamp[w] < MaxCallTicks
      BY <1>9, <3>1, TimeFacts DEF Tick, MayTick, TypeOK
    <3>3. Skew[w] \in 0..MaxSkew
      BY ClockAssumption
    <3>4. stamp[w] > -Horizon /\ stamp[w] # NULL
      BY <3>2, <3>3, ClockAssumption, SizesAssumption, NullAssumption
    <3>5. stamp'[w] = Aged(stamp[w])
      BY <1>9, <3>1 DEF Tick
    <3>. QED
      BY <3>2, <3>4, <3>5 DEF Aged
  <2>4. \A t \in Time : \A s \in Int :
           t > s /\ s > -Horizon => Aged(t) > s - 1
    BY TimeFacts, ClockAssumption, NullAssumption DEF Aged
  <2>5. \A w \in Workers : \A c \in cand'[w] : Pending(c.id)' =>
           \/ row'[c.id].attempts = c.attempts
           \/ row'[c.id].nextAttemptAt > stamp'[w]
    BY <1>0, <2>1, <2>2, <2>3, <2>4 DEF SnapshotInv, Pending
  <2>6. \A w \in Workers : \A c \in batch'[w] : Owned(c.id, w)' =>
           row'[c.id].attempts = c.attempts
    BY <1>0, <2>1, <2>2 DEF SnapshotInv, Owned
  <2>. QED
    BY <2>5, <2>6 DEF SnapshotInv
<1>10. CASE UNCHANGED vars
  BY <1>10 DEF vars, SnapshotInv, Pending, Owned
<1>. QED
  BY <1>1, <1>2, <1>3, <1>4, <1>5, <1>6, <1>7, <1>8, <1>9, <1>10
     DEF Next, Claim, Relay, Failure, Pauses

\* If the first retry delay outlasts the clock skew and the age of a reading,
\* the attempts that a worker counts with are those of the row it owns.
THEOREM SnapshotsAreCurrent ==
    ASSUME Lesser(FirstDelay, MaxRetryDelay) > MaxSkew + MaxCallTicks
    PROVE  Spec => []SnapshotIsCurrent
<1>. DEFINE IInv == TypeOK /\ WorkerInv /\ StoredInv /\ SnapshotInv
<1>1. Init => IInv
  BY TimeFacts, SizesAssumption, ClockAssumption, NullAssumption
     DEF Init, TypeOK, WorkerInv, StoredInv, PublishedIsStored, SnapshotInv,
         Busy
<1>2. IInv /\ [Next]_vars => IInv'
  BY TypeStep, WorkerStep, StoredStep, SnapshotStep
<1>3. IInv => SnapshotIsCurrent
  BY DEF SnapshotInv, SnapshotIsCurrent
<1>. HIDE DEF IInv
<1>. QED
  BY <1>1, <1>2, <1>3, PTL DEF Spec
=============================================================================
