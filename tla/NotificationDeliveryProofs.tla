---------------------- MODULE NotificationDeliveryProofs ----------------------
(***************************************************************************)
(* Theorems about NotificationDelivery for any number of overlapping calls *)
(* and of faults, any lease and any clock skew.                            *)
(***************************************************************************)
EXTENDS NotificationDelivery, FiniteSetTheorems, TLAPS

(***************************************************************************)
(* Facts about instants and about the updates of the row                   *)
(***************************************************************************)

\* The present is an instant, every clock reading of a claim is one, and
\* none of them is the NULL of the claimedAt column.
LEMMA TimeFacts ==
    /\ 0 \in Time /\ Time \subseteq Int /\ NULL \notin Time
    /\ \A c \in Calls : Skew[c] \in Time
    /\ \A t \in Time : t <= MaxSkew /\ -Horizon <= t
<1>. \A c \in Calls : Skew[c] \in 0..MaxSkew
  BY ClockAssumption
<1>. QED
  BY ClockAssumption, NullAssumption DEF Time

\* Ageing keeps an instant an instant, and moves it by one until it is too
\* old to matter.
LEMMA AgedRange ==
    /\ Aged(NULL) = NULL
    /\ \A t \in Time : Aged(t) \in Time
    /\ \A t \in Time : t # -Horizon => Aged(t) = t - 1
    /\ \A t \in Time \cup {NULL} : Aged(t) = NULL <=> t = NULL
BY ClockAssumption, NullAssumption DEF Aged, Time

LEMMA RowFields ==
    ASSUME NEW r \in Delivery
    PROVE  /\ r.claimedAt \in Time \cup {NULL}
           /\ r.claimToken \in Calls \cup {NULL}
           /\ r.sentAt \in BOOLEAN
           /\ r # NULL
BY NullAssumption DEF Delivery

\* The two rows that statements write.
LEMMA WrittenRows ==
    ASSUME TypeOK
    PROVE  /\ \A c \in Calls :
                /\ Claimed(c) \in Delivery
                /\ Claimed(c).claimedAt = now[c] /\ Claimed(c).claimToken = c
                /\ Claimed(c).sentAt = FALSE
           /\ \A b \in BOOLEAN :
                /\ Released(b) \in Delivery
                /\ Released(b).claimedAt = NULL
                /\ Released(b).sentAt = b
BY DEF TypeOK, Claimed, Released, Delivery

\* A tick ages the claim and changes nothing else of the row.
LEMMA TickEffect ==
    ASSUME TypeOK, Tick
    PROVE  /\ row = NULL <=> row' = NULL
           /\ row # NULL =>
                /\ row \in Delivery /\ row' \in Delivery
                /\ row'.claimedAt = Aged(row.claimedAt)
                /\ row'.claimToken = row.claimToken
                /\ row'.sentAt = row.sentAt
<1>1. CASE row = NULL
  BY <1>1 DEF Tick
<1>2. CASE row # NULL
  <2>1. row \in Delivery
    BY <1>2 DEF TypeOK
  <2>2. row' = [row EXCEPT !.claimedAt = Aged(row.claimedAt)]
    BY <1>2 DEF Tick
  <2>3. Aged(row.claimedAt) \in Time \cup {NULL}
    BY <2>1, RowFields, AgedRange
  <2>4. row' \in Delivery
    BY <2>1, <2>2, <2>3 DEF Delivery
  <2>. QED
    BY <1>2, <2>1, <2>2, <2>4, NullAssumption DEF Delivery
<1>. QED
  BY <1>1, <1>2

(***************************************************************************)
(* The steps of a call, by what they do to the row                         *)
(***************************************************************************)

\* A call writes the row as claimed by it: it inserts the row, it takes a
\* released row, or it takes a lapsed claim over.
Claims(c) ==
    /\ row' = Claimed(c)
    /\ \/ row = NULL /\ UNCHANGED takeovers
       \/ /\ row # NULL /\ row.claimedAt = NULL /\ ~row.sentAt
          /\ UNCHANGED takeovers
       \/ /\ row # NULL /\ row.claimedAt # NULL /\ ~row.sentAt
          /\ row.claimedAt < now[c] - Lease
          /\ takeovers' = takeovers + 1

\* A call that claims is at `create' or at `update', and goes on to send
\* unless the statement fails.
ClaimStep(c) ==
    /\ pc[c] \in {"create", "update"}
    /\ Claims(c)
    /\ UNCHANGED sent
    /\ \/ To(c, "send") /\ UNCHANGED faults
       \/ To(c, "thrown") /\ Fault

\* A call that releases the row owned it.
ReleaseStep(c) ==
    /\ Owned(c)
    /\ UNCHANGED <<sent, takeovers>>
    /\ UNCHANGED faults \/ Fault
    /\ \/ /\ pc[c] = "markSent" /\ row' = Released(TRUE)
          /\ To(c, "ok") \/ To(c, "thrown")
       \/ pc[c] = "markFailed" /\ row' = Released(FALSE) /\ To(c, "thrown")

\* Any other step of a call that leaves the row alone.
QuietStep(c) ==
    /\ UNCHANGED <<row, takeovers>>
    /\ \/ Begin(c)
       \/ /\ UNCHANGED <<sent, faults>>
          /\ \/ pc[c] = "create" /\ To(c, "find")
             \/ pc[c] = "find" /\ To(c, "update")
             \/ pc[c] = "find" /\ Sent /\ To(c, "ok")
             \/ pc[c] = "update" /\ To(c, "recheck")
             \/ pc[c] = "recheck" /\ Sent /\ To(c, "ok")
             \/ /\ pc[c] \in {"recheck", "markSent", "markFailed"}
                /\ To(c, "thrown")
       \/ /\ UNCHANGED sent /\ Fault
          /\ \/ pc[c] \in Claiming \cup {"markSent", "markFailed"}
                /\ To(c, "thrown")
             \/ pc[c] \in Claiming \cup Holding /\ To(c, "dead")
       \/ SendAccepted(c)
       \/ SendFailed(c)

\* Every step of a call is one of the three.
LEMMA StepKinds ==
    ASSUME TypeOK, NEW c \in Calls,
           \/ Begin(c) \/ Create(c) \/ Find(c) \/ Update(c) \/ Recheck(c)
           \/ ClaimError(c) \/ SendAccepted(c) \/ SendFailed(c)
           \/ MarkSent(c) \/ MarkSentError(c)
           \/ MarkFailed(c) \/ MarkFailedError(c) \/ Crash(c)
    PROVE  ClaimStep(c) \/ ReleaseStep(c) \/ QuietStep(c)
<1>1. ASSUME Available(c), Reclaim(c) PROVE Claims(c)
  BY <1>1 DEF Available, Reclaim, Claims, TypeOK
<1>2. CASE Begin(c) \/ SendAccepted(c) \/ SendFailed(c)
  BY <1>2 DEF Begin, SendAccepted, SendFailed, QuietStep
<1>3. CASE Create(c)
  BY <1>3 DEF Create, ClaimStep, Claims, QuietStep
<1>4. CASE Find(c) \/ Recheck(c)
  BY <1>4 DEF Find, Recheck, QuietStep
<1>5. CASE Update(c)
  BY <1>1, <1>5 DEF Update, ClaimStep, QuietStep
<1>6. CASE ClaimError(c)
  BY <1>1, <1>6 DEF ClaimError, ClaimStep, Claims, QuietStep
<1>7. CASE MarkSent(c) \/ MarkSentError(c)
  BY <1>7 DEF MarkSent, MarkSentError, ReleaseStep, QuietStep
<1>8. CASE MarkFailed(c) \/ MarkFailedError(c)
  BY <1>8 DEF MarkFailed, MarkFailedError, ReleaseStep, QuietStep
<1>9. CASE Crash(c)
  BY <1>9 DEF Crash, QuietStep
<1>. QED
  BY <1>2, <1>3, <1>4, <1>5, <1>6, <1>7, <1>8, <1>9

(***************************************************************************)
(* Type correctness                                                        *)
(***************************************************************************)

Label == Claiming \cup Holding \cup {"new", "ok", "thrown", "dead"}

\* Where a call goes next, only it goes, and the others keep their readings.
LEMMA ToEffect ==
    ASSUME TypeOK, NEW c \in Calls, NEW label \in Label, To(c, label)
    PROVE  /\ pc' \in [Calls -> Label] /\ now' \in [Calls -> Time]
           /\ pc'[c] = label
           /\ \A d \in Calls \ {c} : pc'[d] = pc[d] /\ now'[d] = now[d]
           /\ label \in Holding => now'[c] = now[c]
BY TimeFacts DEF TypeOK, To, Label, Holding

\* TypeOK without the number of takeovers, which is bounded by counting.
ValuesOK ==
    /\ row \in Delivery \cup {NULL}
    /\ pc \in [Calls -> Label]
    /\ now \in [Calls -> Time]
    /\ sent \subseteq Calls
    /\ faults \in 0..MaxFaults

LEMMA TypeParts == TypeOK <=> ValuesOK /\ takeovers \in 0..Cardinality(Calls)
BY DEF TypeOK, ValuesOK, Label

LEMMA FaultType ==
    TypeOK /\ Fault => faults' \in 0..MaxFaults /\ faults' = faults + 1
BY ClockAssumption DEF TypeOK, Fault

\* A step of a system around the record, perhaps a fault counted with those
\* of the record.
Elsewhere == /\ UNCHANGED <<row, pc, now, sent, takeovers>>
             /\ faults' \in 0..MaxFaults

\* The steps that the invariants survive: those of Next, and all around them.
Moved ==
    \/ \E c \in Calls : ClaimStep(c) \/ ReleaseStep(c) \/ QuietStep(c)
    \/ Tick
    \/ Elsewhere

LEMMA NextMoves == TypeOK /\ [Next]_vars => Moved
BY StepKinds DEF Next, Moved, Elsewhere, vars, TypeOK

LEMMA ValuesStep ==
    ASSUME TypeOK, Moved
    PROVE  ValuesOK'
<1>0. ValuesOK
  BY TypeParts
<1>1. ASSUME NEW c \in Calls, ClaimStep(c) PROVE ValuesOK'
  <2>1. Claimed(c) \in Delivery
    BY WrittenRows
  <2>2. pc' \in [Calls -> Label] /\ now' \in [Calls -> Time]
    BY <1>1, ToEffect DEF ClaimStep, Label, Holding
  <2>. QED
    BY <1>0, <1>1, <2>1, <2>2, FaultType DEF ClaimStep, Claims, ValuesOK
<1>2. ASSUME NEW c \in Calls, ReleaseStep(c) PROVE ValuesOK'
  <2>1. \A b \in BOOLEAN : Released(b) \in Delivery
    BY WrittenRows
  <2>2. pc' \in [Calls -> Label] /\ now' \in [Calls -> Time]
    BY <1>2, ToEffect DEF ReleaseStep, Label
  <2>. QED
    BY <1>0, <1>2, <2>1, <2>2, FaultType DEF ReleaseStep, ValuesOK
<1>3. ASSUME NEW c \in Calls, QuietStep(c) PROVE ValuesOK'
  <2>1. pc' \in [Calls -> Label] /\ now' \in [Calls -> Time]
    <3>1. CASE Begin(c)
      BY <1>0, <3>1, TimeFacts DEF Begin, ValuesOK, Label, Claiming
    <3>2. CASE \E label \in Label : To(c, label)
      BY <3>2, ToEffect
    <3>. QED
      BY <1>3, <3>1, <3>2
         DEF QuietStep, SendAccepted, SendFailed, Label, Claiming, Holding
  <2>. QED
    BY <1>0, <1>3, <2>1, FaultType
       DEF QuietStep, Begin, SendAccepted, SendFailed, ValuesOK
<1>4. CASE Tick
  <2>1. row' \in Delivery \cup {NULL}
    BY <1>0, <1>4, TickEffect DEF ValuesOK
  <2>2. now' \in [Calls -> Time]
    BY <1>0, <1>4, AgedRange DEF Tick, ValuesOK
  <2>. QED
    BY <1>0, <1>4, <2>1, <2>2 DEF Tick, ValuesOK
<1>5. CASE Elsewhere
  BY <1>0, <1>5 DEF Elsewhere, ValuesOK
<1>. QED
  BY <1>1, <1>2, <1>3, <1>4, <1>5 DEF Moved

\* The calls that have been past their update: each takes over at most once.
Past == {c \in Calls : pc[c] \notin {"new", "create", "find", "update"}}

TakeoversInv == takeovers \in Nat /\ takeovers <= Cardinality(Past)

LEMMA PastFinite ==
    /\ IsFiniteSet(Past) /\ Cardinality(Past) \in Nat
    /\ Cardinality(Past) <= Cardinality(Calls) /\ Cardinality(Calls) \in Nat
<1>1. Past \in SUBSET Calls
  BY DEF Past
<1>. QED
  BY <1>1, CallsAssumption, FS_Subset, FS_CardinalityType

\* No call comes back from beyond its update.
LEMMA PastGrows ==
    ASSUME Past \subseteq Past', IsFiniteSet(Past')
    PROVE  Cardinality(Past) <= Cardinality(Past')
BY FS_Subset

LEMMA TakeoversStep ==
    ASSUME TypeOK, ValuesOK', TakeoversInv, Moved
    PROVE  TakeoversInv'
<1>0. /\ IsFiniteSet(Past') /\ Cardinality(Past') \in Nat
      /\ Cardinality(Past) \in Nat
  <2>1. Past' \in SUBSET Calls
    BY DEF Past
  <2>. QED
    BY <2>1, PastFinite, CallsAssumption, FS_Subset, FS_CardinalityType
<1>1. ASSUME NEW c \in Calls, ClaimStep(c) PROVE TakeoversInv'
  <2>1. pc'[c] \in {"send", "thrown"} /\ \A d \in Calls \ {c} : pc'[d] = pc[d]
    BY <1>1, ToEffect DEF ClaimStep, Label, Holding
  <2>2. Past' = Past \cup {c} /\ c \notin Past
    BY <1>1, <2>1 DEF Past, ClaimStep
  <2>3. Cardinality(Past') = Cardinality(Past) + 1
    BY <2>2, PastFinite, FS_AddElement
  <2>4. takeovers' = takeovers \/ takeovers' = takeovers + 1
    BY <1>1 DEF ClaimStep, Claims
  <2>. QED
    BY <1>0, <2>3, <2>4 DEF TakeoversInv
<1>2. ASSUME NEW c \in Calls, ReleaseStep(c) \/ QuietStep(c)
      PROVE  TakeoversInv'
  <2>1. takeovers' = takeovers
    BY <1>2 DEF ReleaseStep, QuietStep
  <2>2. CASE Begin(c)
    <3>1. Past \subseteq Past'
      BY <2>2 DEF Begin, Past, TypeOK
    <3>. QED
      BY <1>0, <2>1, <3>1, PastGrows DEF TakeoversInv
  <2>3. ASSUME NEW label \in Label, To(c, label),
               \/ label \notin {"new", "create", "find", "update"}
               \/ pc[c] \in {"create", "find"}
        PROVE  TakeoversInv'
    <3>1. pc'[c] = label /\ \A d \in Calls \ {c} : pc'[d] = pc[d]
      BY <2>3, ToEffect
    <3>2. Past \subseteq Past'
      BY <2>3, <3>1 DEF Past
    <3>. QED
      BY <1>0, <2>1, <3>2, PastGrows DEF TakeoversInv
  <2>. QED
    BY <1>2, <2>2, <2>3
       DEF ReleaseStep, QuietStep, SendAccepted, SendFailed, Label, Claiming,
           Holding
<1>3. CASE Tick \/ Elsewhere
  BY <1>3 DEF Tick, Elsewhere, TakeoversInv, Past
<1>. QED
  BY <1>1, <1>2, <1>3 DEF Moved

LEMMA TypeStep ==
    TypeOK /\ TakeoversInv /\ Moved => (TypeOK /\ TakeoversInv)'
<1>. SUFFICES ASSUME TypeOK, TakeoversInv, Moved
              PROVE  TypeOK' /\ TakeoversInv'
  OBVIOUS
<1>1. ValuesOK' /\ TakeoversInv'
  BY ValuesStep, TakeoversStep
<1>2. Cardinality(Past') <= Cardinality(Calls) /\ Cardinality(Past') \in Nat
  <2>1. Past' \in SUBSET Calls
    BY DEF Past
  <2>. QED
    BY <2>1, CallsAssumption, FS_Subset, FS_CardinalityType
<1>3. takeovers' \in 0..Cardinality(Calls)
  BY <1>1, <1>2, PastFinite DEF TakeoversInv
<1>. QED
  BY <1>1, <1>3 DEF TypeOK, ValuesOK, Label

LEMMA TypeInit == Init => TypeOK /\ TakeoversInv
<1>. SUFFICES ASSUME Init PROVE TypeOK /\ TakeoversInv
  OBVIOUS
<1>1. TakeoversInv
  BY PastFinite DEF Init, TakeoversInv
<1>. QED
  BY <1>1, PastFinite, TimeFacts, ClockAssumption DEF Init, TypeOK

\* Row, calls and clock readings always hold values of their types, and no
\* more leases are taken over than there are calls.
THEOREM TypeCorrect == Spec => []TypeOK
BY TypeInit, NextMoves, TypeStep, PTL DEF Spec

(***************************************************************************)
(* The claim                                                               *)
(***************************************************************************)

\* While its claim has not lapsed by any clock, a call at work owns the row,
\* which records the instant at which it read its clock.
ClaimInv ==
    \A c \in Calls : pc[c] \in Holding /\ Unexpired(c) =>
        Owned(c) /\ row.claimedAt = now[c]

\* An unexpired reading is within the horizon, so that ageing moves it.
LEMMA UnexpiredIsRecent ==
    ASSUME TypeOK, NEW c \in Calls, MaxSkew - Aged(now[c]) <= Lease
    PROVE  now[c] # -Horizon /\ Aged(now[c]) = now[c] - 1 /\ Unexpired(c)
<1>1. now[c] \in Time /\ now[c] \in Int
  BY TimeFacts DEF TypeOK
<1>2. now[c] # -Horizon
  <2>. SUFFICES ASSUME now[c] = -Horizon PROVE FALSE
    OBVIOUS
  <2>1. Aged(now[c]) = -Horizon
    BY DEF Aged
  <2>. QED
    BY <2>1, ClockAssumption
<1>3. Aged(now[c]) = now[c] - 1
  BY <1>1, <1>2, AgedRange
<1>. QED
  BY <1>1, <1>2, <1>3, ClockAssumption DEF Unexpired

\* A claim does not take the row from a call whose claim has not lapsed.
LEMMA ClaimsSpareTheUnexpired ==
    ASSUME TypeOK, ClaimInv, NEW c \in Calls, NEW d \in Calls, Claims(c),
           pc[d] \in Holding, Unexpired(d)
    PROVE  FALSE
<1>1. row # NULL /\ row.claimedAt = now[d] /\ now[d] \in Time
  BY DEF ClaimInv, Owned, TypeOK
<1>2. row.claimedAt # NULL /\ now[d] < now[c] - Lease
  BY <1>1, TimeFacts DEF Claims
<1>3. now[c] \in Int /\ now[d] \in Int /\ now[c] <= MaxSkew
  BY <1>1, TimeFacts DEF TypeOK
<1>. QED
  BY <1>2, <1>3, ClockAssumption DEF Unexpired

\* A step of another call keeps what a holder knows.
LEMMA ClaimStepKeeps ==
    TypeOK /\ ClaimInv /\ [Next]_vars => ClaimInv'
<1>. SUFFICES ASSUME TypeOK, ClaimInv, [Next]_vars,
                     NEW d \in Calls, pc'[d] \in Holding, Unexpired(d)'
              PROVE  Owned(d)' /\ row'.claimedAt = now'[d]
  BY DEF ClaimInv
<1>1. ASSUME NEW c \in Calls, ClaimStep(c)
      PROVE  Owned(d)' /\ row'.claimedAt = now'[d]
  <2>1. \E label \in {"send", "thrown"} : To(c, label)
    BY <1>1 DEF ClaimStep
  <2>2. CASE d = c
    <3>1. pc'[c] # "thrown"
      BY <2>2 DEF Holding
    <3>2. now'[c] = now[c]
      BY <2>1, <3>1, ToEffect DEF Label, Holding
    <3>. QED
      BY <1>1, <2>2, <3>2, WrittenRows, NullAssumption
         DEF ClaimStep, Claims, Owned
  <2>3. CASE d # c
    <3>1. pc[d] = pc'[d] /\ now[d] = now'[d]
      BY <2>1, <2>3, ToEffect DEF Label, Holding
    <3>2. pc[d] \in Holding /\ Unexpired(d)
      BY <3>1 DEF Unexpired
    <3>. QED
      BY <1>1, <3>2, ClaimsSpareTheUnexpired DEF ClaimStep
  <2>. QED
    BY <2>2, <2>3
<1>2. ASSUME NEW c \in Calls, ReleaseStep(c)
      PROVE  Owned(d)' /\ row'.claimedAt = now'[d]
  <2>1. pc'[c] \in {"ok", "thrown"}
        /\ \A e \in Calls \ {c} : pc'[e] = pc[e] /\ now'[e] = now[e]
    BY <1>2, ToEffect DEF ReleaseStep, Label
  <2>2. d # c
    BY <2>1 DEF Holding
  <2>3. Owned(d)
    BY <2>1, <2>2 DEF ClaimInv, Unexpired
  <2>. QED
    BY <1>2, <2>2, <2>3 DEF ReleaseStep, Owned
<1>3. ASSUME NEW c \in Calls, QuietStep(c)
      PROVE  Owned(d)' /\ row'.claimedAt = now'[d]
  <2>1. pc[d] \in Holding /\ now'[d] = now[d]
    <3>1. CASE Begin(c)
      BY <3>1 DEF Begin, TypeOK, Holding
    <3>2. ASSUME NEW label \in Label, To(c, label),
                 label \in Holding => pc[c] \in Holding
          PROVE  pc[d] \in Holding /\ now'[d] = now[d]
      <4>1. /\ pc'[c] = label
            /\ \A e \in Calls \ {c} : pc'[e] = pc[e] /\ now'[e] = now[e]
            /\ label \in Holding => now'[c] = now[c]
        BY <3>2, ToEffect
      <4>. QED
        BY <3>2, <4>1
    <3>. QED
      BY <1>3, <3>1, <3>2
         DEF QuietStep, SendAccepted, SendFailed, Label, Claiming, Holding
  <2>. QED
    BY <1>3, <2>1 DEF QuietStep, ClaimInv, Unexpired, Owned
<1>4. CASE Tick
  <2>1. pc[d] \in Holding /\ now'[d] = Aged(now[d])
    BY <1>4 DEF Tick
  <2>2. Unexpired(d)
    BY <2>1, UnexpiredIsRecent DEF Unexpired
  <2>3. Owned(d) /\ row.claimedAt = now[d]
    BY <2>1, <2>2 DEF ClaimInv
  <2>. QED
    BY <1>4, <2>1, <2>3, TickEffect DEF Owned
<1>5. CASE UNCHANGED vars
  BY <1>5 DEF vars, ClaimInv, Unexpired, Owned
<1>. QED
  BY <1>1, <1>2, <1>3, <1>4, <1>5, StepKinds DEF Next

\* Two calls never both work under a claim that has not lapsed, although each
\* judges the other's lease by its own clock (claim, markSent, markFailed).
THEOREM ClaimsAreExclusive == Spec => []ClaimExclusive
<1>. DEFINE IInv == TypeOK /\ TakeoversInv /\ ClaimInv
<1>1. Init => IInv
  BY TypeInit DEF Init, ClaimInv, Holding
<1>2. IInv /\ [Next]_vars => IInv'
  BY NextMoves, TypeStep, ClaimStepKeeps
<1>3. IInv => ClaimExclusive
  BY DEF ClaimInv, ClaimExclusive, Owned
<1>. HIDE DEF IInv
<1>. QED
  BY <1>1, <1>2, <1>3, PTL DEF Spec

(***************************************************************************)
(* What the record says of the channel                                     *)
(***************************************************************************)

\* A call that is about to mark the row as sent has sent, the row is marked
\* only when something was sent, and a call that returned has seen the mark.
SentInv ==
    /\ \A c \in Calls : pc[c] = "markSent" => c \in sent
    /\ Sent => sent # {}
    /\ \A c \in Calls : pc[c] = "ok" => Sent

LEMMA SentStep == TypeOK /\ SentInv /\ Moved => SentInv'
<1>. SUFFICES ASSUME TypeOK, SentInv, Moved PROVE SentInv'
  OBVIOUS
<1>1. ASSUME NEW c \in Calls, ClaimStep(c) PROVE SentInv'
  <2>1. pc'[c] \in {"send", "thrown"} /\ \A d \in Calls \ {c} : pc'[d] = pc[d]
    BY <1>1, ToEffect DEF ClaimStep, Label, Holding
  <2>2. ~Sent
    BY <1>1 DEF ClaimStep, Claims, Sent
  <2>3. ~Sent'
    BY <1>1, WrittenRows DEF ClaimStep, Claims, Sent
  <2>. QED
    BY <1>1, <2>1, <2>2, <2>3 DEF ClaimStep, SentInv
<1>2. ASSUME NEW c \in Calls, ReleaseStep(c) PROVE SentInv'
  <2>1. pc'[c] \in {"ok", "thrown"} /\ \A d \in Calls \ {c} : pc'[d] = pc[d]
    BY <1>2, ToEffect DEF ReleaseStep, Label
  <2>2. ~Sent
    BY <1>2 DEF ReleaseStep, Owned, Sent
  <2>3. CASE pc[c] = "markSent" /\ row' = Released(TRUE)
    <3>1. Sent'
      BY <2>3, WrittenRows, NullAssumption DEF Sent
    <3>. QED
      BY <1>2, <2>1, <2>2, <2>3, <3>1 DEF ReleaseStep, SentInv
  <2>4. CASE row' = Released(FALSE) /\ To(c, "thrown")
    <3>1. ~Sent'
      BY <2>4, WrittenRows DEF Sent
    <3>2. pc'[c] = "thrown"
      BY <2>4, ToEffect DEF Label
    <3>. QED
      BY <1>2, <2>1, <2>2, <3>1, <3>2 DEF ReleaseStep, SentInv
  <2>. QED
    BY <1>2, <2>3, <2>4 DEF ReleaseStep
<1>3. ASSUME NEW c \in Calls, QuietStep(c) PROVE SentInv'
  <2>1. Sent' <=> Sent
    BY <1>3 DEF QuietStep, Sent
  <2>2. CASE Begin(c)
    BY <2>1, <2>2 DEF Begin, TypeOK, SentInv
  <2>3. CASE SendAccepted(c)
    <3>1. pc'[c] = "markSent" /\ \A d \in Calls \ {c} : pc'[d] = pc[d]
      BY <2>3, ToEffect DEF SendAccepted, Label, Holding
    <3>. QED
      BY <2>1, <2>3, <3>1 DEF SendAccepted, SentInv
  <2>4. ASSUME NEW label \in Label, To(c, label), label # "markSent",
               label = "ok" => Sent, sent \subseteq sent'
        PROVE  SentInv'
    <3>1. pc'[c] = label /\ \A d \in Calls \ {c} : pc'[d] = pc[d]
      BY <2>4, ToEffect
    <3>. QED
      BY <2>1, <2>4, <3>1 DEF SentInv
  <2>. QED
    BY <1>3, <2>2, <2>3, <2>4
       DEF QuietStep, SendFailed, Label, Claiming, Holding
<1>4. CASE Tick
  <2>1. Sent' <=> Sent
    BY <1>4, TickEffect DEF Sent
  <2>. QED
    BY <1>4, <2>1 DEF Tick, SentInv
<1>5. CASE Elsewhere
  BY <1>5 DEF Elsewhere, SentInv, Sent
<1>. QED
  BY <1>1, <1>2, <1>3, <1>4, <1>5 DEF Moved

\* A handler that returns leaves a notification that the channel accepted and
\* a row that says so, so its message may be acknowledged.
THEOREM AcknowledgedWasSent == Spec => []OkMeansSent
<1>. DEFINE IInv == TypeOK /\ TakeoversInv /\ SentInv
<1>1. Init => IInv
  BY TypeInit DEF Init, SentInv, Sent
<1>2. IInv /\ [Next]_vars => IInv'
  BY NextMoves, TypeStep, SentStep
<1>3. IInv => OkMeansSent
  BY DEF SentInv, OkMeansSent
<1>. HIDE DEF IInv
<1>. QED
  BY <1>1, <1>2, <1>3, PTL DEF Spec

LEMMA SentStays == TypeOK /\ Moved /\ Sent => Sent'
<1>. SUFFICES ASSUME TypeOK, Moved, Sent PROVE Sent'
  OBVIOUS
<1>1. ASSUME NEW c \in Calls, ClaimStep(c) PROVE FALSE
  BY <1>1 DEF ClaimStep, Claims, Sent
<1>2. ASSUME NEW c \in Calls, ReleaseStep(c) PROVE FALSE
  BY <1>2 DEF ReleaseStep, Owned, Sent
<1>3. ASSUME NEW c \in Calls, QuietStep(c) PROVE Sent'
  BY <1>3 DEF QuietStep, Sent
<1>4. CASE Tick
  BY <1>4, TickEffect DEF Sent
<1>5. CASE Elsewhere
  BY <1>5 DEF Elsewhere, Sent
<1>. QED
  BY <1>1, <1>2, <1>3, <1>4, <1>5 DEF Moved

\* A row that is marked as sent stays so: no call claims or releases it.
THEOREM SentIsFinal == Spec => [][Sent => Sent']_vars
<1>1. TypeOK /\ [Next]_vars => [Sent => Sent']_vars
  BY NextMoves, SentStays
<1>. QED
  BY TypeCorrect, <1>1, PTL DEF Spec

(***************************************************************************)
(* Before any lease has lapsed                                             *)
(***************************************************************************)

\* The two marks of a claim come and go together, and as long as no claim was
\* taken over the row belongs to every call that will still send or release.
HolderInv ==
    /\ row # NULL => (row.claimedAt = NULL <=> row.claimToken = NULL)
    /\ takeovers = 0 => \A c \in Calls : pc[c] \in Holding => Owned(c)

LEMMA HolderStep == TypeOK /\ HolderInv /\ Moved => HolderInv'
<1>. SUFFICES ASSUME TypeOK, HolderInv, Moved PROVE HolderInv'
  OBVIOUS
<1>0. takeovers \in Nat /\ \A d \in Calls : d # NULL
  BY NullAssumption DEF TypeOK
<1>1. ASSUME NEW c \in Calls, ClaimStep(c) PROVE HolderInv'
  <2>1. /\ row' # NULL /\ row'.claimedAt = now[c] /\ row'.claimToken = c
        /\ row'.sentAt = FALSE /\ now[c] # NULL
    <3>1. row' = Claimed(c) /\ Claimed(c) \in Delivery
      BY <1>1, WrittenRows DEF ClaimStep, Claims
    <3>2. now[c] # NULL /\ row' # NULL
      BY <3>1, NullAssumption, TimeFacts DEF TypeOK
    <3>. QED
      BY <3>1, <3>2, WrittenRows
  <2>2. takeovers' = 0 => takeovers = 0 /\ (row = NULL \/ row.claimedAt = NULL)
    BY <1>0, <1>1 DEF ClaimStep, Claims
  <2>3. takeovers' = 0 => \A d \in Calls : pc[d] \notin Holding
    BY <1>0, <2>2 DEF HolderInv, Owned
  <2>4. \A d \in Calls \ {c} : pc'[d] = pc[d]
    BY <1>1, ToEffect DEF ClaimStep, Label, Holding
  <2>. QED
    BY <1>0, <2>1, <2>3, <2>4 DEF HolderInv, Owned
<1>2. ASSUME NEW c \in Calls, ReleaseStep(c) PROVE HolderInv'
  <2>1. row' # NULL /\ row'.claimedAt = NULL /\ row'.claimToken = NULL
    <3>1. row' = Released(TRUE) \/ row' = Released(FALSE)
      BY <1>2 DEF ReleaseStep
    <3>2. row' \in Delivery
      BY <3>1, WrittenRows
    <3>. QED
      BY <3>1, <3>2, NullAssumption DEF Released
  <2>2. /\ pc'[c] \notin Holding
        /\ \A d \in Calls \ {c} : pc'[d] = pc[d]
    <3>1. pc'[c] \in {"ok", "thrown"} /\ \A d \in Calls \ {c} : pc'[d] = pc[d]
      BY <1>2, ToEffect DEF ReleaseStep, Label
    <3>. QED
      BY <3>1 DEF Holding
  <2>3. takeovers' = 0 => \A d \in Calls \ {c} : pc[d] \notin Holding
    BY <1>2 DEF ReleaseStep, HolderInv, Owned
  <2>. QED
    BY <2>1, <2>2, <2>3 DEF HolderInv
<1>3. ASSUME NEW c \in Calls, QuietStep(c) PROVE HolderInv'
  <2>1. UNCHANGED <<row, takeovers>>
    BY <1>3 DEF QuietStep
  <2>2. \A d \in Calls : pc'[d] \in Holding => pc[d] \in Holding
    <3>1. CASE Begin(c)
      BY <3>1 DEF Begin, TypeOK, Holding
    <3>2. ASSUME NEW label \in Label, To(c, label),
                 label \in Holding => pc[c] \in Holding
          PROVE  \A d \in Calls : pc'[d] \in Holding => pc[d] \in Holding
      BY <3>2, ToEffect
    <3>. QED
      BY <1>3, <3>1, <3>2
         DEF QuietStep, SendAccepted, SendFailed, Label, Claiming, Holding
  <2>. QED
    BY <2>1, <2>2 DEF HolderInv, Owned
<1>4. CASE Tick
  <2>1. /\ row = NULL <=> row' = NULL
        /\ row # NULL =>
              /\ row \in Delivery /\ row'.claimedAt = Aged(row.claimedAt)
              /\ row'.claimToken = row.claimToken /\ row'.sentAt = row.sentAt
    BY <1>4, TickEffect
  <2>2. row # NULL => (row'.claimedAt = NULL <=> row.claimedAt = NULL)
    BY <2>1, RowFields, AgedRange
  <2>. QED
    BY <1>4, <2>1, <2>2 DEF Tick, HolderInv, Owned
<1>5. CASE Elsewhere
  BY <1>5 DEF Elsewhere, HolderInv, Owned
<1>. QED
  BY <1>1, <1>2, <1>3, <1>4, <1>5 DEF Moved

\* Nothing is sent any more once the row is marked, unless a lease has lapsed.
LEMMA NoMoreSends ==
    TypeOK /\ HolderInv /\ Moved /\ Sent /\ takeovers = 0 => sent' = sent
<1>. SUFFICES ASSUME TypeOK, HolderInv, Moved, Sent, takeovers = 0
              PROVE  sent' = sent
  OBVIOUS
<1>1. \A c \in Calls : pc[c] # "send"
  BY DEF HolderInv, Owned, Sent, Holding
<1>. QED
  BY <1>1 DEF Moved, ClaimStep, ReleaseStep, QuietStep, Begin, SendAccepted,
              SendFailed, Tick, Elsewhere

\* Once the notification is recorded, redeliveries of the event do not send it
\* again, unless the lease of a call at work has lapsed.
THEOREM RecordedIsSentOnce ==
    Spec => [][Sent /\ takeovers = 0 => sent' = sent]_vars
<1>. DEFINE IInv == TypeOK /\ TakeoversInv /\ HolderInv
<1>1. Init => IInv
  BY TypeInit DEF Init, HolderInv, Holding
<1>2. IInv /\ [Next]_vars => IInv'
  BY NextMoves, TypeStep, HolderStep
<1>3. IInv /\ [Next]_vars => [Sent /\ takeovers = 0 => sent' = sent]_vars
  BY NextMoves, NoMoreSends
<1>. HIDE DEF IInv
<1>. QED
  BY <1>1, <1>2, <1>3, PTL DEF Spec

(***************************************************************************)
(* Duplicates                                                              *)
(***************************************************************************)

\* What can still lead to one more send: the calls that may have sent or may
\* be about to, those that will release the row, and the row if it is free.
Senders == sent \cup {c \in Calls : pc[c] = "send"}
Releasers == {c \in Calls : pc[c] = "markFailed"}
Free == IF row = NULL \/ (row.claimedAt = NULL /\ ~row.sentAt) THEN 1 ELSE 0

SenderCount == Cardinality(Senders)
ReleaserCount == Cardinality(Releasers)
Paid == faults + takeovers

\* Each of them but one has been paid for by a fault or a takeover.
Fits(senders, releasers, free, paid) == senders + releasers + free <= 1 + paid

DuplicatesInv == Fits(SenderCount, ReleaserCount, Free, Paid)

\* What is counted is finite.
CountsOK ==
    /\ IsFiniteSet(Senders) /\ IsFiniteSet(Releasers) /\ IsFiniteSet(sent)
    /\ SenderCount \in Nat /\ ReleaserCount \in Nat
    /\ Cardinality(sent) \in Nat /\ Cardinality(sent) <= SenderCount
    /\ Free \in 0..1
    /\ faults \in Nat /\ takeovers \in Nat /\ Paid \in Nat

LEMMA CountTypes == TypeOK => CountsOK
<1>. SUFFICES ASSUME TypeOK PROVE CountsOK
  OBVIOUS
<1>1. Senders \in SUBSET Calls /\ Releasers \in SUBSET Calls
  BY DEF Senders, Releasers, TypeOK
<1>2. sent \in SUBSET Senders
  BY DEF Senders
<1>3. faults \in Nat /\ takeovers \in Nat /\ Paid \in Nat
  BY ClockAssumption, CallsAssumption, FS_CardinalityType DEF TypeOK, Paid
<1>4. IsFiniteSet(Senders) /\ IsFiniteSet(Releasers)
  BY <1>1, CallsAssumption, FS_Subset
<1>5. IsFiniteSet(sent) /\ Cardinality(sent) <= SenderCount
  BY <1>2, <1>4, FS_Subset DEF SenderCount
<1>6. Free \in 0..1
  BY DEF Free
<1>7. /\ Cardinality(sent) \in Nat
      /\ SenderCount \in Nat /\ ReleaserCount \in Nat
  BY <1>4, <1>5, FS_CardinalityType DEF SenderCount, ReleaserCount
<1>. QED
  BY <1>3, <1>4, <1>5, <1>6, <1>7 DEF CountsOK

\* How a count may change.
Gains(new, old) == new <= old + 1
Loses(new, old) == new <= old - 1
Rises(new, old) == new >= old + 1

\* The counts of a step that adds at most one call to a set, or removes one.
LEMMA Count ==
    ASSUME NEW S, NEW T, NEW c, IsFiniteSet(S), Cardinality(S) \in Nat
    PROVE  /\ T \subseteq S => Cardinality(T) <= Cardinality(S)
           /\ T \subseteq S \cup {c} => Gains(Cardinality(T), Cardinality(S))
           /\ c \in S /\ T \subseteq S \ {c} =>
                Loses(Cardinality(T), Cardinality(S))
<1>1. /\ IsFiniteSet(S \cup {c}) /\ IsFiniteSet(S \ {c})
      /\ Cardinality(S \cup {c}) <= Cardinality(S) + 1
      /\ c \in S => Cardinality(S \ {c}) = Cardinality(S) - 1
  BY FS_AddElement, FS_RemoveElement
<1>2. /\ Cardinality(S \cup {c}) \in Nat /\ Cardinality(S \ {c}) \in Nat
  BY <1>1, FS_CardinalityType
<1>3. \A U : IsFiniteSet(U) /\ T \subseteq U =>
         Cardinality(T) \in Nat /\ Cardinality(T) <= Cardinality(U)
  BY FS_Subset, FS_CardinalityType
<1>. QED
  BY <1>1, <1>2, <1>3 DEF Gains, Loses

\* The sums: a claim, a release by markFailed and one by markSent, a refused
\* send and any other step.
LEMMA SumOfClaim ==
    ASSUME NEW s \in Nat, NEW r \in Nat, NEW f \in 0..1, NEW p \in Nat,
           NEW t \in Nat, NEW q \in Nat, NEW o \in Nat,
           Fits(s, r, f, p), Gains(t, s), q <= r,
           (f = 1 /\ o >= p) \/ Rises(o, p)
    PROVE  Fits(t, q, 0, o)
BY DEF Fits, Gains, Loses, Rises

LEMMA SumOfRelease ==
    ASSUME NEW s \in Nat, NEW r \in Nat, NEW f \in 0..1, NEW p \in Nat,
           NEW t \in Nat, NEW q \in Nat, NEW g \in 0..1, NEW o \in Nat,
           Fits(s, r, f, p), t <= s, Loses(q, r), o >= p
    PROVE  Fits(t, q, g, o)
BY DEF Fits, Gains, Loses, Rises

LEMMA SumOfMark ==
    ASSUME NEW s \in Nat, NEW r \in Nat, NEW f \in 0..1, NEW p \in Nat,
           NEW t \in Nat, NEW q \in Nat, NEW o \in Nat,
           Fits(s, r, f, p), t <= s, q <= r, o >= p
    PROVE  Fits(t, q, 0, o)
BY DEF Fits, Gains, Loses, Rises

LEMMA SumOfRefusal ==
    ASSUME NEW s \in Nat, NEW r \in Nat, NEW f \in 0..1, NEW p \in Nat,
           NEW t \in Nat, NEW q \in Nat, NEW o \in Nat,
           Fits(s, r, f, p), t <= s, Gains(q, r), Rises(o, p)
    PROVE  Fits(t, q, f, o)
BY DEF Fits, Gains, Loses, Rises

LEMMA SumOfOther ==
    ASSUME NEW s \in Nat, NEW r \in Nat, NEW f \in 0..1, NEW p \in Nat,
           NEW t \in Nat, NEW q \in Nat, NEW o \in Nat,
           Fits(s, r, f, p), t <= s, q <= r, o >= p
    PROVE  Fits(t, q, f, o)
BY DEF Fits, Gains, Loses, Rises

\* Neither number ever shrinks.
LEMMA PaidGrows ==
    ASSUME NEW f \in Nat, NEW t \in Nat,
           NEW g \in {f, f + 1}, NEW u \in {t, t + 1}
    PROVE  /\ g + u >= f + t
           /\ g = f + 1 \/ u = t + 1 => Rises(g + u, f + t)
BY DEF Rises

LEMMA DuplicatesStep ==
    ASSUME TypeOK, TypeOK', DuplicatesInv, [Next]_vars
    PROVE  DuplicatesInv'
<1>0. CountsOK /\ CountsOK'
  BY CountTypes, PTL
<1>a. /\ SenderCount \in Nat /\ ReleaserCount \in Nat /\ Free \in 0..1
      /\ faults \in Nat /\ takeovers \in Nat /\ Paid \in Nat
  BY <1>0 DEF CountsOK
<1>c. /\ SenderCount' \in Nat /\ ReleaserCount' \in Nat /\ Free' \in 0..1
      /\ faults' \in Nat /\ takeovers' \in Nat /\ Paid' \in Nat
  BY <1>0 DEF CountsOK
<1>s. /\ SenderCount \in Nat /\ ReleaserCount \in Nat /\ Free \in 0..1
      /\ SenderCount' \in Nat /\ ReleaserCount' \in Nat /\ Free' \in 0..1
      /\ Paid \in Nat /\ Paid' \in Nat
  BY <1>a, <1>c
<1>f. IsFiniteSet(Senders) /\ IsFiniteSet(Releasers)
  BY <1>0 DEF CountsOK
<1>p. /\ faults' \in {faults, faults + 1}
         /\ takeovers' \in {takeovers, takeovers + 1} => Paid' >= Paid
      /\ faults' \in {faults, faults + 1} /\ takeovers' = takeovers + 1
         => Rises(Paid', Paid)
      /\ takeovers' \in {takeovers, takeovers + 1} /\ faults' = faults + 1
         => Rises(Paid', Paid)
  BY <1>a, <1>c, PaidGrows DEF Paid
<1>. DEFINE Balance == Fits(SenderCount', ReleaserCount', Free', Paid')
<1>. SUFFICES Balance
  BY DEF DuplicatesInv
<1>b. Fits(SenderCount, ReleaserCount, Free, Paid)
  BY DEF DuplicatesInv
<1>1. ASSUME NEW c \in Calls, ClaimStep(c) PROVE Balance
  <2>1. \A d \in Calls \ {c} : pc'[d] = pc[d]
    BY <1>1, ToEffect DEF ClaimStep, Label, Holding
  <2>2. Releasers' \subseteq Releasers
    <3>1. pc'[c] \in {"send", "thrown"}
      BY <1>1, ToEffect DEF ClaimStep, Label, Holding
    <3>. QED
      BY <2>1, <3>1 DEF Releasers
  <2>3. Senders' \subseteq Senders \cup {c}
    BY <1>1, <2>1 DEF Senders, ClaimStep
  <2>4. ReleaserCount' <= ReleaserCount /\ Gains(SenderCount', SenderCount)
    BY <1>a, <1>f, <2>2, <2>3, Count DEF SenderCount, ReleaserCount
  <2>5. Free' = 0
    <3>1. row' \in Delivery /\ row'.claimedAt = now[c] /\ now[c] \in Time
      BY <1>1, WrittenRows DEF ClaimStep, Claims, TypeOK
    <3>. QED
      BY <3>1, TimeFacts, NullAssumption DEF Free
  <2>6. (Free = 1 /\ Paid' >= Paid) \/ Rises(Paid', Paid)
    BY <1>p, <1>1 DEF ClaimStep, Claims, Free, Fault
  <2>. QED
    <3>1. Fits(SenderCount', ReleaserCount', 0, Paid')
      BY <1>s, <1>b, <2>4, <2>6, SumOfClaim
    <3>. QED
      BY <3>1, <2>5
<1>2. ASSUME NEW c \in Calls, ReleaseStep(c) PROVE Balance
  <2>1. pc'[c] \in {"ok", "thrown"} /\ \A d \in Calls \ {c} : pc'[d] = pc[d]
    BY <1>2, ToEffect DEF ReleaseStep, Label
  <2>2. Senders' \subseteq Senders
    BY <1>2, <2>1 DEF ReleaseStep, Senders
  <2>3. Releasers' \subseteq Releasers \ {c}
    BY <2>1 DEF Releasers
  <2>4. /\ SenderCount' <= SenderCount /\ ReleaserCount' <= ReleaserCount
        /\ (c \in Releasers => Loses(ReleaserCount', ReleaserCount))
    BY <1>a, <1>f, <2>2, <2>3, Count DEF SenderCount, ReleaserCount
  <2>5. c \notin Releasers => Free' = 0
    BY <1>2, WrittenRows, NullAssumption DEF ReleaseStep, Releasers, Free
  <2>6. Paid' >= Paid
    BY <1>p, <1>2 DEF ReleaseStep, Fault
  <2>7. CASE Loses(ReleaserCount', ReleaserCount)
    BY <1>s, <1>b, <2>4, <2>6, <2>7, SumOfRelease
  <2>8. CASE Free' = 0
    <3>1. Fits(SenderCount', ReleaserCount', 0, Paid')
      BY <1>s, <1>b, <2>4, <2>6, SumOfMark
    <3>. QED
      BY <3>1, <2>8
  <2>. QED
    BY <2>4, <2>5, <2>7, <2>8
<1>3. ASSUME NEW c \in Calls, QuietStep(c) PROVE Balance
  <2>1. Free' = Free
    BY <1>3 DEF QuietStep, Free
  <2>2. CASE SendFailed(c)
    <3>1. pc'[c] = "markFailed" /\ \A d \in Calls \ {c} : pc'[d] = pc[d]
      BY <2>2, ToEffect DEF SendFailed, Label, Holding
    <3>2. Senders' \subseteq Senders
      BY <2>2, <3>1 DEF SendFailed, Senders
    <3>3. Releasers' \subseteq Releasers \cup {c}
      BY <3>1 DEF Releasers
    <3>4. Rises(Paid', Paid)
      BY <1>p, <2>2 DEF SendFailed, Fault
    <3>5. SenderCount' <= SenderCount /\ Gains(ReleaserCount', ReleaserCount)
      BY <1>a, <1>f, <3>2, <3>3, Count DEF SenderCount, ReleaserCount
    <3>. QED
      <4>1. Fits(SenderCount', ReleaserCount', Free, Paid')
        BY <1>s, <1>b, <3>4, <3>5, SumOfRefusal
      <4>. QED
        BY <4>1, <2>1
  <2>3. CASE ~SendFailed(c)
    <3>1. Senders' \subseteq Senders /\ Releasers' \subseteq Releasers
      <4>1. CASE Begin(c)
        BY <4>1 DEF Begin, Senders, Releasers, TypeOK
      <4>2. CASE SendAccepted(c)
        <5>1. pc'[c] = "markSent" /\ \A d \in Calls \ {c} : pc'[d] = pc[d]
          BY <4>2, ToEffect DEF SendAccepted, Label, Holding
        <5>. QED
          BY <4>2, <5>1 DEF SendAccepted, Senders, Releasers
      <4>3. ASSUME NEW label \in Label, To(c, label), UNCHANGED sent,
                   label \notin {"send", "markFailed"}
            PROVE  Senders' \subseteq Senders /\ Releasers' \subseteq Releasers
        <5>1. pc'[c] = label /\ \A d \in Calls \ {c} : pc'[d] = pc[d]
          BY <4>3, ToEffect
        <5>. QED
          BY <4>3, <5>1 DEF Senders, Releasers
      <4>. QED
        BY <1>3, <2>3, <4>1, <4>2, <4>3
           DEF QuietStep, Label, Claiming, Holding
    <3>2. Paid' >= Paid
      BY <1>p, <1>3 DEF QuietStep, Begin, SendAccepted, SendFailed, Fault
    <3>3. SenderCount' <= SenderCount /\ ReleaserCount' <= ReleaserCount
      BY <1>a, <1>f, <3>1, Count DEF SenderCount, ReleaserCount
    <3>. QED
      <4>1. Fits(SenderCount', ReleaserCount', Free, Paid')
        BY <1>s, <1>b, <3>2, <3>3, SumOfOther
      <4>. QED
        BY <4>1, <2>1
  <2>. QED
    BY <2>2, <2>3
<1>4. CASE Tick
  <2>1. /\ SenderCount' = SenderCount /\ ReleaserCount' = ReleaserCount
        /\ Paid' = Paid
    BY <1>4 DEF Tick, Senders, Releasers, SenderCount, ReleaserCount,
               Paid
  <2>2. Free' = Free
    BY <1>4, TickEffect, RowFields, AgedRange DEF Free
  <2>. QED
    BY <1>b, <2>1, <2>2
<1>5. CASE UNCHANGED vars
  BY <1>b, <1>5 DEF vars, Senders, Releasers, SenderCount, ReleaserCount, Free,
                    Paid
<1>. QED
  BY <1>1, <1>2, <1>3, <1>4, <1>5, StepKinds DEF Next

\* However calls overlap and fail, the channel accepts at most one notification
\* more than there were faults and lapsed leases.
THEOREM DuplicatesArePaidFor == Spec => []DuplicatesAreExplained
<1>. DEFINE IInv == TypeOK /\ TakeoversInv /\ DuplicatesInv
<1>1. Init => IInv
  <2>. SUFFICES ASSUME Init PROVE DuplicatesInv
    BY TypeInit
  <2>1. Senders = {} /\ Releasers = {} /\ Free = 1
    BY DEF Init, Senders, Releasers, Free
  <2>. QED
    BY <2>1, FS_EmptySet
       DEF Init, DuplicatesInv, Fits, SenderCount, ReleaserCount, Paid
<1>2. IInv /\ [Next]_vars => IInv'
  BY NextMoves, TypeStep, DuplicatesStep
<1>3. IInv => DuplicatesAreExplained
  <2>. SUFFICES ASSUME IInv PROVE DuplicatesAreExplained
    OBVIOUS
  <2>. QED
    BY CountTypes
       DEF CountsOK, DuplicatesInv, Fits, DuplicatesAreExplained, Paid
<1>. HIDE DEF IInv
<1>. QED
  BY <1>1, <1>2, <1>3, PTL DEF Spec
=============================================================================
