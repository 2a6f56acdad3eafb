------------------------- MODULE StreamBootstrapProofs -------------------------
(***************************************************************************)
(* Theorems about StreamBootstrap for any number of jobs and of faults and *)
(* any configurations, from any stream there may be at the start.          *)
(***************************************************************************)
EXTENDS StreamBootstrap, FiniteSetTheorems, TLAPS

(***************************************************************************)
(* What two configurations that ensure tells apart have in common          *)
(***************************************************************************)

\* A list that repeats nothing is as long as the set of its elements is large.
LEMMA SubjectsCounted ==
    ASSUME NEW c \in Configs
    PROVE  /\ Len(c.subjects) \in Nat
           /\ Cardinality(ToSet(c.subjects)) = Len(c.subjects)
<1>. DEFINE s == c.subjects
            T == ToSet(s)
<1>1. s \in Seq(T) /\ \A i, k \in DOMAIN s : s[i] = s[k] => i = k
  BY ConfigsAssumption DEF IsInjective
<1>2. /\ Len(s) \in Nat /\ DOMAIN s = 1..Len(s) /\ s \in [1..Len(s) -> T]
  BY <1>1
<1>3. \A x \in T : \E i \in 1..Len(s) : s[i] = x
  BY <1>2 DEF ToSet
<1>4. s \in Bijection(1..Len(s), T)
  BY <1>1, <1>2, <1>3 DEF Bijection, Injection, Surjection, IsInjective
<1>5. IsFiniteSet(1..Len(s)) /\ Cardinality(1..Len(s)) = Len(s)
  BY <1>2, FS_Interval
<1>6. ExistsBijection(1..Len(s), T)
  BY <1>4 DEF ExistsBijection
<1>. QED
  BY <1>2, <1>5, <1>6, FS_Bijection

\* requiresUpdate tells two configurations apart when it should: it compares
\* the subjects as sets, whatever their order, and every setting.
LEMMA RequiresUpdateUnlessSame ==
    ASSUME NEW c \in Configs, NEW d \in Configs
    PROVE  RequiresUpdate(c, d) <=> ~Same(c, d)
BY SubjectsCounted DEF RequiresUpdate, Same

(***************************************************************************)
(* The steps of a job                                                      *)
(***************************************************************************)

\* The steps by which a job comes to the answer of ensure or to its request,
\* as far as the stream and the answer are concerned.
LEMMA StreamFields ==
    ASSUME TypeOK, stream # NULL
    PROVE  /\ stream \in Stream /\ stream.config \in Configs
           /\ \A j \in Jobs :
                /\ want[j] \in Configs
                /\ [stream EXCEPT !.config = want[j]] \in Stream
                /\ [stream EXCEPT !.config = want[j]].config = want[j]
                /\ [stream EXCEPT !.config = want[j]].kind = stream.kind
BY DEF TypeOK, Stream

LEMMA AddedStream ==
    ASSUME TypeOK, NEW j \in Jobs, AddStream(j)
    PROVE  /\ stream' \in Stream /\ stream' # NULL
           /\ stream'.config = want[j] /\ stream'.kind = Compatible
BY NullAssumption DEF TypeOK, AddStream, Stream, Kind

(***************************************************************************)
(* Type correctness                                                        *)
(***************************************************************************)

\* Nothing has been answered before the first request.
ConnectInv ==
    \A j \in Jobs : pc[j] = "connect" => result[j] = NULL /\ ~failing[j]

\* A job whose connection writes to the stream has seen one it may change.
UpdateInv ==
    \A j \in Jobs :
        pc[j] = "update" => stream # NULL /\ stream.kind = Compatible

\* What a job has answered, before it drains, after it and once it is over.
AnswerOK(j) ==
    /\ pc[j] \in {"drain", "done"} => (result[j] = NULL <=> failing[j])
    /\ pc[j] \in Request \cup {"connect"} => result[j] = NULL /\ ~failing[j]

Label == Request \cup {"connect", "drain", "done", "failed"}
Result == {"created", "updated", "kept", NULL}

\* A step of job j moves only j, to a label that fits its answer.
JobStep(j) ==
    /\ pc' \in [Jobs -> Label] /\ result' \in [Jobs -> Result]
    /\ failing' \in [Jobs -> BOOLEAN]
    /\ AnswerOK(j)'
    /\ \A k \in Jobs \ {j} : /\ pc'[k] = pc[k] /\ result'[k] = result[k]
                             /\ failing'[k] = failing[k]

LEMMA AnswerSteps ==
    ASSUME TypeOK, ConnectInv, NEW j \in Jobs
    PROVE  /\ AnswerOK(j)
           /\ pc[j] \in Request =>
                /\ \A value \in Result \ {NULL} : Return(j, value) =>
                      /\ JobStep(j) /\ pc'[j] = "drain" /\ result'[j] = value
                      /\ failing'[j] = failing[j]
                /\ Throw(j) =>
                      JobStep(j) /\ pc'[j] = "drain" /\ failing'[j]
                      /\ result'[j] = NULL
           /\ \A label \in Label : Goto(j, label) =>
                /\ pc'[j] = label /\ result' = result /\ failing' = failing
                /\ \/ label = "failed"
                   \/ label \in Request /\ pc[j] \in Request \cup {"connect"}
                   \/ label = "done" /\ pc[j] = "drain"
                   => JobStep(j)
<1>1. AnswerOK(j)
  BY DEF TypeOK, ConnectInv, AnswerOK, Request
<1>2. ASSUME pc[j] \in Request, NEW value \in Result \ {NULL}, Return(j, value)
      PROVE  /\ JobStep(j) /\ pc'[j] = "drain" /\ result'[j] = value
             /\ failing'[j] = failing[j]
  BY <1>1, <1>2 DEF Return, JobStep, AnswerOK, TypeOK, Label, Result, Request
<1>3. ASSUME pc[j] \in Request, Throw(j)
      PROVE  JobStep(j) /\ pc'[j] = "drain" /\ failing'[j] /\ result'[j] = NULL
  BY <1>1, <1>3 DEF Throw, JobStep, AnswerOK, TypeOK, Label, Result, Request
<1>4. ASSUME NEW label \in Label, Goto(j, label)
      PROVE  /\ pc'[j] = label /\ result' = result /\ failing' = failing
             /\ \/ label = "failed"
                \/ label \in Request /\ pc[j] \in Request \cup {"connect"}
                \/ label = "done" /\ pc[j] = "drain"
                => JobStep(j)
  BY <1>1, <1>4 DEF Goto, JobStep, AnswerOK, TypeOK, Label, Result, Request
<1>. QED
  BY <1>1, <1>2, <1>3, <1>4

\* A job that has just seen the stream fails when it may not change it, goes on
\* to update it when it is not as wanted, and is done when it is.
LEMMA ReconcileEffect ==
    ASSUME TypeOK, ConnectInv, NEW j \in Jobs, pc[j] \in Request,
           stream # NULL, Reconcile(j)
    PROVE  /\ JobStep(j)
           /\ \/ /\ stream.kind # Compatible /\ pc'[j] = "drain"
                 /\ failing'[j] /\ result'[j] = NULL
              \/ /\ stream.kind = Compatible /\ ~Same(stream.config, want[j])
                 /\ pc'[j] = "update" /\ ~failing'[j] /\ result'[j] = NULL
              \/ /\ stream.kind = Compatible /\ Same(stream.config, want[j])
                 /\ pc'[j] = "drain" /\ ~failing'[j] /\ result'[j] = "kept"
<1>1. stream.config \in Configs /\ want[j] \in Configs
  BY StreamFields
<1>2. RequiresUpdate(stream.config, want[j]) <=> ~Same(stream.config, want[j])
  BY <1>1, RequiresUpdateUnlessSame
<1>3. result[j] = NULL /\ ~failing[j]
  BY AnswerSteps DEF AnswerOK
<1>4. "kept" \in Result \ {NULL}
  BY NullAssumption DEF Result
<1>5. CASE stream.kind # Compatible
  BY <1>5, AnswerSteps DEF Reconcile
<1>6. CASE stream.kind = Compatible /\ RequiresUpdate(stream.config, want[j])
  BY <1>2, <1>3, <1>6, AnswerSteps DEF Reconcile, Request, Label
<1>7. CASE stream.kind = Compatible /\ ~RequiresUpdate(stream.config, want[j])
  BY <1>2, <1>3, <1>4, <1>7, AnswerSteps DEF Reconcile
<1>. QED
  BY <1>5, <1>6, <1>7

\* Every step of a job is one of these.
Reads(j) ==     \* it learns what there is, or that there is nothing
    /\ Sees(j) /\ UNCHANGED <<stream, faults>>
    /\ \/ stream = NULL /\ pc[j] = "info" /\ pc'[j] = "add"
          /\ UNCHANGED <<result, failing>>
       \/ stream = NULL /\ pc[j] = "infoAgain" /\ pc'[j] = "drain"
          /\ failing'[j] /\ result'[j] = NULL
       \/ stream # NULL /\ pc[j] \in {"info", "infoAgain"}
          /\ \/ /\ stream.kind # Compatible /\ pc'[j] = "drain"
                /\ failing'[j] /\ result'[j] = NULL
             \/ /\ stream.kind = Compatible /\ ~Same(stream.config, want[j])
                /\ pc'[j] = "update" /\ ~failing'[j] /\ result'[j] = NULL
             \/ /\ stream.kind = Compatible /\ Same(stream.config, want[j])
                /\ pc'[j] = "drain" /\ ~failing'[j] /\ result'[j] = "kept"

Creates(j) ==   \* there is no stream, and then there is the wanted one
    /\ pc[j] = "add" /\ stream = NULL /\ AddStream(j)
    /\ \/ /\ UNCHANGED faults
          /\ pc'[j] = "drain" /\ ~failing'[j] /\ result'[j] = "created"
       \/ Fault /\ pc'[j] = "infoAgain" /\ UNCHANGED <<result, failing>>

Updates(j) ==   \* the stream gets the wanted configuration
    /\ pc[j] = "update" /\ UpdateStream(j) /\ pc'[j] = "drain"
    /\ \/ UNCHANGED faults /\ ~failing'[j] /\ result'[j] = "updated"
       \/ Fault /\ failing'[j] /\ result'[j] = NULL

Moves(j) ==     \* any other step, none of which writes
    /\ UNCHANGED stream
    /\ \/ UNCHANGED <<faults, result, failing, writer>>
          /\ \/ pc[j] = "connect" /\ pc'[j] = "info"
             \/ pc[j] = "add" /\ stream # NULL /\ pc'[j] = "infoAgain"
             \/ pc[j] = "drain" /\ failing[j] /\ pc'[j] = "failed"
             \/ pc[j] = "drain" /\ ~failing[j] /\ pc'[j] = "done"
       \/ /\ pc[j] = "add" /\ stream # NULL
          /\ stream.config = want[j] /\ stream.kind = Compatible
          /\ Sees(j) /\ UNCHANGED faults
          /\ pc'[j] = "drain" /\ ~failing'[j] /\ result'[j] = "created"
       \/ /\ Fault /\ UNCHANGED writer
          /\ \/ pc'[j] = "drain" /\ failing'[j] /\ result'[j] = NULL
             \/ /\ pc'[j] \in {"infoAgain", "failed"}
                /\ UNCHANGED <<result, failing>>

LEMMA StepKinds ==
    ASSUME TypeOK, ConnectInv, NEW j \in Jobs,
           \/ Connect(j) \/ Info(j) \/ InfoFails(j) \/ Add(j) \/ AddFails(j)
           \/ InfoAgain(j) \/ InfoAgainFails(j) \/ Update(j) \/ UpdateFails(j)
           \/ Drain(j) \/ Abort(j)
    PROVE  /\ JobStep(j) /\ UNCHANGED want
           /\ Reads(j) \/ Creates(j) \/ Updates(j) \/ Moves(j)
<1>1. pc[j] \in Request => result[j] = NULL /\ ~failing[j]
  BY AnswerSteps DEF AnswerOK
<1>2. {"created", "updated"} \subseteq Result \ {NULL}
  BY NullAssumption DEF Result
<1>3. CASE Connect(j)
  BY <1>3, AnswerSteps DEF Connect, Moves, Label, Request
<1>4. CASE Info(j)
  BY <1>4, AnswerSteps, ReconcileEffect DEF Info, Sees, Reads, Label, Request
<1>5. CASE InfoAgain(j)
  BY <1>5, AnswerSteps, ReconcileEffect DEF InfoAgain, Sees, Reads, Request
<1>6. CASE InfoFails(j) \/ InfoAgainFails(j)
  BY <1>6, AnswerSteps DEF InfoFails, InfoAgainFails, Moves, Request
<1>7. CASE Add(j)
  BY <1>1, <1>2, <1>7, AnswerSteps DEF Add, Sees, Creates, Moves, Label, Request
<1>8. CASE AddFails(j)
  BY <1>8, AnswerSteps DEF AddFails, Creates, Moves, Label, Request
<1>9. CASE Update(j)
  BY <1>1, <1>2, <1>9, AnswerSteps DEF Update, Updates, Request
<1>10. CASE UpdateFails(j)
  BY <1>10, AnswerSteps DEF UpdateFails, Updates, Moves, Request
<1>11. CASE Drain(j)
  BY <1>11, AnswerSteps DEF Drain, Moves, Label
<1>12. CASE Abort(j)
  BY <1>12, AnswerSteps DEF Abort, Moves, Label
<1>. QED
  BY <1>3, <1>4, <1>5, <1>6, <1>7, <1>8, <1>9, <1>10, <1>11, <1>12

\* What a step of a job does to the stream and to the number of faults.
LEMMA StreamEffect ==
    ASSUME TypeOK, UpdateInv, NEW j \in Jobs,
           Reads(j) \/ Creates(j) \/ Updates(j) \/ Moves(j)
    PROVE  /\ stream' \in Stream \cup {NULL} /\ faults' \in 0..MaxFaults
           /\ stream # NULL => stream' # NULL /\ stream'.kind = stream.kind
           /\ faults' = 0 => faults = 0
           /\ ~Fault \/ faults' # 0
           /\ writer' \in [Jobs -> Jobs \cup {NULL}]
           /\ \/ UNCHANGED stream
              \/ /\ stream = NULL /\ stream' # NULL
                 /\ stream'.config = want[j] /\ stream'.kind = Compatible
              \/ /\ stream # NULL /\ stream.kind = Compatible
                 /\ stream'.config = want[j]
<1>1. /\ faults' \in 0..MaxFaults /\ (faults' = 0 => faults = 0)
      /\ ~Fault \/ faults' # 0
  BY ConfigsAssumption
     DEF Reads, Creates, Updates, Moves, Fault, TypeOK
<1>0. writer' \in [Jobs -> Jobs \cup {NULL}]
  BY DEF Reads, Creates, Updates, Moves, Sees, AddStream, UpdateStream, TypeOK
<1>2. CASE Reads(j) \/ Moves(j)
  BY <1>0, <1>1, <1>2 DEF Reads, Moves, TypeOK
<1>3. CASE Creates(j)
  BY <1>0, <1>1, <1>3, AddedStream DEF Creates
<1>4. CASE Updates(j)
  <2>1. stream # NULL /\ stream.kind = Compatible
    BY <1>4 DEF Updates, UpdateInv
  <2>2. stream' = [stream EXCEPT !.config = want[j]]
    BY <1>4 DEF Updates, UpdateStream
  <2>3. stream' \in Stream
    BY <2>1, <2>2, StreamFields
  <2>. QED
    BY <1>0, <1>1, <2>1, <2>2, <2>3, StreamFields, NullAssumption
<1>. QED
  BY <1>2, <1>3, <1>4

TypeInv == TypeOK /\ ConnectInv /\ UpdateInv

LEMMA TypeStep == TypeInv /\ [Next]_vars => TypeInv'
<1>. SUFFICES ASSUME TypeInv, [Next]_vars PROVE TypeInv'
  OBVIOUS
<1>. USE DEF TypeInv
<1>1. ASSUME NEW j \in Jobs, JobStep(j), UNCHANGED want,
             Reads(j) \/ Creates(j) \/ Updates(j) \/ Moves(j)
      PROVE  TypeInv'
  <2>1. /\ stream' \in Stream \cup {NULL} /\ faults' \in 0..MaxFaults
        /\ writer' \in [Jobs -> Jobs \cup {NULL}]
    BY <1>1, StreamEffect
  <2>2. \A k \in Jobs : AnswerOK(k)'
    BY <1>1, AnswerSteps DEF JobStep, AnswerOK
  <2>3. TypeOK'
    BY <1>1, <2>1, <2>2
       DEF TypeOK, JobStep, AnswerOK, Label, Result
  <2>4. ConnectInv'
    BY <2>2 DEF ConnectInv, AnswerOK
  <2>5. UpdateInv'
    <3>1. pc'[j] = "update" => stream' # NULL /\ stream'.kind = Compatible
      BY <1>1 DEF Reads, Creates, Updates, Moves
    <3>2. \A k \in Jobs \ {j} : pc'[k] = "update" =>
             stream' # NULL /\ stream'.kind = Compatible
      BY <1>1, StreamEffect DEF JobStep, UpdateInv
    <3>. QED
      BY <3>1, <3>2 DEF UpdateInv
  <2>. QED
    BY <2>3, <2>4, <2>5
<1>2. CASE UNCHANGED vars
  BY <1>2 DEF vars, TypeOK, ConnectInv, UpdateInv
<1>. QED
  BY <1>1, <1>2, StepKinds DEF Next

LEMMA TypeInit == Init => TypeInv
BY ConfigsAssumption, NullAssumption
   DEF Init, TypeInv, TypeOK, ConnectInv, UpdateInv, Request

\* The stream and the jobs always hold values of their types, and a job that
\* has come to the end of ensure has either an answer or an error.
THEOREM TypeCorrect == Spec => []TypeOK
<1>1. TypeInv => TypeOK
  BY DEF TypeInv
<1>. QED
  BY <1>1, TypeInit, TypeStep, PTL DEF Spec

(***************************************************************************)
(* What a job that is done leaves                                          *)
(***************************************************************************)

\* A job that has an answer has seen or made a stream that keeps its messages,
\* and only a job without an error ends well.
UsableInv ==
    \A j \in Jobs :
        /\ result[j] # NULL => stream # NULL /\ stream.kind = Compatible
        /\ pc[j] = "done" => ~failing[j]

LEMMA UsableStep == TypeInv /\ UsableInv /\ [Next]_vars => UsableInv'
<1>. SUFFICES ASSUME TypeInv, UsableInv, [Next]_vars PROVE UsableInv'
  OBVIOUS
<1>. USE DEF TypeInv
<1>1. ASSUME NEW j \in Jobs, JobStep(j), UNCHANGED want,
             Reads(j) \/ Creates(j) \/ Updates(j) \/ Moves(j)
      PROVE  UsableInv'
  <2>1. stream # NULL => stream' # NULL /\ stream'.kind = stream.kind
    BY <1>1, StreamEffect
  <2>2. \A k \in Jobs \ {j} :
           /\ result'[k] # NULL => stream' # NULL /\ stream'.kind = Compatible
           /\ pc'[k] = "done" => ~failing'[k]
    BY <1>1, <2>1 DEF JobStep, UsableInv
  <2>3. result'[j] # NULL => stream' # NULL /\ stream'.kind = Compatible
    <3>1. CASE Reads(j)
      BY <2>1, <3>1 DEF Reads, UsableInv
    <3>2. CASE Creates(j)
      BY <3>2, AddedStream DEF Creates
    <3>3. CASE Updates(j)
      BY <2>1, <3>3 DEF Updates, UpdateInv
    <3>4. CASE Moves(j)
      BY <2>1, <3>4 DEF Moves, UsableInv
    <3>. QED
      BY <1>1, <3>1, <3>2, <3>3, <3>4
  <2>4. pc'[j] = "done" => ~failing'[j]
    BY <1>1 DEF Reads, Creates, Updates, Moves
  <2>. QED
    BY <2>2, <2>3, <2>4 DEF UsableInv
<1>2. CASE UNCHANGED vars
  BY <1>2 DEF vars, UsableInv
<1>. QED
  BY <1>1, <1>2, StepKinds DEF Next

LEMMA UsableInit == Init => UsableInv
BY DEF Init, UsableInv

\* The services that wait for a job to be done find a stream, of a kind that
\* keeps their messages (ensure, reconcileStream).
THEOREM BootstrapLeavesAStream == Spec => []DoneMeansUsable
<1>1. TypeInv /\ UsableInv => DoneMeansUsable
  BY DEF TypeInv, UsableInv, DoneMeansUsable, TypeOK
<1>. QED
  BY <1>1, TypeInit, TypeStep, UsableInit, UsableStep, PTL DEF Spec

\* What a job has seen or written stands until the next write, and the writer
\* is remembered.
LEMMA CurrentStep ==
    TypeInv /\ ResultIsCurrent /\ [Next]_vars => ResultIsCurrent'
<1>. SUFFICES ASSUME TypeInv, ResultIsCurrent, [Next]_vars
              PROVE  ResultIsCurrent'
  OBVIOUS
<1>. USE DEF TypeInv
<1>. DEFINE Owner(i) == IF writer[i] = NULL THEN i ELSE writer[i]
            Answered(i) == stream # NULL /\ Same(stream.config, want[Owner(i)])
<1>1. ASSUME NEW j \in Jobs, JobStep(j), UNCHANGED want,
             Reads(j) \/ Creates(j) \/ Updates(j) \/ Moves(j),
             NEW i \in Jobs, result'[i] # NULL
      PROVE  Answered(i)'
  <2>1. CASE Creates(j) \/ Updates(j)
    <3>1. Owner(i)' = j
      BY <2>1, NullAssumption
         DEF Creates, Updates, AddStream, UpdateStream, TypeOK
    <3>2. stream' # NULL /\ stream'.config = want[j]
      <4>1. CASE Creates(j)
        BY <4>1, AddedStream DEF Creates
      <4>2. CASE Updates(j)
        <5>1. stream # NULL
          BY <4>2 DEF Updates, UpdateInv
        <5>2. stream' = [stream EXCEPT !.config = want[j]]
          BY <4>2 DEF Updates, UpdateStream
        <5>. QED
          BY <5>1, <5>2, StreamFields, NullAssumption
      <4>. QED
        BY <2>1, <4>1, <4>2
    <3>. QED
      BY <1>1, <3>1, <3>2 DEF Same
  <2>2. CASE Reads(j) \/ Moves(j)
    <3>1. UNCHANGED <<stream, want>>
      BY <1>1, <2>2 DEF Reads, Moves
    <3>2. writer' = writer \/ writer' = [writer EXCEPT ![j] = NULL]
      BY <2>2 DEF Reads, Moves, Sees
    <3>3. CASE i # j
      <4>1. Owner(i)' = Owner(i) /\ result[i] # NULL
        BY <1>1, <3>2, <3>3 DEF JobStep, TypeOK
      <4>. QED
        BY <3>1, <4>1 DEF ResultIsCurrent
    <3>4. CASE i = j /\ result'[j] = result[j] /\ writer' = writer
      BY <1>1, <3>1, <3>4 DEF ResultIsCurrent
    <3>5. CASE i = j /\ ~(result'[j] = result[j] /\ writer' = writer)
      <4>1. /\ stream # NULL /\ Same(stream.config, want[j]) /\ Sees(j)
        BY <1>1, <2>2, <3>5, AnswerSteps
           DEF Reads, Moves, Same, AnswerOK, Request
      <4>2. Owner(i)' = j
        BY <3>5, <4>1 DEF Sees, TypeOK
      <4>. QED
        BY <3>1, <4>1, <4>2
    <3>. QED
      BY <3>3, <3>4, <3>5
  <2>. QED
    BY <1>1, <2>1, <2>2
<1>2. CASE UNCHANGED vars
  BY <1>2 DEF vars, ResultIsCurrent
<1>. QED
  BY <1>1, <1>2, StepKinds DEF Next, ResultIsCurrent

\* Once ensure has returned, the stream is as the job left it, or as the last
\* job that has written since wanted it.
THEOREM ResultsAreCurrent == Spec => []ResultIsCurrent
<1>1. Init => ResultIsCurrent
  BY DEF Init, ResultIsCurrent
<1>. QED
  BY <1>1, TypeInit, TypeStep, CurrentStep, PTL DEF Spec

(***************************************************************************)
(* Races and reruns, as long as no request fails                           *)
(***************************************************************************)

\* A job asks again only because it has met a stream, and it updates only what
\* is not as wanted, or what another job has written in the meantime.
FaultlessInv ==
    faults = 0 =>
        /\ \A j \in Jobs : pc[j] = "infoAgain" => stream # NULL
        /\ \A j \in Jobs : pc[j] = "update" =>
              \/ ~Same(stream.config, want[j])
              \/ \E k \in Jobs : result[k] \in {"created", "updated"}

LEMMA FaultlessStep ==
    TypeInv /\ FaultlessInv /\ RacesDoNotFail /\ [Next]_vars
    => (FaultlessInv /\ RacesDoNotFail)'
<1>. SUFFICES ASSUME TypeInv, FaultlessInv, RacesDoNotFail, [Next]_vars
              PROVE  FaultlessInv' /\ RacesDoNotFail'
  OBVIOUS
<1>. USE DEF TypeInv
<1>1. ASSUME NEW j \in Jobs, JobStep(j), UNCHANGED want, faults' = 0,
             Reads(j) \/ Creates(j) \/ Updates(j) \/ Moves(j)
      PROVE  FaultlessInv' /\ RacesDoNotFail'
  <2>1. faults = 0 /\ ~Fault
    BY <1>1, StreamEffect
  <2>2. stream # NULL => stream' # NULL /\ stream'.kind = stream.kind
    BY <1>1, StreamEffect
  <2>3. \A k \in Jobs : pc'[k] = "infoAgain" => stream' # NULL
    <3>1. \A k \in Jobs \ {j} : pc'[k] = "infoAgain" => stream' # NULL
      BY <1>1, <2>1, <2>2 DEF JobStep, FaultlessInv
    <3>2. pc'[j] = "infoAgain" => stream' # NULL
      BY <1>1, <2>1, <2>2 DEF Reads, Creates, Updates, Moves
    <3>. QED
      BY <3>1, <3>2
  <2>4. ASSUME NEW k \in Jobs, pc'[k] = "update"
        PROVE  \/ ~Same(stream'.config, want'[k])
               \/ \E i \in Jobs : result'[i] \in {"created", "updated"}
    <3>1. CASE Creates(j) \/ Updates(j)
      BY <2>1, <3>1 DEF Creates, Updates
    <3>2. CASE Reads(j) \/ Moves(j)
      <4>1. UNCHANGED <<stream, want>>
        BY <1>1, <3>2 DEF Reads, Moves
      <4>2. CASE k = j
        BY <1>1, <2>4, <3>2, <4>1, <4>2 DEF Reads, Moves
      <4>3. CASE k # j
        <5>1. \/ ~Same(stream.config, want[k])
              \/ \E i \in Jobs : result[i] \in {"created", "updated"}
          BY <1>1, <2>1, <2>4, <4>3 DEF JobStep, FaultlessInv
        <5>2. result[j] \in {"created", "updated"} => result'[j] = result[j]
          BY <2>1, <3>2, NullAssumption DEF Reads, Moves, TypeOK, Request
        <5>. QED
          BY <1>1, <4>1, <5>1, <5>2 DEF JobStep
      <4>. QED
        BY <4>2, <4>3
    <3>. QED
      BY <1>1, <3>1, <3>2
  <2>5. RacesDoNotFail'
    <3>. SUFFICES ASSUME stream' # NULL => stream'.kind = Compatible,
                         NEW k \in Jobs
                  PROVE  ~failing'[k]
      BY DEF RacesDoNotFail
    <3>1. stream # NULL => stream.kind = Compatible
      BY <2>2
    <3>2. ~failing[k]
      BY <2>1, <3>1 DEF RacesDoNotFail
    <3>3. k = j => ~failing'[j]
      BY <1>1, <2>1, <3>1, <3>2
         DEF Reads, Creates, Updates, Moves, FaultlessInv
    <3>. QED
      BY <1>1, <3>2, <3>3 DEF JobStep
  <2>. QED
    BY <2>3, <2>4, <2>5 DEF FaultlessInv
<1>2. ASSUME NEW j \in Jobs,
             Reads(j) \/ Creates(j) \/ Updates(j) \/ Moves(j), faults' # 0
      PROVE  FaultlessInv' /\ RacesDoNotFail'
  BY <1>2 DEF FaultlessInv, RacesDoNotFail
<1>3. CASE UNCHANGED vars
  BY <1>3 DEF vars, FaultlessInv, RacesDoNotFail
<1>. QED
  BY <1>1, <1>2, <1>3, StepKinds DEF Next

LEMMA FaultlessInit == Init => FaultlessInv /\ RacesDoNotFail
BY DEF Init, FaultlessInv, RacesDoNotFail

\* However many jobs race to create and reconcile the stream, none of them
\* fails unless a request does or the stream is one that must be left alone.
THEOREM RacesAreHarmless == Spec => []RacesDoNotFail
BY TypeInit, TypeStep, FaultlessInit, FaultlessStep, PTL DEF Spec

\* Running the script again writes nothing: an update of a stream that is as
\* every job wants it is always owed to another job's write.
THEOREM RerunsAreIdle == Spec => []RerunIsIdle
<1>1. TypeInv /\ FaultlessInv => RerunIsIdle
  BY DEF FaultlessInv, RerunIsIdle
<1>. QED
  BY <1>1, TypeInit, TypeStep, FaultlessInit, FaultlessStep, PTL DEF Spec

\* A stream that does not keep its messages on disk, within limits, is never
\* written to, whichever jobs have read it (reconcileStream).
THEOREM ForeignStreamIsLeft == Spec => ForeignStreamUntouched
<1>1. ASSUME TypeInv, [Next]_vars
      PROVE  stream # NULL /\ stream.kind # Compatible => UNCHANGED stream
  <2>1. CASE UNCHANGED vars
    BY <2>1 DEF vars
  <2>2. CASE Next
    BY <1>1, <2>2, StepKinds, StreamEffect DEF Next, TypeInv
  <2>. QED
    BY <1>1, <2>1, <2>2
<1>2. TypeInv /\ [Next]_vars
      => [stream # NULL /\ stream.kind # Compatible => UNCHANGED stream]_vars
  BY <1>1
<1>. QED
  BY <1>2, TypeInit, TypeStep, PTL DEF Spec, ForeignStreamUntouched
=============================================================================
