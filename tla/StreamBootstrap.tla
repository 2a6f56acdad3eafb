-------------------------- MODULE StreamBootstrap --------------------------
(***************************************************************************)
(* The provisioning of the JetStream stream: scripts/jetstream-bootstrap   *)
(* and JetStreamStreams.ensure.                                            *)
(*                                                                         *)
(* A job is one run of the script.  Several may overlap (the compose       *)
(* project, `npm run dev', a deployment of another version), each with the *)
(* configuration of its own build.  A step of a job is one request to      *)
(* JetStream with the code behind its reply.  A configuration is the list  *)
(* of subjects and one value for the eight scalar settings; retention and  *)
(* storage, which ensure never changes, are the `kind' of a stream.        *)
(***************************************************************************)
EXTENDS Naturals, SequencesExt

CONSTANTS
    Jobs,           \* runs of the bootstrap script
    Configs,        \* the configurations that builds may want
    MaxFaults,      \* bound: refused or lost requests and crashes
    NULL

Compatible == "limits on file"
Kind == {Compatible, "other"}
Stream == [config : Configs, kind : Kind]

\* No subject is repeated, and JetStream accepts none that overlap.
ASSUME ConfigsAssumption ==
    /\ \A c \in Configs :
         /\ DOMAIN c = {"subjects", "settings"}
         /\ c.subjects \in Seq(ToSet(c.subjects)) /\ IsInjective(c.subjects)
    /\ MaxFaults \in Nat
ASSUME NullAssumption ==
    NULL \notin Stream \cup Jobs \cup {"created", "updated", "kept"}

VARIABLES
    stream,     \* the stream in JetStream, or NULL
    want,       \* the configuration of each job
    pc,         \* where each job is
    result,     \* what ensure has returned: "created", "updated", "kept"
    failing,    \* whether ensure has thrown
    writer,     \* history: the last job to write since each one last looked
    faults

vars == <<stream, want, pc, result, failing, writer, faults>>

Request == {"info", "add", "infoAgain", "update"}

TypeOK ==
    /\ stream \in Stream \cup {NULL}
    /\ want \in [Jobs -> Configs]
    /\ pc \in [Jobs -> Request \cup {"connect", "drain", "done", "failed"}]
    /\ result \in [Jobs -> {"created", "updated", "kept", NULL}]
    /\ failing \in [Jobs -> BOOLEAN]
    /\ writer \in [Jobs -> Jobs \cup {NULL}]
    /\ faults \in 0..MaxFaults
    /\ \A j \in Jobs :
         /\ pc[j] \in {"drain", "done"} => (result[j] = NULL <=> failing[j])
         /\ pc[j] \in Request => result[j] = NULL /\ ~failing[j]

Init ==
    /\ stream \in Stream \cup {NULL}
    /\ want \in [Jobs -> Configs]
    /\ pc = [j \in Jobs |-> "connect"]
    /\ result = [j \in Jobs |-> NULL]
    /\ failing = [j \in Jobs |-> FALSE]
    /\ writer = [j \in Jobs |-> NULL]
    /\ faults = 0

-----------------------------------------------------------------------------
Fault == faults < MaxFaults /\ faults' = faults + 1

Goto(j, label) == pc' = [pc EXCEPT ![j] = label] /\ UNCHANGED <<result, failing>>

Return(j, value) == /\ pc' = [pc EXCEPT ![j] = "drain"]
                    /\ result' = [result EXCEPT ![j] = value]
                    /\ UNCHANGED failing

Throw(j) == /\ pc' = [pc EXCEPT ![j] = "drain"]
            /\ failing' = [failing EXCEPT ![j] = TRUE]
            /\ UNCHANGED result

\* Mutant: the subjects are compared in the order in which they are listed.
RequiresUpdate_Ordered(c, d) == c # d

\* Mutant: the subjects are compared and the settings forgotten.
RequiresUpdate_SubjectsOnly(c, d) ==
    Len(c.subjects) # Len(d.subjects) \/ ToSet(c.subjects) # ToSet(d.subjects)

\* The order of the subjects makes no difference (subjects are not repeated).
RequiresUpdate(c, d) ==
    \/ Len(c.subjects) # Len(d.subjects) \/ ToSet(c.subjects) # ToSet(d.subjects)
    \/ c.settings # d.settings

-----------------------------------------------------------------------------
(* JetStream (external)                                                    *)

AddStream(j) == /\ stream' = [config |-> want[j], kind |-> Compatible]
                /\ writer' = [k \in Jobs |-> IF k = j THEN NULL ELSE j]

UpdateStream(j) == /\ stream' = [stream EXCEPT !.config = want[j]]
                   /\ writer' = [k \in Jobs |-> IF k = j THEN NULL ELSE j]

\* A reply shows j the stream, and nobody has written since.
Sees(j) == UNCHANGED stream /\ writer' = [writer EXCEPT ![j] = NULL]

-----------------------------------------------------------------------------
(* The jobs                                                                *)

Connect(j) ==
    /\ pc[j] = "connect"
    /\ Goto(j, "info")
    /\ UNCHANGED <<stream, want, writer, faults>>

\* Mutant: retention and storage of an existing stream are not looked at.
Reconcile_AnyKind(j) ==
    IF RequiresUpdate(stream.config, want[j]) THEN Goto(j, "update")
    ELSE Return(j, "kept")

\* Mutant: an unsuitable stream is reported and then taken.
Reconcile_Warns(j) ==
    IF stream.kind # Compatible
    THEN /\ pc' = [pc EXCEPT ![j] = "drain"]
         /\ failing' = [failing EXCEPT ![j] = TRUE]
         /\ result' = [result EXCEPT ![j] = "kept"]
    ELSE IF RequiresUpdate(stream.config, want[j]) THEN Goto(j, "update")
    ELSE Return(j, "kept")

\* reconcileStream, up to its request.
Reconcile(j) ==
    IF stream.kind # Compatible THEN Throw(j)
    ELSE IF RequiresUpdate(stream.config, want[j]) THEN Goto(j, "update")
    ELSE Return(j, "kept")

Info(j) ==
    /\ pc[j] = "info"
    /\ \/ stream = NULL /\ Goto(j, "add")
       \/ stream # NULL /\ Reconcile(j)
    /\ Sees(j)
    /\ UNCHANGED <<want, faults>>

InfoFails(j) ==
    /\ pc[j] = "info"
    /\ Fault
    /\ Throw(j)
    /\ UNCHANGED <<stream, want, writer>>

\* JetStream accepts a repeated add of the very same stream, and refuses the
\* name for any other.
Add(j) ==
    /\ pc[j] = "add"
    /\ \/ stream = NULL /\ AddStream(j) /\ Return(j, "created")
       \/ /\ stream # NULL /\ stream.config = want[j] /\ stream.kind = Compatible
          /\ Return(j, "created") /\ Sees(j)
       \/ stream # NULL /\ Goto(j, "infoAgain") /\ UNCHANGED <<stream, writer>>
    /\ UNCHANGED <<want, faults>>

\* Mutant: any error of add is taken for a stream that exists already.
AddFails_Ignored(j) ==
    /\ pc[j] = "add"
    /\ Fault
    /\ UNCHANGED <<stream, writer>> \/ (stream = NULL /\ AddStream(j))
    /\ Return(j, "kept")
    /\ UNCHANGED want

\* The request or its reply is lost.
AddFails(j) ==
    /\ pc[j] = "add"
    /\ Fault
    /\ UNCHANGED <<stream, writer>> \/ (stream = NULL /\ AddStream(j))
    /\ Goto(j, "infoAgain")
    /\ UNCHANGED want

\* Mutant: createError is thrown although the stream is there by now.
InfoAgain_Throws(j) ==
    /\ pc[j] = "infoAgain"
    /\ Throw(j)
    /\ Sees(j)
    /\ UNCHANGED <<want, faults>>

InfoAgain(j) ==
    /\ pc[j] = "infoAgain"
    /\ \/ stream = NULL /\ Throw(j)
       \/ stream # NULL /\ Reconcile(j)
    /\ Sees(j)
    /\ UNCHANGED <<want, faults>>

InfoAgainFails(j) ==
    /\ pc[j] = "infoAgain"
    /\ Fault
    /\ Throw(j)
    /\ UNCHANGED <<stream, want, writer>>

Update(j) ==
    /\ pc[j] = "update"
    /\ UpdateStream(j)
    /\ Return(j, "updated")
    /\ UNCHANGED <<want, faults>>

\* The update is refused, or it or its reply is lost.
UpdateFails(j) ==
    /\ pc[j] = "update"
    /\ Fault
    /\ UNCHANGED <<stream, writer>> \/ UpdateStream(j)
    /\ Throw(j)
    /\ UNCHANGED want

\* The finally block of main; the exit status tells how ensure ended.
Drain(j) ==
    /\ pc[j] = "drain"
    /\ Goto(j, IF failing[j] THEN "failed" ELSE "done")
    /\ UNCHANGED <<stream, want, writer, faults>>

\* The connection fails, the drain fails or the process dies.
Abort(j) ==
    /\ pc[j] \notin {"done", "failed"}
    /\ Fault
    /\ Goto(j, "failed")
    /\ UNCHANGED <<stream, want, writer>>

-----------------------------------------------------------------------------
Next ==
    \E j \in Jobs :
        \/ Connect(j) \/ Info(j) \/ InfoFails(j) \/ Add(j) \/ AddFails(j)
        \/ InfoAgain(j) \/ InfoAgainFails(j) \/ Update(j) \/ UpdateFails(j)
        \/ Drain(j) \/ Abort(j)

Spec == Init /\ [][Next]_vars

-----------------------------------------------------------------------------
(* What the bootstrap must guarantee                                       *)

\* The services start when a job is done (docker-compose.yml): they never
\* publish to, or consume from, a stream that was not created, or one that
\* does not keep its messages (docs/architecture.md, lines 45 to 48).
DoneMeansUsable ==
    \A j \in Jobs : pc[j] = "done" => stream # NULL /\ stream.kind = Compatible

Same(c, d) == c.settings = d.settings /\ ToSet(c.subjects) = ToSet(d.subjects)

\* The answer of ensure was true of the stream when the job last saw it or
\* wrote it, and is wrong only once another job has written: the last writer
\* wins, with the whole of its configuration.  It may be an older build that
\* updates on a reply from before the answer; ensure has no means to tell.
ResultIsCurrent ==
    \A j \in Jobs : result[j] # NULL =>
        LET owner == IF writer[j] = NULL THEN j ELSE writer[j]
        IN  stream # NULL /\ Same(stream.config, want[owner])

\* However jobs race to create and reconcile the stream, none of them fails
\* unless a request fails or the stream is of another kind.
RacesDoNotFail ==
    faults = 0 /\ (stream # NULL => stream.kind = Compatible) =>
        \A j \in Jobs : ~failing[j]

\* A stream of another kind is left alone, whatever its configuration.
ForeignStreamUntouched ==
    [][stream # NULL /\ stream.kind # Compatible => UNCHANGED stream]_vars

\* Running the script again is harmless: a job is about to write to a stream
\* that is already as every job wants it only when another one has just made
\* it so.
RerunIsIdle ==
    /\ faults = 0 /\ stream # NULL
    /\ \A j \in Jobs : Same(stream.config, want[j])
    /\ \E j \in Jobs : pc[j] = "update"
    => \E k \in Jobs : result[k] \in {"created", "updated"}
=============================================================================
