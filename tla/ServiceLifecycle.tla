-------------------------- MODULE ServiceLifecycle -------------------------
(***************************************************************************)
(* How a process of the system starts, works and stops: the composition    *)
(* roots of the gateway, the user service and the notification service,    *)
(* MessagingClient, and the loops that the outbox relay keeps running.     *)
(*                                                                         *)
(* A service opens resources one after the other and, on SIGINT or         *)
(* SIGTERM, closes them in an order of its own, while requests, messages,  *)
(* probes and loops go on.  A step is what happens between two `await's.   *)
(* An outage that JetStream's client bridges by reconnecting delays steps; *)
(* only the permanent end of the connection is an event.                   *)
(***************************************************************************)
EXTENDS Naturals, Sequences

CONSTANTS
    Services,           \* the services to look at
    Jobs,               \* slots for requests and messages being worked on
    BatchSize,          \* statements and publishes of one relay iteration
    CleanupMaxBatches,  \* config.cleanupMaxBatches
    MaxFaults           \* bound: failing steps, lost connections, dead loops

ASSUME ServicesAssumption == Services \subseteq {"gateway", "user", "notification"}
ASSUME SizesAssumption ==
    /\ BatchSize \in Nat \ {0} /\ CleanupMaxBatches \in Nat \ {0}
    /\ MaxFaults \in Nat

Resources == {"db", "nats", "subs", "relay", "consumer", "health", "http"}
Loops == {"run", "cleanup", "metrics"}

VARIABLES
    service,    \* which service this process is
    life,       \* "starting", "ready", "closing", "stopped", or after a
                \* failed start "aborting", "failed"
    todo,       \* the resources still to open, or to close
    open,       \* the resources that are open
    pending,    \* those whose closing was asked for and is awaited
    threw,      \* whether starting or closing has thrown
    aborted,    \* the signal of the relay's AbortController
    loop,       \* each relay loop: "waiting", "working" or "ended"
    left,       \* the steps left in its iteration
    consuming,  \* isRunning() of the JetStream consumer
    job,        \* each slot: "none", "running" or "lost", its answer lost
    probe,      \* a readiness probe: "none" or "checking"
    faults

resources == <<todo, open, pending, threw>>
relay == <<aborted, loop, left>>
work == <<consuming, job, probe>>
vars == <<service, life, resources, relay, work, faults>>

Steps == [run |-> BatchSize, cleanup |-> CleanupMaxBatches, metrics |-> 1]

TypeOK ==
    /\ service \in Services
    /\ life \in {"starting", "ready", "closing", "stopped", "aborting", "failed"}
    /\ todo \in Seq(Resources)
    /\ pending \subseteq Resources /\ open \subseteq Resources
    /\ threw \in BOOLEAN /\ aborted \in BOOLEAN
    /\ loop \in [Loops -> {"waiting", "working", "ended"}]
    /\ \A l \in Loops : left[l] \in 0..Steps[l]
    /\ \A l \in Loops : loop[l] = "working" <=> left[l] > 0
    /\ consuming \in BOOLEAN
    /\ job \in [Jobs -> {"none", "running", "lost"}]
    /\ probe \in {"none", "checking"}
    /\ faults \in 0..MaxFaults
    /\ life \in {"stopped", "failed"} => pending = {} /\ todo = <<>>
    /\ {"subs", "consumer"} \cap open # {} => "nats" \in open

-----------------------------------------------------------------------------
(* The order in which the services open and close                          *)

Acquire ==
    [gateway |-> <<"nats", "http">>,
     user |-> <<"db", "nats", "subs", "relay">>,
     notification |-> <<"db", "nats", "consumer", "health">>]

\* Mutant: the gateway drains its connection before its requests are done.
Tried_NatsFirst ==
    [gateway |-> <<"nats", "http">>,
     user |-> <<"subs", "relay">>,
     notification |-> <<"health", "consumer">>]

\* What stands in the try block of the shutdown, or outside of any.
Tried ==
    [gateway |-> <<"http", "nats">>,
     user |-> <<"subs", "relay">>,
     notification |-> <<"health", "consumer">>]

\* What stands in its finally blocks.
Finally ==
    [gateway |-> <<>>,
     user |-> <<"nats", "db">>,
     notification |-> <<"nats", "db">>]

\* Mutant: a failed start of the user service leaves NATS connected.
Caught_NotNats ==
    [gateway |-> {},
     user |-> {"relay", "db"},
     notification |-> {"health", "consumer", "nats", "db"}]

\* What the catch block of the start closes, all at once.
Caught ==
    [gateway |-> {},
     user |-> {"relay", "nats", "db"},
     notification |-> {"health", "consumer", "nats", "db"}]

\* The rest of the try block is skipped, the finally blocks are not.
AfterError ==
    IF Len(todo) > Len(Finally[service]) THEN Finally[service] ELSE Tail(todo)

-----------------------------------------------------------------------------
Init ==
    /\ service \in Services
    /\ life = "starting"
    /\ todo = Acquire[service]
    /\ open = {} /\ pending = {}
    /\ threw = FALSE
    /\ aborted = FALSE
    /\ loop = [l \in Loops |-> "ended"]
    /\ left = [l \in Loops |-> 0]
    /\ consuming = FALSE
    /\ job = [j \in Jobs |-> "none"]
    /\ probe = "none"
    /\ faults = 0

Fault == faults < MaxFaults /\ faults' = faults + 1

\* With the connection end its subscriptions and its consumers.
Without(r) == IF r = "nats" THEN open \ {"nats", "subs", "consumer"}
              ELSE open \ {r}

Kept(r) == r \in open /\ r \notin pending

-----------------------------------------------------------------------------
(* Starting                                                                *)

\* subscribe and consume throw on a connection that has closed.
Refused(r) == r \in {"subs", "consumer"} /\ "nats" \notin open

Open(r) ==
    /\ life = "starting" /\ todo # <<>> /\ Head(todo) = r
    /\ ~Refused(r)
    /\ open' = open \cup {r}
    /\ todo' = Tail(todo)
    /\ life' = IF Tail(todo) = <<>> THEN "ready" ELSE "starting"
    /\ loop' = IF r = "relay" THEN [l \in Loops |-> "waiting"] ELSE loop
    /\ consuming' = (consuming \/ r = "consumer")
    /\ UNCHANGED <<service, pending, threw, aborted, left, job, probe, faults>>

\* Express 5 hands a listen error to the callback that announces the server:
\* the gateway goes on without one.
ListenFails ==
    /\ life = "starting" /\ todo = <<"http">>
    /\ Fault
    /\ todo' = <<>>
    /\ life' = "ready"
    /\ UNCHANGED <<service, open, pending, threw, relay, work>>

OpenFails ==
    /\ life = "starting" /\ todo \notin {<<>>, <<"http">>}
    /\ (Refused(Head(todo)) /\ UNCHANGED faults) \/ Fault
    /\ threw' = TRUE
    /\ todo' = <<>>
    /\ pending' = Caught[service] \cap open
    /\ life' = "aborting"
    /\ aborted' = (aborted \/ "relay" \in pending')
    /\ UNCHANGED <<service, open, loop, left, work>>

\* allSettled has nothing left to wait for.
StartThrows ==
    /\ life = "aborting" /\ pending = {}
    /\ life' = "failed"
    /\ UNCHANGED <<service, resources, relay, work, faults>>

-----------------------------------------------------------------------------
(* Stopping                                                                *)

\* A second signal meets shutdownPromise and changes nothing.
Signal ==
    /\ life = "ready"
    /\ life' = "closing"
    /\ todo' = Tried[service] \o Finally[service]
    /\ UNCHANGED <<service, open, pending, threw, relay, work, faults>>

ShutdownSettles ==
    /\ life = "closing" /\ todo = <<>> /\ pending = {}
    /\ life' = "stopped"
    /\ UNCHANGED <<service, resources, relay, work, faults>>

\* The subscriptions of a closed connection cannot be drained, and a server
\* that does not listen cannot be closed.
Unclosable(r) ==
    \/ r = "subs" /\ Refused(r)
    \/ r = "http" /\ "http" \notin open

\* The next close() or drain() is called.
BeginClose ==
    /\ life = "closing" /\ pending = {} /\ todo # <<>>
    /\ \/ /\ Unclosable(Head(todo))
          /\ todo' = AfterError /\ threw' = TRUE
          /\ UNCHANGED <<pending, aborted>>
       \/ /\ ~Unclosable(Head(todo))
          /\ pending' = {Head(todo)}
          /\ aborted' = (aborted \/ Head(todo) = "relay")
          /\ UNCHANGED <<todo, threw>>
    /\ UNCHANGED <<service, life, open, loop, left, work, faults>>

\* Mutant: stop() does not await the task of the loops.
MayClose_NotAwaited(r) == r = "http" => \A j \in Jobs : job[j] # "running"

\* A server waits for the requests it has accepted and the relay for its
\* loops; nothing waits for the handlers of RPC requests or messages.
MayClose(r) ==
    /\ r = "relay" => \A l \in Loops : loop[l] = "ended"
    /\ r = "http" => \A j \in Jobs : job[j] # "running"
    /\ r = "health" => probe = "none"

Advance == IF life = "closing" THEN Tail(todo) ELSE todo

\* Closing a connection or an iterator that is closed already succeeds.
Closed(r) ==
    /\ r \in pending /\ MayClose(r)
    /\ pending' = pending \ {r}
    /\ open' = Without(r)
    /\ todo' = Advance
    /\ UNCHANGED <<service, life, threw, relay, work, faults>>

CloseFails(r) ==
    /\ r \in (pending \cap open) \ {"relay"}
    /\ Fault
    /\ pending' = pending \ {r}
    /\ threw' = TRUE
    /\ todo' = IF life = "closing" THEN AfterError ELSE todo
    /\ UNCHANGED <<service, life, open, relay, work>>

-----------------------------------------------------------------------------
(* The relay's loops: an iteration of each is a bounded number of steps    *)

\* Mutant: the limits of an iteration are compared with <=.
BeginIteration_OneMore(l) ==
    /\ loop[l] = "waiting" /\ ~aborted
    /\ loop' = [loop EXCEPT ![l] = "working"]
    /\ left' = [left EXCEPT ![l] = Steps[l] + 1]
    /\ UNCHANGED <<service, life, resources, aborted, work, faults>>

BeginIteration(l) ==
    /\ loop[l] = "waiting" /\ ~aborted
    /\ loop' = [loop EXCEPT ![l] = "working"]
    /\ left' = [left EXCEPT ![l] = Steps[l]]
    /\ UNCHANGED <<service, life, resources, aborted, work, faults>>

\* One statement or publish.  The batch is finished or shorter, or the step
\* has failed and its error is logged: then the loop waits.
Iterate(l) ==
    /\ loop[l] = "working"
    /\ \/ left[l] > 1 /\ left' = [left EXCEPT ![l] = @ - 1] /\ UNCHANGED loop
       \/ /\ left' = [left EXCEPT ![l] = 0]
          /\ loop' = [loop EXCEPT ![l] = "waiting"]
    /\ UNCHANGED <<service, life, resources, aborted, work, faults>>

\* Mutant: the loop does not look at the signal.
EndLoop_Never(l) ==
    /\ loop[l] = "waiting" /\ aborted
    /\ loop' = [loop EXCEPT ![l] = "working"]
    /\ left' = [left EXCEPT ![l] = Steps[l]]
    /\ UNCHANGED <<service, life, resources, aborted, work, faults>>

\* The signal ends the wait, and the loop condition the loop.
EndLoop(l) ==
    /\ loop[l] = "waiting" /\ aborted
    /\ loop' = [loop EXCEPT ![l] = "ended"]
    /\ UNCHANGED <<service, life, resources, aborted, left, work, faults>>

-----------------------------------------------------------------------------
(* Requests, messages and probes                                           *)

\* What a request or a message comes in through.  The loop of the consumer
\* works off what it has pulled even after its iterator is closed.
Accepting ==
    CASE service = "gateway" -> Kept("http")
      [] service = "user" -> Kept("subs") /\ Kept("nats")
      [] service = "notification" ->
            consuming /\ \A j \in Jobs : job[j] # "running"

Arrive(j) ==
    /\ job[j] = "none" /\ Accepting
    /\ job' = [job EXCEPT ![j] = "running"]
    /\ UNCHANGED <<service, life, resources, relay, consuming, probe, faults>>

\* The gateway answers over HTTP, the others over NATS.
Finish(j) ==
    /\ job[j] = "running"
    /\ job' = [job EXCEPT ![j] = IF service = "gateway" \/ "nats" \in open
                                 THEN "none" ELSE "lost"]
    /\ UNCHANGED <<service, life, resources, relay, consuming, probe, faults>>

\* The iterator has ended and its last handler has returned.
ConsumerEnds ==
    /\ consuming /\ "consumer" \notin open
    /\ \A j \in Jobs : job[j] # "running"
    /\ consuming' = FALSE
    /\ UNCHANGED <<service, life, resources, relay, job, probe, faults>>

\* The readiness probe of the notification service, past isRunning().
Probe ==
    /\ Kept("health") /\ probe = "none" /\ consuming
    /\ probe' = "checking"
    /\ UNCHANGED <<service, life, resources, relay, consuming, job, faults>>

ProbeAnswered ==
    /\ probe = "checking"
    /\ probe' = "none"
    /\ UNCHANGED <<service, life, resources, relay, consuming, job, faults>>

-----------------------------------------------------------------------------
(* Faults                                                                  *)

\* The server ends the connection for good (connection.closed() resolves).
NatsCloses ==
    /\ "nats" \in open
    /\ Fault
    /\ open' = Without("nats")
    /\ UNCHANGED <<service, life, todo, pending, threw, relay, work>>

\* processMessages rejects; the process lives on.
ConsumerFails ==
    /\ consuming
    /\ Fault
    /\ consuming' = FALSE
    /\ UNCHANGED <<service, life, resources, relay, job, probe>>

-----------------------------------------------------------------------------
Startup ==
    (\E r \in Resources : Open(r)) \/ ListenFails \/ OpenFails \/ StartThrows
Shutdown == BeginClose \/ (\E r \in Resources : Closed(r)) \/ ShutdownSettles
Looping(l) == BeginIteration(l) \/ Iterate(l) \/ EndLoop(l)

Next ==
    \/ Startup \/ Signal \/ Shutdown
    \/ \E r \in Resources : CloseFails(r)
    \/ \E l \in Loops : Looping(l)
    \/ \E j \in Jobs : Arrive(j) \/ Finish(j)
    \/ ConsumerEnds
    \/ Probe \/ ProbeAnswered
    \/ NatsCloses \/ ConsumerFails

Spec == Init /\ [][Next]_vars

\* Promises settle and statements end; nobody has to send a signal.
Fairness ==
    /\ WF_vars(Startup) /\ WF_vars(Shutdown)
    /\ \A l \in Loops : WF_vars(Looping(l))
    /\ \A j \in Jobs : WF_vars(Finish(j))
    /\ WF_vars(ProbeAnswered)

FairSpec == Spec /\ Fairness

-----------------------------------------------------------------------------
(* What starting and stopping must guarantee                               *)

\* A shutdown that reports success has closed everything and left no loop
\* behind: the process can end.
CleanStopIsClean ==
    life = "stopped" /\ ~threw =>
        open = {} /\ \A l \in Loops : loop[l] = "ended"

\* Until a fault, nothing that the shutdown waits for loses its connections:
\* a relay iteration, an HTTP request, a readiness probe, which also finds
\* the consumer at work when it succeeds.
WorkKeepsItsConnections ==
    faults = 0 =>
        /\ (\E l \in Loops : loop[l] = "working") => {"db", "nats"} \subseteq open
        /\ service = "gateway" /\ (\E j \in Jobs : job[j] = "running")
               => "nats" \in open
        /\ probe = "checking" => {"db", "nats", "consumer"} \subseteq open

\* A start that fails leaves nothing open unless closing fails too, so that
\* the process ends and its container starts another one.
FailedStartReleases ==
    life = "failed" /\ faults <= 1 =>
        open = {} /\ (\A l \in Loops : loop[l] = "ended")

\* A shutdown ends, and so does a failed start, whatever is under way.
StopEnds == life \in {"closing", "aborting"} ~> life \in {"stopped", "failed"}
=============================================================================
