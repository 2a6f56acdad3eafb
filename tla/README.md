# Verification of the user platform

TLA+ specifications of the program in `src/`: an API gateway, a user service
and a notification service that talk over NATS and JetStream and keep their
state in two PostgreSQL databases. TLC checks the specifications on small
instances; TLAPS proves the theorems for every value of the constants.

## The system

| Component | State | Operations | Hard parts |
| --- | --- | --- | --- |
| Gateway (`apps/api-gateway`) | none of its own; tokens it has signed | sign up, log in, read and update a user, health | a timeout leaves open what the service did; tokens outlive the data they were issued for |
| User service RPC (`handlers`, `services`, `repositories`) | `users`, and the insert into `outbox_events` | signUp, login, getUser, updateUser | check-then-insert, values read before an `await`, commits whose answer is lost |
| Outbox relay (`outbox/`) | `outbox_events`: publishedAt, nextAttemptAt, attempts, lockedAt, lockedBy; the batch in memory | claimBatch, publish, markPublished, markFailed, deletePublishedBefore, start, stop | several replicas, leases by skewed clocks, stale candidates, crashes between publish and mark |
| Publisher (`libs/messaging`) | none | publish, publishRaw | a publish that times out may be stored |
| Durable consumer (`libs/messaging`) | the delivery state in JetStream, the pulled buffer in memory | start, ensureDurableConsumer, processMessages, dead-lettering | expiring and overlapping deliveries, lost answers, the last delivery |
| Notification delivery (`apps/notification-service`) | `notification_deliveries`: claimedAt, claimToken, sentAt | claim, send, markSent, markFailed | overlapping calls for one event, lapsed leases, sends that cannot be undone |
| Lifecycle, readiness (`main.ts` of the services, `connection.ts`) | open connections and servers, the relay's loops, work in flight | start, failed start, signal, shutdown, readiness | order of shutdown against work in flight, steps of it that throw |
| Stream bootstrap (`stream-bootstrap.ts`, `scripts/`) | the stream's configuration | ensure, reconcileStream | concurrent bootstraps of different builds, lost replies |
| Dead-letter tool (`scripts/user-events-dlq.ts`) | none; the records stay in the stream | inspect, replay | replays of events that are handled by now, or twice |

They interact in one pipeline. A sign-up crosses the gateway and NATS
request/reply to the user service, which commits the user and an outbox row in
one transaction. A relay leases the row, publishes the event to JetStream and
marks the row. The consumer of a notification replica pulls the message, calls
the handler, which claims the event in its own database, sends and marks it,
and acknowledges; after the last failed delivery the bytes go to the
dead-letter subject.

What makes each part correct:

* account calls: an answer below 500 is true, a user exists exactly if its
  event was committed, no address is used twice, and concurrent calls behave
  like atomic ones;
* relay: no committed event is lost or deleted before it is in the stream, an
  unexpired lease excludes other relays, and every event that can be published
  is;
* consumer: a message is settled only when it was handled or preserved, and
  every message ends somewhere;
* bootstrap: a job that succeeds leaves a usable stream as wanted, and races
  alone make no job fail;
* lifecycle: a shutdown or a failed start ends, takes nothing away from what it
  waits for, and leaves nothing open;
* pipeline: every committed event is recorded as notified or parked for an
  operator, and copies of a notified event are harmless;
* delivery: unexpired claims exclude each other, a message is acknowledged only
  for a notification that was sent, and duplicates happen only after a fault or
  a lapsed lease.

## Modules

| Module | Models |
| --- | --- |
| `OutboxRelay` | `outbox.repository.ts`, `outbox.relay.ts`, the insert of `user.repository.ts` |
| `EventHandoff` | what the outbox promises of one event; `OutboxRelay` implements it |
| `NotificationDelivery` | `notification-delivery.repository.ts`, `notification.service.ts` |
| `DurableConsumer` | `consumer.ts` and, as its environment, JetStream |
| `UserRpc` | the account calls: controllers, RPC client, handlers, `UserService`, `UserRepository` |
| `AtomicAccounts` | the accounts as clients may think of them; `UserRpc` implements it |
| `StreamBootstrap` | `stream-bootstrap.ts`, `jetstream-bootstrap.ts` and, as its environment, JetStream's streams API |
| `ServiceLifecycle` | `main.ts` of the three services, `MessagingClient`, the loops of `outbox.relay.ts` |
| `EventPipeline` | `EventHandoff`, `DurableConsumer` and `NotificationDelivery` composed for one event, with duplicate publishes and `user-events-dlq.ts` |
| `EventFate` | what the platform promises of one event; `EventPipeline` implements it |
| `*Proofs` | the theorems about the module of that name (seven modules) |
| `MC*` | the constants of the runs |

A definition that begins with the name of another and ends in `_Something`,
with a comment that starts with "Mutant:", is a plausible bug in that other
definition. It is part of no specification; it shows that a property can fail.

### How state and steps correspond to the code

In every module a step of a process is what the code does between two `await`s:
one SQL statement with the code that follows it, one publish, one answer.
A statement that fails is an action of its own that may or may not have been
applied. What a crash loses is exactly what the process held in memory.

**OutboxRelay.** `row` is the table, `stored` what JetStream holds, `pc` where
each worker's `run` loop is, `stamp` the `now` of its claim, `cand` the selected
candidates that the `for` loop of `claimBatch` has yet to lease, `batch` the
claimed events still to be published. `SelectCandidates` is the `findMany`,
`ClaimCandidate` one `updateMany`, `PublishAcked`/`PublishFailed` the publish,
`MarkPublished`/`MarkFailed` the marks, whose failure drops the rest of the
batch as the `catch` of `run` does. After a batch the loop is back at its head
("poll") and reads the clock in the same turn, so time does not pass there;
after an error or a claim without events it sleeps in `wait` ("wait") and goes
on whenever its timer fires. A restarted process draws a new workerId and is
another worker. `RetryDelay` computes what `retryDelay` does, with the first
delay, the cap of the exponent and the cap of the delay as constants; attempts
are counted up to where the delay no longer changes. The select and the delete
of `deletePublishedBefore` are one step: a published row changes no more, so
nothing can happen to it between them but another clean-up.

Instants are relative to the present: `Tick` moves them one unit into the past
and lets them rest at `-Horizon`. `ClockAssumption` puts the horizon beyond the
lease and the retention, so no comparison in the code can tell an older instant
from the oldest one. `Skew` gives each replica its own clock.

**NotificationDelivery.** One row and the calls that meet at it. A call is an
execution of `handleUserCreated`; `pc` names the statement it is at, `now` the
clock reading of its claim. The claim token is random, so the call stands for it.

**DurableConsumer.** `durable`, `state` and `delivered` are JetStream's: the
`max_deliver` of the consumer that exists, and per message whether it waits, is
out, or is settled, and how often it was delivered. `buffer` is what a replica
has pulled; its loop works on the first delivery. Answers (ack, nak, term) name
the message: a late ack settles a newer delivery too. Expiry may happen at any
time, because the first backoff (1 s) replaces `ack_wait` and a message may sit
in the buffer of a busy replica for longer. `consumers.info` and
`consumers.add` are separate steps, with a configuration per replica. By
itself the module knows nothing of delivery records: a handler may fail when
another one is or was at the same event (`EventOf` tells which messages are
copies), or when an earlier fault may have left a claim behind. An existing
consumer is used whatever its `max_deliver` is, as `ensureDurableConsumer`
does; `AbandonmentIsExplained` names what a replica that expects more
deliveries than that can cost.

**StreamBootstrap.** `stream` is what JetStream holds, `pc` the request each
job waits for, `result` what `ensure` has returned, `failing` that it has
thrown while `main`'s `finally` drains. `reconcileStream` is not awaited inside
the `try` blocks of `ensure`, so its errors are thrown as they are. `writer` is
no state of the code but history: who wrote last since each job looked, which
is what `ResultIsCurrent` needs to say whose configuration the stream has.

**ServiceLifecycle.** One process of any service. `todo` is what the code has
still to open, or to close, in its order: `Tried` stands in the `try` block of
the shutdown, `Finally` in the nested `finally` blocks, `Caught` in the `catch`
of the start, whose `allSettled` closes everything at once. `pending` is what
is being closed; `MayClose` says what closing waits for: a server for its
requests, the relay for its loops, nothing for handlers. The consumer's loop
(`consuming`) outlives its iterator until its handler has returned. `loop` and `left` are
the three loops and the statements and publishes left in an iteration.

**EventPipeline.** The outbox appears as `EventHandoff`, which `OutboxRelay` is
proved to implement, reduced to its steps up to the stream; recording and
purging change nothing behind it. A copy of the event is one stream sequence.
`DurableConsumer` and `NotificationDelivery` are instantiated whole and joined
where `processMessages` awaits `handleEvent`: a delivery is a call of the
record, `HandlerReturns` needs a call that is "ok" and `HandlerThrows` one that
has "thrown", instead of the guess of `DurableConsumer`; a crash of a replica
is a crash of its call; all share one count of faults. A second copy may come
from the relay at any time, since its next publish may come after the duplicate
window, and from `Replay` whenever a record exists.

**UserRpc.** A call is one HTTP request with its gateway side (`http`) and its
service side (`svc`, `found`, `reply`), which outlives it after a timeout. The
id of a new user is the call that created it. Passwords stand for their hashes.
`Registered` users and their tokens exist at the start; that state is reached
by their sign-ups and logins. The transaction of `createUser` is three steps,
`InsertUser`, `InsertEvent` and `Commit`; `written` is what it has written and
nobody else sees, though the unique index makes others wait for it (`Locked`).
When the process dies or a statement's end is not heard of, the service answers
or is gone, and `Resolve`, a step of PostgreSQL, later rolls the transaction
back or, if COMMIT may have reached it, completes it. `InvalidRequest` and
`InvalidResponse` are the contracts of gateway and service not matching, as
during a deployment.

## Runs

| Run | Shows | Bounds |
| --- | --- | --- |
| `relay_safety` | no event lost, leases hold and exclude, snapshots current, delays capped, the handoff of `EventHandoff` | 2 relays whose clocks differ by 1, 2 events of which JetStream refuses the older always, batches of 2, lease 2, retry delays 3 and min(6, 5), one fault; a batch may last 9 units, several leases |
| `relay_liveness` | the good event is published behind a refused one, `stop()` returns | the same with `LIMIT` 1, so that the refused row is the whole batch whenever it is due, and batches that end within the lease |
| `relay_graceful_stop` | violated: a stopping relay leaves claimed rows leased | 2 faults |
| `delivery_safety` | claims exclude, ok means sent, duplicates are explained | 3 calls, clocks 1 apart, lease 2, 2 faults |
| `delivery_send_after_sent` | violated: a stale call sends after the event was marked sent | no fault is needed; one is allowed |
| `consumer_safety` | settled means handled or preserved, abandoned only after a fault or under a replica that expects too many deliveries | 2 replicas that expect 2 and 3 deliveries, two copies of an event (symmetric) and a malformed message, 2 pending, one fault |
| `consumer_liveness` | every message ends | the same messages and a failing one, with 1 pending and 2 deliveries |
| `consumer_exhausted` | violated: a failed dead-letter publish on the last delivery loses the message | no crashes, one fault |
| `rpc_safety` | answers are true, users and events agree, addresses are unique, atomic calls | 3 calls of 6 requests, 1 registered user with either address and password, one fault at any statement of a transaction or elsewhere |
| `bootstrap_safety` | success means a usable stream as wanted by the job or the last writer since, races fail nobody, foreign streams are left alone, reruns are idle | 3 jobs, 3 configurations of 2 builds (one with its subjects in either order), any stream or none at first, 2 faults |
| `lifecycle` | a clean stop is clean, work keeps its connections, failed starts release, stops end | the 3 services, 2 slots of work, relay iterations of 2 steps, clean-ups of 3 batches, 2 faults |
| `pipeline` | settled means recorded or parked, recorded is not resent, `EventFate`, every committed event is recorded, parked, or abandoned after a fault | 2 copies, 2 replicas of which one may crash, 2 deliveries, 1 pending, lease 1, one fault |

The bounds are enough for the interesting cases: two processes for every
interleaving of pairs, a third call where a second one takes over from the
first and leaves something behind for another, one fault that may hit any step,
and a lease short enough to lapse at any point of the work it covers. Every
passing property is also run against a mutant, so the instance is large enough
to break it.

In `pipeline` two copies are one that the relay publishes and one that it
publishes again or that an operator replays; two deliveries let a rival, a
crash or an error use up a copy, and the other copy meets what it left.

`consumer_*`, `rpc_safety`, `bootstrap_safety`, `lifecycle` and `pipeline` set
`CHECK_DEADLOCK FALSE`: when every message is settled, every request answered,
every job done or the process gone, nothing is left to do.

### Disagreements with the documentation

* A claimed batch is not always finished during shutdown, as the comment in
  `outbox.relay.ts:149` says: if `markFailed` throws, the rows behind stay
  leased until the timeout (`FinishesClaimedBatch`).
* The delivery record does not by itself prevent duplicates "once marked sent"
  (`docs/architecture.md:125`): the lease is not checked again before the send
  (`NoSendAfterSent`).
* A nak on the last delivery is a discard: with `max_deliver` deliveries made,
  JetStream does not redeliver, and a failed dead-letter publish leaves the
  message nowhere, against `docs/architecture.md:123-124`
  (`ExhaustedIsPreserved`).
* `docs/openapi.yaml:164-165` and `205-206` document a 404 `UserNotFound`
  (defined at 268-269) for the calls of a user on itself. The code has the path
  (`USER_NOT_FOUND` in `ReadUser`, `Update` and `StatusOf`), but nothing deletes
  a user and `requireSelf` lets a token through only for its own subject, so no
  behaviour of the code as it stands takes it. A documented answer that is not
  given yet is not a wrong answer: no run claims either.

What the models contain that no text denies:

* `DuplicatesAreExplained` allows the second notification that a lapsed lease
  costs;
* a user service whose NATS connection has closed for good does not stop
  cleanly: draining a subscription throws and `relay.stop()` is skipped;
* a gateway that cannot listen announces itself all the same, because Express 5
  hands the error to the callback of `listen`; its shutdown then fails at
  `server.close()` and leaves NATS open;
* the last bootstrap that writes wins, also that of an older build which decided
  on what it had read before the newer one wrote (`ResultIsCurrent` says whose
  configuration the stream then has);
* a replica configured with more deliveries than the existing consumer makes
  waits for one that never comes, and a failing message is lost
  (`AbandonmentIsExplained` allows exactly this).

For the stops that throw there is no property: `CleanStopIsClean` is about
shutdowns that report success.

### Fairness

`OutboxRelay`: a live process executes its loop (weak fairness of each worker's
own steps; JavaScript promises settle and timers fire), time passes, and the
replicas outside `Mortal` are started. Nothing is assumed of failures, crashes
or clean-up. `EveryRowPublished` further needs batches that end within their
lease (`MaxBatchTicks + MaxSkew <= LockTimeout`): with ten rows and five-second
publishes the defaults do not guarantee that, and two relays may then take the
batch from each other forever. And it needs refused rows that wait longer than
it takes to try all of them. The instance has one, `LIMIT` 1 and delays of at
least three batches. With two refused rows, one worker and batches of one row
that take a unit each, a first delay of 1 starves the good row, 2 and 3 do not:
the older refused row must not be due again before the younger has been tried
and the head of the loop reads the clock. In the numbers of the code a batch of
ten publishes that all time out takes 50 s, and the longest delay is 60 s: about
twenty such rows could keep all others waiting.

`DurableConsumer`: JetStream delivers what is deliverable and expires what is
unanswered, replicas process what they hold, and replicas outside `Mortal`
start. Weak fairness suffices since the number of deliveries is finite.

`ServiceLifecycle`: promises settle, loops and handlers go on, probes are
answered. `Signal` is not fair: nobody has to stop a service.

`EventPipeline`: a committed row is published (what `EveryRowPublished` checks
of the relay), JetStream delivers and expires, live replicas go on, and the
ones outside `Mortal` are started. Nothing is assumed of replays, clocks or
faults.

## Proofs

Each `XProofs` holds the theorems about module `X`, for every value of the
constants that satisfies the named assumptions of `X`. The assumptions are the
ranges of sizes (`Lease`, `MaxDeliver` and the like are positive integers),
finite sets of calls and messages, names that are distinct from `NULL`,
`PowersAssumption`, which tells the provers that powers of two are positive
integers (TLC computes them), and those explained below. All invariants and action properties of the passing
runs are proved, and all three refinements.

An invariant is proved from an inductive one, which the step lemmas show to
survive every action; the theorem itself puts the lemmas together.

**OutboxRelayProofs**

* `TypeCorrect`: `TypeOK`.
* `PublishedAreStored`: from `StoredInv`. The invariant is not inductive alone;
  it needs that a worker about to mark an event has had it acknowledged.
* `LeasesAreExclusive`: from `WorkerInv` and `LeaseInv`. A lease that is
  unexpired by every clock of the deployment cannot pass the row filter of any
  other worker's claim, because a claim's clock reading is at most `MaxSkew`
  ahead; the inductive form adds what a worker's stamp and its row's `lockedAt`
  have in common while time passes. `LeasesHold`, an action property, follows
  from the same invariant: only the worker itself gives such a row away.
* `SnapshotsAreCurrent`: assumes that the shortest delay, the lesser of
  `FirstDelay` and `MaxRetryDelay`, exceeds `MaxSkew + MaxCallTicks`. If another worker fails the event between select and update,
  its new `nextAttemptAt` lies beyond the reading the update still uses, so
  the update misses. The assumption is part of the theorem since without it
  the property is false.
* `RelayHandsOff`: `Spec => HandsOff`, every step of the relay is a step of
  `EventHandoff` or leaves the mapped status alone.

**NotificationDeliveryProofs.** `StepKinds` sorts the steps of a call by what
they do to the row: it is claimed, it is released, or it is left alone.

* `TypeCorrect`: the bound on `takeovers` needs `TakeoversInv`, that only calls
  past their update have taken a lease over, each once.
* `ClaimsAreExclusive`: from `ClaimInv`, that an unexpired holder owns the row
  and the row's `claimedAt` is its own clock reading. The horizon beyond lease
  and claim (`ClockAssumption`) is what lets ageing keep the two equal.
* `AcknowledgedWasSent`: from `SentInv`, which adds that whoever is about to
  mark the row has sent.
* `DuplicatesArePaidFor`: counting sent notifications alone is not inductive.
  `DuplicatesInv` counts the calls that have sent or are about to, those that
  will release the row, and the row itself if it is free: together they exceed
  the faults and takeovers by at most one.
* `SentIsFinal`, `RecordedIsSentOnce`: no row filter meets a marked row; and as
  long as no claim was taken over, `HolderInv` makes every call that can still
  send the owner of an unmarked row, so none can once the row is marked.

**DurableConsumerProofs**

* `TypeCorrect`; the lemmas on heads, tails and appended deliveries serve all
  that follows.
* `SettledMeansAccountedFor`: from `LoopInv`, what the loop knows of the
  delivery in hand: handled before ack, stored before term.
* `AbandonmentsAreExplained`: from `LastInv`. While there are no faults and no
  working replica expects more than `durable` deliveries (`Patient`), some
  replica holds the last delivery of a message that is neither handled nor
  stored, and lets go of it only after one or the other. A replica at work
  stays so without a fault (`StaysBound`), so it remains there to be named.

**UserRpcProofs** assumes that no new user has the id of a registered one.

* `TypeCorrect`: with `ControlInv`, where a call stands in gateway and service
  agrees with its request and with what it has found.
* `UsersHaveEvents`: what a transaction has written depends on where its call
  stands or stood; only one that has written both user and event can commit, be
  it in `Commit` or in `Resolve`.
* `EmailsAreUnique`: from `IndexInv`. No two open transactions hold one address,
  and none holds one that is taken, so that a late `Resolve` breaks nothing.
* `SignUpAnswersAreTrue`: from `SignUpInv`, that a refused sign-up runs no more
  statements, so that what a 4xx says stays true.
* `CallsActAtomically`: `UserRpc` implements `AtomicAccounts`. The statement
  that writes, or from which the answer follows, is the atomic step of a call:
  for a login the read of the record, although the password is compared later
  (`Outcome`). It needs `EmailsUnique`: a login reads one record, and the
  answer must be right for the whole table.

**StreamBootstrapProofs** assumes that subjects of one configuration differ.

* `TypeCorrect`, `BootstrapLeavesAStream`: an answer means that a compatible
  stream was seen or made (`UsableInv`), and none is deleted.
* `ResultsAreCurrent`: inductive together with the types (`TypeInv`): a job
  that returns has just written, or has just seen what it wants, and whoever
  writes afterwards is its `writer`.
* `RacesAreHarmless`, `RerunsAreIdle`: from `FaultlessInv`, why a job without
  faults asks again or updates.
* `ForeignStreamIsLeft`: an action property.

**ServiceLifecycleProofs**: all from `LifeInv`, which relates what is open to
what is left to do at each stage of starting and stopping (`StageInv`,
`OpenInv`), says exactly what is open until the first fault (`QuietInv`), and
what unfinished work keeps open (`WorkInv`). The order in which the code opens
and closes enters as facts about the lists in `Starts` and `Stops`, one case
for each service. `StopsAreClean`, `WorkIsProtected` and `FailedStartsRelease`
are the three promises.

**EventPipelineProofs** instantiates the proofs of consumer and record with the
constants of the pipeline, shows that these satisfy the components'
assumptions, and that each step is, for the consumer and for the record, one
of those their invariants survive (`ConsumerMoves`, `RecordMoves`). The
pipeline's handler is stricter about returning and freer about throwing than
`DurableConsumer!Next` allows, and its faults are counted in common; therefore
the step lemmas of the two components are stated of `Moved`, which contains
`Next` but says nothing about why a handler throws, and has steps around the
component (`Elsewhere`). What the pipeline adds is `HandledInv` (a handler
returned only for a recorded event) and `AbsentInv` (before the commit there is
neither a row nor a dead letter).

* `TypeCorrect`; `CopiesEndAccountedFor` from the consumer's
  `SettledIsAccountedFor` and `HandledInv`; `RecordedStays` from `HolderInv`;
  `FateIsKept`: `EventPipeline` implements `EventFate`. A step that sends does
  nothing else (`SendStep`), and whoever records has sent (`SentInv`).

### Only model-checked

* Liveness (`EveryRowPublished`, `StopCompletes`, `EveryMessageEnds`,
  `StopEnds`, `CommittedEventEnds`): it rests on fairness and ENABLED, which
  the provers do not handle.
* The three properties of the runs that expect a violation, which are false.

## Not modelled

* Names and other payload, request ids, rate limits, schema details, the
  parsing of the configuration, and the wiring of Express.
* The retention of the stream: seven days or 512 MB discard what is oldest,
  consumed or not, dead letters included.
* The clock of the duplicate window: a second copy may come at any time, which
  covers every length of it.
* The corrected payload of a malformed record, which an operator writes: the
  tool compares its event id only with records that carry one.
* In `ServiceLifecycle`: reconnects, which only delay; statements issued after
  `$disconnect`, which open the pool again; a signal during the start, which
  kills the process; a readiness answer that is old when it is read.
* Shutdown of a notification replica appears as a crash in `DurableConsumer`
  and `EventPipeline`: nothing waits for its handler.

## Plan

1. The fairness-free core of the liveness properties: that a step of an event
   or message never leads back (its rank falls), as action properties with
   proofs.
2. `EveryRowPublished` with several refused rows and batches of several rows,
   to find the exact relation between their number, the duration of a batch and
   the delays beyond which the others starve.
