----------------------- MODULE ServiceLifecycleProofs -----------------------
(***************************************************************************)
(* Theorems about ServiceLifecycle for any number of overlapping jobs, any *)
(* length of the relay's iterations and any number of faults.              *)
(***************************************************************************)
EXTENDS ServiceLifecycle, SequenceTheorems, TLAPS

(***************************************************************************)
(* What is still to open and to close                                      *)
(***************************************************************************)

Elems(s) == {s[i] : i \in DOMAIN s}

Mine == [gateway |-> {"nats", "http"},
         user |-> {"db", "nats", "subs", "relay"},
         notification |-> {"db", "nats", "consumer", "health"}]

\* What a start may still have before it, and a shutdown.
Starts ==
    [gateway |-> {<<"nats", "http">>, <<"http">>},
     user |-> {<<"db", "nats", "subs", "relay">>, <<"nats", "subs", "relay">>,
               <<"subs", "relay">>, <<"relay">>},
     notification |->
       {<<"db", "nats", "consumer", "health">>, <<"nats", "consumer", "health">>,
        <<"consumer", "health">>, <<"health">>}]

Stops ==
    [gateway |-> {<<"http", "nats">>, <<"nats">>, <<>>},
     user |-> {<<"subs", "relay", "nats", "db">>, <<"relay", "nats", "db">>,
               <<"nats", "db">>, <<"db">>, <<>>},
     notification |->
       {<<"health", "consumer", "nats", "db">>, <<"consumer", "nats", "db">>,
        <<"nats", "db">>, <<"db">>, <<>>}]

Names == {"gateway", "user", "notification"}

\* A start has its last resource before it until it is ready; what a service
\* listens with comes after the connection it needs.
StartFacts(s, t) ==
    /\ t \in Seq(Resources) /\ t # <<>>
    /\ Tail(t) \in Starts[s] \cup {<<>>}
    /\ Head(t) \in Elems(t) /\ Elems(t) \subseteq Mine[s]
    /\ Elems(Tail(t)) = Elems(t) \ {Head(t)}
    /\ Mine[s] \cap {"relay", "health", "http"} \subseteq Elems(t)
    /\ Head(t) \in {"subs", "consumer"} => "nats" \in Mine[s] \ Elems(t)
    /\ Head(t) \in {"relay", "health", "http"} => Tail(t) = <<>>
    /\ t # <<"http">> => (Mine[s] \ Elems(t)) \ {"subs"} \subseteq Caught[s]

\* A shutdown first closes what needs the connections, then the connections.
StopFacts(s, t) ==
    /\ t \in Seq(Resources)
    /\ t # <<>> =>
         /\ Tail(t) \in Stops[s] /\ Head(t) \in Elems(t)
         /\ Elems(Tail(t)) = Elems(t) \ {Head(t)}
         /\ Head(t) = "nats" => Elems(t) \cap {"subs", "consumer"} = {}
    /\ Elems(t) \subseteq Mine[s]
    /\ "relay" \in Elems(t) => {"nats", "db"} \subseteq Elems(t)
    /\ "health" \in Elems(t) => {"consumer", "nats", "db"} \subseteq Elems(t)
    /\ Elems(t) \cap {"http", "subs", "consumer"} # {} => "nats" \in Elems(t)

LEMMA StartStages ==
    ASSUME NEW s \in Names, NEW t \in Starts[s] PROVE StartFacts(s, t)
<1>1. CASE s = "gateway"
  <2>0. Mine[s] = {"nats", "http"} /\ Caught[s] = {}
    BY <1>1 DEF Mine, Caught
  <2>1. CASE t = <<"nats", "http">>
    <3>1. /\ Elems(t) = {"nats", "http"} /\ Head(t) = "nats"
          /\ Tail(t) = <<"http">> /\ Elems(Tail(t)) = {"http"}
      BY <2>1 DEF Elems
    <3>2. Tail(t) \in Starts[s]
      BY <1>1, <3>1 DEF Starts
    <3>. QED
      BY <2>0, <2>1, <3>1, <3>2 DEF StartFacts, Resources
  <2>2. CASE t = <<"http">>
    <3>1. /\ Elems(t) = {"http"} /\ Head(t) = "http"
          /\ Tail(t) = <<>> /\ Elems(Tail(t)) = {}
      BY <2>2 DEF Elems
    <3>. QED
      BY <2>0, <2>2, <3>1 DEF StartFacts, Resources
  <2>. QED
    BY <1>1, <2>1, <2>2 DEF Starts
<1>2. CASE s = "user"
  <2>0. /\ Mine[s] = {"db", "nats", "subs", "relay"}
        /\ Caught[s] = {"relay", "nats", "db"}
    BY <1>2 DEF Mine, Caught
  <2>1. CASE t = <<"db", "nats", "subs", "relay">>
    <3>1. /\ Elems(t) = {"db", "nats", "subs", "relay"} /\ Head(t) = "db"
          /\ Tail(t) = <<"nats", "subs", "relay">>
          /\ Elems(Tail(t)) = {"nats", "subs", "relay"}
      BY <2>1 DEF Elems
    <3>2. Tail(t) \in Starts[s]
      BY <1>2, <3>1 DEF Starts
    <3>. QED
      BY <2>0, <2>1, <3>1, <3>2 DEF StartFacts, Resources
  <2>2. CASE t = <<"nats", "subs", "relay">>
    <3>1. /\ Elems(t) = {"nats", "subs", "relay"} /\ Head(t) = "nats"
          /\ Tail(t) = <<"subs", "relay">> /\ Elems(Tail(t)) = {"subs", "relay"}
      BY <2>2 DEF Elems
    <3>2. Tail(t) \in Starts[s]
      BY <1>2, <3>1 DEF Starts
    <3>. QED
      BY <2>0, <2>2, <3>1, <3>2 DEF StartFacts, Resources
  <2>3. CASE t = <<"subs", "relay">>
    <3>1. /\ Elems(t) = {"subs", "relay"} /\ Head(t) = "subs"
          /\ Tail(t) = <<"relay">> /\ Elems(Tail(t)) = {"relay"}
      BY <2>3 DEF Elems
    <3>2. Tail(t) \in Starts[s]
      BY <1>2, <3>1 DEF Starts
    <3>. QED
      BY <2>0, <2>3, <3>1, <3>2 DEF StartFacts, Resources
  <2>4. CASE t = <<"relay">>
    <3>1. /\ Elems(t) = {"relay"} /\ Head(t) = "relay"
          /\ Tail(t) = <<>> /\ Elems(Tail(t)) = {}
      BY <2>4 DEF Elems
    <3>. QED
      BY <2>0, <2>4, <3>1 DEF StartFacts, Resources
  <2>. QED
    BY <1>2, <2>1, <2>2, <2>3, <2>4 DEF Starts
<1>3. CASE s = "notification"
  <2>0. /\ Mine[s] = {"db", "nats", "consumer", "health"}
        /\ Caught[s] = {"health", "consumer", "nats", "db"}
    BY <1>3 DEF Mine, Caught
  <2>1. CASE t = <<"db", "nats", "consumer", "health">>
    <3>1. /\ Elems(t) = {"db", "nats", "consumer", "health"} /\ Head(t) = "db"
          /\ Tail(t) = <<"nats", "consumer", "health">>
          /\ Elems(Tail(t)) = {"nats", "consumer", "health"}
      BY <2>1 DEF Elems
    <3>2. Tail(t) \in Starts[s]
      BY <1>3, <3>1 DEF Starts
    <3>. QED
      BY <2>0, <2>1, <3>1, <3>2 DEF StartFacts, Resources
  <2>2. CASE t = <<"nats", "consumer", "health">>
    <3>1. /\ Elems(t) = {"nats", "consumer", "health"} /\ Head(t) = "nats"
          /\ Tail(t) = <<"consumer", "health">>
          /\ Elems(Tail(t)) = {"consumer", "health"}
      BY <2>2 DEF Elems
    <3>2. Tail(t) \in Starts[s]
      BY <1>3, <3>1 DEF Starts
    <3>. QED
      BY <2>0, <2>2, <3>1, <3>2 DEF StartFacts, Resources
  <2>3. CASE t = <<"consumer", "health">>
    <3>1. /\ Elems(t) = {"consumer", "health"} /\ Head(t) = "consumer"
          /\ Tail(t) = <<"health">> /\ Elems(Tail(t)) = {"health"}
      BY <2>3 DEF Elems
    <3>2. Tail(t) \in Starts[s]
      BY <1>3, <3>1 DEF Starts
    <3>. QED
      BY <2>0, <2>3, <3>1, <3>2 DEF StartFacts, Resources
  <2>4. CASE t = <<"health">>
    <3>1. /\ Elems(t) = {"health"} /\ Head(t) = "health"
          /\ Tail(t) = <<>> /\ Elems(Tail(t)) = {}
      BY <2>4 DEF Elems
    <3>. QED
      BY <2>0, <2>4, <3>1 DEF StartFacts, Resources
  <2>. QED
    BY <1>3, <2>1, <2>2, <2>3, <2>4 DEF Starts
<1>. QED
  BY <1>1, <1>2, <1>3 DEF Names

LEMMA StopStages ==
    ASSUME NEW s \in Names, NEW t \in Stops[s] PROVE StopFacts(s, t)
<1>1. CASE s = "gateway"
  <2>0. Mine[s] = {"nats", "http"}
    BY <1>1 DEF Mine
  <2>1. CASE t = <<"http", "nats">>
    <3>1. /\ Elems(t) = {"http", "nats"} /\ Head(t) = "http"
          /\ Tail(t) = <<"nats">> /\ Elems(Tail(t)) = {"nats"}
      BY <2>1 DEF Elems
    <3>2. Tail(t) \in Stops[s]
      BY <1>1, <3>1 DEF Stops
    <3>. QED
      BY <2>0, <2>1, <3>1, <3>2 DEF StopFacts, Resources
  <2>2. CASE t = <<"nats">>
    <3>1. /\ Elems(t) = {"nats"} /\ Head(t) = "nats"
          /\ Tail(t) = <<>> /\ Elems(Tail(t)) = {}
      BY <2>2 DEF Elems
    <3>2. Tail(t) \in Stops[s]
      BY <1>1, <3>1 DEF Stops
    <3>. QED
      BY <2>0, <2>2, <3>1, <3>2 DEF StopFacts, Resources
  <2>3. CASE t = <<>>
    <3>1. Elems(t) = {}
      BY <2>3 DEF Elems
    <3>. QED
      BY <2>0, <2>3, <3>1 DEF StopFacts, Resources
  <2>. QED
    BY <1>1, <2>1, <2>2, <2>3 DEF Stops
<1>2. CASE s = "user"
  <2>0. Mine[s] = {"db", "nats", "subs", "relay"}
    BY <1>2 DEF Mine
  <2>1. CASE t = <<"subs", "relay", "nats", "db">>
    <3>1. /\ Elems(t) = {"subs", "relay", "nats", "db"} /\ Head(t) = "subs"
          /\ Tail(t) = <<"relay", "nats", "db">>
          /\ Elems(Tail(t)) = {"relay", "nats", "db"}
      BY <2>1 DEF Elems
    <3>2. Tail(t) \in Stops[s]
      BY <1>2, <3>1 DEF Stops
    <3>. QED
      BY <2>0, <2>1, <3>1, <3>2 DEF StopFacts, Resources
  <2>2. CASE t = <<"relay", "nats", "db">>
    <3>1. /\ Elems(t) = {"relay", "nats", "db"} /\ Head(t) = "relay"
          /\ Tail(t) = <<"nats", "db">> /\ Elems(Tail(t)) = {"nats", "db"}
      BY <2>2 DEF Elems
    <3>2. Tail(t) \in Stops[s]
      BY <1>2, <3>1 DEF Stops
    <3>. QED
      BY <2>0, <2>2, <3>1, <3>2 DEF StopFacts, Resources
  <2>3. CASE t = <<"nats", "db">>
    <3>1. /\ Elems(t) = {"nats", "db"} /\ Head(t) = "nats"
          /\ Tail(t) = <<"db">> /\ Elems(Tail(t)) = {"db"}
      BY <2>3 DEF Elems
    <3>2. Tail(t) \in Stops[s]
      BY <1>2, <3>1 DEF Stops
    <3>. QED
      BY <2>0, <2>3, <3>1, <3>2 DEF StopFacts, Resources
  <2>4. CASE t = <<"db">>
    <3>1. /\ Elems(t) = {"db"} /\ Head(t) = "db"
          /\ Tail(t) = <<>> /\ Elems(Tail(t)) = {}
      BY <2>4 DEF Elems
    <3>2. Tail(t) \in Stops[s]
      BY <1>2, <3>1 DEF Stops
    <3>. QED
      BY <2>0, <2>4, <3>1, <3>2 DEF StopFacts, Resources
  <2>5. CASE t = <<>>
    <3>1. Elems(t) = {}
      BY <2>5 DEF Elems
    <3>. QED
      BY <2>0, <2>5, <3>1 DEF StopFacts, Resources
  <2>. QED
    BY <1>2, <2>1, <2>2, <2>3, <2>4, <2>5 DEF Stops
<1>3. CASE s = "notification"
  <2>0. Mine[s] = {"db", "nats", "consumer", "health"}
    BY <1>3 DEF Mine
  <2>1. CASE t = <<"health", "consumer", "nats", "db">>
    <3>1. /\ Elems(t) = {"health", "consumer", "nats", "db"}
          /\ Head(t) = "health"
          /\ Tail(t) = <<"consumer", "nats", "db">>
          /\ Elems(Tail(t)) = {"consumer", "nats", "db"}
      BY <2>1 DEF Elems
    <3>2. Tail(t) \in Stops[s]
      BY <1>3, <3>1 DEF Stops
    <3>. QED
      BY <2>0, <2>1, <3>1, <3>2 DEF StopFacts, Resources
  <2>2. CASE t = <<"consumer", "nats", "db">>
    <3>1. /\ Elems(t) = {"consumer", "nats", "db"} /\ Head(t) = "consumer"
          /\ Tail(t) = <<"nats", "db">> /\ Elems(Tail(t)) = {"nats", "db"}
      BY <2>2 DEF Elems
    <3>2. Tail(t) \in Stops[s]
      BY <1>3, <3>1 DEF Stops
    <3>. QED
      BY <2>0, <2>2, <3>1, <3>2 DEF StopFacts, Resources
  <2>3. CASE t = <<"nats", "db">>
    <3>1. /\ Elems(t) = {"nats", "db"} /\ Head(t) = "nats"
          /\ Tail(t) = <<"db">> /\ Elems(Tail(t)) = {"db"}
      BY <2>3 DEF Elems
    <3>2. Tail(t) \in Stops[s]
      BY <1>3, <3>1 DEF Stops
    <3>. QED
      BY <2>0, <2>3, <3>1, <3>2 DEF StopFacts, Resources
  <2>4. CASE t = <<"db">>
    <3>1. /\ Elems(t) = {"db"} /\ Head(t) = "db"
          /\ Tail(t) = <<>> /\ Elems(Tail(t)) = {}
      BY <2>4 DEF Elems
    <3>2. Tail(t) \in Stops[s]
      BY <1>3, <3>1 DEF Stops
    <3>. QED
      BY <2>0, <2>4, <3>1, <3>2 DEF StopFacts, Resources
  <2>5. CASE t = <<>>
    <3>1. Elems(t) = {}
      BY <2>5 DEF Elems
    <3>. QED
      BY <2>0, <2>5, <3>1 DEF StopFacts, Resources
  <2>. QED
    BY <1>3, <2>1, <2>2, <2>3, <2>4, <2>5 DEF Stops
<1>. QED
  BY <1>1, <1>2, <1>3 DEF Names

(***************************************************************************)
(* The inductive invariant                                                 *)
(***************************************************************************)

\* How far the service is.
StageInv ==
    /\ life = "starting" => todo \in Starts[service]
    /\ life = "closing" => todo \in Stops[service]
    /\ life \notin {"starting", "closing"} => todo = <<>>
    /\ life \notin {"closing", "aborting"} => pending = {}
    /\ life = "closing" /\ pending # {} => todo # <<>> /\ pending = {Head(todo)}

\* What is open then: nothing that is still to be opened and, unless a step
\* threw, nothing that is not still to be closed.
OpenInv ==
    /\ open \subseteq Mine[service]
    /\ life = "starting" => open \cap Elems(todo) = {}
    /\ life \in {"closing", "stopped"} /\ ~threw => open \subseteq Elems(todo)
    /\ life \in {"aborting", "failed"} =>
         faults # 0 /\ (faults = 1 => open \ {"subs"} \subseteq pending)

\* Until a fault, exactly what is to be open is open.
QuietInv ==
    faults = 0 =>
        /\ ~threw
        /\ life = "starting" => open = Mine[service] \ Elems(todo)
        /\ life = "ready" => open = Mine[service]
        /\ life \in {"closing", "stopped"} => open = Elems(todo)

\* Whatever is waited for keeps open what it came in through.
WorkInv ==
    /\ (\E l \in Loops : loop[l] # "ended") => "relay" \in open
    /\ service = "gateway" /\ (\E j \in Jobs : job[j] = "running")
         => "http" \in open
    /\ probe = "checking" => "health" \in open

LifeInv == /\ TypeOK /\ left \in [Loops -> Nat]
           /\ StageInv /\ OpenInv /\ QuietInv /\ WorkInv

\* The shape of the variables, apart from left.
Shapes ==
    /\ service \in Services
    /\ life \in {"starting", "ready", "closing", "stopped", "aborting", "failed"}
    /\ todo \in Seq(Resources)
    /\ pending \subseteq Resources /\ open \subseteq Resources
    /\ threw \in BOOLEAN /\ aborted \in BOOLEAN
    /\ loop \in [Loops -> {"waiting", "working", "ended"}]
    /\ consuming \in BOOLEAN
    /\ job \in [Jobs -> {"none", "running", "lost"}]
    /\ probe \in {"none", "checking"}
    /\ faults \in 0..MaxFaults

LeftInv == /\ left \in [Loops -> Nat]
           /\ \A l \in Loops : left[l] \in 0..Steps[l]
           /\ \A l \in Loops : loop[l] = "working" <=> left[l] > 0

NatsInv == {"subs", "consumer"} \cap open # {} => "nats" \in open

ResourceInv == StageInv /\ OpenInv /\ QuietInv /\ NatsInv

LEMMA LifeParts ==
    LifeInv <=> Shapes /\ LeftInv /\ ResourceInv /\ WorkInv
<1>1. LifeInv => Shapes /\ LeftInv /\ ResourceInv /\ WorkInv
  BY DEF LifeInv, TypeOK, Shapes, LeftInv, ResourceInv, NatsInv
<1>2. Shapes /\ LeftInv /\ ResourceInv /\ WorkInv => LifeInv
  BY DEF LifeInv, TypeOK, Shapes, LeftInv, ResourceInv, NatsInv, StageInv
<1>. QED
  BY <1>1, <1>2

\* Where the service is, in terms of what it still has to do.
LEMMA StageOf ==
    ASSUME Shapes, StageInv
    PROVE  /\ service \in Names /\ faults \in Nat
           /\ life = "starting" => StartFacts(service, todo)
           /\ life = "closing" => StopFacts(service, todo)
           /\ Elems(<<>>) = {} /\ <<>> \in Seq(Resources)
           /\ <<>> \in Stops[service] /\ Finally[service] \in Stops[service]
           /\ Mine[service] \subseteq Resources
<1>1. service \in Names
  BY ServicesAssumption DEF Shapes, Names
<1>2. Elems(<<>>) = {} /\ <<>> \in Seq(Resources)
  BY DEF Elems
<1>3. <<>> \in Stops[service] /\ Finally[service] \in Stops[service]
  BY <1>1 DEF Names, Stops, Finally
<1>4. Mine[service] \subseteq Resources
  BY <1>1 DEF Names, Mine, Resources
<1>. QED
  BY <1>1, <1>2, <1>3, <1>4, StartStages, StopStages, SizesAssumption
     DEF StageInv, Shapes

(***************************************************************************)
(* Starting                                                                *)
(***************************************************************************)

LEMMA OpenStep ==
    ASSUME Shapes, ResourceInv, WorkInv, NEW r \in Resources, Open(r)
    PROVE  Shapes' /\ ResourceInv' /\ WorkInv'
<1>0. /\ service \in Names /\ StartFacts(service, todo) /\ Elems(<<>>) = {}
      /\ pending = {}
  BY StageOf DEF Open, ResourceInv, StageInv
<1>1. /\ life = "starting" /\ Head(todo) = r /\ open' = open \cup {r}
      /\ todo' = Tail(todo) /\ ~Refused(r)
      /\ life' = IF Tail(todo) = <<>> THEN "ready" ELSE "starting"
      /\ loop' = IF r = "relay" THEN [l \in Loops |-> "waiting"] ELSE loop
      /\ UNCHANGED <<service, pending, threw, aborted, left, job, probe, faults>>
      /\ consuming' \in BOOLEAN
  BY DEF Open, Shapes
<1>2. Shapes'
  <2>1. Tail(todo) \in Seq(Resources)
    BY <1>0 DEF StartFacts
  <2>. QED
    BY <1>1, <2>1 DEF Shapes
<1>3. StageInv'
  BY <1>0, <1>1 DEF StageInv, StartFacts
<1>4. OpenInv'
  BY <1>0, <1>1 DEF ResourceInv, OpenInv, StartFacts
<1>5. QuietInv'
  BY <1>0, <1>1 DEF ResourceInv, QuietInv, StartFacts
<1>6. NatsInv'
  BY <1>1 DEF ResourceInv, NatsInv, Refused
<1>7. WorkInv'
  BY <1>1 DEF WorkInv
<1>. QED
  BY <1>2, <1>3, <1>4, <1>5, <1>6, <1>7 DEF ResourceInv

LEMMA ListenFailsStep ==
    ASSUME Shapes, ResourceInv, WorkInv, ListenFails
    PROVE  Shapes' /\ ResourceInv' /\ WorkInv'
<1>0. /\ service \in Names /\ faults \in Nat /\ <<>> \in Seq(Resources)
      /\ pending = {}
  BY StageOf DEF ListenFails, ResourceInv, StageInv
<1>1. faults' = faults + 1 /\ faults' \in 0..MaxFaults
  BY <1>0, SizesAssumption DEF ListenFails, Fault, Shapes
<1>. QED
  BY <1>0, <1>1
     DEF ListenFails, Shapes, ResourceInv, StageInv, OpenInv, QuietInv,
         NatsInv, WorkInv, relay, work

LEMMA OpenFailsStep ==
    ASSUME Shapes, ResourceInv, WorkInv, OpenFails
    PROVE  Shapes' /\ ResourceInv' /\ WorkInv'
<1>0. /\ service \in Names /\ StartFacts(service, todo) /\ faults \in Nat
      /\ <<>> \in Seq(Resources) /\ pending = {}
      /\ Mine[service] \subseteq Resources
  BY StageOf DEF OpenFails, ResourceInv, StageInv
<1>1. /\ life = "starting" /\ todo # <<"http">> /\ todo' = <<>> /\ threw' = TRUE
      /\ pending' = Caught[service] \cap open /\ life' = "aborting"
      /\ aborted' \in BOOLEAN
      /\ UNCHANGED <<service, open, loop, left, consuming, job, probe>>
  BY DEF OpenFails, work, Shapes
<1>2. faults' # 0 /\ faults' \in 0..MaxFaults
  <2>1. CASE Fault
    BY <1>0, <2>1, SizesAssumption DEF Fault, Shapes
  <2>2. CASE Refused(Head(todo)) /\ UNCHANGED faults
    <3>1. faults # 0
      BY <1>0, <1>1, <2>2 DEF ResourceInv, QuietInv, Refused, StartFacts
    <3>. QED
      BY <2>2, <3>1 DEF Shapes
  <2>. QED
    BY <2>1, <2>2 DEF OpenFails
<1>3. open \ {"subs"} \subseteq pending'
  BY <1>0, <1>1 DEF ResourceInv, OpenInv, StartFacts
<1>4. Shapes'
  BY <1>0, <1>1, <1>2 DEF Shapes
<1>5. ResourceInv'
  BY <1>0, <1>1, <1>2, <1>3
     DEF ResourceInv, StageInv, OpenInv, QuietInv, NatsInv
<1>. QED
  BY <1>1, <1>4, <1>5 DEF WorkInv

LEMMA StartThrowsStep ==
    ASSUME Shapes, ResourceInv, WorkInv, StartThrows
    PROVE  Shapes' /\ ResourceInv' /\ WorkInv'
BY DEF StartThrows, resources, relay, work, Shapes, ResourceInv, StageInv,
       OpenInv, QuietInv, NatsInv, WorkInv

(***************************************************************************)
(* Stopping                                                                *)
(***************************************************************************)

LEMMA TwoAndTwo ==
    ASSUME NEW a, NEW b, NEW c, NEW d
    PROVE  <<a, b>> \o <<c, d>> = <<a, b, c, d>>
<1>. DEFINE S == {a, b, c, d}
            ab == <<a, b>>
            cd == <<c, d>>
            all == <<a, b, c, d>>
<1>1. /\ ab \in Seq(S) /\ Len(ab) = 2 /\ ab[1] = a /\ ab[2] = b
      /\ cd \in Seq(S) /\ Len(cd) = 2 /\ cd[1] = c /\ cd[2] = d
  OBVIOUS
<1>2. /\ all \in Seq(S) /\ Len(all) = 4
      /\ all[1] = a /\ all[2] = b /\ all[3] = c /\ all[4] = d
  OBVIOUS
<1>. HIDE DEF S, ab, cd, all
<1>3. /\ ab \o cd \in Seq(S) /\ Len(ab \o cd) = Len(ab) + Len(cd)
      /\ \A i \in 1..(Len(ab) + Len(cd)) :
           (ab \o cd)[i] = IF i <= Len(ab) THEN ab[i] ELSE cd[i - Len(ab)]
  <2>1. ab \in Seq(S) /\ cd \in Seq(S)
    BY <1>1
  <2>. QED
    BY <2>1, ConcatProperties
<1>4. \A i \in 1..4 : (ab \o cd)[i] = all[i]
  BY <1>1, <1>2, <1>3
<1>5. ab \o cd = all
  <2>1. Len(ab \o cd) = 4 /\ Len(all) = 4
    BY <1>1, <1>2, <1>3
  <2>2. \A i \in 1..Len(ab \o cd) : (ab \o cd)[i] = all[i]
    BY <1>4, <2>1
  <2>3. ab \o cd \in Seq(S) /\ all \in Seq(S) /\ Len(ab \o cd) = Len(all)
    BY <1>2, <1>3, <2>1
  <2>. QED
    BY <2>2, <2>3, SeqEqual
<1>. QED
  BY <1>5 DEF ab, cd, all

\* What a shutdown has before it at first is all that a start has opened.
LEMMA ShutdownOrder ==
    ASSUME NEW s \in Names
    PROVE  /\ Tried[s] \o Finally[s] \in Stops[s]
           /\ Elems(Tried[s] \o Finally[s]) = Mine[s]
<1>1. CASE s = "gateway"
  <2>1. Tried[s] \o Finally[s] = <<"http", "nats">>
    BY <1>1 DEF Tried, Finally
  <2>. QED
    BY <1>1, <2>1 DEF Stops, Mine, Elems
<1>2. CASE s = "user"
  <2>1. Tried[s] \o Finally[s] = <<"subs", "relay", "nats", "db">>
    <3>1. Tried[s] = <<"subs", "relay">> /\ Finally[s] = <<"nats", "db">>
      BY <1>2 DEF Tried, Finally
    <3>. QED
      BY <3>1, TwoAndTwo
  <2>. QED
    BY <1>2, <2>1 DEF Stops, Mine, Elems
<1>3. CASE s = "notification"
  <2>1. Tried[s] \o Finally[s] = <<"health", "consumer", "nats", "db">>
    <3>1. Tried[s] = <<"health", "consumer">> /\ Finally[s] = <<"nats", "db">>
      BY <1>3 DEF Tried, Finally
    <3>. QED
      BY <3>1, TwoAndTwo
  <2>. QED
    BY <1>3, <2>1 DEF Stops, Mine, Elems
<1>. QED
  BY <1>1, <1>2, <1>3 DEF Names

LEMMA SignalStep ==
    ASSUME Shapes, ResourceInv, WorkInv, Signal
    PROVE  Shapes' /\ ResourceInv' /\ WorkInv'
<1>0. /\ service \in Names /\ pending = {}
      /\ todo' \in Stops[service] /\ Elems(todo') = Mine[service]
  BY StageOf, ShutdownOrder DEF Signal, ResourceInv, StageInv
<1>1. todo' \in Seq(Resources)
  BY <1>0, StopStages DEF StopFacts
<1>2. Elems(todo)' = Mine[service]
  BY <1>0 DEF Elems
<1>. QED
  BY <1>0, <1>1, <1>2
     DEF Signal, relay, work, Shapes, ResourceInv, StageInv, OpenInv, QuietInv,
         NatsInv, WorkInv

LEMMA SettlesStep ==
    ASSUME Shapes, ResourceInv, WorkInv, ShutdownSettles
    PROVE  Shapes' /\ ResourceInv' /\ WorkInv'
BY DEF ShutdownSettles, resources, relay, work, Shapes, ResourceInv, StageInv,
       OpenInv, QuietInv, NatsInv, WorkInv

\* After an error the shutdown goes on somewhere in its order.
LEMMA ErrorSkips ==
    ASSUME Shapes, StageInv, life = "closing", todo # <<>>
    PROVE  AfterError \in Stops[service] /\ AfterError \in Seq(Resources)
<1>1. AfterError \in Stops[service]
  BY StageOf DEF AfterError, StopFacts
<1>. QED
  BY <1>1, StageOf, StopStages DEF StopFacts

LEMMA BeginCloseStep ==
    ASSUME Shapes, ResourceInv, WorkInv, BeginClose
    PROVE  Shapes' /\ ResourceInv' /\ WorkInv'
<1>0. /\ service \in Names /\ StopFacts(service, todo)
      /\ Mine[service] \subseteq Resources
      /\ life = "closing" /\ pending = {} /\ todo # <<>>
      /\ UNCHANGED <<service, life, open, loop, left, consuming, job, probe, faults>>
  BY StageOf DEF BeginClose, ResourceInv, work
<1>1. WorkInv'
  BY <1>0 DEF WorkInv
<1>2. CASE /\ Unclosable(Head(todo)) /\ todo' = AfterError /\ threw' = TRUE
           /\ UNCHANGED <<pending, aborted>>
  <2>1. todo' \in Stops[service] /\ todo' \in Seq(Resources)
    BY <1>0, <1>2, ErrorSkips DEF ResourceInv
  <2>2. faults # 0
    BY <1>0, <1>2 DEF Unclosable, Refused, ResourceInv, QuietInv, StopFacts
  <2>3. Shapes'
    BY <1>0, <1>2, <2>1 DEF Shapes
  <2>4. ResourceInv'
    BY <1>0, <1>2, <2>1, <2>2
       DEF ResourceInv, StageInv, OpenInv, QuietInv, NatsInv
  <2>. QED
    BY <1>1, <2>3, <2>4
<1>3. CASE /\ pending' = {Head(todo)} /\ aborted' = (aborted \/ Head(todo) = "relay")
           /\ UNCHANGED <<todo, threw>>
  <2>1. Shapes'
    BY <1>0, <1>3 DEF Shapes, StopFacts
  <2>2. ResourceInv'
    BY <1>0, <1>3 DEF ResourceInv, StageInv, OpenInv, QuietInv, NatsInv, Elems
  <2>. QED
    BY <1>1, <2>1, <2>2
<1>. QED
  BY <1>2, <1>3 DEF BeginClose

LEMMA ClosedStep ==
    ASSUME Shapes, ResourceInv, WorkInv, NEW r \in Resources, Closed(r)
    PROVE  Shapes' /\ ResourceInv' /\ WorkInv'
<1>0. /\ service \in Names /\ Mine[service] \subseteq Resources
      /\ faults \in Nat
      /\ life = "closing" =>
           StopFacts(service, todo) /\ todo # <<>> /\ r = Head(todo)
      /\ r \in pending /\ life \in {"closing", "aborting"}
      /\ pending' = pending \ {r} /\ open' = Without(r) /\ todo' = Advance
      /\ UNCHANGED <<service, life, threw, aborted, loop, left, consuming, job,
                     probe, faults>>
  BY StageOf DEF Closed, ResourceInv, StageInv, relay, work
<1>1. open' \subseteq open \ {r} /\ (open \ open' \subseteq {r} \/ r = "nats")
  BY <1>0 DEF Without
<1>2. NatsInv'
  BY <1>0, <1>1 DEF Without, ResourceInv, NatsInv
<1>3. WorkInv'
  <2>1. "relay" \in open \ open' => \A l \in Loops : loop[l] = "ended"
    BY <1>0 DEF Without, Closed, MayClose
  <2>2. "http" \in open \ open' => \A j \in Jobs : job[j] # "running"
    BY <1>0 DEF Without, Closed, MayClose
  <2>3. "health" \in open \ open' => probe = "none"
    BY <1>0 DEF Without, Closed, MayClose
  <2>. QED
    BY <1>0, <2>1, <2>2, <2>3 DEF WorkInv
<1>4. CASE life = "closing"
  <2>1. /\ todo' = Tail(todo) /\ todo' \in Seq(Resources)
        /\ todo' \in Stops[service]
        /\ Elems(todo)' = Elems(todo) \ {r} /\ pending' = {}
    <3>1. /\ todo' = Tail(todo) /\ todo' \in Stops[service] /\ pending' = {}
          /\ Elems(Tail(todo)) = Elems(todo) \ {r}
      BY <1>0, <1>4 DEF Advance, StopFacts, ResourceInv, StageInv
    <3>2. todo' \in Seq(Resources)
      BY <1>0, <3>1, StopStages DEF StopFacts
    <3>3. Elems(todo)' = Elems(Tail(todo))
      BY <3>1 DEF Elems
    <3>. QED
      BY <3>1, <3>2, <3>3
  <2>2. Shapes'
    BY <1>0, <1>1, <2>1 DEF Shapes
  <2>3. StageInv'
    BY <1>0, <1>4, <2>1 DEF StageInv
  <2>4. OpenInv'
    BY <1>0, <1>1, <1>4, <2>1 DEF ResourceInv, OpenInv
  <2>5. QuietInv'
    <3>1. faults = 0 => open' = open \ {r}
      BY <1>0, <1>4 DEF Without, ResourceInv, QuietInv, StopFacts
    <3>. QED
      BY <1>0, <1>4, <2>1, <3>1 DEF ResourceInv, QuietInv
  <2>. QED
    BY <1>3, <1>2, <2>2, <2>3, <2>4, <2>5 DEF ResourceInv
<1>5. CASE life = "aborting"
  <2>1. todo' = todo /\ faults # 0
    BY <1>0, <1>5 DEF Advance, ResourceInv, OpenInv
  <2>2. Shapes'
    BY <1>0, <1>1, <2>1 DEF Shapes
  <2>3. StageInv' /\ OpenInv' /\ QuietInv'
    BY <1>0, <1>1, <1>5, <2>1 DEF ResourceInv, StageInv, OpenInv, QuietInv
  <2>. QED
    BY <1>3, <1>2, <2>2, <2>3 DEF ResourceInv
<1>. QED
  BY <1>0, <1>4, <1>5

LEMMA CloseFailsStep ==
    ASSUME Shapes, ResourceInv, WorkInv, NEW r \in Resources, CloseFails(r)
    PROVE  Shapes' /\ ResourceInv' /\ WorkInv'
<1>0. /\ service \in Names /\ faults \in Nat /\ faults' = faults + 1
      /\ faults' \in 0..MaxFaults
      /\ r \in pending /\ pending' = pending \ {r} /\ threw' = TRUE
      /\ todo' = IF life = "closing" THEN AfterError ELSE todo
      /\ life \in {"closing", "aborting"}
      /\ life = "closing" => todo # <<>> /\ pending' = {}
      /\ UNCHANGED <<service, life, open, aborted, loop, left, consuming, job,
                     probe>>
  BY StageOf, SizesAssumption
     DEF CloseFails, Fault, ResourceInv, StageInv, Shapes, relay, work
<1>1. todo' \in Seq(Resources) /\ (life = "closing" => todo' \in Stops[service])
  BY <1>0, ErrorSkips DEF Shapes, ResourceInv
<1>2. Shapes'
  BY <1>0, <1>1 DEF Shapes
<1>3. ResourceInv'
  BY <1>0, <1>1 DEF ResourceInv, StageInv, OpenInv, QuietInv, NatsInv
<1>. QED
  BY <1>0, <1>2, <1>3 DEF WorkInv

(***************************************************************************)
(* Work and faults                                                         *)
(***************************************************************************)

\* The relay's loops, requests, messages and probes.
Elsewhere ==
    \/ \E l \in Loops : Looping(l)
    \/ \E j \in Jobs : Arrive(j) \/ Finish(j)
    \/ ConsumerEnds \/ Probe \/ ProbeAnswered \/ ConsumerFails

LEMMA ElsewhereStep ==
    ASSUME Shapes, ResourceInv, WorkInv, Elsewhere
    PROVE  Shapes' /\ ResourceInv' /\ WorkInv'
<1>0. service \in Names /\ faults \in Nat
  BY StageOf DEF ResourceInv
<1>1. UNCHANGED <<service, life, todo, open, pending, threw, aborted>>
  BY DEF Elsewhere, Looping, BeginIteration, Iterate, EndLoop, Arrive, Finish,
         ConsumerEnds, Probe, ProbeAnswered, ConsumerFails, resources, relay
<1>2. faults' \in {faults, faults + 1} /\ faults' \in 0..MaxFaults
  BY <1>0, SizesAssumption
     DEF Elsewhere, Looping, BeginIteration, Iterate, EndLoop, Arrive, Finish,
         ConsumerEnds, Probe, ProbeAnswered, ConsumerFails, Fault, Shapes
<1>3. ResourceInv'
  BY <1>0, <1>1, <1>2
     DEF ResourceInv, StageInv, OpenInv, QuietInv, NatsInv, Elems
<1>4. Shapes' /\ WorkInv'
  <2>1. CASE \E l \in Loops : Looping(l)
    <3>1. /\ UNCHANGED <<consuming, job, probe>>
          /\ \E l \in Loops :
               /\ loop[l] # "ended"
               /\ \/ UNCHANGED loop
                  \/ \E place \in {"waiting", "working", "ended"} :
                        loop' = [loop EXCEPT ![l] = place]
      BY <2>1 DEF Looping, BeginIteration, Iterate, EndLoop, work
    <3>2. Shapes'
      BY <1>1, <1>2, <3>1 DEF Shapes
    <3>. QED
      BY <1>1, <3>1, <3>2 DEF WorkInv, Shapes
  <2>2. CASE \E j \in Jobs : Arrive(j) \/ Finish(j)
    <3>1. PICK j \in Jobs : Arrive(j) \/ Finish(j)
      BY <2>2
    <3>2. /\ UNCHANGED <<loop, consuming, probe>>
          /\ \E place \in {"none", "running", "lost"} :
               job' = [job EXCEPT ![j] = place]
      BY <3>1 DEF Arrive, Finish, relay
    <3>3. Shapes'
      BY <1>1, <1>2, <3>2 DEF Shapes
    <3>4. ASSUME service = "gateway", NEW k \in Jobs, job'[k] = "running"
          PROVE  "http" \in open
      <4>1. CASE Arrive(j)
        BY <3>4, <4>1 DEF Arrive, Accepting, Kept
      <4>2. CASE Finish(j)
        BY <3>4, <4>2 DEF Finish, Shapes, WorkInv
      <4>. QED
        BY <3>1, <4>1, <4>2
    <3>. QED
      BY <1>1, <3>2, <3>3, <3>4 DEF WorkInv
  <2>3. CASE ConsumerEnds \/ Probe \/ ProbeAnswered \/ ConsumerFails
    <3>1. /\ UNCHANGED <<loop, job>> /\ consuming' \in BOOLEAN
          /\ probe' \in {"none", "checking"}
          /\ probe' = "checking" => probe = "checking" \/ "health" \in open
      BY <2>3 DEF ConsumerEnds, Probe, ProbeAnswered, ConsumerFails, Kept,
                  relay, Shapes
    <3>2. Shapes'
      BY <1>1, <1>2, <3>1 DEF Shapes
    <3>. QED
      BY <1>1, <3>1, <3>2 DEF WorkInv
  <2>. QED
    BY <2>1, <2>2, <2>3 DEF Elsewhere
<1>. QED
  BY <1>3, <1>4

LEMMA NatsClosesStep ==
    ASSUME Shapes, ResourceInv, WorkInv, NatsCloses
    PROVE  Shapes' /\ ResourceInv' /\ WorkInv'
<1>0. /\ service \in Names /\ faults \in Nat /\ faults' = faults + 1
      /\ faults' \in 0..MaxFaults
      /\ open' = open \ {"nats", "subs", "consumer"}
      /\ UNCHANGED <<service, life, todo, pending, threw, aborted, loop, left,
                     consuming, job, probe>>
  BY StageOf, SizesAssumption
     DEF NatsCloses, Fault, Without, Shapes, ResourceInv, relay, work
<1>1. Shapes'
  BY <1>0 DEF Shapes
<1>2. ResourceInv'
  BY <1>0 DEF ResourceInv, StageInv, OpenInv, QuietInv, NatsInv, Elems
<1>. QED
  BY <1>0, <1>1, <1>2 DEF WorkInv

\* No iteration of a loop is longer than its limit.
LEMMA LeftStep ==
    ASSUME Shapes, LeftInv, WorkInv, StageInv, OpenInv, [Next]_vars
    PROVE  LeftInv'
<1>0. \A l \in Loops : Steps[l] \in Nat \ {0}
  BY SizesAssumption DEF Loops, Steps
<1>1. CASE \E l \in Loops : Looping(l)
  <2>1. PICK l \in Loops : Looping(l)
    BY <1>1
  <2>2. CASE BeginIteration(l)
    BY <1>0, <2>2 DEF BeginIteration, LeftInv, Shapes
  <2>3. CASE Iterate(l)
    <3>1. left[l] \in 0..Steps[l] /\ Steps[l] \in Nat
      BY <1>0 DEF LeftInv
    <3>2. CASE left[l] > 1 /\ left' = [left EXCEPT ![l] = @ - 1] /\ UNCHANGED loop
      BY <2>3, <3>1, <3>2 DEF Iterate, LeftInv
    <3>3. CASE /\ left' = [left EXCEPT ![l] = 0]
               /\ loop' = [loop EXCEPT ![l] = "waiting"]
      BY <3>1, <3>3 DEF LeftInv, Shapes
    <3>. QED
      BY <2>3, <3>2, <3>3 DEF Iterate
  <2>4. CASE EndLoop(l)
    BY <1>0, <2>4 DEF EndLoop, LeftInv, Shapes
  <2>. QED
    BY <2>1, <2>2, <2>3, <2>4 DEF Looping
<1>2. CASE \E r \in Resources : Open(r)
  <2>1. PICK r \in Resources : Open(r)
    BY <1>2
  <2>2. left' = left /\ (loop' = loop \/ (loop' = [l \in Loops |-> "waiting"]
                                         /\ r = "relay"))
    BY <2>1 DEF Open
  <2>3. r = "relay" => \A l \in Loops : loop[l] = "ended"
    BY <2>1, StageOf DEF Open, StartFacts, OpenInv, WorkInv, Shapes
  <2>. QED
    BY <2>2, <2>3 DEF LeftInv
<1>3. CASE UNCHANGED <<loop, left>>
  BY <1>3 DEF LeftInv
<1>. QED
  BY <1>1, <1>2, <1>3
     DEF Next, Startup, Shutdown, ListenFails, OpenFails, StartThrows, Signal,
         BeginClose, Closed, ShutdownSettles, CloseFails, Arrive, Finish,
         ConsumerEnds, Probe, ProbeAnswered, NatsCloses, ConsumerFails, relay,
         vars

LEMMA LifeStep == LifeInv /\ [Next]_vars => LifeInv'
<1>. SUFFICES ASSUME Shapes, LeftInv, ResourceInv, WorkInv, [Next]_vars
              PROVE  LifeInv'
  BY LifeParts
<1>1. LeftInv'
  BY LeftStep DEF ResourceInv
<1>2. Shapes' /\ ResourceInv' /\ WorkInv'
  <2>1. CASE UNCHANGED vars
    BY <2>1 DEF vars, resources, relay, work, Shapes, ResourceInv, StageInv,
                OpenInv, QuietInv, NatsInv, WorkInv, Elems
  <2>2. CASE Next
    BY <2>2, OpenStep, ListenFailsStep, OpenFailsStep, StartThrowsStep,
       SignalStep, SettlesStep, BeginCloseStep, ClosedStep, CloseFailsStep,
       ElsewhereStep, NatsClosesStep
       DEF Next, Startup, Shutdown, Elsewhere
  <2>. QED
    BY <2>1, <2>2
<1>. QED
  BY <1>1, <1>2, LifeParts, PTL

LEMMA LifeInit == Init => LifeInv
<1>. SUFFICES ASSUME Init PROVE LifeInv
  OBVIOUS
<1>1. service \in Names /\ todo \in Starts[service]
  BY ServicesAssumption DEF Init, Names, Acquire, Starts
<1>2. Mine[service] = Elems(todo)
  BY <1>1 DEF Init, Names, Acquire, Mine, Elems
<1>3. Shapes /\ StageInv
  <2>1. todo \in Seq(Resources)
    BY <1>1, StartStages DEF StartFacts
  <2>2. faults \in 0..MaxFaults
    BY SizesAssumption DEF Init
  <2>3. Shapes
    BY <2>1, <2>2 DEF Init, Shapes
  <2>4. StageInv
    BY <1>1 DEF Init, StageInv
  <2>. QED
    BY <2>3, <2>4
<1>4. OpenInv /\ QuietInv /\ NatsInv /\ WorkInv
  BY <1>2 DEF Init, OpenInv, QuietInv, NatsInv, WorkInv
<1>5. LeftInv
  BY SizesAssumption DEF Init, LeftInv, Loops, Steps
<1>. QED
  BY <1>3, <1>4, <1>5, LifeParts DEF ResourceInv

(***************************************************************************)
(* Theorems                                                                *)
(***************************************************************************)

\* No step takes a process out of its order of starting and stopping: what is
\* open, awaited and left to do always fits together.
THEOREM TypeCorrect == Spec => []TypeOK
<1>1. LifeInv => TypeOK
  BY DEF LifeInv
<1>. QED
  BY <1>1, LifeInit, LifeStep, PTL DEF Spec

\* A shutdown that ends without an error has closed everything that the start
\* had opened and no loop of the relay goes on.
THEOREM StopsAreClean == Spec => []CleanStopIsClean
<1>1. LifeInv => CleanStopIsClean
  <2>. SUFFICES ASSUME LifeInv, life = "stopped", ~threw
                PROVE  open = {} /\ \A l \in Loops : loop[l] = "ended"
    BY DEF CleanStopIsClean
  <2>1. todo = <<>> /\ open \subseteq Elems(<<>>)
    BY DEF LifeInv, StageInv, OpenInv
  <2>2. Elems(<<>>) = {}
    BY DEF Elems
  <2>. QED
    BY <2>1, <2>2 DEF LifeInv, WorkInv
<1>. QED
  BY <1>1, LifeInit, LifeStep, PTL DEF Spec

\* Until a fault the order of closing protects the work: an iteration of the
\* relay has its database and its connection, a request of the gateway its
\* connection, and a readiness probe all that it asks about.
THEOREM WorkIsProtected == Spec => []WorkKeepsItsConnections
<1>1. LifeInv => WorkKeepsItsConnections
  <2>. SUFFICES ASSUME LifeInv, faults = 0 PROVE WorkKeepsItsConnections
    BY DEF WorkKeepsItsConnections
  <2>0. /\ Shapes /\ StageInv /\ QuietInv /\ OpenInv /\ WorkInv
    BY LifeParts DEF ResourceInv
  <2>1. service \in Names
    BY <2>0, StageOf
  <2>2. /\ "relay" \in open => {"db", "nats"} \subseteq open
        /\ "http" \in open => "nats" \in open
        /\ "health" \in open => {"db", "nats", "consumer"} \subseteq open
    <3>1. CASE life = "starting"
      <4>1. StartFacts(service, todo) /\ open = Mine[service] \ Elems(todo)
        BY <2>0, <3>1, StageOf DEF QuietInv
      <4>. QED
        BY <4>1 DEF StartFacts
    <3>2. CASE life = "ready"
      BY <2>0, <2>1, <3>2 DEF QuietInv, Mine, Names
    <3>3. CASE life \in {"closing", "stopped"}
      <4>1. StopFacts(service, todo) /\ open = Elems(todo)
        <5>1. todo \in Stops[service]
          BY <2>0, <3>3, StageOf DEF StageInv
        <5>. QED
          BY <2>0, <2>1, <3>3, <5>1, StopStages DEF QuietInv
      <4>. QED
        BY <4>1 DEF StopFacts
    <3>. QED
      BY <2>0, <3>1, <3>2, <3>3 DEF OpenInv, Shapes
  <2>. QED
    BY <2>0, <2>2 DEF WorkInv, WorkKeepsItsConnections
<1>. QED
  BY <1>1, LifeInit, LifeStep, PTL DEF Spec

\* A start that throws after one fault has given back what it had opened, the
\* subscriptions with their connection: the process can end.
THEOREM FailedStartsRelease == Spec => []FailedStartReleases
<1>1. LifeInv => FailedStartReleases
  BY SizesAssumption
     DEF LifeInv, TypeOK, StageInv, OpenInv, WorkInv, FailedStartReleases
<1>. QED
  BY <1>1, LifeInit, LifeStep, PTL DEF Spec
=============================================================================
