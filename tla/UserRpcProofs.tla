---------------------------- MODULE UserRpcProofs ----------------------------
(***************************************************************************)
(* Theorems about UserRpc for any number of overlapping requests, any      *)
(* accounts at the start, any mix of requests and any number of faults.    *)
(***************************************************************************)
EXTENDS UserRpc, TLAPS

(***************************************************************************)
(* Facts about requests and about the writes to the database               *)
(***************************************************************************)

\* Each kind of request names what its handler uses.
LEMMA RequestFields ==
    ASSUME NEW q \in Requests
    PROVE  /\ q.op \in {"signUp", "login", "getUser", "updateUser"}
           /\ q.op \in {"signUp", "login"} =>
                q.email \in Emails /\ q.password \in Passwords
           /\ q.op \in {"getUser", "updateUser"} => q.id \in Ids
           /\ q.op = "updateUser" =>
                q.email \in Emails \cup {NULL} /\ q.password \in Passwords \cup {NULL}
<1>1. q \in Request
  BY SetsAssumption
<1>2. CASE \E e \in Emails, p \in Passwords : q = SignUp(e, p) \/ q = Login(e, p)
  BY <1>2 DEF SignUp, Login
<1>3. CASE \E i \in Ids : q = GetUser(i)
  BY <1>3 DEF GetUser
<1>4. CASE \E i \in Ids, e \in Emails \cup {NULL}, p \in Passwords \cup {NULL} :
             q = UpdateUser(i, e, p)
  BY <1>4 DEF UpdateUser
<1>. QED
  BY <1>1, <1>2, <1>3, <1>4 DEF Request

\* What a call has written agrees with where it stands; what it has left
\* behind, with an answer that leaves its outcome open.
WorkOK(c) ==
    /\ svc[c] \in {"idle", "queued", "lookup", "insert", "verify", "read",
                   "update"} => written[c] = {}
    /\ svc[c] = "outbox" => written[c] = {"user"}
    /\ svc[c] = "commit" => written[c] = {"user", "event"}
    /\ written[c] # {} => found[c] = NULL /\ reply[c] \in {NULL, "INTERNAL_ERROR"}
    /\ "user" \in written[c] => req[c].op = "signUp"
    /\ "update" \in written[c] => req[c].op = "updateUser"

\* Where a call stands agrees with its request and with what it has found.
CallOK(c) ==
    /\ http[c] = "new" => svc[c] = "idle" /\ req[c] = NULL
    /\ http[c] = "waiting" => svc[c] # "idle"
    /\ svc[c] = "idle" => reply[c] = NULL /\ found[c] = NULL
    /\ svc[c] # "idle" => req[c] # NULL
    /\ svc[c] \in Statement \cup {"queued"} => reply[c] = NULL
    /\ svc[c] \in {"queued", "lookup", "insert", "outbox", "commit", "read",
                   "update"} => found[c] = NULL
    /\ svc[c] = "lookup" => req[c].op \in {"signUp", "login"}
    /\ svc[c] \in {"insert", "outbox", "commit"} => req[c].op = "signUp"
    /\ svc[c] = "verify" => req[c].op = "login"
    /\ svc[c] = "read" => req[c].op = "getUser"
    /\ svc[c] = "update" => req[c].op = "updateUser"
    /\ found[c] # NULL => req[c].op = "login"
    /\ reply[c] = "OK" /\ req[c].op = "login" =>
         found[c] # NULL /\ found[c].password = req[c].password
    /\ WorkOK(c)

ControlInv == \A c \in Calls : CallOK(c)

\* The last part of TypeOK is about the state of each call.
TablesOK ==
    /\ users \in [Ids -> User \cup {NULL}]
    /\ events \subseteq Ids /\ tokens \subseteq Ids
    /\ faults \in 0..MaxFaults

CallTypes(c) ==
    /\ req[c] \in Requests \cup {NULL}
    /\ http[c] \in {"new", "waiting", "400", "401", "403", "404", "409",
                    "200", "201", "502", "503", "504"}
    /\ svc[c] \in Statement \cup {"idle", "queued", "replied", "gone"}
    /\ written[c] \in Work
    /\ found[c] \in Credentials \cup {NULL}
    /\ reply[c] \in Code \cup {NULL}
    /\ svc[c] = "verify" => found[c] # NULL
    /\ svc[c] = "replied" => reply[c] # NULL

ArraysOK ==
    /\ req = [c \in Calls |-> req[c]]
    /\ http = [c \in Calls |-> http[c]]
    /\ svc = [c \in Calls |-> svc[c]]
    /\ written = [c \in Calls |-> written[c]]
    /\ found = [c \in Calls |-> found[c]]
    /\ reply = [c \in Calls |-> reply[c]]

CallsTyped == \A c \in Calls : CallTypes(c)

LEMMA TypeParts == TypeOK <=> TablesOK /\ ArraysOK /\ CallsTyped
<1>1. TypeOK => TablesOK /\ ArraysOK /\ CallsTyped
  BY DEF TypeOK, TablesOK, ArraysOK, CallsTyped, CallTypes
<1>2. TablesOK /\ ArraysOK /\ CallsTyped => TypeOK
  <2>. SUFFICES ASSUME TablesOK, ArraysOK, CallsTyped PROVE TypeOK
    OBVIOUS
  <2>. USE DEF CallsTyped, CallTypes, ArraysOK
  <2>1. req \in [Calls -> Requests \cup {NULL}]
    OBVIOUS
  <2>2. http \in [Calls -> {"new", "waiting", "400", "401", "403", "404", "409",
                           "200", "201", "502", "503", "504"}]
    OBVIOUS
  <2>3. svc \in [Calls -> Statement \cup {"idle", "queued", "replied", "gone"}]
    OBVIOUS
  <2>6. written \in [Calls -> Work]
    OBVIOUS
  <2>4. found \in [Calls -> Credentials \cup {NULL}]
    OBVIOUS
  <2>5. reply \in [Calls -> Code \cup {NULL}]
    OBVIOUS
  <2>. QED
    BY <2>1, <2>2, <2>3, <2>4, <2>5, <2>6 DEF TypeOK, TablesOK
<1>. QED
  BY <1>1, <1>2

(***************************************************************************)
(* Type correctness                                                        *)
(***************************************************************************)

\* A step of call c leaves the other calls alone and c where it may be.
Alone(d) == /\ req'[d] = req[d] /\ http'[d] = http[d] /\ svc'[d] = svc[d]
            /\ written'[d] = written[d]
            /\ found'[d] = found[d] /\ reply'[d] = reply[d]

Step(c) == Gateway(c) \/ Service(c) \/ Resolve(c)

Local(c) ==
    /\ ArraysOK'
    /\ \A d \in Calls \ {c} : Alone(d)
    /\ CallTypes(c)' /\ CallOK(c)'

\* Every answer leaves the call replied, with a code.
LEMMA RespondEffect ==
    ASSUME TypeOK, NEW c \in Calls, NEW code \in Code, Respond(c, code)
    PROVE  /\ reply' = [reply EXCEPT ![c] = code]
           /\ svc' = [svc EXCEPT ![c] = "replied"]
           /\ reply'[c] = code /\ reply'[c] # NULL /\ svc'[c] = "replied"
BY NullAssumption DEF TypeOK, Respond, Goto

LEMMA LocalStep ==
    ASSUME TypeOK, ControlInv, NEW c \in Calls, Step(c)
    PROVE  Local(c)
<1>0. /\ CallOK(c) /\ WorkOK(c) /\ ArraysOK /\ CallTypes(c)
      /\ req \in [Calls -> Requests \cup {NULL}]
      /\ req[c] # NULL => req[c] \in Requests
  BY TypeParts DEF ControlInv, TypeOK, CallsTyped, CallOK
<1>1. CASE Receive(c)
  <2>1. PICK q \in Requests, subject \in tokens \cup {NULL} :
          /\ req' = [req EXCEPT ![c] = q]
          /\ IF Rejection(q, subject) = "none"
             THEN Answer(c, "waiting") /\ Goto(c, "queued")
             ELSE Answer(c, Rejection(q, subject)) /\ UNCHANGED svc
    BY <1>1 DEF Receive
  <2>2. Rejection(q, subject) \in {"none", "401", "403"}
    BY DEF Rejection
  <2>3. q # NULL /\ NULL # "OK"
    BY NullAssumption DEF Code
  <2>4. /\ svc[c] = "idle" /\ reply[c] = NULL /\ found[c] = NULL
        /\ written[c] = {} /\ written' = written
    BY <1>0, <1>1 DEF Receive, CallOK, WorkOK, database
  <2>5. CASE Answer(c, "waiting") /\ Goto(c, "queued")
    <3>1. /\ req' = [req EXCEPT ![c] = q]
          /\ http' = [http EXCEPT ![c] = "waiting"]
          /\ svc' = [svc EXCEPT ![c] = "queued"]
          /\ UNCHANGED <<found, reply>>
      BY <1>1, <2>1, <2>5 DEF Receive, Answer, Goto
    <3>2. ArraysOK' /\ \A d \in Calls \ {c} : Alone(d)
      BY <1>0, <2>4, <3>1 DEF ArraysOK, Alone
    <3>3. /\ req'[c] = q /\ http'[c] = "waiting" /\ svc'[c] = "queued"
          /\ found'[c] = NULL /\ reply'[c] = NULL /\ written'[c] = {}
      BY <1>0, <2>4, <3>1 DEF ArraysOK
    <3>4. CallTypes(c)'
      BY <3>3 DEF CallTypes, Work
    <3>5. CallOK(c)'
      BY <2>3, <3>3 DEF CallOK, WorkOK, Statement
    <3>. QED
      BY <3>2, <3>4, <3>5 DEF Local
  <2>6. CASE UNCHANGED svc /\ \E status \in {"401", "403"} : Answer(c, status)
    <3>1. PICK status \in {"401", "403"} : Answer(c, status)
      BY <2>6
    <3>2. /\ req' = [req EXCEPT ![c] = q] /\ http' = [http EXCEPT ![c] = status]
          /\ UNCHANGED <<svc, found, reply>>
      BY <1>1, <2>1, <2>6, <3>1 DEF Receive, Answer
    <3>3. ArraysOK' /\ \A d \in Calls \ {c} : Alone(d)
      BY <1>0, <2>4, <3>2 DEF ArraysOK, Alone
    <3>4. /\ req'[c] = q /\ http'[c] = status /\ svc'[c] = "idle"
          /\ found'[c] = NULL /\ reply'[c] = NULL /\ written'[c] = {}
      BY <1>0, <2>4, <3>2 DEF ArraysOK
    <3>5. CallTypes(c)'
      BY <3>4 DEF CallTypes, Work
    <3>6. CallOK(c)'
      BY <2>3, <3>4 DEF CallOK, WorkOK, Statement
    <3>. QED
      BY <3>3, <3>5, <3>6 DEF Local
  <2>. QED
    BY <2>1, <2>2, <2>5, <2>6
<1>2. CASE \/ Invalid(c) \/ NoResponders(c) \/ Timeout(c) \/ TransportError(c)
           \/ InvalidResponse(c)
  <2>1. /\ written' = written /\ req' = req /\ found' = found /\ reply' = reply
        /\ \E status \in {"400", "502", "503", "504"} :
              http' = [http EXCEPT ![c] = status]
        /\ \/ svc' = svc
           \/ svc[c] = "queued" /\ svc' = [svc EXCEPT ![c] = "gone"]
    BY <1>2 DEF Invalid, NoResponders, Timeout, TransportError, InvalidResponse,
                Answer, Goto, database
  <2>2. ArraysOK' /\ \A d \in Calls \ {c} : Alone(d)
    BY <1>0, <2>1 DEF ArraysOK, Alone
  <2>3. CallTypes(c)'
    BY <1>0, <2>1 DEF ArraysOK, CallTypes
  <2>4. WorkOK(c)'
    BY <1>0, <2>1 DEF ArraysOK, WorkOK
  <2>5. CallOK(c)'
    BY <1>0, <2>1, <2>4 DEF ArraysOK, CallOK, Statement
  <2>. QED
    BY <2>2, <2>3, <2>5 DEF Local
<1>3. CASE ReplyArrives(c)
  <2>1. reply[c] \in Code
    BY <1>0, <1>3 DEF ReplyArrives, CallTypes
  <2>. DEFINE status == StatusOf(c)
  <2>2. status \in {"200", "201", "400", "401", "404", "409", "502"}
    BY <2>1 DEF StatusOf, Code
  <2>3. /\ http' = [http EXCEPT ![c] = status] /\ svc[c] = "replied"
        /\ UNCHANGED <<req, svc, written, found, reply>>
    BY <1>3 DEF ReplyArrives, Answer, database
  <2>. HIDE DEF status
  <2>. QED
    BY <1>0, <2>2, <2>3
       DEF Local, Alone, ArraysOK, CallTypes, CallOK, WorkOK, Statement
<1>4. CASE Handle(c)
  <2>1. req[c] \in Requests
    BY <1>0, <1>4 DEF Handle, CallOK
  <2>2. LET label == FirstStatement(req[c].op)
        IN  \/ label = "lookup" /\ req[c].op \in {"signUp", "login"}
            \/ label = "read" /\ req[c].op = "getUser"
            \/ label = "update" /\ req[c].op = "updateUser"
    BY <2>1, RequestFields DEF FirstStatement
  <2>. QED
    BY <1>0, <1>4, <2>2
       DEF Handle, Goto, Local, Alone, ArraysOK, CallTypes, CallOK, WorkOK,
           Statement, gateway, database
<1>5. ASSUME NEW code \in Code, Respond(c, code), UNCHANGED <<gateway, found>>,
             svc[c] \in {"queued", "lookup", "insert", "commit", "read", "update"},
             written' = [written EXCEPT ![c] = {}],
             code = "OK" => req[c].op # "login"
      PROVE  Local(c)
  <2>1. /\ reply' = [reply EXCEPT ![c] = code] /\ svc' = [svc EXCEPT ![c] = "replied"]
        /\ reply'[c] = code /\ reply'[c] # NULL /\ svc'[c] = "replied"
        /\ http' = http /\ req' = req /\ found' = found
    BY <1>5, RespondEffect DEF gateway
  <2>2. ArraysOK' /\ \A d \in Calls \ {c} : Alone(d)
    BY <1>0, <1>5, <2>1 DEF ArraysOK, Alone
  <2>3. written'[c] = {} /\ found'[c] = NULL /\ req'[c] # NULL
    BY <1>0, <1>5, <2>1 DEF CallOK, ArraysOK
  <2>4. CallTypes(c)'
    BY <1>0, <1>5, <2>1, <2>3 DEF CallTypes, Work
  <2>5. CallOK(c)'
    BY <1>0, <1>5, <2>1, <2>3 DEF CallOK, WorkOK, Statement
  <2>. QED
    BY <2>2, <2>4, <2>5 DEF Local
<1>6. ASSUME UNCHANGED written, svc[c] \in {"queued", "lookup", "insert", "verify", "read", "update"}
      PROVE  written' = [written EXCEPT ![c] = {}]
  BY <1>0, <1>6 DEF WorkOK, ArraysOK, Statement
<1>7. CASE InvalidRequest(c) \/ ReadUser(c) \/ Update(c) \/ Commit(c)
  <2>1. written' = [written EXCEPT ![c] = {}]
    BY <1>6, <1>7
       DEF InvalidRequest, ReadUser, Update, Commit, Apply, database, Statement
  <2>2. /\ UNCHANGED <<gateway, found>>
        /\ svc[c] \in {"queued", "commit", "read", "update"}
        /\ \E code \in Code : Respond(c, code)
        /\ req[c].op # "login" \/ Respond(c, "INVALID_REQUEST")
    BY <1>0, <1>7
       DEF InvalidRequest, ReadUser, Update, Commit, Code, CallOK
  <2>. QED
    BY <1>5, <2>1, <2>2 DEF Code
<1>8. CASE FindEmail(c)
  <2>1. CASE Respond(c, "EMAIL_ALREADY_IN_USE")
    BY <1>5, <1>6, <1>8, <2>1 DEF FindEmail, Code, Statement, database
  <2>2. CASE Goto(c, "insert") /\ UNCHANGED reply
    BY <1>0, <1>8, <2>2
       DEF FindEmail, Goto, Local, Alone, ArraysOK, CallTypes, CallOK, WorkOK,
           Statement, gateway, database
  <2>. QED
    BY <1>8, <2>1, <2>2 DEF FindEmail
<1>9. CASE InsertUser(c) \/ InsertEvent(c)
  <2>1. CASE /\ InsertUser(c)
             /\ Respond(c, "EMAIL_ALREADY_IN_USE") /\ UNCHANGED database
    BY <1>5, <1>6, <2>1 DEF InsertUser, Code, database
  <2>2. CASE /\ svc[c] = "insert" /\ Writes(c, {"user"}) /\ Goto(c, "outbox")
             /\ UNCHANGED <<gateway, found, reply>>
    <3>1. written'[c] = {"user"} /\ svc'[c] = "outbox"
      BY <1>0, <2>2 DEF Writes, Goto, ArraysOK
    <3>2. ArraysOK' /\ \A d \in Calls \ {c} : Alone(d)
      BY <1>0, <2>2 DEF Writes, Goto, gateway, ArraysOK, Alone
    <3>3. CallTypes(c)'
      BY <1>0, <2>2, <3>1 DEF CallTypes, gateway, Statement, Work
    <3>4. CallOK(c)'
      BY <1>0, <2>2, <3>1 DEF CallOK, WorkOK, gateway, Statement
    <3>. QED
      BY <3>2, <3>3, <3>4 DEF Local
  <2>3. CASE /\ svc[c] = "outbox" /\ Writes(c, written[c] \cup {"event"})
             /\ Goto(c, "commit") /\ UNCHANGED <<gateway, found, reply>>
    <3>1. written'[c] = {"user", "event"} /\ svc'[c] = "commit"
      BY <1>0, <2>3 DEF Writes, Goto, ArraysOK, WorkOK
    <3>2. ArraysOK' /\ \A d \in Calls \ {c} : Alone(d)
      BY <1>0, <2>3 DEF Writes, Goto, gateway, ArraysOK, Alone
    <3>3. CallTypes(c)'
      BY <1>0, <2>3, <3>1 DEF CallTypes, gateway, Statement, Work
    <3>4. CallOK(c)'
      BY <1>0, <2>3, <3>1 DEF CallOK, WorkOK, gateway, Statement
    <3>. QED
      BY <3>2, <3>3, <3>4 DEF Local
  <2>. QED
    BY <1>9, <2>1, <2>2, <2>3 DEF InsertUser, InsertEvent
<1>10. CASE FindUser(c)
  <2>1. CASE Respond(c, "INVALID_CREDENTIALS") /\ UNCHANGED found
    BY <1>5, <1>6, <1>10, <2>1 DEF FindUser, Code, Statement, database
  <2>2. ASSUME NEW i \in Ids, users[i] # NULL,
               found' = [found EXCEPT ![c] = [id |-> i,
                                              password |-> users[i].password]],
               Goto(c, "verify"), UNCHANGED reply
        PROVE  Local(c)
    <3>1. [id |-> i, password |-> users[i].password] \in Credentials
      BY <2>2 DEF TypeOK, User, Credentials
    <3>2. found'[c] \in Credentials /\ found'[c] # NULL
      BY <1>0, <2>2, <3>1, NullAssumption DEF ArraysOK
    <3>. QED
      BY <1>0, <1>10, <2>2, <3>2
         DEF FindUser, Goto, Local, Alone, ArraysOK, CallTypes, CallOK, WorkOK,
             Statement, gateway, database
  <2>. QED
    BY <1>10, <2>1, <2>2 DEF FindUser
<1>11. CASE Verify(c)
  <2>. DEFINE code == IF found[c].password = req[c].password THEN "OK"
                      ELSE "INVALID_CREDENTIALS"
  <2>1. Respond(c, code) /\ code \in Code
    BY <1>11 DEF Verify, Code
  <2>2. found[c] # NULL
    BY <1>0, <1>11 DEF Verify, CallTypes
  <2>3. /\ reply' = [reply EXCEPT ![c] = code] /\ reply'[c] = code
        /\ svc' = [svc EXCEPT ![c] = "replied"] /\ code # NULL
    BY <2>1, RespondEffect
  <2>4. code = "OK" => found[c].password = req[c].password
    OBVIOUS
  <2>. HIDE DEF code
  <2>. QED
    BY <1>0, <1>11, <2>1, <2>2, <2>3, <2>4
       DEF Verify, Local, Alone, ArraysOK, CallTypes, CallOK, WorkOK, Statement,
           gateway, database
<1>12. CASE StatementFails(c) \/ Crash(c)
  <2>1. /\ req' = req /\ http' = http /\ found' = found
        /\ svc[c] \in Statement \cup {"replied"}
    BY <1>12 DEF StatementFails, Crash, gateway
  <2>2. /\ written' = [written EXCEPT ![c] = written'[c]]
        /\ written'[c] = IF svc[c] = "update" THEN {"update"} ELSE written[c]
    BY <1>0, <1>12 DEF StatementFails, Crash, Abandon, ArraysOK
  <2>3. \/ /\ svc' = [svc EXCEPT ![c] = "replied"] /\ svc[c] # "verify"
           /\ reply' = [reply EXCEPT ![c] = "INTERNAL_ERROR"]
           /\ reply'[c] = "INTERNAL_ERROR" /\ reply'[c] # NULL
           /\ svc[c] # "replied" /\ svc'[c] = "replied"
        \/ /\ svc' = [svc EXCEPT ![c] = "gone"] /\ reply' = reply
           /\ svc'[c] = "gone"
    <3>1. "INTERNAL_ERROR" \in Code
      BY DEF Code
    <3>2. CASE StatementFails(c)
      BY <3>1, <3>2, RespondEffect DEF StatementFails, Statement
    <3>3. CASE Crash(c)
      BY <1>0, <3>3 DEF Crash, Goto, ArraysOK
    <3>. QED
      BY <1>12, <3>2, <3>3
  <2>4. ArraysOK' /\ \A d \in Calls \ {c} : Alone(d)
    <3>1. ArraysOK'
      BY <1>0, <2>1, <2>2, <2>3 DEF ArraysOK
    <3>2. \A d \in Calls \ {c} : Alone(d)
      BY <1>0, <2>1, <2>2, <2>3 DEF ArraysOK, Alone
    <3>. QED
      BY <3>1, <3>2
  <2>5. written'[c] \in Work
    BY <1>0, <2>2 DEF CallTypes, Work
  <2>6. CallTypes(c)'
    BY <1>0, <2>1, <2>3, <2>5 DEF CallTypes, Code
  <2>7. WorkOK(c)'
    BY <1>0, <2>1, <2>2, <2>3 DEF WorkOK, CallOK, Statement
  <2>8. CallOK(c)'
    BY <1>0, <2>1, <2>3, <2>7 DEF CallOK, Statement
  <2>. QED
    BY <2>4, <2>6, <2>8 DEF Local
<1>13. CASE Resolve(c)
  <2>1. /\ written' = [written EXCEPT ![c] = {}]
        /\ UNCHANGED <<gateway, svc, found, reply>>
        /\ svc[c] \in {"replied", "gone"}
    BY <1>13 DEF Resolve, Apply
  <2>2. ArraysOK' /\ \A d \in Calls \ {c} : Alone(d)
    BY <1>0, <2>1 DEF ArraysOK, Alone, gateway
  <2>3. written'[c] = {}
    BY <1>0, <2>1 DEF ArraysOK
  <2>4. CallTypes(c)'
    BY <1>0, <2>1, <2>3 DEF CallTypes, gateway, Work
  <2>5. CallOK(c)'
    BY <1>0, <2>1, <2>3 DEF CallOK, WorkOK, gateway, Statement
  <2>. QED
    BY <2>2, <2>4, <2>5 DEF Local
<1>. QED
  BY <1>1, <1>2, <1>3, <1>4, <1>7, <1>8, <1>9, <1>10, <1>11, <1>12, <1>13
     DEF Step, Gateway, Service

(***************************************************************************)
(* What a step commits                                                     *)
(***************************************************************************)

\* A transaction with both of its rows becomes visible.
Adds(c) ==
    /\ "user" \in written[c] /\ "event" \in written[c]
    /\ users' = [users EXCEPT ![c] = [email |-> req[c].email,
                                      password |-> req[c].password]]
    /\ events' = events \cup {c}

Updates(c) ==
    svc[c] # "idle" /\ req[c].op = "updateUser" /\ MayWrite(c) /\ Write(c)

\* A step commits nothing, a sign-up with its event, or an update.
LEMMA DatabaseStep ==
    ASSUME TypeOK, ControlInv, NEW c \in Calls, Step(c)
    PROVE  UNCHANGED <<users, events>> \/ Adds(c) \/ Updates(c)
<1>1. CallOK(c) /\ WorkOK(c) /\ written[c] \in Work
  BY DEF ControlInv, CallOK, TypeOK
<1>2. CASE Gateway(c)
  BY <1>2 DEF Gateway, Receive, Invalid, NoResponders, Timeout, TransportError,
              ReplyArrives, InvalidResponse, database
<1>3. CASE Commit(c)
  BY <1>1, <1>3 DEF Commit, Apply, Adds, WorkOK
<1>4. CASE Update(c)
  BY <1>1, <1>4 DEF Update, Updates, CallOK, database
<1>5. CASE Resolve(c)
  <2>1. "event" \in written[c] => "user" \in written[c]
    BY <1>1 DEF Work
  <2>. QED
    BY <1>1, <1>5, <2>1 DEF Resolve, Apply, Adds, Updates, WorkOK
<1>6. CASE Service(c) /\ ~Commit(c) /\ ~Update(c)
  BY <1>6 DEF Service, Handle, InvalidRequest, FindEmail, InsertUser,
              InsertEvent, FindUser, Verify, ReadUser, StatementFails, Crash,
              Writes, Abandon, database
<1>. QED
  BY <1>2, <1>3, <1>4, <1>5, <1>6 DEF Step

\* The commit of a sign-up puts in what it asked for.
LEMMA AddsEffect ==
    ASSUME TypeOK, ControlInv, NEW c \in Calls, Adds(c)
    PROVE  /\ users' \in [Ids -> User \cup {NULL}]
           /\ users'[c] \in User /\ users'[c] # NULL
           /\ users'[c].email = req[c].email
           /\ users'[c].password = req[c].password
           /\ \A i \in Ids \ {c} : users'[i] = users[i]
           /\ events' = events \cup {c} /\ events' \subseteq Ids
           /\ c \in Ids /\ req[c].op = "signUp"
<1>1. req[c] \in Requests /\ req[c].op = "signUp"
  <2>1. req[c].op = "signUp" /\ written[c] # {}
    BY DEF Adds, ControlInv, CallOK, WorkOK
  <2>2. svc[c] # "idle"
    BY <2>1 DEF ControlInv, CallOK, WorkOK
  <2>. QED
    BY <2>1, <2>2 DEF ControlInv, CallOK, TypeOK
<1>2. [email |-> req[c].email, password |-> req[c].password] \in User
  BY <1>1, RequestFields DEF User
<1>3. c \in Ids
  BY DEF Ids
<1>. QED
  BY <1>1, <1>2, <1>3, NullAssumption DEF Adds, TypeOK

\* The update changes what the request names of a user that is there.
LEMMA UpdatesEffect ==
    ASSUME TypeOK, ControlInv, NEW c \in Calls, Updates(c)
    PROVE  /\ users' \in [Ids -> User \cup {NULL}]
           /\ users[req[c].id] # NULL
           /\ users'[req[c].id] \in User /\ users'[req[c].id] # NULL
           /\ users'[req[c].id].email = OrOld(req[c].email, users[req[c].id].email)
           /\ users'[req[c].id].password
                = OrOld(req[c].password, users[req[c].id].password)
           /\ \A i \in Ids \ {req[c].id} : users'[i] = users[i]
           /\ UNCHANGED events
           /\ req[c].id \in Ids /\ req[c].op = "updateUser"
           /\ req[c].email \in Emails \cup {NULL}
<1>. DEFINE q == req[c]
            u == users[req[c].id]
            v == [email |-> OrOld(q.email, u.email),
                  password |-> OrOld(q.password, u.password)]
<1>1. q \in Requests /\ q.op = "updateUser"
  <2>1. q # NULL
    BY DEF Updates, ControlInv, CallOK
  <2>. QED
    BY <2>1 DEF TypeOK, Updates
<1>2. /\ q.id \in Ids /\ q.email \in Emails \cup {NULL}
      /\ q.password \in Passwords \cup {NULL}
  BY <1>1, RequestFields
<1>3. u \in User /\ u # NULL
  BY <1>2 DEF TypeOK, Updates, MayWrite
<1>4. v \in User
  BY <1>2, <1>3 DEF User, OrOld
<1>5. users' = [users EXCEPT ![q.id] = v]
  BY DEF Write, Updates
<1>. QED
  BY <1>1, <1>2, <1>3, <1>4, <1>5, NullAssumption DEF TypeOK, Write, Updates

\* Whatever a step commits, no user and no event is ever removed.
LEMMA CommitEffect ==
    ASSUME TypeOK, ControlInv, NEW c \in Calls, Step(c)
    PROVE  /\ users' \in [Ids -> User \cup {NULL}] /\ events' \subseteq Ids
           /\ \A i \in Ids : users[i] # NULL => users'[i] # NULL
           /\ \A i \in Ids : users[i] = NULL /\ users'[i] # NULL =>
                i = c /\ Adds(c)
<1>1. CASE UNCHANGED <<users, events>>
  BY <1>1 DEF TypeOK
<1>2. CASE Adds(c)
  BY <1>2, AddsEffect
<1>3. CASE Updates(c)
  BY <1>3, UpdatesEffect DEF TypeOK
<1>. QED
  BY <1>1, <1>2, <1>3, DatabaseStep

TypeInv == TypeOK /\ ControlInv

LEMMA TypeStep == TypeInv /\ [Next]_vars => TypeInv'
<1>. SUFFICES ASSUME TypeOK, ControlInv, [Next]_vars
              PROVE  TypeOK' /\ ControlInv'
  BY DEF TypeInv
<1>1. ASSUME NEW c \in Calls, Step(c)
      PROVE  TypeOK' /\ ControlInv'
  <2>1. Local(c)
    BY <1>1, LocalStep
  <2>3. /\ users' \in [Ids -> User \cup {NULL}] /\ events' \subseteq Ids
    BY <1>1, CommitEffect
  <2>4. tokens' \subseteq Ids
    <3>1. CASE UNCHANGED tokens
      BY <3>1 DEF TypeOK
    <3>2. CASE /\ ReplyArrives(c) /\ req[c].op = "login" /\ reply[c] = "OK"
               /\ tokens' = tokens \cup {found[c].id}
      <4>1. found[c] \in Credentials
        BY <3>2 DEF ControlInv, CallOK, TypeOK
      <4>. QED
        BY <3>2, <4>1 DEF Credentials, TypeOK
    <3>. QED
      BY <1>1, <3>1, <3>2
         DEF Step, Gateway, Service, Receive, Invalid, NoResponders, Timeout,
             TransportError, ReplyArrives, InvalidResponse, Handle,
             InvalidRequest, FindEmail, InsertUser, InsertEvent, Commit,
             FindUser, Verify, ReadUser, Update, StatementFails, Crash,
             Resolve, gateway
  <2>5. faults' \in 0..MaxFaults
    <3>1. UNCHANGED faults \/ Fault
      BY <1>1
         DEF Step, Gateway, Service, Receive, Invalid, NoResponders, Timeout,
             TransportError, ReplyArrives, InvalidResponse, Handle,
             InvalidRequest, FindEmail, InsertUser, InsertEvent, Commit,
             FindUser, Verify, ReadUser, Update, StatementFails, Crash, Resolve
    <3>. QED
      BY <3>1, SetsAssumption DEF Fault, TypeOK
  <2>6. \A d \in Calls : CallTypes(d)' /\ CallOK(d)'
    <3>1. \A d \in Calls \ {c} : CallTypes(d)' /\ CallOK(d)'
      <4>. SUFFICES ASSUME NEW d \in Calls \ {c}
                    PROVE CallTypes(d)' /\ CallOK(d)'
        OBVIOUS
      <4>1. CallTypes(d) /\ CallOK(d) /\ Alone(d)
        BY <2>1, TypeParts DEF ControlInv, Local, CallsTyped
      <4>. QED
        BY <4>1 DEF CallTypes, CallOK, WorkOK, Alone
    <3>. QED
      BY <2>1, <3>1 DEF Local
  <2>7. TypeOK'
    <3>1. TablesOK'
      BY <2>3, <2>4, <2>5 DEF TablesOK
    <3>2. ArraysOK'
      BY <2>1 DEF Local
    <3>3. CallsTyped'
      BY <2>6 DEF CallsTyped
    <3>. QED
      BY <3>1, <3>2, <3>3, TypeParts, PTL
  <2>. QED
    BY <2>6, <2>7 DEF ControlInv
<1>2. CASE UNCHANGED vars
  BY <1>2 DEF vars, TypeOK, ControlInv, CallOK, WorkOK
<1>. QED
  BY <1>1, <1>2 DEF Next, Step

LEMMA TypeInit == Init => TypeInv
<1>. SUFFICES ASSUME Init PROVE TypeOK /\ ControlInv
  BY DEF TypeInv
<1>1. TypeOK
  <2>1. Registered \subseteq Ids
    BY DEF Ids
  <2>. QED
    BY <2>1, SetsAssumption DEF Init, TypeOK, Work
<1>2. ControlInv
  BY NullAssumption DEF Init, ControlInv, CallOK, WorkOK, Statement, Code
<1>. QED
  BY <1>1, <1>2

\* Tables, requests and answers always hold values of their types.
THEOREM TypeCorrect == Spec => []TypeOK
<1>1. TypeInv => TypeOK
  BY DEF TypeInv
<1>. QED
  BY <1>1, TypeInit, TypeStep, PTL DEF Spec

(***************************************************************************)
(* The tables                                                              *)
(***************************************************************************)

LEMMA UserIffEventStep ==
    TypeInv /\ UserIffEvent /\ [Next]_vars => UserIffEvent'
<1>. SUFFICES ASSUME TypeOK, ControlInv, UserIffEvent, [Next]_vars
              PROVE  UserIffEvent'
  BY DEF TypeInv
<1>1. ASSUME NEW c \in Calls, Step(c) PROVE UserIffEvent'
  <2>1. CASE UNCHANGED <<users, events>>
    BY <2>1 DEF UserIffEvent
  <2>2. CASE Adds(c)
    BY <2>2, AddsEffect DEF UserIffEvent
  <2>3. CASE Updates(c)
    BY <2>3, UpdatesEffect DEF UserIffEvent
  <2>. QED
    BY <1>1, <2>1, <2>2, <2>3, DatabaseStep
<1>2. CASE UNCHANGED vars
  BY <1>2 DEF vars, UserIffEvent
<1>. QED
  BY <1>1, <1>2 DEF Next, Step

\* At every moment of any number of sign-ups, with statements that fail, dead
\* replicas and commits whose end nobody hears, the tables show a user exactly
\* when they show its event.
THEOREM UsersHaveEvents == Spec => []UserIffEvent
<1>1. Init => UserIffEvent
  BY DEF Init, UserIffEvent
<1>. QED
  BY <1>1, TypeInit, TypeStep, UserIffEventStep, PTL DEF Spec

\* The email of an uncommitted user is free and wanted by no other
\* transaction: what the check of the first insert found stays true until the
\* commit.
Holds(c) ==
    "user" \in written[c] =>
        /\ ~Taken(req[c].email)
        /\ \A d \in Calls \ {c} :
              "user" \in written[d] => req[d].email # req[c].email

IndexInv == EmailsUnique /\ \A c \in Calls : Holds(c)

\* A transaction comes to hold an email by its first insert only.
LEMMA HoldStep ==
    ASSUME TypeOK, ControlInv, NEW c \in Calls, Step(c)
    PROVE  /\ \A d \in Calls \ {c} : req'[d] = req[d] /\ written'[d] = written[d]
           /\ "user" \in written'[c] =>
                /\ req'[c] = req[c] /\ UNCHANGED <<users, events>>
                /\ \/ "user" \in written[c]
                   \/ ~Taken(req[c].email) /\ ~Locked(req[c].email, c)
<1>1. Local(c)
  BY LocalStep
<1>2. WorkOK(c) /\ WorkOK(c)' /\ CallOK(c)
  BY <1>1 DEF ControlInv, CallOK, Local
<1>3. ASSUME "user" \in written'[c]
      PROVE  /\ req'[c] = req[c] /\ UNCHANGED <<users, events>>
             /\ \/ "user" \in written[c]
                \/ ~Taken(req[c].email) /\ ~Locked(req[c].email, c)
  <2>1. svc'[c] \in {"outbox", "commit", "replied", "gone"}
    BY <1>1, <1>2, <1>3 DEF WorkOK, Local, CallTypes, Statement
  <2>2. CASE UNCHANGED written
    <3>1. "user" \in written[c]
      BY <1>3, <2>2
    <3>2. svc[c] # "idle"
      BY <1>2, <3>1 DEF WorkOK
    <3>3. ~Receive(c) /\ ~Commit(c) /\ ~Resolve(c) /\ ~Update(c)
      <4>1. ~Commit(c) /\ ~Resolve(c)
        BY <1>3, <2>2 DEF Commit, Resolve, Apply, TypeOK
      <4>. QED
        BY <1>2, <3>1, <3>2, <4>1 DEF Receive, CallOK, WorkOK, Update
    <3>4. req' = req /\ UNCHANGED <<users, events>>
      BY <3>3 DEF Step, Gateway, Service, Invalid, NoResponders, Timeout,
             TransportError, ReplyArrives, InvalidResponse, Handle,
             InvalidRequest, FindEmail, InsertUser, InsertEvent, FindUser,
             Verify, ReadUser, StatementFails, Crash, Writes, Abandon,
             gateway, database
    <3>. QED
      BY <3>1, <3>4
  <2>3. CASE InsertUser(c)
    BY <2>1, <2>3, <1>2, <1>3 DEF InsertUser, Writes, gateway, WorkOK, database
  <2>4. CASE InsertEvent(c)
    BY <1>2, <2>4 DEF InsertEvent, Writes, gateway, WorkOK
  <2>5. CASE Commit(c) \/ Resolve(c)
    BY <1>3, <2>5 DEF Commit, Resolve, Apply, TypeOK
  <2>6. CASE StatementFails(c) \/ Crash(c)
    <3>1. written'[c] = IF svc[c] = "update" THEN {"update"} ELSE written[c]
      BY <2>6 DEF StatementFails, Crash, Abandon, TypeOK
    <3>2. written'[c] = written[c]
      BY <1>3, <3>1
    <3>. QED
      BY <1>3, <2>6, <3>2 DEF StatementFails, Crash, Abandon, gateway
  <2>. QED
    BY <2>2, <2>3, <2>4, <2>5, <2>6
       DEF Step, Gateway, Service, Receive, Invalid, NoResponders, Timeout,
           TransportError, ReplyArrives, InvalidResponse, Handle,
           InvalidRequest, FindEmail, FindUser, Verify, ReadUser, Update,
           database
<1>. QED
  BY <1>1, <1>3 DEF Local, Alone

LEMMA IndexStep == TypeInv /\ IndexInv /\ [Next]_vars => IndexInv'
<1>. SUFFICES ASSUME TypeOK, ControlInv, IndexInv, [Next]_vars
              PROVE  IndexInv'
  BY DEF TypeInv
<1>1. ASSUME NEW c \in Calls, Step(c) PROVE IndexInv'
  <2>0. /\ \A d \in Calls \ {c} : req'[d] = req[d] /\ written'[d] = written[d]
        /\ "user" \in written'[c] =>
             /\ req'[c] = req[c] /\ UNCHANGED <<users, events>>
             /\ \/ "user" \in written[c]
                \/ ~Taken(req[c].email) /\ ~Locked(req[c].email, c)
    BY <1>1, HoldStep
  <2>1. CASE UNCHANGED <<users, events>>
    <3>1. EmailsUnique'
      BY <2>1 DEF EmailsUnique, IndexInv
    <3>2. ASSUME NEW d \in Calls, "user" \in written'[d]
          PROVE  /\ req'[d] = req[d] /\ ~Taken(req[d].email)
                 /\ d # c => "user" \in written[d]
      BY <2>0, <3>2 DEF IndexInv, Holds
    <3>3. ASSUME NEW d \in Calls, NEW e \in Calls \ {d},
                 "user" \in written'[d], "user" \in written'[e]
          PROVE  req'[e].email # req'[d].email
      <4>1. CASE "user" \in written[d] /\ "user" \in written[e]
        BY <3>2, <3>3, <4>1 DEF IndexInv, Holds
      <4>2. CASE d = c /\ "user" \notin written[c]
        BY <2>0, <3>2, <3>3, <4>2 DEF Locked
      <4>3. CASE e = c /\ "user" \notin written[c]
        BY <2>0, <3>2, <3>3, <4>3 DEF Locked
      <4>. QED
        BY <3>2, <3>3, <4>1, <4>2, <4>3
    <3>4. ASSUME NEW d \in Calls PROVE Holds(d)'
      BY <2>1, <3>2, <3>3 DEF Holds, Taken
    <3>. QED
      BY <3>1, <3>4 DEF IndexInv
  <2>2. CASE Adds(c) /\ "user" \notin written'[c]
    <3>1. ~Taken(req[c].email)
      BY <2>2 DEF Adds, IndexInv, Holds
    <3>2. /\ \A i \in Ids \ {c} : users'[i] = users[i]
          /\ c \in Ids /\ users'[c].email = req[c].email
      BY <2>2, AddsEffect
    <3>3. EmailsUnique'
      BY <3>1, <3>2 DEF EmailsUnique, IndexInv, Taken
    <3>4. ASSUME NEW d \in Calls, "user" \in written'[d]
          PROVE  /\ req'[d] = req[d] /\ "user" \in written[d]
                 /\ ~Taken(req[d].email) /\ req[d].email # req[c].email
      BY <2>0, <2>2, <3>4 DEF IndexInv, Holds, Adds
    <3>5. ASSUME NEW d \in Calls PROVE Holds(d)'
      BY <3>2, <3>4, <3>5 DEF Holds, Taken, IndexInv
    <3>. QED
      BY <3>3, <3>5 DEF IndexInv
  <2>3. CASE Updates(c) /\ "user" \notin written'[c]
    <3>. DEFINE i == req[c].id
    <3>1. /\ i \in Ids /\ \A k \in Ids \ {i} : users'[k] = users[k]
          /\ users[i] # NULL
          /\ users'[i].email = OrOld(req[c].email, users[i].email)
      BY <2>3, UpdatesEffect
    <3>2. \A k \in Ids \ {i} : users[k] # NULL => users'[i].email # users[k].email
      BY <2>3, <3>1
         DEF Updates, MayWrite, OrOld, TakenByAnother, EmailsUnique, IndexInv
    <3>3. EmailsUnique'
      BY <3>1, <3>2 DEF EmailsUnique, IndexInv
    <3>4. ASSUME NEW d \in Calls, "user" \in written'[d]
          PROVE  /\ req'[d] = req[d] /\ "user" \in written[d] /\ d # c
                 /\ ~Taken(req[d].email) /\ req[d].email # users'[i].email
      <4>1. /\ req'[d] = req[d] /\ "user" \in written[d] /\ d # c
            /\ ~Taken(req[d].email)
        BY <2>0, <2>3, <3>4 DEF IndexInv, Holds
      <4>2. req[d].email # req[c].email
        BY <2>3, <4>1 DEF Updates, MayWrite, Locked
      <4>3. req[d].email # users[i].email
        BY <3>1, <4>1 DEF Taken
      <4>. QED
        BY <3>1, <4>1, <4>2, <4>3 DEF OrOld
    <3>5. ASSUME NEW d \in Calls PROVE Holds(d)'
      BY <3>1, <3>4, <3>5 DEF Holds, Taken, IndexInv
    <3>. QED
      BY <3>3, <3>5 DEF IndexInv
  <2>. QED
    BY <1>1, <2>0, <2>1, <2>2, <2>3, DatabaseStep
<1>2. CASE UNCHANGED vars
  BY <1>2 DEF vars, IndexInv, EmailsUnique, Holds, Taken
<1>. QED
  BY <1>1, <1>2 DEF Next, Step

LEMMA IndexInit == Init => IndexInv
BY DEF Init, IndexInv, EmailsUnique, Holds

\* However sign-ups and updates race for an email, one user has it: the index
\* decides, and it holds an email for a sign-up that has not committed.
THEOREM EmailsAreUnique == Spec => []EmailsUnique
<1>1. IndexInv => EmailsUnique
  BY DEF IndexInv
<1>. QED
  BY <1>1, TypeInit, TypeStep, IndexInit, IndexStep, PTL DEF Spec

(***************************************************************************)
(* What a client is told                                                   *)
(***************************************************************************)

\* A sign-up has its user only once its transaction is over; it has it if it
\* was answered OK, and if it was refused it has none and none under way.
ClientError == {"400", "401", "403", "404", "409"}

SignUpOK(c) ==
    /\ users[c] # NULL => /\ svc[c] \in {"replied", "gone"}
                          /\ reply[c] \in {"OK", "INTERNAL_ERROR", NULL}
    /\ reply[c] = "OK" /\ req[c].op = "signUp" => users[c] # NULL
    /\ http[c] = "201" => users[c] # NULL
    /\ http[c] \in ClientError =>
         /\ svc[c] \in {"idle", "replied", "gone"} /\ written[c] = {}
         /\ users[c] = NULL

SignUpInv == \A c \in Calls : SignUpOK(c)

\* What the database and the answer have to do with one another in one step.
LEMMA CommitAnswer ==
    ASSUME TypeOK, ControlInv, NEW c \in Calls, Service(c) \/ Resolve(c)
    PROVE  /\ http'[c] = http[c] /\ req'[c] = req[c]
           /\ svc[c] # "idle"
           /\ svc[c] \in {"replied", "gone"} =>
                /\ svc'[c] \in {"replied", "gone"} /\ reply'[c] = reply[c]
                /\ written[c] = {} => written'[c] = {} /\ ~Adds(c)
           /\ Adds(c) => /\ svc'[c] \in {"replied", "gone"}
                         /\ reply'[c] \in {"OK", "INTERNAL_ERROR", NULL}
           /\ reply'[c] = "OK" /\ req[c].op = "signUp" =>
                reply[c] = "OK" \/ Adds(c)
<1>0. CallOK(c) /\ WorkOK(c)
  BY DEF ControlInv, CallOK
<1>1. http'[c] = http[c] /\ req'[c] = req[c]
  BY DEF Service, Handle, InvalidRequest, FindEmail, InsertUser, InsertEvent,
         Commit, FindUser, Verify, ReadUser, Update, StatementFails, Crash,
         Resolve, gateway
<1>2. svc[c] # "idle"
  BY DEF Service, Handle, InvalidRequest, FindEmail, InsertUser, InsertEvent,
         Commit, FindUser, Verify, ReadUser, Update, StatementFails, Crash,
         Resolve, Statement
<1>3. svc[c] \in {"replied", "gone"} =>
        /\ svc'[c] \in {"replied", "gone"} /\ reply'[c] = reply[c]
        /\ written[c] = {} => written'[c] = {} /\ ~Adds(c)
  <2>1. CASE Crash(c)
    BY <2>1 DEF Crash, Abandon, Goto, Adds, TypeOK
  <2>2. CASE Resolve(c)
    BY <2>2 DEF Resolve
  <2>. QED
    BY <2>1, <2>2
       DEF Service, Handle, InvalidRequest, FindEmail, InsertUser, InsertEvent,
           Commit, FindUser, Verify, ReadUser, Update, StatementFails, Statement
<1>4. ASSUME Adds(c)
      PROVE  /\ svc'[c] \in {"replied", "gone"}
             /\ reply'[c] \in {"OK", "INTERNAL_ERROR", NULL}
  <2>1. c \in Ids /\ users' = [users EXCEPT ![c] = users'[c]] /\ written[c] # {}
    BY <1>4, AddsEffect DEF Adds, TypeOK
  <2>2. CASE Commit(c)
    BY <2>2, RespondEffect DEF Commit, Code
  <2>3. CASE Resolve(c)
    BY <1>0, <2>1, <2>3 DEF Resolve, WorkOK
  <2>4. CASE StatementFails(c)
    <3>1. "INTERNAL_ERROR" \in Code
      BY DEF Code
    <3>. QED
      BY <2>4, <3>1, RespondEffect DEF StatementFails
  <2>5. CASE Crash(c)
    BY <1>0, <2>1, <2>5 DEF Crash, Goto, TypeOK, WorkOK
  <2>6. CASE InsertEvent(c)
    <3>1. svc[c] = "outbox" /\ "event" \in written[c]
      BY <1>4, <2>6 DEF Adds, InsertEvent
    <3>. QED
      BY <1>0, <3>1 DEF WorkOK
  <2>. QED
    BY <1>0, <2>1, <2>2, <2>3, <2>4, <2>5, <2>6
       DEF Service, Handle, InvalidRequest, FindEmail, InsertUser, FindUser,
           Verify, ReadUser, Update, WorkOK
<1>5. reply'[c] = "OK" /\ req[c].op = "signUp" => reply[c] = "OK" \/ Adds(c)
  <2>1. CASE UNCHANGED reply
    BY <2>1
  <2>2. CASE \E code \in Code \ {"OK"} : Respond(c, code)
    BY <2>2, RespondEffect
  <2>3. CASE Verify(c) \/ ReadUser(c) \/ Update(c)
    BY <1>0, <2>3 DEF Verify, ReadUser, Update, CallOK
  <2>4. CASE Commit(c)
    BY <1>0, <2>4 DEF Commit, Apply, WorkOK, Adds
  <2>. QED
    BY <2>1, <2>2, <2>3, <2>4
       DEF Service, Handle, InvalidRequest, FindEmail, InsertUser, InsertEvent,
           FindUser, StatementFails, Crash, Resolve, Code
<1>. QED
  BY <1>1, <1>2, <1>3, <1>4, <1>5

LEMMA SignUpStep == TypeInv /\ SignUpInv /\ [Next]_vars => SignUpInv'
<1>. SUFFICES ASSUME TypeOK, ControlInv, SignUpInv, [Next]_vars PROVE SignUpInv'
  BY DEF TypeInv
<1>1. ASSUME NEW c \in Calls, Step(c) PROVE SignUpInv'
  <2>0. /\ Local(c) /\ CallOK(c) /\ WorkOK(c) /\ SignUpOK(c) /\ c \in Ids
        /\ users[c] # NULL => users'[c] # NULL
        /\ users[c] = NULL /\ users'[c] # NULL => Adds(c)
        /\ Adds(c) => users'[c] # NULL
    BY <1>1, LocalStep, CommitEffect, AddsEffect
       DEF ControlInv, CallOK, SignUpInv, Ids
  <2>1. ASSUME NEW d \in Calls \ {c} PROVE SignUpOK(d)'
    <3>1. Alone(d) /\ SignUpOK(d) /\ d \in Ids
      BY <2>0 DEF Local, SignUpInv, Ids
    <3>2. users'[d] # NULL <=> users[d] # NULL
      BY <1>1, <3>1, CommitEffect
    <3>. QED
      BY <3>1, <3>2 DEF Alone, SignUpOK
  <2>2. ASSUME Service(c) \/ Resolve(c) PROVE SignUpOK(c)'
    BY <2>0, <2>2, CommitAnswer DEF SignUpOK
  <2>3. ASSUME Gateway(c) PROVE SignUpOK(c)'
    <3>1. UNCHANGED <<users, events, written, reply>>
      BY <2>3 DEF Gateway, Receive, Invalid, NoResponders, Timeout,
                  TransportError, ReplyArrives, InvalidResponse, database
    <3>2. CASE Receive(c)
      <4>1. /\ svc[c] = "idle" /\ reply[c] = NULL /\ users[c] = NULL
            /\ written[c] = {}
        BY <2>0, <3>2 DEF Receive, CallOK, WorkOK, SignUpOK
      <4>2. \A q \in Requests, subject \in tokens \cup {NULL} :
               Rejection(q, subject) \in {"none", "401", "403"}
        BY DEF Rejection
      <4>3. \/ http'[c] = "waiting"
            \/ http'[c] \in {"401", "403"} /\ svc'[c] = "idle"
        BY <3>2, <4>1, <4>2 DEF Receive, Answer, TypeOK
      <4>. QED
        BY <3>1, <4>1, <4>3, NullAssumption DEF SignUpOK, ClientError, Code
    <3>3. CASE Invalid(c)
      BY <2>0, <3>1, <3>3 DEF Invalid, Answer, TypeOK, CallOK, WorkOK, SignUpOK,
                             ClientError
    <3>4. CASE \/ NoResponders(c) \/ Timeout(c) \/ TransportError(c)
               \/ InvalidResponse(c)
      <4>1. /\ http'[c] \in {"502", "503", "504"} /\ req' = req
            /\ svc'[c] = svc[c] \/ (svc[c] = "queued" /\ svc'[c] = "gone")
        BY <3>4 DEF NoResponders, Timeout, TransportError, InvalidResponse,
                    Answer, Goto, TypeOK
      <4>. QED
        BY <2>0, <3>1, <4>1 DEF SignUpOK, ClientError
    <3>5. CASE ReplyArrives(c)
      <4>1. /\ svc[c] = "replied" /\ reply[c] \in Code
            /\ http'[c] = StatusOf(c) /\ UNCHANGED <<req, svc>>
        BY <2>0, <3>5 DEF ReplyArrives, Answer, TypeOK, CallOK, Statement
      <4>2. /\ StatusOf(c) = "201" => reply[c] = "OK" /\ req[c].op = "signUp"
            /\ StatusOf(c) \in ClientError => reply[c] \notin {"OK", "INTERNAL_ERROR"}
        BY <4>1 DEF StatusOf, Code, ClientError
      <4>3. NULL \notin Code
        BY NullAssumption
      <4>. QED
        BY <2>0, <3>1, <4>1, <4>2, <4>3 DEF SignUpOK, WorkOK
    <3>. QED
      BY <2>3, <3>2, <3>3, <3>4, <3>5 DEF Gateway
  <2>. QED
    BY <1>1, <2>1, <2>2, <2>3 DEF SignUpInv, Step
<1>2. CASE UNCHANGED vars
  BY <1>2 DEF vars, SignUpInv, SignUpOK
<1>. QED
  BY <1>1, <1>2 DEF Next, Step

LEMMA SignUpInit == Init => SignUpInv
<1>. SUFFICES ASSUME Init, NEW c \in Calls PROVE SignUpOK(c)
  BY DEF SignUpInv
<1>1. users[c] = NULL
  BY SetsAssumption DEF Init, Ids
<1>. QED
  BY <1>1, NullAssumption DEF Init, SignUpOK, ClientError, Code

\* 201 is the truth and so is every answer that blames the client: the user
\* and its event exist, or never will.  Only a 5xx leaves that open.
THEOREM SignUpAnswersAreTrue == Spec => []SignUpAnswerIsTrue
<1>1. SignUpInv /\ UserIffEvent => SignUpAnswerIsTrue
  BY DEF SignUpInv, SignUpOK, UserIffEvent, SignUpAnswerIsTrue, ClientError, Ids
<1>2. Init => UserIffEvent
  BY DEF Init, UserIffEvent
<1>. QED
  BY <1>1, <1>2, TypeInit, TypeStep, SignUpInit, SignUpStep, UserIffEventStep,
     PTL DEF Spec

(***************************************************************************)
(* The calls behave like atomic ones                                       *)
(***************************************************************************)

Outcomes == [c \in Calls |-> Outcome(c)]

\* A step changes the outcome of its own call at most.
LEMMA OutcomeStep ==
    ASSUME TypeOK, ControlInv, NEW c \in Calls, Step(c)
    PROVE  /\ \A d \in Calls \ {c} : req'[d] = req[d]
           /\ Outcomes' = [Outcomes EXCEPT ![c] = Outcome(c)']
<1>1. Local(c)
  BY LocalStep
<1>2. \A d \in Calls \ {c} : Outcome(d)' = Outcome(d)
  BY <1>1 DEF Local, Alone, Outcome
<1>. QED
  BY <1>1, <1>2 DEF Outcomes, Local, Alone

\* A call whose request only a statement can settle has no outcome yet.
LEMMA Unsettled ==
    ASSUME TypeOK, ControlInv, NEW c \in Calls
    PROVE  /\ svc[c] \in {"idle", "queued", "lookup", "insert", "outbox", "commit",
                          "read", "update"} => Outcome(c) = "none"
           /\ svc[c] = "idle" \/ req[c] \in Requests
           /\ reply[c] # NULL /\ written[c] = {} => Outcome(c) = reply[c]
<1>1. CallOK(c) /\ WorkOK(c) /\ req[c] \in Requests \cup {NULL}
  BY DEF ControlInv, CallOK, TypeOK
<1>. QED
  BY <1>1 DEF CallOK, WorkOK, Outcome, Statement

\* What a step commits is one of the two writes of the atomic accounts.
LEMMA CommitIsWrite ==
    ASSUME TypeOK, ControlInv, IndexInv, NEW c \in Calls, Adds(c) \/ Updates(c)
    PROVE  Atomic!Writes(c)
<1>1. CASE Adds(c)
  <2>1. req[c].op = "signUp"
    BY <1>1, AddsEffect
  <2>2. ~Atomic!Conflict(c)
    BY <1>1 DEF Adds, IndexInv, Holds, Taken, Atomic!Conflict, Atomic!Taken
  <2>. QED
    BY <1>1, <2>1, <2>2 DEF Adds, Atomic!Writes, Atomic!WithUser
<1>2. CASE Updates(c)
  <2>1. req[c].op = "updateUser" /\ req[c].id \in Ids /\ users[req[c].id] # NULL
    BY <1>2, UpdatesEffect
  <2>2. ~Atomic!Conflict(c)
    BY <1>2, <2>1
       DEF Updates, MayWrite, TakenByAnother, Atomic!Conflict, Atomic!Taken
  <2>3. \A value, old : OrOld(value, old) = Atomic!New(old, value)
    BY DEF OrOld, Atomic!New
  <2>4. users' = Atomic!WithUpdate(c)
    BY <1>2, <2>3 DEF Updates, Write, Atomic!WithUpdate
  <2>. QED
    BY <2>1, <2>2, <2>4 DEF Atomic!Writes
<1>. QED
  BY <1>1, <1>2

\* One step of a call is one step of the atomic accounts, or none.
LEMMA AtomicStep ==
    ASSUME TypeOK, ControlInv, IndexInv, NEW c \in Calls, Step(c)
    PROVE  Atomic!Next \/ UNCHANGED <<users, req, Outcomes>>
<1>. DEFINE Stutters == users' = users /\ req' = req /\ Outcome(c)' = Outcome(c)
            Pending == /\ req[c] \in Requests /\ Outcome(c) = "none"
                       /\ UNCHANGED req
            Ends(result) == Outcome(c)' = result
            Takes ==
             \/ Ends("OK") /\ Atomic!Writes(c)
             \/ /\ Ends("OK") /\ UNCHANGED users
                /\ \/ /\ req[c].op = "login"
                      /\ Atomic!Accepts(req[c].email, req[c].password)
                   \/ req[c].op = "getUser" /\ users[req[c].id] # NULL
             \/ /\ Ends("EMAIL_ALREADY_IN_USE") /\ UNCHANGED users
                /\ Atomic!Conflict(c)
                /\ \/ req[c].op = "signUp"
                   \/ req[c].op = "updateUser" /\ users[req[c].id] # NULL
             \/ /\ Ends("INVALID_CREDENTIALS") /\ UNCHANGED users
                /\ req[c].op = "login"
                /\ ~Atomic!Accepts(req[c].email, req[c].password)
             \/ /\ Ends("USER_NOT_FOUND") /\ UNCHANGED users
                /\ req[c].op \in {"getUser", "updateUser"}
                /\ users[req[c].id] = NULL
             \/ Ends("INVALID_REQUEST") /\ UNCHANGED users
             \/ /\ Ends("INTERNAL_ERROR")
                /\ Atomic!Writes(c) \/ UNCHANGED users
<1>0. /\ \A d \in Calls \ {c} : req'[d] = req[d]
      /\ Outcomes' = [Outcomes EXCEPT ![c] = Outcome(c)']
      /\ CallOK(c) /\ CallOK(c)' /\ CallTypes(c) /\ CallTypes(c)'
      /\ WorkOK(c) /\ WorkOK(c)'
      /\ TypeOK /\ TypeOK' /\ EmailsUnique
  <2>1. Local(c)
    BY LocalStep
  <2>2. TypeInv'
    BY TypeStep DEF TypeInv, Next, Step
  <2>. QED
    BY <2>1, <2>2, OutcomeStep, TypeParts
       DEF ControlInv, CallsTyped, CallOK, Local, TypeInv, IndexInv
<1>1. ASSUME Stutters PROVE UNCHANGED <<users, req, Outcomes>>
  BY <1>0, <1>1 DEF Outcomes
<1>2. ASSUME Pending, Takes PROVE Atomic!Next
  <2>1. Outcomes[c] = "none" /\ req[c] # NULL
    BY <1>2, NullAssumption DEF Outcomes
  <2>2. Atomic!Succeeds(c) \/ Atomic!Refused(c) \/ Atomic!Fails(c)
    BY <1>0, <1>2 DEF Outcomes, Atomic!Succeeds, Atomic!Refused, Atomic!Fails,
                      Atomic!Ends
  <2>. QED
    BY <1>2, <2>1, <2>2 DEF Outcomes, Atomic!Next, Atomic!Take
<1>3. ASSUME NEW code \in Code, Respond(c, code), written'[c] = {}
      PROVE  Ends(code)
  BY <1>3, RespondEffect DEF Outcome
<1>16. svc[c] \in {"idle", "queued", "lookup", "insert", "verify", "read", "update"}
         /\ UNCHANGED written => written'[c] = {}
  BY <1>0 DEF WorkOK
<1>17. written'[c] # {} => Outcome(c)' = "none"
  BY DEF Outcome
<1>4. CASE Receive(c)
  <2>1. /\ req[c] = NULL /\ req'[c] # NULL /\ users' = users
        /\ reply'[c] = NULL /\ found'[c] = NULL
        /\ svc[c] = "idle" /\ svc'[c] \in {"idle", "queued"}
    BY <1>0, <1>4, NullAssumption
       DEF Receive, CallOK, Answer, Goto, TypeOK, database
  <2>2. Outcome(c) = "none" /\ Outcome(c)' = "none"
    BY <1>0, <2>1 DEF Outcome, CallOK
  <2>3. Outcomes' = Outcomes
    BY <1>0, <2>2 DEF Outcomes
  <2>. QED
    BY <1>0, <2>1, <2>3 DEF Outcomes, Atomic!Next, Atomic!Choose
<1>5. CASE \/ Invalid(c) \/ Timeout(c) \/ TransportError(c) \/ ReplyArrives(c)
           \/ InvalidResponse(c)
  <2>1. Stutters
    BY <1>5
       DEF Invalid, Timeout, TransportError, ReplyArrives, InvalidResponse,
           database, Outcome
  <2>. QED
    BY <1>1, <2>1
<1>6. CASE NoResponders(c)
  <2>1. Pending /\ Ends("INTERNAL_ERROR") /\ UNCHANGED users
    BY <1>0, <1>6, <1>16, Unsettled
       DEF NoResponders, Goto, TypeOK, CallOK, Outcome, database
  <2>. QED
    BY <1>2, <2>1
<1>7. CASE Handle(c)
  <2>1. req[c].op \in {"signUp", "login", "getUser", "updateUser"}
    BY <1>7, Unsettled, RequestFields DEF Handle
  <2>2. svc'[c] = FirstStatement(req[c].op)
    BY <1>7 DEF Handle, Goto, TypeOK
  <2>3. svc[c] # "gone" /\ svc'[c] # "gone"
    BY <1>7, <2>1, <2>2 DEF Handle, FirstStatement
  <2>4. Stutters
    BY <1>7, <2>3 DEF Handle, Outcome, database, gateway
  <2>. QED
    BY <1>1, <2>4
<1>8. CASE FindEmail(c)
  <2>1. Pending /\ UNCHANGED users /\ req[c].op = "signUp"
    BY <1>8, Unsettled DEF FindEmail, database, gateway
  <2>2. CASE Taken(req[c].email) /\ Respond(c, "EMAIL_ALREADY_IN_USE")
    <3>1. Ends("EMAIL_ALREADY_IN_USE") /\ Atomic!Conflict(c)
      BY <1>3, <1>8, <1>16, <2>1, <2>2
         DEF FindEmail, Taken, Code, Atomic!Conflict, Atomic!Taken, database
    <3>. QED
      BY <1>2, <2>1, <3>1
  <2>3. CASE Goto(c, "insert") /\ UNCHANGED reply
    <3>1. Stutters
      BY <1>0, <1>8, <1>16, <2>1, <2>3
         DEF FindEmail, Goto, TypeOK, Outcome, CallOK, gateway, database
    <3>. QED
      BY <1>1, <3>1
  <2>. QED
    BY <1>8, <2>2, <2>3 DEF FindEmail
<1>9. CASE InsertUser(c)
  <2>1. Pending /\ req[c].op = "signUp" /\ users' = users
    BY <1>0, <1>9, Unsettled
       DEF InsertUser, CallOK, gateway, Writes, database
  <2>2. CASE /\ Taken(req[c].email) /\ Respond(c, "EMAIL_ALREADY_IN_USE")
             /\ UNCHANGED database
    <3>1. Ends("EMAIL_ALREADY_IN_USE") /\ Atomic!Conflict(c)
      BY <1>3, <1>9, <1>16, <2>1, <2>2
         DEF InsertUser, Taken, Code, Atomic!Conflict, Atomic!Taken, database
    <3>. QED
      BY <1>2, <2>1, <3>1
  <2>3. CASE Writes(c, {"user"})
    <3>1. written'[c] # {}
      BY <2>3 DEF Writes, TypeOK
    <3>. QED
      BY <1>1, <1>17, <2>1, <3>1
  <2>. QED
    BY <1>9, <2>2, <2>3 DEF InsertUser
<1>18. CASE InsertEvent(c)
  <2>1. Pending /\ users' = users
    BY <1>0, <1>18, Unsettled DEF InsertEvent, gateway, Writes
  <2>2. written'[c] # {}
    BY <1>18 DEF InsertEvent, Writes, TypeOK
  <2>. QED
    BY <1>1, <1>17, <2>1, <2>2
<1>19. CASE Commit(c)
  <2>1. Pending /\ Adds(c) /\ written'[c] = {} /\ Respond(c, "OK")
    BY <1>0, <1>19, Unsettled
       DEF Commit, CallOK, gateway, Apply, Adds, WorkOK, TypeOK
  <2>2. Ends("OK") /\ Atomic!Writes(c)
    BY <1>3, <2>1, CommitIsWrite DEF Code
  <2>. QED
    BY <1>2, <2>1, <2>2
<1>20. CASE Resolve(c)
  <2>1. /\ UNCHANGED <<req, svc, found, reply>> /\ written[c] # {}
        /\ written'[c] = {} /\ svc[c] \in {"replied", "gone"}
    BY <1>20 DEF Resolve, Apply, TypeOK, gateway
  <2>2. found[c] = NULL /\ reply[c] \in {NULL, "INTERNAL_ERROR"}
    BY <1>0, <2>1 DEF WorkOK
  <2>3. svc[c] = "gone" \/ reply[c] = "INTERNAL_ERROR"
    BY <1>0, <2>1, <2>2 DEF CallTypes
  <2>4. Ends("INTERNAL_ERROR")
    BY <2>1, <2>2, <2>3, NullAssumption DEF Outcome, Code
  <2>5. Pending
    BY <2>1, Unsettled DEF Outcome
  <2>6. Atomic!Writes(c) \/ UNCHANGED users
    BY <1>20, DatabaseStep, CommitIsWrite
  <2>. QED
    BY <1>2, <2>4, <2>5, <2>6
<1>21. CASE InvalidRequest(c)
  <2>1. Pending /\ UNCHANGED users /\ Ends("INVALID_REQUEST")
    BY <1>3, <1>16, <1>21, Unsettled DEF InvalidRequest, gateway, database, Code
  <2>. QED
    BY <1>2, <2>1
<1>10. CASE FindUser(c)
  <2>1. /\ Pending /\ UNCHANGED users /\ req[c].op = "login"
        /\ req[c].email \in Emails /\ req[c].password \in Passwords
    BY <1>10, Unsettled, RequestFields DEF FindUser, database, gateway
  <2>2. ASSUME NEW i \in Ids, users[i] # NULL, users[i].email = req[c].email,
               found' = [found EXCEPT ![c] = [id |-> i,
                                              password |-> users[i].password]],
               Goto(c, "verify"), UNCHANGED reply
        PROVE  Takes
    <3>1. users[i] = [email |-> req[c].email, password |-> users[i].password]
      BY <2>2 DEF TypeOK, User
    <3>2. Atomic!Accepts(req[c].email, req[c].password)
            <=> users[i].password = req[c].password
      <4>1. \A j \in Ids : users[j] = [email |-> req[c].email,
                                       password |-> req[c].password] => j = i
        BY <1>0, <2>1, <2>2, NullAssumption DEF EmailsUnique, User
      <4>. QED
        BY <2>2, <3>1, <4>1 DEF Atomic!Accepts
    <3>3. found'[c].password = users[i].password /\ found'[c] # NULL
      BY <1>0, <2>2 DEF TypeOK, CallTypes, Goto
    <3>4. reply'[c] = NULL /\ req' = req /\ written'[c] = {}
      BY <1>0, <1>10, <1>16, <2>2
         DEF FindUser, CallOK, Statement, gateway, database
    <3>5. Ends(IF users[i].password = req[c].password THEN "OK"
               ELSE "INVALID_CREDENTIALS")
      BY <3>3, <3>4 DEF Outcome
    <3>. QED
      BY <2>1, <3>2, <3>5
  <2>3. CASE ~Taken(req[c].email) /\ Respond(c, "INVALID_CREDENTIALS")
    <3>1. ~Atomic!Accepts(req[c].email, req[c].password)
      BY <2>1, <2>3, NullAssumption DEF Taken, User, Atomic!Accepts
    <3>2. Ends("INVALID_CREDENTIALS")
      BY <1>3, <1>10, <1>16, <2>3 DEF Code, FindUser, database
    <3>. QED
      BY <1>2, <2>1, <3>1, <3>2
  <2>. QED
    BY <1>2, <1>10, <2>1, <2>2, <2>3 DEF FindUser
<1>11. CASE Verify(c)
  <2>1. Stutters
    BY <1>0, <1>11, NullAssumption
       DEF Verify, Respond, Goto, CallOK, WorkOK, TypeOK, Outcome, database,
           gateway, Statement, Code
  <2>. QED
    BY <1>1, <2>1
<1>12. CASE ReadUser(c)
  <2>1. Pending /\ UNCHANGED users /\ req[c].op = "getUser"
    BY <1>0, <1>12, Unsettled DEF ReadUser, CallOK, database, gateway
  <2>2. Ends(IF users[req[c].id] = NULL THEN "USER_NOT_FOUND" ELSE "OK")
    BY <1>3, <1>12, <1>16 DEF ReadUser, Code, database
  <2>. QED
    BY <1>2, <2>1, <2>2
<1>13. CASE Update(c)
  <2>1. /\ Pending /\ req[c].op = "updateUser" /\ req[c].id \in Ids
        /\ svc[c] = "update" /\ written'[c] = {}
    BY <1>0, <1>13, <1>16, Unsettled, RequestFields
       DEF Update, CallOK, gateway, database
  <2>2. CASE /\ users[req[c].id] = NULL /\ Respond(c, "USER_NOT_FOUND")
             /\ UNCHANGED database
    BY <1>2, <1>3, <2>1, <2>2 DEF Code, database
  <2>3. CASE /\ users[req[c].id] # NULL /\ TakenByAnother(c)
             /\ Respond(c, "EMAIL_ALREADY_IN_USE") /\ UNCHANGED database
    <3>1. Atomic!Conflict(c)
      BY <1>0, <2>1, <2>3
         DEF TakenByAnother, EmailsUnique, Atomic!Conflict, Atomic!Taken
    <3>. QED
      BY <1>2, <1>3, <2>1, <2>3, <3>1 DEF Code, database
  <2>4. CASE MayWrite(c) /\ Write(c) /\ Respond(c, "OK")
    <3>1. Atomic!Writes(c)
      BY <2>1, <2>4, CommitIsWrite DEF Updates
    <3>. QED
      BY <1>2, <1>3, <2>1, <2>4, <3>1 DEF Code
  <2>. QED
    BY <1>13, <2>2, <2>3, <2>4 DEF Update
<1>14. CASE StatementFails(c)
  <2>1. /\ Pending /\ users' = users /\ Respond(c, "INTERNAL_ERROR")
    BY <1>14, Unsettled DEF StatementFails, Statement, gateway, Abandon
  <2>2. CASE written'[c] = {}
    BY <1>2, <1>3, <2>1, <2>2 DEF Code
  <2>3. CASE written'[c] # {}
    BY <1>1, <1>17, <2>1, <2>3
  <2>. QED
    BY <2>2, <2>3
<1>15. CASE Crash(c)
  <2>1. /\ users' = users /\ req' = req /\ found' = found /\ reply' = reply
        /\ svc'[c] = "gone"
    BY <1>15 DEF Crash, Abandon, Goto, gateway, TypeOK
  <2>2. CASE svc[c] \in {"verify", "replied"}
    <3>1. written'[c] = written[c]
      BY <1>15, <2>2 DEF Crash, Abandon
    <3>2. Stutters
      BY <1>0, <2>1, <2>2, <3>1 DEF CallTypes, Outcome
    <3>. QED
      BY <1>1, <3>2
  <2>3. CASE svc[c] \in Statement \ {"verify"} /\ written'[c] = {}
    <3>1. Pending /\ reply[c] = NULL /\ found[c] = NULL
      BY <1>0, <2>1, <2>3, Unsettled DEF Statement, CallOK
    <3>2. Ends("INTERNAL_ERROR")
      BY <2>1, <2>3, <3>1 DEF Outcome
    <3>. QED
      BY <1>2, <2>1, <3>1, <3>2
  <2>4. CASE svc[c] \in Statement \ {"verify"} /\ written'[c] # {}
    <3>1. Pending
      BY <2>1, <2>4, Unsettled DEF Statement
    <3>. QED
      BY <1>1, <1>17, <2>1, <2>4, <3>1
  <2>. QED
    BY <1>15, <2>2, <2>3, <2>4 DEF Crash
<1>. QED
  BY <1>4, <1>5, <1>6, <1>7, <1>8, <1>9, <1>10, <1>11, <1>12, <1>13, <1>14,
     <1>15, <1>18, <1>19, <1>20, <1>21 DEF Step, Gateway, Service

\* Whatever overlaps and whatever fails, the requests behave like requests
\* that each look at the accounts and change them in one step, at most once:
\* the password that a login compares late is that of the record it read.
THEOREM CallsActAtomically == Spec => ActsAtomically
<1>1. Init => Atomic!Init
  BY NullAssumption DEF Init, Atomic!Init, Outcome
<1>2. TypeInv /\ IndexInv /\ [Next]_vars => [Atomic!Next]_Atomic!vars
  <2>. SUFFICES ASSUME TypeOK, ControlInv, IndexInv, [Next]_vars
                PROVE  [Atomic!Next]_Atomic!vars
    BY DEF TypeInv
  <2>1. CASE UNCHANGED vars
    BY <2>1 DEF vars, Atomic!vars, Outcome
  <2>2. CASE Next
    <3>1. Atomic!Next \/ UNCHANGED <<users, req, Outcomes>>
      BY <2>2, AtomicStep DEF Next, Step
    <3>. QED
      BY <3>1 DEF Outcomes, Atomic!vars
  <2>. QED
    BY <2>1, <2>2
<1>. QED
  BY <1>1, <1>2, TypeInit, TypeStep, IndexInit, IndexStep, PTL
     DEF Spec, ActsAtomically, Atomic!Spec
=============================================================================
