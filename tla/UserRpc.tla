------------------------------ MODULE UserRpc ------------------------------
(***************************************************************************)
(* The account calls of the HTTP API: the controllers and the RPC client   *)
(* of the gateway, NATS request/reply, and the handlers, UserService and   *)
(* UserRepository of the user service.                                     *)
(*                                                                         *)
(* A call is one HTTP request.  A step of it is one database statement,    *)
(* one message or one answer: what happens between two `await's.  The      *)
(* replicas of the user service share nothing but the database, so a call  *)
(* need not say which replica runs it.  The id of a user that signs up is  *)
(* a fresh UUID: the call itself.  Names, hashes and tokens are reduced to *)
(* what tells the outcomes apart.                                          *)
(*                                                                         *)
(* `users' and `events' hold what is committed.  What a call has written   *)
(* and not committed is in `written'; the database keeps others from the   *)
(* email of an uncommitted user until that transaction has ended.          *)
(***************************************************************************)
EXTENDS Naturals, FiniteSets

CONSTANTS
    Calls,          \* HTTP requests
    Registered,     \* ids of users that exist at the start
    Emails, Passwords,
    Requests,       \* the requests that clients make
    MaxFaults,      \* bound: database, transport and process failures
    NULL

Ids == Calls \cup Registered
User == [email : Emails, password : Passwords]

SignUp(e, p) == [op |-> "signUp", id |-> NULL, email |-> e, password |-> p]
Login(e, p) == [op |-> "login", id |-> NULL, email |-> e, password |-> p]
GetUser(i) == [op |-> "getUser", id |-> i, email |-> NULL, password |-> NULL]

\* An update names the fields it changes, one at least.
UpdateUser(i, e, p) == [op |-> "updateUser", id |-> i, email |-> e, password |-> p]

Request ==
    {SignUp(e, p) : e \in Emails, p \in Passwords}
    \cup {Login(e, p) : e \in Emails, p \in Passwords}
    \cup {GetUser(i) : i \in Ids}
    \cup {q \in {UpdateUser(i, e, p) : i \in Ids, e \in Emails \cup {NULL},
                                       p \in Passwords \cup {NULL}} :
            q.email # NULL \/ q.password # NULL}

Code == {"OK", "INVALID_REQUEST", "INVALID_CREDENTIALS", "USER_NOT_FOUND",
         "EMAIL_ALREADY_IN_USE", "INTERNAL_ERROR"}

\* What the database has not yet committed or rolled back for a call.
Work == {{}, {"user"}, {"user", "event"}, {"update"}}

\* What a login keeps of the user it has read.
Credentials == [id : Ids, password : Passwords]

ASSUME SetsAssumption ==
    /\ Calls \cap Registered = {}
    /\ Requests \subseteq Request
    /\ MaxFaults \in Nat
ASSUME NullAssumption ==
    /\ NULL \notin Ids \cup Emails \cup Passwords
    /\ NULL \notin User \cup Credentials \cup Requests \cup Code

VARIABLES
    users,      \* the users table
    events,     \* the users whose user.created event is in the outbox
    tokens,     \* the subjects of the access tokens handed out
    req,        \* the request of each call
    http,       \* "new", "waiting" for the RPC, "rejected" or the status
    svc,        \* where the user service is with each call
    written,    \* what the transaction of each call has written so far
    found,      \* the user that a login has read, with its id
    reply,      \* the code of the RPC response, or NULL
    faults

vars == <<users, events, written, tokens, req, http, svc, found, reply, faults>>

Statement == {"lookup", "insert", "outbox", "commit", "verify", "read", "update"}

TypeOK ==
    /\ users \in [Ids -> User \cup {NULL}]
    /\ events \subseteq Ids /\ tokens \subseteq Ids
    /\ req \in [Calls -> Requests \cup {NULL}]
    /\ http \in [Calls -> {"new", "waiting", "400", "401", "403", "404", "409",
                           "200", "201", "502", "503", "504"}]
    /\ svc \in [Calls -> Statement \cup {"idle", "queued", "replied", "gone"}]
    /\ written \in [Calls -> Work]
    /\ found \in [Calls -> Credentials \cup {NULL}]
    /\ reply \in [Calls -> Code \cup {NULL}]
    /\ \A c \in Calls : svc[c] = "verify" => found[c] # NULL
    /\ \A c \in Calls : svc[c] = "replied" => reply[c] # NULL
    /\ faults \in 0..MaxFaults

Init ==
    /\ users \in [Ids -> User \cup {NULL}]
    /\ {i \in Ids : users[i] # NULL} = Registered
    /\ \A i, j \in Registered : users[i].email = users[j].email => i = j
    /\ events = Registered
    /\ tokens = Registered
    /\ req = [c \in Calls |-> NULL]
    /\ http = [c \in Calls |-> "new"]
    /\ svc = [c \in Calls |-> "idle"]
    /\ written = [c \in Calls |-> {}]
    /\ found = [c \in Calls |-> NULL]
    /\ reply = [c \in Calls |-> NULL]
    /\ faults = 0

-----------------------------------------------------------------------------
Fault == faults < MaxFaults /\ faults' = faults + 1

database == <<users, events, written>>
gateway == <<tokens, req, http>>

Answer(c, status) == http' = [http EXCEPT ![c] = status]
Goto(c, label) == svc' = [svc EXCEPT ![c] = label]
Respond(c, code) == reply' = [reply EXCEPT ![c] = code] /\ Goto(c, "replied")

Taken(email) == \E i \in Ids : users[i] # NULL /\ users[i].email = email

\* Another transaction holds the email in the unique index: a statement that
\* needs it waits for the end of that transaction.
Locked(email, c) ==
    \E d \in Calls \ {c} : "user" \in written[d] /\ req[d].email = email

-----------------------------------------------------------------------------
(* The gateway                                                             *)

\* requireAuth and requireSelf; `subject' is that of the bearer token.
Rejection(q, subject) ==
    CASE q.op \in {"signUp", "login"} -> "none"
      [] OTHER -> IF subject = NULL THEN "401"
                  ELSE IF subject # q.id THEN "403" ELSE "none"

\* The controller passes the request on, or a middleware or requireSelf
\* answers it: 400 for a body or parameter outside the contract.
Receive(c) ==
    /\ http[c] = "new"
    /\ \E q \in Requests, subject \in tokens \cup {NULL} :
         /\ req' = [req EXCEPT ![c] = q]
         /\ IF Rejection(q, subject) = "none"
            THEN Answer(c, "waiting") /\ Goto(c, "queued")
            ELSE Answer(c, Rejection(q, subject)) /\ UNCHANGED svc
    /\ UNCHANGED <<database, tokens, found, reply, faults>>

Invalid(c) ==
    /\ http[c] = "new"
    /\ Answer(c, "400")
    /\ UNCHANGED <<database, tokens, req, svc, found, reply, faults>>

\* NATS finds no subscriber of the queue group: nobody gets the request.
NoResponders(c) ==
    /\ http[c] = "waiting" /\ svc[c] = "queued"
    /\ Fault
    /\ Answer(c, "503") /\ Goto(c, "gone")
    /\ UNCHANGED <<database, tokens, req, found, reply>>

\* The user service may still execute what the client gave up.
Timeout(c) ==
    /\ http[c] = "waiting"
    /\ Answer(c, "504")
    /\ UNCHANGED <<database, tokens, req, svc, found, reply, faults>>

TransportError(c) ==
    /\ http[c] = "waiting"
    /\ Fault
    /\ Answer(c, "503")
    /\ UNCHANGED <<database, tokens, req, svc, found, reply>>

\* The status of a response that came in time: the controllers, toAppError.
StatusOf(c) ==
    CASE reply[c] = "OK" -> IF req[c].op = "signUp" THEN "201" ELSE "200"
      [] reply[c] = "INVALID_REQUEST" -> "400"
      [] reply[c] = "INVALID_CREDENTIALS" -> "401"
      [] reply[c] = "USER_NOT_FOUND" -> "404"
      [] reply[c] = "EMAIL_ALREADY_IN_USE" -> "409"
      [] reply[c] = "INTERNAL_ERROR" -> "502"

\* A successful login is answered with a token for the user it found.
ReplyArrives(c) ==
    /\ http[c] = "waiting" /\ svc[c] = "replied"
    /\ Answer(c, StatusOf(c))
    /\ tokens' = IF req[c].op = "login" /\ reply[c] = "OK"
                 THEN tokens \cup {found[c].id} ELSE tokens
    /\ UNCHANGED <<database, req, svc, found, reply, faults>>

\* The reply of another build does not match the gateway's contracts.
InvalidResponse(c) ==
    /\ http[c] = "waiting" /\ svc[c] = "replied"
    /\ Answer(c, "502")
    /\ UNCHANGED <<database, tokens, req, svc, found, reply, faults>>

-----------------------------------------------------------------------------
(* The user service                                                        *)

FirstStatement(op) ==
    CASE op \in {"signUp", "login"} -> "lookup"
      [] op = "getUser" -> "read"
      [] op = "updateUser" -> "update"

Handle(c) ==
    /\ svc[c] = "queued"
    /\ Goto(c, FirstStatement(req[c].op))
    /\ UNCHANGED <<database, gateway, found, reply, faults>>

\* The request of another build does not match the service's contracts.
InvalidRequest(c) ==
    /\ svc[c] = "queued"
    /\ Respond(c, "INVALID_REQUEST")
    /\ UNCHANGED <<database, gateway, found, faults>>

\* signUp, up to the hash of the password.
FindEmail(c) ==
    /\ svc[c] = "lookup" /\ req[c].op = "signUp"
    /\ \/ Taken(req[c].email) /\ Respond(c, "EMAIL_ALREADY_IN_USE")
       \/ ~Taken(req[c].email) /\ Goto(c, "insert") /\ UNCHANGED reply
    /\ UNCHANGED <<database, gateway, found, faults>>

Writes(c, work) ==
    /\ written' = [written EXCEPT ![c] = work]
    /\ UNCHANGED <<users, events>>

\* Mutant: the lookup is trusted and no unique index repeats it.
InsertUser_NoUniqueIndex(c) ==
    /\ svc[c] = "insert"
    /\ Writes(c, {"user"}) /\ Goto(c, "outbox") /\ UNCHANGED reply
    /\ UNCHANGED <<gateway, found, faults>>

\* Mutant: the user is created by `this.database' and not by `transaction'.
InsertUser_OwnTransaction(c) ==
    /\ svc[c] = "insert" /\ ~Locked(req[c].email, c)
    /\ \/ /\ Taken(req[c].email)
          /\ Respond(c, "EMAIL_ALREADY_IN_USE") /\ UNCHANGED database
       \/ /\ ~Taken(req[c].email)
          /\ users' = [users EXCEPT ![c] = [email |-> req[c].email,
                                            password |-> req[c].password]]
          /\ Goto(c, "outbox") /\ UNCHANGED <<events, written, reply>>
    /\ UNCHANGED <<gateway, found, faults>>

\* createUser: a transaction of three statements.  The first one inserts the
\* user; the unique index decides between sign-ups that passed the lookup.
InsertUser(c) ==
    /\ svc[c] = "insert" /\ ~Locked(req[c].email, c)
    /\ \/ /\ Taken(req[c].email)
          /\ Respond(c, "EMAIL_ALREADY_IN_USE") /\ UNCHANGED database
       \/ /\ ~Taken(req[c].email)
          /\ Writes(c, {"user"}) /\ Goto(c, "outbox") /\ UNCHANGED reply
    /\ UNCHANGED <<gateway, found, faults>>

InsertEvent(c) ==
    /\ svc[c] = "outbox"
    /\ Writes(c, written[c] \cup {"event"}) /\ Goto(c, "commit")
    /\ UNCHANGED <<gateway, found, reply, faults>>

\* Whatever the transaction has written becomes visible at once.
Apply(c) ==
    /\ users' = IF "user" \in written[c]
                THEN [users EXCEPT ![c] = [email |-> req[c].email,
                                           password |-> req[c].password]]
                ELSE users
    /\ events' = IF "event" \in written[c] THEN events \cup {c} ELSE events
    /\ written' = [written EXCEPT ![c] = {}]

Commit(c) ==
    /\ svc[c] = "commit"
    /\ Apply(c) /\ Respond(c, "OK")
    /\ UNCHANGED <<gateway, found, faults>>

\* Mutant: login does not look whether there is such a user.
FindUser_Unchecked(c) ==
    /\ svc[c] = "lookup" /\ req[c].op = "login"
    /\ \/ \E i \in Ids :
            /\ users[i] # NULL /\ users[i].email = req[c].email
            /\ found' = [found EXCEPT ![c] = [id |-> i,
                                              password |-> users[i].password]]
       \/ ~Taken(req[c].email) /\ UNCHANGED found
    /\ Goto(c, "verify")
    /\ UNCHANGED <<database, gateway, reply, faults>>

\* login, up to the comparison of the hash.
FindUser(c) ==
    /\ svc[c] = "lookup" /\ req[c].op = "login"
    /\ \/ \E i \in Ids :
            /\ users[i] # NULL /\ users[i].email = req[c].email
            /\ found' = [found EXCEPT ![c] = [id |-> i,
                                              password |-> users[i].password]]
            /\ Goto(c, "verify") /\ UNCHANGED reply
       \/ /\ ~Taken(req[c].email)
          /\ Respond(c, "INVALID_CREDENTIALS") /\ UNCHANGED found
    /\ UNCHANGED <<database, gateway, faults>>

Verify(c) ==
    /\ svc[c] = "verify"
    /\ Respond(c, IF found[c].password = req[c].password THEN "OK"
                  ELSE "INVALID_CREDENTIALS")
    /\ UNCHANGED <<database, gateway, found, faults>>

ReadUser(c) ==
    /\ svc[c] = "read"
    /\ Respond(c, IF users[req[c].id] = NULL THEN "USER_NOT_FOUND" ELSE "OK")
    /\ UNCHANGED <<database, gateway, found, faults>>

OrOld(value, old) == IF value = NULL THEN old ELSE value

\* The email that an update asks for belongs to another user.
TakenByAnother(c) ==
    \E i \in Ids \ {req[c].id} : users[i] # NULL /\ users[i].email = req[c].email

MayWrite(c) ==
    users[req[c].id] # NULL /\ ~TakenByAnother(c) /\ ~Locked(req[c].email, c)

Write(c) ==
    /\ users' = [users EXCEPT ![req[c].id] =
                   [email |-> OrOld(req[c].email, @.email),
                    password |-> OrOld(req[c].password, @.password)]]
    /\ UNCHANGED events

\* One statement, which is its own transaction.
Update(c) ==
    /\ svc[c] = "update"
    /\ \/ /\ users[req[c].id] = NULL
          /\ Respond(c, "USER_NOT_FOUND") /\ UNCHANGED database
       \/ /\ users[req[c].id] # NULL /\ TakenByAnother(c)
          /\ Respond(c, "EMAIL_ALREADY_IN_USE") /\ UNCHANGED database
       \/ MayWrite(c) /\ Write(c) /\ Respond(c, "OK") /\ UNCHANGED written
    /\ UNCHANGED <<gateway, found, faults>>

\* The end of a statement is not heard of: an open transaction stays as it
\* is, and an update may still be under way.
Abandon(c) ==
    /\ written' = IF svc[c] = "update" THEN [written EXCEPT ![c] = {"update"}]
                  ELSE written
    /\ UNCHANGED <<users, events>>

\* Mutant: every error of createUser is taken for the unique email.
StatementFails_AsConflict(c) ==
    /\ svc[c] \in Statement \ {"verify"}
    /\ Fault
    /\ Abandon(c)
    /\ Respond(c, IF svc[c] \in {"insert", "outbox", "commit"}
                  THEN "EMAIL_ALREADY_IN_USE" ELSE "INTERNAL_ERROR")
    /\ UNCHANGED <<gateway, found>>

\* Mutant: a statement that failed is tried once more.
StatementFails_Retries(c) ==
    /\ svc[c] \in Statement \ {"verify"}
    /\ Fault
    /\ Abandon(c)
    /\ UNCHANGED <<gateway, svc, found, reply>>

\* A statement fails, its reply is lost or the transaction takes too long.
StatementFails(c) ==
    /\ svc[c] \in Statement \ {"verify"}
    /\ Fault
    /\ Abandon(c)
    /\ Respond(c, "INTERNAL_ERROR")
    /\ UNCHANGED <<gateway, found>>

\* The replica dies, or disconnects before it has answered.
Crash(c) ==
    /\ svc[c] \in Statement \cup {"replied"}
    /\ Fault
    /\ Abandon(c)
    /\ Goto(c, "gone")
    /\ UNCHANGED <<gateway, found, reply>>

\* The database rolls back what was abandoned, unless the COMMIT or the
\* update had reached it: with the event written, COMMIT was the next
\* statement.
Resolve(c) ==
    /\ svc[c] \in {"replied", "gone"} /\ written[c] # {}
    /\ \/ written' = [written EXCEPT ![c] = {}] /\ UNCHANGED <<users, events>>
       \/ "event" \in written[c] /\ Apply(c)
       \/ /\ "update" \in written[c] /\ MayWrite(c)
          /\ Write(c) /\ written' = [written EXCEPT ![c] = {}]
    /\ UNCHANGED <<gateway, svc, found, reply, faults>>

-----------------------------------------------------------------------------
Gateway(c) ==
    \/ Receive(c) \/ Invalid(c) \/ NoResponders(c) \/ Timeout(c)
    \/ TransportError(c) \/ ReplyArrives(c) \/ InvalidResponse(c)

Service(c) ==
    \/ Handle(c) \/ InvalidRequest(c) \/ FindEmail(c) \/ InsertUser(c)
    \/ InsertEvent(c) \/ Commit(c) \/ FindUser(c) \/ Verify(c) \/ ReadUser(c)
    \/ Update(c) \/ StatementFails(c) \/ Crash(c)

Next == \E c \in Calls : Gateway(c) \/ Service(c) \/ Resolve(c)

Spec == Init /\ [][Next]_vars

-----------------------------------------------------------------------------
(* What the account calls must guarantee                                   *)

\* 201 means that the user and its event exist, and every answer that blames
\* the client means that they do not and never will: only 5xx is open.
SignUpAnswerIsTrue ==
    \A c \in Calls :
        /\ http[c] = "201" => users[c] # NULL /\ c \in events
        /\ http[c] \in {"400", "401", "403", "404", "409"} =>
               users[c] = NULL /\ c \notin events

\* At every moment the tables show a user exactly when they show its event:
\* whatever dies or fails between the two inserts, before the commit or while
\* it is under way, nobody finds half of a sign-up.
UserIffEvent == \A i \in Ids : users[i] # NULL <=> i \in events

\* No two users share an email, whatever sign-ups and updates race for it.
EmailsUnique ==
    \A i, j \in Ids :
        users[i] # NULL /\ users[j] # NULL /\ users[i].email = users[j].email
            => i = j

\* What a call comes to is settled by one statement: a login by the record it
\* reads, although it compares the password later, and a call whose writes
\* were abandoned when the database resolves them.
Outcome(c) ==
    IF written[c] # {} THEN "none"
    ELSE IF reply[c] # NULL THEN reply[c]
    ELSE IF found[c] # NULL
         THEN IF found[c].password = req[c].password THEN "OK"
              ELSE "INVALID_CREDENTIALS"
    ELSE IF svc[c] = "gone" THEN "INTERNAL_ERROR" ELSE "none"

Atomic == INSTANCE AtomicAccounts WITH outcome <- [c \in Calls |-> Outcome(c)]

\* Concurrent calls, on any replicas and with any failures, behave like calls
\* that each take effect in one step and at most once.
ActsAtomically == Atomic!Spec
=============================================================================
