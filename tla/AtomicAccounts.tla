--------------------------- MODULE AtomicAccounts ---------------------------
(* The accounts as their clients may think of them: each call takes effect *)
(* in one step, or fails in one step, and at most once.  Only a call that   *)
(* failed leaves open whether it changed anything.                          *)
EXTENDS FiniteSets

CONSTANTS Calls, Ids, NULL

VARIABLES
    users,      \* the user of each id, [email, password] or NULL
    req,        \* the request of each call, NULL before it is chosen
    outcome     \* what each call came to, or "none"

vars == <<users, req, outcome>>

Taken(email) == \E i \in Ids : users[i] # NULL /\ users[i].email = email
Accepts(email, password) ==
    \E i \in Ids : users[i] = [email |-> email, password |-> password]

New(old, value) == IF value = NULL THEN old ELSE value

Ends(c, result) == outcome' = [outcome EXCEPT ![c] = result]

\* The new table when c signs up, and when c updates.
WithUser(c) ==
    [users EXCEPT ![c] = [email |-> req[c].email, password |-> req[c].password]]
WithUpdate(c) ==
    [users EXCEPT ![req[c].id] = [email |-> New(@.email, req[c].email),
                                  password |-> New(@.password, req[c].password)]]

Conflict(c) ==
    /\ Taken(req[c].email)
    /\ req[c].op = "updateUser" => users[req[c].id].email # req[c].email

Writes(c) ==
    \/ req[c].op = "signUp" /\ ~Conflict(c) /\ users' = WithUser(c)
    \/ /\ req[c].op = "updateUser" /\ users[req[c].id] # NULL /\ ~Conflict(c)
       /\ users' = WithUpdate(c)

Succeeds(c) ==
    /\ Ends(c, "OK")
    /\ \/ Writes(c)
       \/ /\ req[c].op = "login" /\ Accepts(req[c].email, req[c].password)
          /\ UNCHANGED users
       \/ /\ req[c].op = "getUser" /\ users[req[c].id] # NULL
          /\ UNCHANGED users

Refused(c) ==
    /\ \/ /\ req[c].op = "signUp" /\ Conflict(c)
          /\ Ends(c, "EMAIL_ALREADY_IN_USE")
       \/ /\ req[c].op = "updateUser" /\ users[req[c].id] # NULL /\ Conflict(c)
          /\ Ends(c, "EMAIL_ALREADY_IN_USE")
       \/ /\ req[c].op = "login" /\ ~Accepts(req[c].email, req[c].password)
          /\ Ends(c, "INVALID_CREDENTIALS")
       \/ /\ req[c].op \in {"getUser", "updateUser"} /\ users[req[c].id] = NULL
          /\ Ends(c, "USER_NOT_FOUND")
       \/ Ends(c, "INVALID_REQUEST")
    /\ UNCHANGED users

Fails(c) == Ends(c, "INTERNAL_ERROR") /\ (Writes(c) \/ UNCHANGED users)

Choose(c) ==
    /\ req[c] = NULL
    /\ req' # req /\ \A d \in Calls \ {c} : req'[d] = req[d]
    /\ UNCHANGED <<users, outcome>>

Take(c) ==
    /\ req[c] # NULL /\ outcome[c] = "none"
    /\ Succeeds(c) \/ Refused(c) \/ Fails(c)
    /\ UNCHANGED req

Init ==
    /\ req = [c \in Calls |-> NULL]
    /\ outcome = [c \in Calls |-> "none"]

Next == \E c \in Calls : Choose(c) \/ Take(c)

Spec == Init /\ [][Next]_vars
=============================================================================
