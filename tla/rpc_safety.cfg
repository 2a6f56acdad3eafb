SPECIFICATION Spec
CONSTANTS
    c1 = c1
    c2 = c2
    c3 = c3
    u1 = u1
    ada = ada
    bob = bob
    old = old
    fresh = fresh
    NULL = NULL
    Calls = {c1, c2, c3}
    Registered = {u1}
    Emails = {ada, bob}
    Passwords = {old, fresh}
    Requests <- Contended
    MaxFaults = 1
SYMMETRY Similar
INVARIANTS
    TypeOK
    SignUpAnswerIsTrue
    UserIffEvent
    EmailsUnique
PROPERTY
    ActsAtomically
CHECK_DEADLOCK FALSE
