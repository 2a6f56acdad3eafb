----------------------------- MODULE MCUserRpc -----------------------------
(* UserRpc on small instances. *)
EXTENDS UserRpc, TLC

CONSTANTS c1, c2, c3, u1, ada, bob, old, fresh

\* Sign-ups and an update that race for bob's address while u1 changes its
\* password and logs in with the old one; with bob's token the requests about
\* u1 are those of a stranger.
Contended ==
    {SignUp(bob, old), Login(ada, old), Login(bob, old),
     UpdateUser(u1, bob, NULL), UpdateUser(u1, NULL, fresh), GetUser(u1)}

\* No request names a call: they are all alike.
Similar == Permutations(Calls)
=============================================================================
