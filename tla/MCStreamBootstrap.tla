------------------------- MODULE MCStreamBootstrap -------------------------
(* StreamBootstrap on small instances. *)
EXTENDS StreamBootstrap

CONSTANTS j1, j2, j3, created, deadLetter, old, new

\* Two builds, one of which lists the subjects both ways.
Builds == {[subjects |-> <<created, deadLetter>>, settings |-> new],
           [subjects |-> <<deadLetter, created>>, settings |-> new],
           [subjects |-> <<created, deadLetter>>, settings |-> old]}
=============================================================================
