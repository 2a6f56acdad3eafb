------------------------- MODULE MCServiceLifecycle ------------------------
(* ServiceLifecycle on small instances. *)
EXTENDS ServiceLifecycle

CONSTANTS k1, k2
=============================================================================
