-------------------------- MODULE MCEventPipeline --------------------------
(* EventPipeline on a small instance. *)
EXTENDS EventPipeline

CONSTANTS r1, r2
=============================================================================
