------------------------- MODULE MCDurableConsumer -------------------------
(* DurableConsumer on small instances. *)
EXTENDS DurableConsumer

LOCAL INSTANCE TLC

CONSTANTS r1, r2, good, again, broken, failing, ada

\* `again' is a second copy of the event `good', the sign-up of ada.
Republished == [m \in Messages |-> IF m \in {good, again} THEN ada ELSE m]
Copies == Permutations({good, again})

Two == [r \in Replicas |-> 2]

\* A rolling change of the configuration: r2 expects one delivery more.
TwoThree == [r \in Replicas |-> IF r = r2 THEN 3 ELSE 2]
=============================================================================
