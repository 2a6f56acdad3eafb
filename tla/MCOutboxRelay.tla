--------------------------- MODULE MCOutboxRelay ---------------------------
(* OutboxRelay on small instances. *)
EXTENDS OutboxRelay

CONSTANTS w1, w2

TwoEvents == {1, 2}
SecondAhead == [w \in Workers |-> IF w = w2 THEN 1 ELSE 0]
=============================================================================
