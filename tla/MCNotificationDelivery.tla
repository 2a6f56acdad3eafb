----------------------- MODULE MCNotificationDelivery -----------------------
(* NotificationDelivery on small instances. *)
EXTENDS NotificationDelivery

CONSTANTS c1, c2, c3

\* The clock of the replica that runs c1 is behind.
OthersAhead == [c \in Calls |-> IF c = c1 THEN 0 ELSE 1]
=============================================================================
