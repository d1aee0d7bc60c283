------------------------- MODULE MCNotificationOutbox -------------------------
(* Instances of NotificationOutbox for TLC. *)
EXTENDS NotificationOutbox

CONSTANTS t1, t2, u1, u2, w1, w2
=============================================================================
