------------------------- MODULE MCNotificationInbox -------------------------
(* Instances of NotificationInbox for TLC.  Notifications, dispatchers and *)
(* requests are interchangeable: only created_at orders the rows.          *)
EXTENDS NotificationInbox, TLC

CONSTANTS n1, n2, n3, d1, d2, r1, r2

Symmetry == Permutations(Notes) \cup Permutations(Dispatchers) \cup Permutations(Requests)
=============================================================================
