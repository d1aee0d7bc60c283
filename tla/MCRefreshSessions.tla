-------------------------- MODULE MCRefreshSessions --------------------------
(* Instances of RefreshSessions for TLC. *)
EXTENDS RefreshSessions, TLC

CONSTANTS r1, r2, r3

Symmetry == Permutations(Requests)
=============================================================================
