------------------------------ MODULE MCInvites ------------------------------
(* Instances of Invites for TLC. *)
EXTENDS Invites, TLC

CONSTANTS o1, o2, u1, u2, r1, r2

Symmetry == Permutations(Orgs) \cup Permutations(Users) \cup Permutations(Requests)
=============================================================================
