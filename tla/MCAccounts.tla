----------------------------- MODULE MCAccounts ------------------------------
(* Instances of Accounts for TLC. *)
EXTENDS Accounts, TLC

CONSTANTS e1, e2, n1, n2, p1, p2, r1, r2

Symmetry == Permutations(Emails) \cup Permutations(Names) \cup Permutations(Passwords) \cup Permutations(Requests)
=============================================================================
