---------------------------- MODULE MCProjectTasks ----------------------------
(* Instances of ProjectTasks for TLC.  Users and requests are              *)
(* interchangeable: nothing in the specification orders or compares them.  *)
EXTENDS ProjectTasks, TLC

CONSTANTS u1, u2, p1, t1, r1, r2

Symmetry == Permutations(Users) \cup Permutations(Requests)
=============================================================================
