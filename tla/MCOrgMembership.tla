--------------------------- MODULE MCOrgMembership ---------------------------
(* Instances of OrgMembership for TLC. *)
EXTENDS OrgMembership, TLC

CONSTANTS u1, u2, r1, r2
=============================================================================
