------------------------------ MODULE RoleTable ------------------------------
(***************************************************************************)
(* What the organization service promises to its callers: the roles of the *)
(* members of one organization change by whole operations.  Nobody is      *)
(* enrolled twice or in an organization that is gone, nobody's role is     *)
(* changed who is no member, ownership is handed over in one step, and an  *)
(* organization that was dissolved stays so and keeps no member.           *)
(***************************************************************************)
CONSTANT Users
VARIABLES org, role

TableRoles == {"OWNER", "ADMIN", "MEMBER"}

IsMember(u) == role[u] # "NONE"

Init ==
    /\ org = "absent"
    /\ role = [u \in Users |-> "NONE"]

Found(u) ==
    /\ org = "absent" /\ org' = "live"
    /\ role' = [role EXCEPT ![u] = "OWNER"]

Enroll(u, ro) ==
    /\ org = "live" /\ ~IsMember(u)
    /\ role' = [role EXCEPT ![u] = ro]
    /\ UNCHANGED org

Assign(u, ro) ==
    /\ org = "live" /\ IsMember(u)
    /\ role' = [role EXCEPT ![u] = ro]
    /\ UNCHANGED org

Expel(u) ==
    /\ org = "live" /\ IsMember(u)
    /\ role' = [role EXCEPT ![u] = "NONE"]
    /\ UNCHANGED org

HandOver(from, to) ==
    /\ org = "live" /\ IsMember(from) /\ IsMember(to) /\ from # to
    /\ role' = [role EXCEPT ![to] = "OWNER", ![from] = "ADMIN"]
    /\ UNCHANGED org

Dissolve ==
    /\ org = "live" /\ org' = "deleted"
    /\ role' = [u \in Users |-> "NONE"]

Next ==
    \/ \E u \in Users : Found(u) \/ Expel(u)
    \/ \E u \in Users, ro \in TableRoles : Enroll(u, ro) \/ Assign(u, ro)
    \/ \E from, to \in Users : HandOver(from, to)
    \/ Dissolve

Spec == Init /\ [][Next]_<<org, role>>
=============================================================================
