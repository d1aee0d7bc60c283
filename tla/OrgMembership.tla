---------------------------- MODULE OrgMembership ----------------------------
(***************************************************************************)
(* The members of one organization and the requests that change them       *)
(* (src/app/modules/organizations/service.py, repository.py, models.py).   *)
(* Every statement of these handlers is keyed by org_id, so one            *)
(* organization stands for all of them.                                    *)
(*                                                                         *)
(* A request is a coroutine with a database session of its own.  Other     *)
(* requests run at each of its awaits, so it takes one step per SQL        *)
(* statement; the database runs at READ COMMITTED.  A statement sees what  *)
(* is committed when it runs, a row a request wrote stays locked until it  *)
(* ends, and what it wrote is seen by others from its commit on.           *)
(* A request that is refused before it writes leaves no trace: its         *)
(* refusal at the first statement is a stuttering step, later ones Finish. *)
(*                                                                         *)
(* A few operators stand before one they are a slip of (CanGrantAnything,  *)
(* NeverHeld, ...): no action uses them.  Put in its place they show that  *)
(* a property notices the slip.                                            *)
(***************************************************************************)
EXTENDS Naturals, FiniteSets

CONSTANTS
    Users,      \* accounts
    Requests,   \* requests the server handles at the same time
    NoOne       \* holder of a lock that is free

ASSUME UsersAssumption == IsFiniteSet(Users)
ASSUME RequestsAssumption == NoOne \notin Requests

ALLOWED_ROLES == {"OWNER", "ADMIN", "MEMBER"}

\* The role of a request body is a plain string: one more that is no OrgRole.
RoleInputs == ALLOWED_ROLES \cup {"OTHER"}

\* "NONE": the table has no row for the user.
Roles == ALLOWED_ROLES \cup {"NONE"}

Inserts == {"add", "join"}
RowWrites == {"change", "remove", "transfer"}
Ops == Inserts \cup RowWrites \cup {"delete"}

(* by: requester; seen: the requester's role when it was read; user, role: *)
(* the member the request is about and the role it is to have.             *)
Request == [op : Ops, by : Users, seen : Roles, user : Users, role : Roles]
NoRequest == [op |-> "none"]

Phases == {"idle", "check", "count", "write", "demote", "cascade", "commit"}

VARIABLES
    org,          \* the organization's row, as committed
    role,         \* the members' rows, as committed
    lock,         \* which request holds the lock of the (org, user) row
    pc,           \* the statement each request runs next
    req,          \* what each request was asked, and what it has read
    undisturbed   \* history: nobody else committed since its first statement

vars == <<org, role, lock, pc, req, undisturbed>>

TypeOK ==
    /\ org \in {"absent", "live", "deleted"}
    /\ role \in [Users -> Roles]
    /\ lock \in [Users -> Requests \cup {NoOne}]
    /\ pc \in [Requests -> Phases]
    /\ req \in [Requests -> Request \cup {NoRequest}]
    /\ undisturbed \in [Requests -> BOOLEAN]
    /\ \A r \in Requests : pc[r] # "idle" => req[r] \in Request

Init ==
    /\ org = "absent"
    /\ role = [u \in Users |-> "NONE"]
    /\ lock = [u \in Users |-> NoOne]
    /\ pc = [r \in Requests |-> "idle"]
    /\ req = [r \in Requests |-> NoRequest]
    /\ undisturbed = [r \in Requests |-> FALSE]

Owners == {u \in Users : role[u] = "OWNER"}

-----------------------------------------------------------------------------
(* Beginning and ending a request *)

Begin(r, phase, q) ==
    /\ pc[r] = "idle"
    /\ pc' = [pc EXCEPT ![r] = phase]
    /\ req' = [req EXCEPT ![r] = q]
    /\ undisturbed' = [undisturbed EXCEPT ![r] = TRUE]
    /\ UNCHANGED <<org, role, lock>>

Goto(r, phase) ==
    /\ pc' = [pc EXCEPT ![r] = phase]
    /\ UNCHANGED <<org, role, req, undisturbed>>

EndTransactionKeepLocks(r) ==
    /\ pc' = [pc EXCEPT ![r] = "idle"]
    /\ req' = [req EXCEPT ![r] = NoRequest]
    /\ lock' = lock

(* The session is closed: the transaction is over and its locks are free. *)
EndTransaction(r) ==
    /\ pc' = [pc EXCEPT ![r] = "idle"]
    /\ req' = [req EXCEPT ![r] = NoRequest]
    /\ lock' = [u \in Users |-> IF lock[u] = r THEN NoOne ELSE lock[u]]

(* An HTTPException or a database error: nothing was committed. *)
Finish(r) ==
    /\ EndTransaction(r)
    /\ UNCHANGED <<org, role, undisturbed>>

-----------------------------------------------------------------------------
(* The first statement of each handler, and the checks before its second *)

CreateOrganization(u) ==
    /\ org = "absent"
    /\ org' = "live"
    /\ role' = [role EXCEPT ![u] = "OWNER"]
    /\ UNCHANGED <<lock, pc, req, undisturbed>>

RequireRole(u, allowed) == role[u] \in allowed

CanGrantAnything(seen, ro) == TRUE

CanGrant(seen, ro) == ro = "OWNER" => seen = "OWNER"

AcceptAnyRole(ro) == TRUE

KnownRole(ro) == ro \in ALLOWED_ROLES

AddMember(r, by, u, ro) ==
    /\ RequireRole(by, {"OWNER", "ADMIN"})
    /\ KnownRole(ro)
    /\ CanGrant(role[by], ro)
    /\ Begin(r, "check", [op |-> "add", by |-> by, seen |-> role[by], user |-> u, role |-> ro])

ChangeRole(r, by, u, ro) ==
    /\ RequireRole(by, {"OWNER"})
    /\ KnownRole(ro)
    /\ Begin(r, "check", [op |-> "change", by |-> by, seen |-> role[by], user |-> u, role |-> ro])

RemoveMember(r, by, u) ==
    /\ RequireRole(by, {"OWNER", "ADMIN"})
    /\ Begin(r, "check", [op |-> "remove", by |-> by, seen |-> role[by], user |-> u, role |-> "NONE"])

TransferOwnership(r, by, u) ==
    /\ RequireRole(by, {"OWNER"})
    /\ by # u
    /\ Begin(r, "check", [op |-> "transfer", by |-> by, seen |-> role[by], user |-> u, role |-> "OWNER"])

DeleteOrganization(r, by) ==
    /\ RequireRole(by, {"OWNER"})
    /\ Begin(r, "write", [op |-> "delete", by |-> by, seen |-> role[by], user |-> by, role |-> "NONE"])

(* The invite is deleted between the member check and the insert; module   *)
(* Invites has that part.  An invite outlives its organization, and its    *)
(* role was checked when it was created.                                   *)
JoinByInvite(r, u, ro) ==
    /\ org # "absent"
    /\ role[u] = "NONE"
    /\ Begin(r, "write", [op |-> "join", by |-> u, seen |-> "NONE", user |-> u, role |-> ro])

-----------------------------------------------------------------------------
(* The read of the member the request is about *)

(* remove_member still holds the requester's row object when it reads that *)
(* row again: the session's identity map hands back the old attributes.    *)
TargetRole(q) ==
    IF q.op = "remove" /\ q.user = q.by /\ role[q.user] # "NONE"
        THEN q.seen
        ELSE role[q.user]

AcceptsOwner(q, t) ==
    \/ q.op = "add" /\ t = "NONE"
    \/ q.op \in {"change", "transfer"} /\ t # "NONE"
    \/ q.op = "remove" /\ t # "NONE" /\ (t = "OWNER" => q.seen = "OWNER")

AcceptsTarget(q, t) ==
    \/ q.op = "add" /\ t = "NONE"
    \/ q.op = "change" /\ t # "NONE"
    \/ q.op = "remove" /\ t # "NONE" /\ (t = "OWNER" => q.seen = "OWNER")
    \/ q.op = "transfer" /\ t \notin {"NONE", "OWNER"}

(* The change that _count_owners guards. *)
TakesOwner(q, t) ==
    q.op \in {"change", "remove"} /\ t = "OWNER" /\ q.role # "OWNER"

ReadTarget(r) ==
    /\ pc[r] = "check"
    /\ LET t == TargetRole(req[r]) IN
        \/ /\ ~AcceptsTarget(req[r], t)
           /\ Finish(r)
        \/ /\ AcceptsTarget(req[r], t)
           /\ Goto(r, IF TakesOwner(req[r], t) THEN "count" ELSE "write")
           /\ UNCHANGED lock

LeavesSomeOwner == Cardinality(Owners) >= 1

LeavesAnOwner == Cardinality(Owners) > 1

CountOwners(r) ==
    /\ pc[r] = "count"
    /\ \/ ~LeavesAnOwner /\ Finish(r)
       \/ LeavesAnOwner /\ Goto(r, "write") /\ UNCHANGED lock

-----------------------------------------------------------------------------
(* The statements that write *)

TakeAnyway(r, u) == lock' = [lock EXCEPT ![u] = r]

Acquire(r, u) == lock[u] = NoOne /\ lock' = [lock EXCEPT ![u] = r]

(* update_role and remove_member of the repository: rowcount 0 when there  *)
(* is no such row, otherwise the statement waits until it holds the row.   *)
WriteRow(r) ==
    /\ pc[r] = "write" /\ req[r].op \in RowWrites
    /\ \/ role[req[r].user] = "NONE" /\ Finish(r)
       \/ /\ role[req[r].user] # "NONE"
          /\ Acquire(r, req[r].user)
          /\ Goto(r, IF req[r].op = "transfer" THEN "demote" ELSE "commit")

DemoteRequester(r) ==
    /\ pc[r] = "demote"
    /\ \/ role[req[r].by] = "NONE" /\ Finish(r)
       \/ /\ role[req[r].by] # "NONE"
          /\ Acquire(r, req[r].by)
          /\ Goto(r, "commit")

Inserting(r) == pc[r] = "commit" /\ req[r].op \in Inserts
Deleting(r) == pc[r] \in {"cascade", "commit"} /\ req[r].op = "delete"

NeverHeld == FALSE

(* A DELETE of the organization's row holds off the inserts that refer to  *)
(* it, and waits for those already made (the foreign key's row lock).      *)
HeldByDelete == \E d \in Requests : Deleting(d)
HeldByInsert == \E i \in Requests : Inserting(i)

(* An insert waits for an unfinished write of the same unique key.         *)
InsertRow(r) ==
    /\ pc[r] = "write" /\ req[r].op \in Inserts
    /\ ~HeldByDelete
    /\ \/ (org # "live" \/ role[req[r].user] # "NONE") /\ lock[req[r].user] = NoOne /\ Finish(r)
       \/ /\ org = "live" /\ role[req[r].user] = "NONE"
          /\ Acquire(r, req[r].user)
          /\ Goto(r, "commit")

DeleteOrgRow(r) ==
    /\ pc[r] = "write" /\ req[r].op = "delete"
    /\ ~HeldByDelete /\ ~HeldByInsert
    /\ \/ org # "live" /\ Finish(r)
       \/ org = "live" /\ Goto(r, "cascade") /\ UNCHANGED lock

(* ON DELETE CASCADE removes the member rows one after the other. *)
CascadeRow(r) ==
    /\ pc[r] = "cascade"
    /\ \E u \in Users : role[u] # "NONE" /\ Acquire(r, u)
    /\ Goto(r, "cascade")

CascadeEnds(r) ==
    /\ pc[r] = "cascade"
    /\ \A u \in Users : role[u] # "NONE" => lock[u] = r
    /\ Goto(r, "commit")
    /\ UNCHANGED lock

-----------------------------------------------------------------------------
(* Commit, and the ways a transaction is rolled back from outside *)

Written(q) ==
    [u \in Users |->
        IF q.op = "delete" THEN "NONE"
        ELSE IF u = q.user THEN q.role
        ELSE IF q.op = "transfer" /\ u = q.by THEN "ADMIN"
        ELSE role[u]]

Commit(r) ==
    /\ pc[r] = "commit"
    /\ role' = Written(req[r])
    /\ org' = IF req[r].op = "delete" THEN "deleted" ELSE org
    /\ undisturbed' = [s \in Requests |-> s = r /\ undisturbed[s]]
    /\ EndTransaction(r)

(* The client goes away, the process or the connection dies. *)
Abort(r) == pc[r] # "idle" /\ Finish(r)

(* The requests that hold what the next statement of r waits for. *)
Blockers(r) ==
    LET holders(S) == {lock[u] : u \in S} \ {NoOne, r}
        target == {req[r].user}
    IN  CASE pc[r] = "write" /\ req[r].op \in RowWrites -> holders(target)
          [] pc[r] = "write" /\ req[r].op \in Inserts ->
                 holders(target) \cup {d \in Requests : Deleting(d)}
          [] pc[r] = "write" /\ req[r].op = "delete" ->
                 {s \in Requests : Deleting(s) \/ Inserting(s)}
          [] pc[r] = "demote" -> holders({req[r].by})
          [] pc[r] = "cascade" -> holders({u \in Users : role[u] # "NONE"})
          [] OTHER -> {}

(* The database ends one request of a cycle of waiting ones. *)
DeadlockVictim ==
    \E S \in SUBSET Requests : \E r \in S :
        /\ \A s \in S : Blockers(s) \cap S # {}
        /\ Abort(r)

-----------------------------------------------------------------------------
Statement(r) ==
    \/ ReadTarget(r)
    \/ CountOwners(r)
    \/ WriteRow(r)
    \/ DemoteRequester(r)
    \/ InsertRow(r)
    \/ DeleteOrgRow(r)
    \/ CascadeRow(r)
    \/ CascadeEnds(r)
    \/ Commit(r)

Next ==
    \/ \E u \in Users : CreateOrganization(u)
    \/ \E r \in Requests, by, u \in Users, ro \in RoleInputs :
        \/ AddMember(r, by, u, ro)
        \/ ChangeRole(r, by, u, ro)
    \/ \E r \in Requests, by, u \in Users :
        \/ RemoveMember(r, by, u)
        \/ TransferOwnership(r, by, u)
    \/ \E r \in Requests, by \in Users : DeleteOrganization(r, by)
    \/ \E r \in Requests, u \in Users, ro \in ALLOWED_ROLES : JoinByInvite(r, u, ro)
    \/ \E r \in Requests : Statement(r)
    \/ \E r \in Requests : Abort(r)
    \/ DeadlockVictim

(* Nobody has to send a request.  A request that was sent goes on; a       *)
(* statement that waits for a row gets it in its turn, since the database  *)
(* queues the waiters of a row: strong fairness.  The deadlock detector    *)
(* runs whenever a waiter has waited for its timeout.                      *)
Fairness ==
    /\ \A r \in Requests : SF_vars(Statement(r))
    /\ WF_vars(DeadlockVictim)

Spec == Init /\ [][Next]_vars /\ Fairness

-----------------------------------------------------------------------------
(* Properties *)

(* Member rows exist only while their organization does: no interleaving   *)
(* of joins and adds with a delete leaves an orphaned row, the promise of  *)
(* the foreign key of OrgMember (models.py:47-51).                         *)
MembersNeedOrg == org # "live" => \A u \in Users : role[u] = "NONE"

(* A request during which nobody else committed does not take the last     *)
(* owner away: the counts of change_role and remove_member, and the two    *)
(* updates of transfer_ownership, are enough for one request on its own.   *)
UndisturbedKeepsOwner ==
    [][\A r \in Requests :
          Commit(r) /\ undisturbed[r] /\ Owners # {} /\ org' = "live" => Owners' # {}]_vars

(* A request during which nobody else committed changes members only if    *)
(* its requester may at that very moment: an OWNER or ADMIN, and an OWNER  *)
(* if it changes who is an owner (require_role and the checks after it).   *)
UndisturbedAuthority ==
    [][\A r \in Requests :
          Commit(r) /\ undisturbed[r] /\ req[r].op # "join" =>
              /\ role[req[r].by] \in {"OWNER", "ADMIN"}
              /\ Owners' # Owners => role[req[r].by] = "OWNER"]_vars

(* Requests wait for each other in a circle only around a transfer that    *)
(* has the new owner's row and waits for its requester's: against the      *)
(* cascade of a deletion, or if somebody committed since it began.  Of two *)
(* transfers on their own one is refused (service.py:255): a requester is  *)
(* an OWNER, a target is not.  The one that fails ends in a database error *)
(* that no handler expects.                                                *)
DeadlocksNeedTransfer ==
    \A S \in SUBSET Requests :
        S # {} /\ (\A r \in S : Blockers(r) \cap S # {}) =>
            \E r \in S : pc[r] = "demote" /\ (~undisturbed[r] \/ \E s \in S : pc[s] = "cascade")

(* A live organization always has an owner: what the refusals "Cannot      *)
(* demote the last owner" and "Cannot remove the last owner" stand for     *)
(* (service.py:131, 155).  It does not hold when requests overlap.         *)
OrgHasOwner == org = "live" => Owners # {}

(* Every request that was accepted ends: no lock order of updates,         *)
(* inserts, transfers and cascades leaves one waiting for ever.            *)
EveryRequestEnds == \A r \in Requests : pc[r] # "idle" ~> pc[r] = "idle"

(* What the members see is a table of roles that changes by whole          *)
(* operations: see RoleTable.                                              *)
Table == INSTANCE RoleTable
IsRoleTable == Table!Spec
=============================================================================
