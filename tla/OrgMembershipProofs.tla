------------------------- MODULE OrgMembershipProofs -------------------------
(***************************************************************************)
(* Proofs about OrgMembership, for any set of users and of requests.       *)
(*                                                                         *)
(* The inductive invariant has three parts.  LockInv says which row locks  *)
(* a request holds when it is about to commit, and that these keep the     *)
(* rows as its statements found them.  OrgInv says the same of the         *)
(* organization's row.  ReadsStillHold says that what an undisturbed       *)
(* request has read is still so.                                           *)
(***************************************************************************)
EXTENDS OrgMembership, FiniteSetTheorems, TLAPS

(* What the handlers put in a request, and the phases each one goes through. *)
Shape(r) ==
    pc[r] # "idle" =>
        /\ org # "absent"
        /\ req[r].op \in Inserts \cup {"change"} => req[r].role \in ALLOWED_ROLES
        /\ req[r].op = "remove" => req[r].role = "NONE"
        /\ req[r].op = "transfer" => req[r].role = "OWNER" /\ req[r].by # req[r].user
        /\ pc[r] = "cascade" => req[r].op = "delete"
        /\ pc[r] = "demote" => req[r].op = "transfer"
        /\ pc[r] \in {"check", "count"} => req[r].op # "delete"

(* The rows a request has written are there and locked by it. *)
RowsLocked(r) ==
    /\ pc[r] = "commit" /\ req[r].op \in RowWrites =>
           lock[req[r].user] = r /\ role[req[r].user] # "NONE"
    /\ pc[r] = "demote" => lock[req[r].user] = r /\ role[req[r].user] # "NONE"
    /\ pc[r] = "commit" /\ req[r].op = "transfer" =>
           lock[req[r].by] = r /\ role[req[r].by] # "NONE"
    /\ Inserting(r) => lock[req[r].user] = r /\ role[req[r].user] = "NONE"
    /\ pc[r] = "commit" /\ req[r].op = "delete" =>
           \A u \in Users : role[u] # "NONE" => lock[u] = r

LockInv == \A r \in Requests : Shape(r) /\ RowsLocked(r)

(* Inserts and deletes of an organization exclude each other. *)
OrgInv ==
    /\ MembersNeedOrg
    /\ \A r \in Requests : Inserting(r) \/ Deleting(r) => org = "live"
    /\ \A r, s \in Requests : Deleting(r) => ~Inserting(s) /\ (Deleting(s) => r = s)

SomeOwnerBut(u) == \E w \in Users : w # u /\ role[w] = "OWNER"

(* What an undisturbed request read, and the checks it passed, still hold. *)
RequesterStillMay(r) ==
    /\ req[r].op # "join" => role[req[r].by] = req[r].seen
    /\ req[r].op \in {"change", "transfer", "delete"} => req[r].seen = "OWNER"
    /\ req[r].op \in {"add", "remove"} => req[r].seen \in {"OWNER", "ADMIN"}
    /\ req[r].op = "add" => CanGrant(req[r].seen, req[r].role)

TargetStillFits(r) ==
    pc[r] # "check" =>
        /\ req[r].op = "remove" => CanGrant(req[r].seen, role[req[r].user])
        /\ TakesOwner(req[r], role[req[r].user]) => pc[r] = "count" \/ SomeOwnerBut(req[r].user)

ReadsStillHold ==
    \A r \in Requests :
        pc[r] # "idle" /\ undisturbed[r] => RequesterStillMay(r) /\ TargetStillFits(r)

IInv == TypeOK /\ LockInv /\ OrgInv /\ ReadsStillHold

USE DEF ALLOWED_ROLES, RoleInputs, Roles, Inserts, RowWrites, Ops, Request, NoRequest, Phases

-----------------------------------------------------------------------------
(* Two owners are an owner besides any one of them. *)
LEMMA OtherOwner ==
    ASSUME LeavesAnOwner, NEW u \in Users
    PROVE  SomeOwnerBut(u)
<1> SUFFICES ASSUME ~SomeOwnerBut(u)
             PROVE  FALSE
    OBVIOUS
<1>1. Owners \subseteq {u}
    BY DEF SomeOwnerBut, Owners
<1>2. IsFiniteSet({u}) /\ Cardinality({u}) = 1
    BY FS_Singleton
<1>3. Cardinality(Owners) <= 1 /\ Cardinality(Owners) \in Nat
    BY <1>1, <1>2, FS_Subset, FS_CardinalityType
<1> QED
    BY <1>3 DEF LeavesAnOwner

LEMMA InitIInv == Init => IInv
BY RequestsAssumption
   DEF Init, IInv, TypeOK, LockInv, Shape, RowsLocked, OrgInv, MembersNeedOrg, Inserting,
       Deleting, ReadsStillHold

(* A step of the deadlock detector is the rollback of one request. *)
LEMMA VictimAborts ==
    ASSUME DeadlockVictim
    PROVE  \E r \in Requests : Abort(r)
BY DEF DeadlockVictim

-----------------------------------------------------------------------------
(* Each kind of step keeps the invariant. *)

LEMMA CreateKeepsIInv ==
    ASSUME IInv, NEW u \in Users, CreateOrganization(u)
    PROVE  IInv'
<1>1. \A r \in Requests : pc[r] = "idle"
    BY DEF IInv, LockInv, Shape, CreateOrganization
<1> QED
    BY <1>1 DEF IInv, TypeOK, LockInv, Shape, RowsLocked, OrgInv, MembersNeedOrg, Inserting,
       Deleting, ReadsStillHold, CreateOrganization

LEMMA BeginKeepsIInv ==
    ASSUME IInv, NEW r \in Requests, NEW q \in Request, NEW phase \in {"check", "write"},
           Begin(r, phase, q),
           org # "absent",
           q.op \in Inserts \cup {"change"} => q.role \in ALLOWED_ROLES,
           q.op = "remove" => q.role = "NONE",
           q.op = "transfer" => q.role = "OWNER" /\ q.by # q.user,
           phase = "check" => q.op # "delete",
           phase = "write" => q.op \in {"join", "delete"},
           q.op # "join" => role[q.by] = q.seen,
           q.op \in {"change", "transfer", "delete"} => q.seen = "OWNER",
           q.op \in {"add", "remove"} => q.seen \in {"OWNER", "ADMIN"},
           q.op = "add" => CanGrant(q.seen, q.role)
    PROVE  IInv'
<1> USE DEF IInv, Begin
<1>1. TypeOK'
    BY DEF TypeOK
<1>2. pc'[r] = phase /\ req'[r] = q
    BY DEF TypeOK
<1>3. \A s \in Requests : s # r => pc'[s] = pc[s] /\ req'[s] = req[s] /\ undisturbed'[s] = undisturbed[s]
    BY DEF TypeOK
<1>4. LockInv'
    BY <1>2, <1>3 DEF LockInv, Shape, RowsLocked, Inserting
<1>5. OrgInv'
    BY <1>2, <1>3 DEF OrgInv, MembersNeedOrg, Inserting, Deleting
<1>6. ReadsStillHold'
    BY <1>2, <1>3 DEF ReadsStillHold, RequesterStillMay, TargetStillFits, TakesOwner,
       CanGrant, SomeOwnerBut
<1> QED
    BY <1>1, <1>4, <1>5, <1>6

LEMMA FinishKeepsIInv ==
    ASSUME IInv, NEW r \in Requests, Finish(r)
    PROVE  IInv'
<1> USE DEF IInv, Finish, EndTransaction
<1>1. TypeOK'
    BY DEF TypeOK
<1>2. pc'[r] = "idle" /\ req'[r] = NoRequest
    BY DEF TypeOK
<1>3. \A s \in Requests : s # r => pc'[s] = pc[s] /\ req'[s] = req[s]
    BY DEF TypeOK
<1>4. \A s \in Requests, u \in Users : s # r /\ lock[u] = s => lock'[u] = s
    BY DEF TypeOK
<1>5. LockInv'
    <2> SUFFICES ASSUME NEW s \in Requests
                 PROVE  Shape(s)' /\ RowsLocked(s)'
        BY DEF LockInv
    <2>1. CASE s = r
        BY <2>1, <1>2 DEF Shape, RowsLocked, Inserting
    <2>2. CASE s # r
        <3>1. pc[s] # "idle" => req[s].by \in Users /\ req[s].user \in Users
            BY DEF TypeOK
        <3> QED
            BY <2>2, <1>3, <1>4, <3>1 DEF LockInv, Shape, RowsLocked, Inserting
    <2> QED
        BY <2>1, <2>2
<1>6. OrgInv'
    BY <1>2, <1>3 DEF OrgInv, MembersNeedOrg, Inserting, Deleting
<1>7. ReadsStillHold'
    BY <1>2, <1>3 DEF ReadsStillHold, RequesterStillMay, TargetStillFits, TakesOwner, SomeOwnerBut
<1> QED
    BY <1>1, <1>5, <1>6, <1>7

(* A statement that goes on keeps the invariant if the locks it takes were *)
(* free and the request is entitled to its next phase.                     *)
LEMMA GotoKeepsIInv ==
    ASSUME IInv, NEW r \in Requests, NEW phase \in Phases,
           pc[r] # "idle", phase \notin {"idle", "check"},
           Goto(r, phase),
           lock' \in [Users -> Requests \cup {NoOne}],
           \A u \in Users : lock'[u] = lock[u] \/ (lock[u] = NoOne /\ lock'[u] = r),
           phase = "cascade" => req[r].op = "delete",
           phase = "demote" => req[r].op = "transfer",
           phase = "count" => req[r].op # "delete",
           RowsLocked(r)',
           Inserting(r)' \/ Deleting(r)' => org = "live",
           Inserting(r)' => ~HeldByDelete,
           Deleting(r)' => Deleting(r) \/ (~HeldByDelete /\ ~HeldByInsert),
           undisturbed[r] => TargetStillFits(r)'
    PROVE  IInv'
<1> USE DEF IInv, Goto
<1>1. TypeOK'
    BY DEF TypeOK
<1>2. pc'[r] = phase /\ req'[r] = req[r]
    BY DEF TypeOK
<1>3. \A s \in Requests : s # r => pc'[s] = pc[s] /\ req'[s] = req[s]
    BY DEF TypeOK
<1>4. \A s \in Requests, u \in Users : lock[u] = s => lock'[u] = s
    BY RequestsAssumption DEF TypeOK
<1>5. LockInv'
    <2> SUFFICES ASSUME NEW s \in Requests
                 PROVE  Shape(s)' /\ RowsLocked(s)'
        BY DEF LockInv
    <2>1. CASE s = r
        BY <2>1, <1>2 DEF LockInv, Shape
    <2>2. CASE s # r
        <3>1. pc[s] # "idle" => req[s].by \in Users /\ req[s].user \in Users
            BY DEF TypeOK
        <3> QED
            BY <2>2, <1>3, <1>4, <3>1 DEF LockInv, Shape, RowsLocked, Inserting
    <2> QED
        BY <2>1, <2>2
<1>6. OrgInv'
    <2>1. \A s \in Requests : s # r => Inserting(s)' = Inserting(s) /\ Deleting(s)' = Deleting(s)
        BY <1>3 DEF Inserting, Deleting
    <2>2. Inserting(r)' => \A s \in Requests : ~Deleting(s)'
        BY <1>2, <2>1 DEF HeldByDelete, Inserting, Deleting
    <2>3. Deleting(r)' => \A s \in Requests : ~Inserting(s)' /\ (Deleting(s)' => r = s)
        BY <1>2, <2>1 DEF HeldByDelete, HeldByInsert, Inserting, Deleting, OrgInv
    <2> QED
        BY <2>1, <2>2, <2>3 DEF OrgInv, MembersNeedOrg
<1>7. ReadsStillHold'
    BY <1>2, <1>3 DEF ReadsStillHold, RequesterStillMay, TargetStillFits, TakesOwner, SomeOwnerBut
<1> QED
    BY <1>1, <1>5, <1>6, <1>7

LEMMA ReadTargetKeepsIInv ==
    ASSUME IInv, NEW r \in Requests, ReadTarget(r)
    PROVE  IInv'
<1> DEFINE t == TargetRole(req[r])
           phase == IF TakesOwner(req[r], t) THEN "count" ELSE "write"
<1>1. CASE Finish(r)
    BY <1>1, FinishKeepsIInv
<1>2. CASE AcceptsTarget(req[r], t) /\ Goto(r, phase) /\ UNCHANGED lock
    <2>1. pc[r] = "check" /\ req[r] \in Request /\ req[r].op \in {"add", "change", "remove", "transfer"}
        BY <1>2 DEF ReadTarget, IInv, TypeOK, AcceptsTarget
    <2>2. pc'[r] = phase /\ req'[r] = req[r] /\ role' = role /\ lock' = lock
        BY <1>2 DEF Goto, IInv, TypeOK
    <2>3. undisturbed[r] => t = role[req[r].user]
        BY <2>1 DEF IInv, ReadsStillHold, RequesterStillMay, TargetRole
    <2>4. undisturbed[r] => TargetStillFits(r)'
        BY <1>2, <2>1, <2>2, <2>3 DEF TargetStillFits, AcceptsTarget, CanGrant, TakesOwner
    <2>5. RowsLocked(r)' /\ ~Inserting(r)' /\ ~Deleting(r)'
        BY <2>2 DEF RowsLocked, Inserting, Deleting
    <2> HIDE DEF t
    <2>6. lock' \in [Users -> Requests \cup {NoOne}]
        BY <2>2 DEF IInv, TypeOK
    <2> QED
        BY <1>2, <2>1, <2>2, <2>4, <2>5, <2>6, GotoKeepsIInv
<1> QED
    BY <1>1, <1>2 DEF ReadTarget

LEMMA CountOwnersKeepsIInv ==
    ASSUME IInv, NEW r \in Requests, CountOwners(r)
    PROVE  IInv'
<1>1. CASE Finish(r)
    BY <1>1, FinishKeepsIInv
<1>2. CASE LeavesAnOwner /\ Goto(r, "write") /\ UNCHANGED lock
    <2>1. pc[r] = "count" /\ req[r] \in Request
        BY DEF CountOwners, IInv, TypeOK
    <2>2. pc'[r] = "write" /\ req'[r] = req[r] /\ role' = role /\ lock' = lock
        BY <1>2 DEF Goto, IInv, TypeOK
    <2>3. SomeOwnerBut(req[r].user)
        BY <1>2, <2>1, OtherOwner
    <2>4. undisturbed[r] => TargetStillFits(r)'
        BY <2>1, <2>2, <2>3 DEF TargetStillFits, IInv, ReadsStillHold, SomeOwnerBut
    <2>5. RowsLocked(r)' /\ ~Inserting(r)' /\ ~Deleting(r)'
        BY <2>2 DEF RowsLocked, Inserting, Deleting
    <2>6. lock' \in [Users -> Requests \cup {NoOne}]
        BY <2>2 DEF IInv, TypeOK
    <2> QED
        BY <1>2, <2>1, <2>2, <2>4, <2>5, <2>6, GotoKeepsIInv
<1> QED
    BY <1>1, <1>2 DEF CountOwners

(* The four statements that take a row lock: nothing the request has read  *)
(* changes.                                                                *)
LEMMA AcquireKeepsIInv ==
    ASSUME IInv, NEW r \in Requests, NEW u \in Users, NEW phase \in {"demote", "cascade", "commit"},
           pc[r] \in {"write", "demote", "cascade"},
           role[u] # "NONE" \/ (req[r].op \in Inserts /\ org = "live" /\ ~HeldByDelete),
           Acquire(r, u),
           Goto(r, phase),
           phase = "cascade" => pc[r] = "cascade" /\ req[r].op = "delete",
           phase = "demote" => req[r].op = "transfer" /\ u = req[r].user,
           phase = "commit" =>
               \/ req[r].op \in {"change", "remove"} /\ u = req[r].user
               \/ req[r].op = "transfer" /\ pc[r] = "demote" /\ u = req[r].by
               \/ req[r].op \in Inserts /\ u = req[r].user /\ org = "live" /\ ~HeldByDelete
                      /\ role[u] = "NONE"
    PROVE  IInv'
<1>1. req[r] \in Request /\ req'[r] = req[r] /\ pc'[r] = phase /\ role' = role /\ undisturbed' = undisturbed
    BY DEF Goto, IInv, TypeOK
<1>2. /\ lock' \in [Users -> Requests \cup {NoOne}]
      /\ lock'[u] = r
      /\ \A v \in Users : lock'[v] = lock[v] \/ (lock[v] = NoOne /\ lock'[v] = r)
    BY DEF Acquire, IInv, TypeOK
<1>3. \A v \in Users : lock[v] = r => lock'[v] = r
    BY <1>2
<1>4. RowsLocked(r)'
    BY <1>1, <1>2, <1>3 DEF RowsLocked, Inserting, IInv, LockInv
<1>5. Inserting(r)' => org = "live" /\ ~HeldByDelete
    BY <1>1 DEF Inserting
<1>6. Deleting(r)' => Deleting(r) /\ org = "live"
    BY <1>1 DEF Deleting, IInv, OrgInv
<1>7. undisturbed[r] => TargetStillFits(r)'
    BY <1>1 DEF IInv, ReadsStillHold, TargetStillFits, TakesOwner, SomeOwnerBut
<1> QED
    BY <1>1, <1>2, <1>4, <1>5, <1>6, <1>7, GotoKeepsIInv

LEMMA WriteRowKeepsIInv ==
    ASSUME IInv, NEW r \in Requests, WriteRow(r)
    PROVE  IInv'
<1> DEFINE phase == IF req[r].op = "transfer" THEN "demote" ELSE "commit"
<1>1. CASE Finish(r)
    BY <1>1, FinishKeepsIInv
<1>2. CASE role[req[r].user] # "NONE" /\ Acquire(r, req[r].user) /\ Goto(r, phase)
    <2>1. pc[r] = "write" /\ req[r] \in Request /\ req[r].op \in RowWrites
        BY DEF WriteRow, IInv, TypeOK
    <2> QED
        BY <1>2, <2>1, AcquireKeepsIInv
<1> QED
    BY <1>1, <1>2 DEF WriteRow

LEMMA DemoteRequesterKeepsIInv ==
    ASSUME IInv, NEW r \in Requests, DemoteRequester(r)
    PROVE  IInv'
<1>1. CASE Finish(r)
    BY <1>1, FinishKeepsIInv
<1>2. CASE role[req[r].by] # "NONE" /\ Acquire(r, req[r].by) /\ Goto(r, "commit")
    <2>1. pc[r] = "demote" /\ req[r] \in Request /\ req[r].op = "transfer"
        BY DEF DemoteRequester, IInv, TypeOK, LockInv, Shape
    <2> QED
        BY <1>2, <2>1, AcquireKeepsIInv
<1> QED
    BY <1>1, <1>2 DEF DemoteRequester

LEMMA InsertRowKeepsIInv ==
    ASSUME IInv, NEW r \in Requests, InsertRow(r)
    PROVE  IInv'
<1>1. CASE Finish(r)
    BY <1>1, FinishKeepsIInv
<1>2. CASE /\ org = "live" /\ role[req[r].user] = "NONE"
           /\ Acquire(r, req[r].user)
           /\ Goto(r, "commit")
    <2>1. pc[r] = "write" /\ req[r] \in Request /\ req[r].op \in Inserts /\ ~HeldByDelete
        BY DEF InsertRow, IInv, TypeOK
    <2> QED
        BY <1>2, <2>1, AcquireKeepsIInv
<1> QED
    BY <1>1, <1>2 DEF InsertRow

LEMMA DeleteOrgRowKeepsIInv ==
    ASSUME IInv, NEW r \in Requests, DeleteOrgRow(r)
    PROVE  IInv'
<1>1. CASE Finish(r)
    BY <1>1, FinishKeepsIInv
<1>2. CASE org = "live" /\ Goto(r, "cascade") /\ UNCHANGED lock
    <2>1. pc[r] = "write" /\ req[r] \in Request /\ req[r].op = "delete" /\ ~HeldByDelete /\ ~HeldByInsert
        BY DEF DeleteOrgRow, IInv, TypeOK
    <2>2. pc'[r] = "cascade" /\ req'[r] = req[r] /\ role' = role /\ lock' = lock
        BY <1>2 DEF Goto, IInv, TypeOK
    <2>3. RowsLocked(r)' /\ ~Inserting(r)' /\ lock' \in [Users -> Requests \cup {NoOne}]
        BY <2>1, <2>2 DEF RowsLocked, Inserting, IInv, TypeOK
    <2>4. TargetStillFits(r)'
        BY <2>1, <2>2 DEF TargetStillFits, TakesOwner
    <2> QED
        BY <1>2, <2>1, <2>2, <2>3, <2>4, GotoKeepsIInv
<1> QED
    BY <1>1, <1>2 DEF DeleteOrgRow

LEMMA CascadeKeepsIInv ==
    ASSUME IInv, NEW r \in Requests, CascadeRow(r) \/ CascadeEnds(r)
    PROVE  IInv'
<1>1. pc[r] = "cascade" /\ req[r] \in Request /\ req[r].op = "delete"
    BY DEF CascadeRow, CascadeEnds, IInv, TypeOK, LockInv, Shape
<1>2. CASE CascadeRow(r)
    BY <1>1, <1>2, AcquireKeepsIInv DEF CascadeRow
<1>3. CASE CascadeEnds(r)
    <2>1. pc'[r] = "commit" /\ req'[r] = req[r] /\ role' = role /\ lock' = lock
        BY <1>3 DEF CascadeEnds, Goto, IInv, TypeOK
    <2>2. RowsLocked(r)' /\ ~Inserting(r)' /\ lock' \in [Users -> Requests \cup {NoOne}]
        BY <1>1, <1>3, <2>1 DEF CascadeEnds, RowsLocked, Inserting, IInv, TypeOK
    <2>3. TargetStillFits(r)'
        BY <1>1, <2>1 DEF TargetStillFits, TakesOwner
    <2>4. Deleting(r) /\ org = "live"
        BY <1>1 DEF Deleting, IInv, OrgInv
    <2> QED
        BY <1>1, <1>3, <2>1, <2>2, <2>3, <2>4, GotoKeepsIInv DEF CascadeEnds
<1> QED
    BY <1>2, <1>3

-----------------------------------------------------------------------------
(* Commit *)

(* A commit writes only rows it holds, of a live organization; it adds a   *)
(* row only for add and join.                                              *)
LEMMA CommitWritesOwnRows ==
    ASSUME IInv, NEW r \in Requests, Commit(r)
    PROVE  /\ req[r] \in Request
           /\ org = "live"
           /\ role' = Written(req[r]) /\ role' \in [Users -> Roles]
           /\ \A u \in Users : role'[u] # role[u] => lock[u] = r
           /\ \A u \in Users : role[u] = "NONE" /\ role'[u] # "NONE" => Inserting(r)
           /\ req[r].op = "transfer" => req[r].by # req[r].user
<1> USE DEF IInv
<1>1. pc[r] = "commit" /\ req[r] \in Request /\ role' = Written(req[r])
    BY DEF Commit, TypeOK
<1>2. org = "live"
    <2>1. CASE req[r].op \in RowWrites
        BY <1>1, <2>1 DEF LockInv, RowsLocked, OrgInv, MembersNeedOrg, TypeOK
    <2>2. CASE req[r].op \in Inserts \cup {"delete"}
        BY <1>1, <2>2 DEF OrgInv, Inserting, Deleting
    <2> QED
        BY <1>1, <2>1, <2>2
<1>3. role' \in [Users -> Roles]
    BY <1>1 DEF Written, TypeOK
<1>4. /\ \A u \in Users : role'[u] # role[u] => lock[u] = r
      /\ \A u \in Users : role[u] = "NONE" /\ role'[u] # "NONE" => Inserting(r)
    BY <1>1 DEF Written, LockInv, RowsLocked, Inserting
<1> QED
    BY <1>1, <1>2, <1>3, <1>4 DEF LockInv, Shape

LEMMA CommitKeepsIInv ==
    ASSUME IInv, NEW r \in Requests, Commit(r)
    PROVE  IInv'
<1> USE DEF IInv
<1>1. /\ pc[r] = "commit"
      /\ pc' = [pc EXCEPT ![r] = "idle"]
      /\ req' = [req EXCEPT ![r] = NoRequest]
      /\ lock' = [u \in Users |-> IF lock[u] = r THEN NoOne ELSE lock[u]]
      /\ org' = IF req[r].op = "delete" THEN "deleted" ELSE org
      /\ undisturbed' = [s \in Requests |-> s = r /\ undisturbed[s]]
    BY DEF Commit, EndTransaction
<1>2. TypeOK'
    <2>1. undisturbed' \in [Requests -> BOOLEAN]
        BY <1>1 DEF TypeOK
    <2> QED
        BY <1>1, <2>1, CommitWritesOwnRows DEF TypeOK
<1>3. \A s \in Requests : s # r => pc'[s] = pc[s] /\ req'[s] = req[s]
    BY <1>1 DEF TypeOK
<1>4. pc'[r] = "idle"
    BY <1>1 DEF TypeOK
<1>5. \A s \in Requests, u \in Users : s # r /\ lock[u] = s => lock'[u] = s /\ role'[u] = role[u]
    BY <1>1, CommitWritesOwnRows DEF TypeOK
<1>6. LockInv'
    <2> SUFFICES ASSUME NEW s \in Requests, s # r, pc[s] # "idle"
                 PROVE  Shape(s)' /\ RowsLocked(s)'
        BY <1>3, <1>4 DEF LockInv, Shape, RowsLocked, Inserting
    <2>1. Shape(s)'
        BY <1>1, <1>3 DEF LockInv, Shape
    <2>2. req[s].by \in Users /\ req[s].user \in Users
        BY DEF TypeOK
    <2>3. pc[s] = "commit" /\ req[s].op = "delete" => ~Inserting(r)
        BY DEF OrgInv, Deleting
    <2>4. pc[s] = "commit" /\ req[s].op = "delete" =>
              \A u \in Users : role'[u] # "NONE" => lock'[u] = s
        BY <1>5, <2>3, CommitWritesOwnRows DEF LockInv, RowsLocked
    <2> QED
        BY <1>3, <1>5, <2>1, <2>2, <2>4 DEF LockInv, RowsLocked, Inserting
<1>7. OrgInv'
    <2>1. \A s \in Requests : /\ Inserting(s)' => s # r /\ Inserting(s)
                              /\ Deleting(s)' => s # r /\ Deleting(s)
        BY <1>3, <1>4 DEF Inserting, Deleting
    <2>2. CASE req[r].op = "delete"
        <3>1. Deleting(r) /\ \A u \in Users : role'[u] = "NONE"
            BY <1>1, <2>2, CommitWritesOwnRows DEF Deleting, Written
        <3> QED
            BY <2>1, <3>1 DEF OrgInv, MembersNeedOrg
    <2>3. CASE req[r].op # "delete"
        <3>1. org' = "live"
            BY <1>1, <2>3, CommitWritesOwnRows
        <3> QED
            BY <2>1, <3>1 DEF OrgInv, MembersNeedOrg
    <2> QED
        BY <2>2, <2>3
<1>8. ReadsStillHold'
    BY <1>1, <1>4 DEF ReadsStillHold, TypeOK
<1> QED
    BY <1>2, <1>6, <1>7, <1>8

-----------------------------------------------------------------------------
(* The next-state relation *)

LEMMA StatementKeepsIInv ==
    ASSUME IInv, NEW r \in Requests, Statement(r)
    PROVE  IInv'
BY ReadTargetKeepsIInv, CountOwnersKeepsIInv, WriteRowKeepsIInv, DemoteRequesterKeepsIInv,
   InsertRowKeepsIInv, DeleteOrgRowKeepsIInv, CascadeKeepsIInv, CommitKeepsIInv DEF Statement

(* Every accepted request starts as BeginKeepsIInv asks. *)
LEMMA StartKeepsIInv ==
    ASSUME IInv, NEW r \in Requests, NEW by \in Users, NEW u \in Users, NEW ro \in RoleInputs,
           \/ AddMember(r, by, u, ro)
           \/ ChangeRole(r, by, u, ro)
           \/ RemoveMember(r, by, u)
           \/ TransferOwnership(r, by, u)
           \/ DeleteOrganization(r, by)
           \/ ro \in ALLOWED_ROLES /\ JoinByInvite(r, u, ro)
    PROVE  IInv'
<1>1. role[by] # "NONE" => org # "absent"
    BY DEF IInv, OrgInv, MembersNeedOrg, TypeOK
<1>2. role[by] \in Roles
    BY DEF IInv, TypeOK
<1> DEFINE q(op, seen, user, newrole) ==
        [op |-> op, by |-> by, seen |-> seen, user |-> user, role |-> newrole]
<1>3. CASE AddMember(r, by, u, ro)
    <2>1. q("add", role[by], u, ro) \in Request
        BY <1>2, <1>3 DEF AddMember, KnownRole
    <2> QED
        BY <1>1, <1>2, <1>3, <2>1, BeginKeepsIInv DEF AddMember, RequireRole, KnownRole, CanGrant
<1>4. CASE ChangeRole(r, by, u, ro)
    <2>1. q("change", role[by], u, ro) \in Request
        BY <1>2, <1>4 DEF ChangeRole, KnownRole
    <2> QED
        BY <1>1, <1>2, <1>4, <2>1, BeginKeepsIInv DEF ChangeRole, RequireRole, KnownRole
<1>5. CASE RemoveMember(r, by, u)
    BY <1>1, <1>2, <1>5, BeginKeepsIInv DEF RemoveMember, RequireRole
<1>6. CASE TransferOwnership(r, by, u)
    BY <1>1, <1>2, <1>6, BeginKeepsIInv DEF TransferOwnership, RequireRole
<1>7. CASE DeleteOrganization(r, by)
    BY <1>1, <1>2, <1>7, BeginKeepsIInv DEF DeleteOrganization, RequireRole
<1>8. CASE ro \in ALLOWED_ROLES /\ JoinByInvite(r, u, ro)
    BY <1>8, BeginKeepsIInv DEF JoinByInvite
<1> QED
    BY <1>3, <1>4, <1>5, <1>6, <1>7, <1>8

LEMMA NextKeepsIInv == IInv /\ [Next]_vars => IInv'
<1> SUFFICES ASSUME IInv, [Next]_vars
             PROVE  IInv'
    OBVIOUS
<1>1. CASE Next
    <2>1. (\E r \in Requests : Abort(r)) => IInv'
        BY FinishKeepsIInv DEF Abort
    <2>2. DeadlockVictim => IInv'
        BY <2>1, VictimAborts
    <2>3. ASSUME NEW r \in Requests, NEW by \in Users, DeleteOrganization(r, by)
          PROVE  IInv'
        BY <2>3, StartKeepsIInv
    <2>4. ASSUME NEW r \in Requests, NEW u \in Users, NEW ro \in ALLOWED_ROLES, JoinByInvite(r, u, ro)
          PROVE  IInv'
        BY <2>4, StartKeepsIInv
    <2>5. ASSUME NEW r \in Requests, NEW by \in Users, NEW u \in Users,
                 RemoveMember(r, by, u) \/ TransferOwnership(r, by, u)
          PROVE  IInv'
        BY <2>5, StartKeepsIInv
    <2> QED
        BY <1>1, <2>1, <2>2, <2>3, <2>4, <2>5, StartKeepsIInv, StatementKeepsIInv, CreateKeepsIInv
           DEF Next
<1>2. CASE UNCHANGED vars
    BY <1>2 DEF vars, IInv, TypeOK, LockInv, Shape, RowsLocked, OrgInv, MembersNeedOrg, Inserting,
       Deleting, ReadsStillHold, RequesterStillMay, TargetStillFits, TakesOwner, SomeOwnerBut
<1> QED
    BY <1>1, <1>2

(* The inductive invariant holds in every behaviour. *)
THEOREM Invariance == Spec => []IInv
BY InitIInv, NextKeepsIInv, PTL DEF Spec

-----------------------------------------------------------------------------
(* Theorems *)

(* Every variable keeps its type. *)
THEOREM TypeCorrect == Spec => []TypeOK
BY Invariance, PTL DEF IInv

(* Member rows exist only while their organization does. *)
THEOREM NoOrphanedMembers == Spec => []MembersNeedOrg
BY Invariance, PTL DEF IInv, OrgInv

(* A request nobody interfered with does not take the last owner away. *)
LEMMA CommitKeepsOwner ==
    ASSUME IInv, NEW r \in Requests, Commit(r), undisturbed[r], Owners # {}, org' = "live"
    PROVE  Owners' # {}
<1>1. /\ req[r] \in Request /\ pc[r] = "commit" /\ req[r].op # "delete"
      /\ role' = Written(req[r])
    BY CommitWritesOwnRows DEF Commit
<1>2. TargetStillFits(r)
    BY <1>1 DEF IInv, ReadsStillHold
<1>3. PICK w \in Users : role[w] = "OWNER"
    BY DEF Owners
<1>4. CASE req[r].op \in Inserts
    <2>1. role[req[r].user] = "NONE"
        BY <1>1, <1>4 DEF IInv, LockInv, RowsLocked, Inserting
    <2>2. role'[w] = "OWNER"
        BY <1>1, <1>3, <1>4, <2>1 DEF Written
    <2> QED
        BY <2>2 DEF Owners
<1>5. CASE req[r].op \in RowWrites /\ req[r].role = "OWNER"
    <2>1. role'[req[r].user] = "OWNER" /\ req[r].user \in Users
        BY <1>1, <1>5 DEF Written
    <2> QED
        BY <2>1 DEF Owners
<1>6. CASE req[r].op \in {"change", "remove"} /\ req[r].role # "OWNER"
    <2>1. SomeOwnerBut(req[r].user)
        BY <1>1, <1>2, <1>3, <1>6 DEF TargetStillFits, TakesOwner, SomeOwnerBut
    <2>2. PICK v \in Users : v # req[r].user /\ role[v] = "OWNER"
        BY <2>1 DEF SomeOwnerBut
    <2>3. role'[v] = "OWNER"
        BY <1>1, <1>6, <2>2 DEF Written
    <2> QED
        BY <2>3 DEF Owners
<1>7. req[r].op = "transfer" => req[r].role = "OWNER"
    BY <1>1 DEF IInv, LockInv, Shape
<1> QED
    BY <1>1, <1>4, <1>5, <1>6, <1>7

THEOREM OwnersSurviveLoneRequests == Spec => UndisturbedKeepsOwner
<1>1. IInv /\ [Next]_vars =>
          [\A r \in Requests :
              Commit(r) /\ undisturbed[r] /\ Owners # {} /\ org' = "live" => Owners' # {}]_vars
    BY CommitKeepsOwner
<1> QED
    BY <1>1, Invariance, PTL DEF Spec, UndisturbedKeepsOwner

(* A request nobody interfered with has, when it commits, the authority    *)
(* for what it writes.                                                     *)
LEMMA CommitHasAuthority ==
    ASSUME IInv, NEW r \in Requests, Commit(r), undisturbed[r], req[r].op # "join"
    PROVE  /\ role[req[r].by] \in {"OWNER", "ADMIN"}
           /\ Owners' # Owners => role[req[r].by] = "OWNER"
<1>1. /\ req[r] \in Request /\ pc[r] = "commit"
      /\ role' = Written(req[r])
    BY CommitWritesOwnRows DEF Commit
<1>2. RequesterStillMay(r) /\ TargetStillFits(r)
    BY <1>1 DEF IInv, ReadsStillHold
<1>3. role[req[r].by] \in {"OWNER", "ADMIN"}
    BY <1>1, <1>2 DEF RequesterStillMay
<1>4. ASSUME role[req[r].by] # "OWNER", NEW w \in Users
      PROVE  role'[w] = "OWNER" <=> role[w] = "OWNER"
    <2>1. req[r].op \in {"add", "remove"}
        BY <1>1, <1>2, <1>4 DEF RequesterStillMay
    <2>2. CASE req[r].op = "add"
        <3>1. role[req[r].user] = "NONE" /\ req[r].role # "OWNER"
            BY <1>1, <1>2, <1>4, <2>2
               DEF IInv, LockInv, RowsLocked, Inserting, RequesterStillMay, CanGrant
        <3> QED
            BY <1>1, <2>2, <3>1 DEF Written
    <2>3. CASE req[r].op = "remove"
        <3>1. role[req[r].user] # "OWNER" /\ req[r].role = "NONE"
            BY <1>1, <1>2, <1>4, <2>3
               DEF IInv, LockInv, Shape, RequesterStillMay, TargetStillFits, CanGrant
        <3> QED
            BY <1>1, <2>3, <3>1 DEF Written
    <2> QED
        BY <2>1, <2>2, <2>3
<1> QED
    BY <1>3, <1>4 DEF Owners

THEOREM LoneRequestsHaveAuthority == Spec => UndisturbedAuthority
<1>1. IInv /\ [Next]_vars =>
          [\A r \in Requests :
              Commit(r) /\ undisturbed[r] /\ req[r].op # "join" =>
                  /\ role[req[r].by] \in {"OWNER", "ADMIN"}
                  /\ Owners' # Owners => role[req[r].by] = "OWNER"]_vars
    BY CommitHasAuthority
<1> QED
    BY <1>1, Invariance, PTL DEF Spec, UndisturbedAuthority

(* Only a commit and the creation of the organization change what others   *)
(* can see.                                                                *)
LEMMA VisibleSteps ==
    ASSUME [Next]_vars
    PROVE  \/ UNCHANGED <<org, role>>
           \/ \E u \in Users : CreateOrganization(u)
           \/ \E r \in Requests : Commit(r)
<1>1. \A r \in Requests : Finish(r) => UNCHANGED <<org, role>>
    BY DEF Finish
<1>2. \A r \in Requests : Statement(r) => UNCHANGED <<org, role>> \/ Commit(r)
    BY <1>1 DEF Statement, ReadTarget, CountOwners, WriteRow, DemoteRequester, InsertRow,
       DeleteOrgRow, CascadeRow, CascadeEnds, Goto
<1>3. \A r \in Requests : Abort(r) => UNCHANGED <<org, role>>
    BY <1>1 DEF Abort
<1>4. DeadlockVictim => UNCHANGED <<org, role>>
    BY <1>3, VictimAborts
<1> QED
    BY <1>2, <1>3, <1>4 DEF Next, vars, Begin, AddMember, ChangeRole, RemoveMember,
       TransferOwnership, DeleteOrganization, JoinByInvite

(* What a commit writes is one operation of the role table. *)
LEMMA CommitIsTableStep ==
    ASSUME IInv, NEW r \in Requests, Commit(r)
    PROVE  Table!Next
<1> DEFINE q == req[r]
<1>1. /\ q \in Request /\ org = "live" /\ role' = Written(q)
      /\ role \in [Users -> Roles] /\ pc[r] = "commit"
      /\ org' = IF q.op = "delete" THEN "deleted" ELSE org
    BY CommitWritesOwnRows DEF Commit, IInv, TypeOK
<1>2. Shape(r) /\ RowsLocked(r)
    BY DEF IInv, LockInv
<1>3. CASE q.op \in Inserts
    <2>1. Table!Enroll(q.user, q.role) /\ q.role \in Table!TableRoles
        BY <1>1, <1>2, <1>3
           DEF Written, Shape, RowsLocked, Inserting, Table!Enroll, Table!IsMember, Table!TableRoles
    <2> QED
        BY <1>1, <2>1 DEF Table!Next
<1>4. CASE q.op = "change"
    <2>1. Table!Assign(q.user, q.role) /\ q.role \in Table!TableRoles
        BY <1>1, <1>2, <1>4
           DEF Written, Shape, RowsLocked, Table!Assign, Table!IsMember, Table!TableRoles
    <2> QED
        BY <1>1, <2>1 DEF Table!Next
<1>5. CASE q.op = "remove"
    <2>1. Table!Expel(q.user)
        BY <1>1, <1>2, <1>5 DEF Written, Shape, RowsLocked, Table!Expel, Table!IsMember
    <2> QED
        BY <1>1, <2>1 DEF Table!Next
<1>6. CASE q.op = "transfer"
    <2>1. /\ q.by # q.user /\ role[q.by] # "NONE" /\ role[q.user] # "NONE" /\ q.role = "OWNER"
          /\ q.by \in Users /\ q.user \in Users
        BY <1>1, <1>2, <1>6 DEF Shape, RowsLocked
    <2>2. role' = [role EXCEPT ![q.user] = "OWNER", ![q.by] = "ADMIN"]
        <3>1. ASSUME NEW u \in Users
              PROVE  Written(q)[u] = [role EXCEPT ![q.user] = "OWNER", ![q.by] = "ADMIN"][u]
            BY <1>1, <1>6, <2>1 DEF Written
        <3> QED
            BY <1>1, <3>1 DEF Written
    <2>3. Table!HandOver(q.by, q.user) /\ q.by \in Users /\ q.user \in Users
        BY <1>1, <1>6, <2>1, <2>2 DEF Table!HandOver, Table!IsMember
    <2> QED
        BY <2>3 DEF Table!Next
<1>7. CASE q.op = "delete"
    BY <1>1, <1>7 DEF Written, Table!Next, Table!Dissolve
<1> QED
    BY <1>1, <1>3, <1>4, <1>5, <1>6, <1>7

(* The organization service implements the role table. *)
THEOREM ImplementsRoleTable == Spec => IsRoleTable
<1>1. Init => Table!Init
    BY DEF Init, Table!Init
<1>2. IInv /\ [Next]_vars => [Table!Next]_<<org, role>>
    <2>1. \A u \in Users : CreateOrganization(u) => Table!Next
        BY DEF CreateOrganization, Table!Next, Table!Found
    <2> QED
        BY <2>1, VisibleSteps, CommitIsTableStep
<1> QED
    BY <1>1, <1>2, Invariance, PTL DEF Spec, IsRoleTable, Table!Spec
-----------------------------------------------------------------------------
(* Circles of waiting requests *)

(* A lock is held by a request that has written, a transfer that waits for *)
(* its requester's row has its target's only, and as long as nobody else   *)
(* commits that target is no OWNER.                                        *)
CircleInv ==
    \A r \in Requests :
        /\ \A u \in Users : lock[u] = r =>
               pc[r] \in {"demote", "cascade", "commit"} /\ (pc[r] = "demote" => u = req[r].user)
        /\ pc[r] \notin {"idle", "check"} /\ req[r].op = "transfer" /\ undisturbed[r] =>
               role[req[r].user] # "OWNER"

LEMMA BeginKeepsCircleInv ==
    ASSUME IInv, CircleInv, NEW r \in Requests, NEW q, NEW phase \in {"check", "write"},
           Begin(r, phase, q), phase = "write" => q.op # "transfer"
    PROVE  CircleInv'
<1>1. pc[r] = "idle" /\ pc'[r] = phase /\ req'[r] = q /\ lock' = lock /\ role' = role
    BY DEF Begin, IInv, TypeOK
<1>2. \A s \in Requests : s # r => pc'[s] = pc[s] /\ req'[s] = req[s] /\ undisturbed'[s] = undisturbed[s]
    BY DEF Begin, IInv, TypeOK
<1> QED
    BY <1>1, <1>2 DEF CircleInv

LEMMA FinishKeepsCircleInv ==
    ASSUME IInv, CircleInv, NEW r \in Requests, Finish(r)
    PROVE  CircleInv'
<1>1. pc'[r] = "idle" /\ role' = role /\ undisturbed' = undisturbed /\ \A u \in Users : lock'[u] # r
    BY RequestsAssumption DEF Finish, EndTransaction, IInv, TypeOK
<1>2. \A s \in Requests : s # r => pc'[s] = pc[s] /\ req'[s] = req[s]
    BY DEF Finish, EndTransaction, IInv, TypeOK
<1>3. \A s \in Requests, u \in Users : lock'[u] = s => lock[u] = s
    BY RequestsAssumption DEF Finish, EndTransaction, IInv, TypeOK
<1> QED
    BY <1>1, <1>2, <1>3 DEF CircleInv

(* A statement that goes on keeps CircleInv if it takes a lock only to get *)
(* to a phase in which it may have one.                                    *)
LEMMA GotoKeepsCircleInv ==
    ASSUME IInv, CircleInv, NEW r \in Requests, NEW phase \in Phases, Goto(r, phase),
           \A u \in Users : lock'[u] = lock[u] \/ lock'[u] = r,
           \A u \in Users : lock'[u] = r =>
               phase \in {"demote", "cascade", "commit"} /\ (phase = "demote" => u = req[r].user),
           req[r].op = "transfer" /\ undisturbed[r] => role[req[r].user] # "OWNER"
    PROVE  CircleInv'
<1>1. pc'[r] = phase /\ req' = req /\ role' = role /\ undisturbed' = undisturbed
    BY DEF Goto, IInv, TypeOK
<1>2. \A s \in Requests : s # r => pc'[s] = pc[s]
    BY DEF Goto, IInv, TypeOK
<1> QED
    BY <1>1, <1>2 DEF CircleInv

LEMMA StatementKeepsCircleInv ==
    ASSUME IInv, CircleInv, NEW r \in Requests, Statement(r), ~Commit(r)
    PROVE  CircleInv'
<1>1. CASE Finish(r)
    BY <1>1, FinishKeepsCircleInv
<1>2. CASE ReadTarget(r) /\ ~Finish(r)
    <2> DEFINE t == TargetRole(req[r])
               phase == IF TakesOwner(req[r], t) THEN "count" ELSE "write"
    <2>1. pc[r] = "check" /\ AcceptsTarget(req[r], t) /\ Goto(r, phase) /\ lock' = lock
        BY <1>2 DEF ReadTarget
    <2>2. req[r].op = "transfer" => role[req[r].user] # "OWNER"
        BY <2>1 DEF AcceptsTarget, TargetRole
    <2>3. \A u \in Users : lock[u] # r
        BY <2>1 DEF CircleInv
    <2> HIDE DEF t
    <2> QED
        BY <2>1, <2>2, <2>3, GotoKeepsCircleInv
<1>3. CASE (CountOwners(r) \/ DeleteOrgRow(r) \/ CascadeEnds(r)) /\ ~Finish(r)
    <2>1. PICK phase \in {"write", "cascade", "commit"} :
              /\ Goto(r, phase) /\ lock' = lock
              /\ pc[r] \in {"count", "write", "cascade"}
              /\ pc[r] # "cascade" \/ phase = "commit"
        BY <1>3 DEF CountOwners, DeleteOrgRow, CascadeEnds
    <2> QED
        BY <2>1, GotoKeepsCircleInv DEF CircleInv
<1>4. CASE (WriteRow(r) \/ InsertRow(r) \/ DemoteRequester(r) \/ CascadeRow(r)) /\ ~Finish(r)
    <2>1. PICK u \in Users, phase \in {"demote", "cascade", "commit"} :
              /\ Acquire(r, u) /\ Goto(r, phase)
              /\ phase = "demote" => pc[r] = "write" /\ u = req[r].user
              /\ pc[r] \in {"write", "demote", "cascade"}
        BY <1>4 DEF WriteRow, InsertRow, DemoteRequester, CascadeRow, IInv, TypeOK
    <2>2. \A v \in Users : lock'[v] = lock[v] \/ (v = u /\ lock'[v] = r)
        BY <2>1 DEF Acquire, IInv, TypeOK
    <2>3. phase = "demote" => \A v \in Users : lock'[v] = r => v = u
        BY <2>1, <2>2 DEF CircleInv
    <2> QED
        BY <2>1, <2>2, <2>3, GotoKeepsCircleInv DEF CircleInv
<1> QED
    BY <1>1, <1>2, <1>3, <1>4 DEF Statement

LEMMA CommitKeepsCircleInv ==
    ASSUME IInv, CircleInv, NEW r \in Requests, Commit(r)
    PROVE  CircleInv'
<1>1. /\ pc'[r] = "idle"
      /\ \A s \in Requests : s # r => pc'[s] = pc[s] /\ req'[s] = req[s] /\ ~undisturbed'[s]
      /\ \A s \in Requests, u \in Users : lock'[u] = s => lock[u] = s /\ s # r
    BY RequestsAssumption DEF Commit, EndTransaction, IInv, TypeOK
<1> QED
    BY <1>1 DEF CircleInv

LEMMA NextKeepsCircleInv == IInv /\ CircleInv /\ [Next]_vars => CircleInv'
<1> SUFFICES ASSUME IInv, CircleInv, [Next]_vars
             PROVE  CircleInv'
    OBVIOUS
<1>1. ASSUME NEW r \in Requests, Statement(r) \/ Abort(r)
      PROVE  CircleInv'
    BY <1>1, StatementKeepsCircleInv, CommitKeepsCircleInv, FinishKeepsCircleInv DEF Abort
<1>2. ASSUME NEW u \in Users, CreateOrganization(u)
      PROVE  CircleInv'
    <2>1. \A r \in Requests : pc[r] = "idle"
        BY <1>2 DEF CreateOrganization, IInv, LockInv, Shape
    <2> QED
        BY <1>2, <2>1 DEF CircleInv, CreateOrganization
<1>3. ASSUME NEW r \in Requests, NEW by \in Users, NEW u \in Users, NEW ro,
             \/ AddMember(r, by, u, ro) \/ ChangeRole(r, by, u, ro) \/ RemoveMember(r, by, u)
             \/ TransferOwnership(r, by, u) \/ DeleteOrganization(r, by) \/ JoinByInvite(r, u, ro)
      PROVE  CircleInv'
    BY <1>3, BeginKeepsCircleInv
       DEF AddMember, ChangeRole, RemoveMember, TransferOwnership, DeleteOrganization, JoinByInvite
<1>4. CASE UNCHANGED vars
    BY <1>4 DEF vars, CircleInv
<1>5. DeadlockVictim => CircleInv'
    BY <1>1, VictimAborts
<1> QED
    BY <1>1, <1>2, <1>3, <1>4, <1>5 DEF Next

(* Whoever is in the way and waits itself is a transfer or a cascade.      *)
LEMMA WaitingBlocker ==
    ASSUME IInv, CircleInv, NEW r \in Requests, NEW s \in Blockers(r), Blockers(s) # {}
    PROVE  s \in Requests /\ s # r /\ pc[s] \in {"demote", "cascade"}
<1>1. \/ \E u \in Users : lock[u] = s /\ s # r /\ s # NoOne
      \/ pc[r] = "write" /\ s \in Requests /\ (Deleting(s) \/ Inserting(s))
    BY DEF Blockers, IInv, TypeOK
<1>2. pc[s] # "commit"
    BY DEF Blockers
<1>3. CASE \E u \in Users : lock[u] = s /\ s # r /\ s # NoOne
    BY <1>2, <1>3 DEF CircleInv, IInv, TypeOK
<1>4. CASE pc[r] = "write" /\ s \in Requests /\ (Deleting(s) \/ Inserting(s))
    BY <1>2, <1>4 DEF Deleting, Inserting
<1> QED
    BY <1>1, <1>3, <1>4

(* One transfer waits for another: the requester of the one is the target  *)
(* of the other, so that one of them has read something that is out of     *)
(* date.                                                                   *)
LEMMA TransferWaitsForTransfer ==
    ASSUME IInv, CircleInv, NEW s \in Requests, NEW t \in Blockers(s),
           t \in Requests, pc[s] = "demote", pc[t] = "demote"
    PROVE  ~undisturbed[s] \/ ~undisturbed[t]
<1> SUFFICES ASSUME undisturbed[s], undisturbed[t]
             PROVE  FALSE
    OBVIOUS
<1>1. req[s].op = "transfer" /\ req[t].op = "transfer"
    BY DEF IInv, LockInv, Shape
<1>2. lock[req[s].by] = t /\ req[s].by \in Users
    BY DEF Blockers, IInv, TypeOK
<1>3. req[s].by = req[t].user
    BY <1>2 DEF CircleInv
<1>4. role[req[s].by] = "OWNER"
    BY <1>1 DEF IInv, ReadsStillHold, RequesterStillMay
<1>5. role[req[t].user] # "OWNER"
    BY <1>1 DEF CircleInv
<1> QED
    BY <1>3, <1>4, <1>5

(* Requests deadlock only around a transfer of ownership, against the      *)
(* cascade of a deletion or after a commit of somebody else.               *)
THEOREM DeadlocksAreOfTransfers == Spec => []DeadlocksNeedTransfer
<1>1. Init => CircleInv
    BY RequestsAssumption DEF Init, CircleInv
<1>2. IInv /\ CircleInv => DeadlocksNeedTransfer
    <2> SUFFICES ASSUME IInv, CircleInv, NEW S \in SUBSET Requests, S # {},
                        \A r \in S : Blockers(r) \cap S # {}
                 PROVE  \E r \in S : pc[r] = "demote" /\ (~undisturbed[r] \/ \E s \in S : pc[s] = "cascade")
        BY DEF DeadlocksNeedTransfer
    <2>1. \A r \in S : \E s \in S : s \in Blockers(r) /\ s # r /\ pc[s] \in {"demote", "cascade"}
        BY WaitingBlocker
    <2>2. CASE \E c \in S : pc[c] = "cascade"
        <3>1. PICK c \in S : pc[c] = "cascade"
            BY <2>2
        <3>2. PICK s \in S : s # c /\ pc[s] \in {"demote", "cascade"}
            BY <2>1
        <3>3. pc[s] # "cascade"
            BY <3>1, <3>2 DEF IInv, LockInv, Shape, OrgInv, Deleting
        <3> QED
            BY <3>1, <3>2, <3>3
    <2>3. CASE \A c \in S : pc[c] # "cascade"
        <3>1. PICK r \in S : TRUE
            OBVIOUS
        <3>2. PICK s \in S : s \in Blockers(r) /\ pc[s] = "demote"
            BY <2>1, <2>3
        <3>3. PICK t \in S : t \in Blockers(s) /\ pc[t] = "demote"
            BY <2>1, <2>3
        <3> QED
            BY <3>2, <3>3, TransferWaitsForTransfer
    <2> QED
        BY <2>2, <2>3
<1> QED
    BY <1>1, <1>2, NextKeepsCircleInv, Invariance, PTL DEF Spec
=============================================================================
