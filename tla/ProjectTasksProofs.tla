-------------------------- MODULE ProjectTasksProofs --------------------------
(***************************************************************************)
(* Proofs about ProjectTasks, for any users, projects, tasks and requests. *)
(*                                                                         *)
(* The inductive invariant has four parts.  Shape says which requests are  *)
(* in which phase.  LocksHeld says that the rows a request has locked or   *)
(* refers to are there and that a cascade has them from the top down.      *)
(* TreeInv is about the rows alone.  ReadsStillHold says that what an      *)
(* undisturbed request has read is still so.                               *)
(***************************************************************************)
EXTENDS ProjectTasks, TLAPS

Creates == {"create_project", "create_task"}

Shape(r) ==
    pc[r] # "idle" =>
        /\ req[r].row # Elsewhere
        /\ pc[r] \in {"project", "refer"} => req[r].op = "create_task"
        /\ pc[r] = "insert" => req[r].op \in Creates
        /\ pc[r] \in {"assignee", "reload"} => req[r].op = "update" /\ req[r].row \in Tasks
        /\ pc[r] \in {"member", "write"} => req[r].op \in {"update", "delete"}
        /\ pc[r] = "cascade" => req[r].op = "delete"
        /\ req[r].op = "create_task" => req[r].row \in Projects /\ req[r].status \in ALLOWED_STATUSES
        /\ req[r].op # "create_task" \/ pc[r] # "project" => req[r].org = Org
        /\ req[r].op = "update" =>
               /\ req[r].dirty \subseteq req[r].sets
               /\ req[r].row \notin Tasks => req[r].sets \subseteq {"text"}
               /\ pc[r] # "member" /\ "status" \in req[r].sets => KnownStatus(req[r].status) \/ IsNull(req[r])
               /\ pc[r] = "commit" => req[r].dirty = {} \/ ~IsNull(req[r])

Deletes(r) == pc[r] \in {"cascade", "commit"} /\ req[r].op = "delete"
Updates(r) == pc[r] = "commit" /\ req[r].op = "update"

Reach(r) == {req[r].row} \cup Below(req[r].row)

(* The rows r has locked, and why it has. *)
LockedByRight(r) ==
    \A x \in Rows : lock[x] = r =>
        /\ Live(x)
        /\ \/ Updates(r) /\ x = req[r].row
           \/ /\ Deletes(r) /\ x \in Reach(r)
              /\ x # req[r].row => \A z \in Parents(x) \cap Reach(r) : lock[z] = r

LocksHeld(r) ==
    /\ LockedByRight(r)
    /\ Updates(r) /\ req[r].dirty # {} => lock[req[r].row] = r
    /\ Deletes(r) => lock[req[r].row] = r
    /\ Deletes(r) /\ pc[r] = "commit" => \A y \in Below(req[r].row) : lock[y] = r
    /\ \A x \in Refers(r) : Live(x) /\ \A d \in Requests : lock[x] = d => ~Deletes(d)

TreeInv ==
    /\ TasksAreAtHome
    /\ \A p \in Projects : Live(p) => Live(Org)
    /\ Live(Elsewhere)
    /\ ~Live(Org) => \A u \in Users : role[u] = "NONE"

SetsAsAssignee(q) == task[q.row].assigned_to = q.by

(* The requester may still do what the checks passed found it may. *)
StillMayUpdate(q) ==
    IF q.row \in Tasks
    THEN /\ IsMember(q.by)
         /\ "status" \in q.sets => IsAdmin(q.by) \/ SetsAsAssignee(q)
         /\ "assigned_to" \in q.sets => IsAdmin(q.by)
    ELSE IsAdmin(q.by)

StillMayDelete(q) ==
    /\ q.row = Org => role[q.by] = "OWNER"
    /\ q.row \in Projects => IsAdmin(q.by)
    /\ q.row \in Tasks => IsMember(q.by) /\ (IsAdmin(q.by) \/ task[q.row].created_by = q.by)

ReadsCreate(r) ==
    /\ req[r].op = "create_project" => IsAdmin(req[r].by)
    /\ req[r].op = "create_task" =>
           /\ req[r].org = Org => IsMember(req[r].by)
           /\ pc[r] # "project" => Live(req[r].row)

ReadsUpdate(r) ==
    req[r].op = "update" =>
        /\ Live(req[r].row)
        /\ req[r].dirty = Dirty(req[r].row, req[r])
        /\ req[r].own => req[r].row \in Tasks /\ SetsAsAssignee(req[r])
        /\ pc[r] # "member" => StillMayUpdate(req[r])
        /\ /\ pc[r] \in {"reload", "write", "commit"} /\ req[r].row \in Tasks
           /\ "assigned_to" \in req[r].sets /\ req[r].assigned_to # NoOne
           => IsMember(req[r].assigned_to)

ReadsDelete(r) ==
    req[r].op = "delete" =>
        /\ Live(req[r].row)
        /\ req[r].own => req[r].row \in Tasks /\ task[req[r].row].created_by = req[r].by
        /\ pc[r] # "member" => StillMayDelete(req[r])

ReadsStillHold(r) ==
    pc[r] # "idle" /\ undisturbed[r] => ReadsCreate(r) /\ ReadsUpdate(r) /\ ReadsDelete(r)

IInv ==
    /\ TypeOK
    /\ TreeInv
    /\ \A r \in Requests : Shape(r) /\ LocksHeld(r) /\ ReadsStillHold(r)

USE DistinctRows, NobodyIsNoOne
USE DEF Roles, ALLOWED_STATUSES, Columns, Task, NoTask, Ops, NoRequest, Phases, Orgs, Creates

-----------------------------------------------------------------------------
LEMMA InitIInv == Init => IInv
BY DEF Init, IInv, TypeOK, TreeInv, TasksAreAtHome, Live, Rows, Shape, LocksHeld, LockedByRight,
   Updates, Deletes, Refers, ReadsStillHold

(* A request in progress has well-typed data. *)
LEMMA RequestTyped ==
    ASSUME TypeOK, NEW r \in Requests, pc[r] # "idle"
    PROVE  /\ req[r] \in Request
           /\ req[r].row \in Rows /\ req[r].org \in Rows /\ req[r].by \in Users
           /\ req[r].op \in Ops /\ req[r].assigned_to \in Users \cup {NoOne}
           /\ req[r].sets \subseteq Columns /\ req[r].dirty \subseteq Columns
           /\ req[r].own \in BOOLEAN
BY DEF TypeOK, Request, Rows

(* Live tasks have their columns. *)
LEMMA TaskTyped ==
    ASSUME TypeOK, NEW t \in Tasks, Live(t)
    PROVE  /\ task[t] \in Task
           /\ task[t].org \in Orgs /\ task[t].project \in Projects
           /\ Parents(t) = {task[t].org, task[t].project}
BY DEF TypeOK, Live, Parents

LEMMA ParentsAreRows ==
    ASSUME TypeOK, NEW x \in Rows
    PROVE  Parents(x) \subseteq Orgs \cup Projects
BY TaskTyped DEF Parents

-----------------------------------------------------------------------------
(* Steps within a transaction *)

(* A request is not concerned by a step of others that leaves the rows and *)
(* its locks as they are, and locks for deletion nothing it refers to.     *)
LEMMA OthersKeep ==
    ASSUME IInv, NEW s \in Requests,
           pc'[s] = pc[s], req'[s] = req[s], undisturbed'[s] = undisturbed[s],
           UNCHANGED <<state, task, role>>,
           \A x \in Rows : lock[x] = s <=> lock'[x] = s,
           \A x \in Refers(s), d \in Requests : lock'[x] = d => ~Deletes(d)'
    PROVE  Shape(s)' /\ LocksHeld(s)' /\ ReadsStillHold(s)'
<1> USE DEF IInv
<1>1. /\ \A x : Live(x)' = Live(x) /\ Parents(x)' = Parents(x) /\ Below(x)' = Below(x)
      /\ \A x, b : Dirty(x, b)' = Dirty(x, b)
    BY DEF Live, Parents, Below, Dirty
<1>2. /\ Reach(s)' = Reach(s) /\ Updates(s)' = Updates(s) /\ Deletes(s)' = Deletes(s)
      /\ Refers(s)' = Refers(s)
    BY <1>1 DEF Reach, Updates, Deletes, Refers
<1>3. Shape(s)'
    BY DEF Shape, IsNull
<1>4. LockedByRight(s)'
    <2>1. LockedByRight(s)
        BY DEF LocksHeld
    <2>2. ASSUME NEW x \in Rows, lock'[x] = s
          PROVE  /\ Live(x)'
                 /\ \/ Updates(s)' /\ x = req'[s].row
                    \/ /\ Deletes(s)' /\ x \in Reach(s)'
                       /\ x # req'[s].row => \A z \in Parents(x)' \cap Reach(s)' : lock'[z] = s
        BY <1>1, <1>2, <2>1, <2>2, ParentsAreRows DEF LockedByRight, Rows
    <2> QED
        BY <2>2 DEF LockedByRight
<1>5. pc[s] # "idle" => req[s].row \in Rows
    BY RequestTyped
<1>6. /\ Updates(s)' /\ req'[s].dirty # {} => lock'[req'[s].row] = s
      /\ Deletes(s)' => lock'[req'[s].row] = s
      /\ Deletes(s)' /\ pc'[s] = "commit" => \A y \in Below(req[s].row)' : lock'[y] = s
    <2>1. Below(req[s].row)' = Below(req[s].row)
        BY DEF Below, Parents, Live
    <2>2. \A y \in Below(req[s].row) : y \in Rows
        BY DEF Below
    <2>3. /\ Updates(s) /\ req[s].dirty # {} => lock[req[s].row] = s
          /\ Deletes(s) => lock[req[s].row] = s
          /\ Deletes(s) /\ pc[s] = "commit" => \A y \in Below(req[s].row) : lock[y] = s
        BY DEF LocksHeld
    <2>4. Updates(s) \/ Deletes(s) => req[s].row \in Rows
        BY <1>5 DEF Updates, Deletes
    <2> QED
        BY <1>2, <2>1, <2>2, <2>3, <2>4
<1>7. ASSUME NEW x \in Refers(s)'
      PROVE  Live(x)' /\ \A d \in Requests : lock'[x] = d => ~Deletes(d)'
    BY <1>1, <1>2 DEF LocksHeld
<1>8. LocksHeld(s)'
    BY <1>4, <1>6, <1>7 DEF LocksHeld
<1>9. ReadsStillHold(s)'
    BY <1>1 DEF ReadsStillHold, ReadsCreate, ReadsUpdate, ReadsDelete, StillMayUpdate,
       StillMayDelete, SetsAsAssignee, IsMember, IsAdmin
<1> QED
    BY <1>3, <1>8, <1>9

LEMMA TreeKeeps ==
    ASSUME TreeInv, UNCHANGED <<state, task, role>>
    PROVE  TreeInv'
BY DEF TreeInv, TasksAreAtHome, Live, Parents

(* A step of r that leaves the rows as they are keeps the invariant if r   *)
(* is entitled to its next phase and took only locks that were free.       *)
LEMMA StepKeepsIInv ==
    ASSUME IInv, NEW r \in Requests, NEW phase \in Phases \ {"idle"}, NEW q \in Request,
           pc' = [pc EXCEPT ![r] = phase], req' = [req EXCEPT ![r] = q],
           undisturbed' \in [Requests -> BOOLEAN],
           \A s \in Requests \ {r} : undisturbed'[s] = undisturbed[s],
           UNCHANGED <<state, task, role>>,
           lock' \in [Rows -> Requests \cup {NoOne}],
           \A x \in Rows : lock'[x] = lock[x] \/ (lock'[x] = r /\ lock[x] \in {NoOne, r}),
           \A x \in Rows, s \in Requests \ {r} : lock'[x] = r /\ Deletes(r)' => x \notin Refers(s),
           Shape(r)', LocksHeld(r)', ReadsStillHold(r)'
    PROVE  IInv'
<1> USE DEF IInv
<1>1. TypeOK'
    BY DEF TypeOK
<1>2. \A s \in Requests \ {r} : pc'[s] = pc[s] /\ req'[s] = req[s]
    BY DEF TypeOK
<1>3. TreeInv'
    BY TreeKeeps
<1>4. ASSUME NEW s \in Requests \ {r}
      PROVE  Shape(s)' /\ LocksHeld(s)' /\ ReadsStillHold(s)'
    <2>1. \A x \in Rows : lock[x] = s <=> lock'[x] = s
        BY DEF TypeOK
    <2>2. ASSUME NEW x \in Refers(s), NEW d \in Requests, lock'[x] = d
          PROVE  ~Deletes(d)'
        <3>1. x \in Rows /\ \A e \in Requests : lock[x] = e => ~Deletes(e)
            BY DEF LocksHeld, Refers
        <3>2. CASE d = r
            BY <2>2, <3>1, <3>2
        <3>3. CASE d # r
            BY <1>2, <2>2, <3>1, <3>3 DEF Deletes, TypeOK
        <3> QED
            BY <3>2, <3>3
    <2> QED
        BY <1>2, <2>1, <2>2, OthersKeep
<1> QED
    BY <1>1, <1>3, <1>4

(* The same for a step that only changes the phase and takes locks. *)
LEMMA LockStepKeepsIInv ==
    ASSUME IInv, NEW r \in Requests, NEW phase \in Phases \ {"idle"}, pc[r] # "idle", Goto(r, phase),
           lock' \in [Rows -> Requests \cup {NoOne}],
           \A x \in Rows : lock'[x] = lock[x] \/ (lock'[x] = r /\ lock[x] \in {NoOne, r}),
           req[r].op = "delete" => \A x \in Rows, s \in Requests \ {r} : lock'[x] = r => x \notin Refers(s),
           Shape(r)', LocksHeld(r)', ReadsStillHold(r)'
    PROVE  IInv'
<1>1. /\ pc' = [pc EXCEPT ![r] = phase] /\ req' = req
      /\ UNCHANGED <<state, task, role>> /\ undisturbed' = undisturbed
    BY DEF Goto
<1>2. /\ req[r] \in Request /\ req' = [req EXCEPT ![r] = req[r]]
      /\ undisturbed' \in [Requests -> BOOLEAN]
    BY <1>1 DEF IInv, TypeOK
<1>3. \A x \in Rows, s \in Requests \ {r} : lock'[x] = r /\ Deletes(r)' => x \notin Refers(s)
    BY <1>1 DEF Deletes
<1> QED
    BY <1>1, <1>2, <1>3, StepKeepsIInv

LEMMA FinishKeepsIInv ==
    ASSUME IInv, NEW r \in Requests, Finish(r)
    PROVE  IInv'
<1> USE DEF IInv, Finish, EndTransaction
<1>1. TypeOK'
    BY DEF TypeOK
<1>2. pc'[r] = "idle" /\ req'[r] = NoRequest
    BY DEF TypeOK
<1>3. \A s \in Requests \ {r} : pc'[s] = pc[s] /\ req'[s] = req[s] /\ undisturbed'[s] = undisturbed[s]
    BY DEF TypeOK
<1>4. TreeInv'
    BY TreeKeeps
<1>5. ASSUME NEW s \in Requests \ {r}
      PROVE  Shape(s)' /\ LocksHeld(s)' /\ ReadsStillHold(s)'
    <2>1. \A x \in Rows : lock[x] = s <=> lock'[x] = s
        BY DEF TypeOK
    <2>2. ASSUME NEW x \in Refers(s), NEW d \in Requests, lock'[x] = d
          PROVE  ~Deletes(d)'
        <3>1. x \in Rows /\ \A e \in Requests : lock[x] = e => ~Deletes(e)
            BY DEF LocksHeld, Refers
        <3> QED
            BY <1>3, <2>2, <3>1 DEF Deletes, TypeOK
    <2> QED
        BY <1>3, <2>1, <2>2, OthersKeep
<1>6. Shape(r)' /\ LocksHeld(r)' /\ ReadsStillHold(r)'
    BY <1>2 DEF Shape, LocksHeld, LockedByRight, Updates, Deletes, Refers, ReadsStillHold
<1> QED
    BY <1>1, <1>4, <1>5, <1>6

(* A request that holds no lock and has not written yet. *)
LEMMA NothingHeld ==
    ASSUME IInv, NEW r \in Requests, pc[r] \notin {"cascade", "commit"}
    PROVE  \A x \in Rows : lock[x] # r
BY DEF IInv, LocksHeld, LockedByRight, Updates, Deletes

LEMMA BeginKeepsIInv ==
    ASSUME IInv, NEW r \in Requests, NEW q \in Request, NEW phase \in {"insert", "project", "member"},
           Begin(r, phase, q), Shape(r)', ReadsStillHold(r)'
    PROVE  IInv'
<1> USE DEF IInv, Begin
<1>1. pc'[r] = phase /\ req'[r] = q
    BY DEF TypeOK
<1>2. \A x \in Rows : lock[x] # r
    BY NothingHeld
<1>3. LocksHeld(r)'
    BY <1>1, <1>2 DEF LocksHeld, LockedByRight, Updates, Deletes, Refers
<1> QED
    BY <1>2, <1>3, StepKeepsIInv DEF TypeOK

(* A statement that takes no lock, and is not the last one. *)
LEMMA GotoKeepsIInv ==
    ASSUME IInv, NEW r \in Requests, NEW phase \in Phases \ {"idle", "refer", "cascade", "commit"},
           pc[r] \notin {"idle", "cascade", "commit"},
           Goto(r, phase), UNCHANGED lock, Shape(r)', ReadsStillHold(r)'
    PROVE  IInv'
<1> USE DEF IInv, Goto
<1>1. pc'[r] = phase /\ req'[r] = req[r]
    BY DEF TypeOK
<1>2. \A x \in Rows : lock[x] # r
    BY NothingHeld
<1>3. LocksHeld(r)'
    BY <1>1, <1>2 DEF LocksHeld, LockedByRight, Updates, Deletes, Refers
<1>4. req[r] \in Request /\ req' = [req EXCEPT ![r] = req[r]]
    BY DEF TypeOK
<1> QED
    BY <1>2, <1>3, <1>4, StepKeepsIInv DEF TypeOK

(* A row is free for a writer when nobody else has it locked. *)
LEMMA FreeForWriter ==
    ASSUME TypeOK, NEW r \in Requests, NEW x \in Rows, Free(x, r), req[r].op \in {"update", "delete"}
    PROVE  /\ lock[x] \in {NoOne, r}
           /\ req[r].op = "delete" => \A s \in Requests \ {r} : x \notin Refers(s)
BY DEF Free, InTheWay, TypeOK

-----------------------------------------------------------------------------
(* The first statements *)

LEMMA CreateProjectKeepsIInv ==
    ASSUME IInv, NEW r \in Requests, NEW by \in Users, CreateProject(r, by)
    PROVE  IInv'
<1> DEFINE q == Ask("create_project", by, Org)
<1>1. q \in Request /\ q.op = "create_project" /\ q.by = by /\ q.row = Org /\ q.org = Org
    BY DEF Ask, Request, Rows
<1>2. Begin(r, "insert", q) /\ IsAdmin(by)
    BY DEF CreateProject
<1>3. pc'[r] = "insert" /\ req'[r] = q /\ role' = role
    BY <1>2 DEF Begin, IInv, TypeOK
<1>4. Shape(r)'
    BY <1>1, <1>3 DEF Shape
<1>5. ReadsStillHold(r)'
    BY <1>1, <1>2, <1>3 DEF ReadsStillHold, ReadsCreate, ReadsUpdate, ReadsDelete, IsAdmin
<1> HIDE DEF q
<1> QED
    BY <1>1, <1>2, <1>4, <1>5, BeginKeepsIInv

LEMMA CreateTaskKeepsIInv ==
    ASSUME IInv, NEW r \in Requests, NEW by \in Users, NEW o \in Orgs, NEW p \in Projects,
           NEW s \in StatusInputs \cup {"TODO"}, CreateTask(r, by, o, p, s)
    PROVE  IInv'
<1> DEFINE q == [Ask("create_task", by, p) EXCEPT !.org = o, !.status = s]
<1>1. q \in Request /\ q.op = "create_task" /\ q.by = by /\ q.row = p /\ q.org = o /\ q.status = s
    BY DEF Ask, Request, Rows
<1>2. Begin(r, "project", q) /\ (o = Org => IsMember(by)) /\ s \in ALLOWED_STATUSES
    BY DEF CreateTask, KnownStatus
<1>3. pc'[r] = "project" /\ req'[r] = q /\ role' = role
    BY <1>2 DEF Begin, IInv, TypeOK
<1>4. Shape(r)'
    BY <1>1, <1>2, <1>3 DEF Shape
<1>5. ReadsStillHold(r)'
    BY <1>1, <1>2, <1>3 DEF ReadsStillHold, ReadsCreate, ReadsUpdate, ReadsDelete, IsMember
<1> HIDE DEF q
<1> QED
    BY <1>1, <1>2, <1>4, <1>5, BeginKeepsIInv

LEMMA UpdateKeepsIInv ==
    ASSUME IInv, NEW r \in Requests, NEW by \in Users, NEW x \in Rows \ {Elsewhere},
           NEW b \in Bodies(x), Update(r, by, x, b)
    PROVE  IInv'
<1> DEFINE q == [Ask("update", by, x) EXCEPT
                    !.sets = b.sets, !.dirty = Dirty(x, b), !.status = b.status, !.assigned_to = b.assigned_to,
                    !.own = x \in Tasks /\ "status" \in b.sets /\ task[x].assigned_to = by]
<1>1. /\ b.sets \in SUBSET Columns /\ b.status \in StatusInputs \cup {"TODO"}
      /\ b.assigned_to \in Users \cup {NoOne} /\ (x \notin Tasks => b.sets \subseteq {"text"})
    BY ColumnSetsAssumption DEF Bodies
<1>2. Dirty(x, b) \subseteq b.sets
    BY DEF Dirty
<1>3. q \in Request
    BY <1>1, <1>2 DEF Ask, Request
<1>4. /\ q.op = "update" /\ q.by = by /\ q.row = x /\ q.org = Org
      /\ q.sets = b.sets /\ q.dirty = Dirty(x, b) /\ q.status = b.status /\ q.assigned_to = b.assigned_to
      /\ q.own => x \in Tasks /\ task[x].assigned_to = by
    BY DEF Ask
<1>5. Begin(r, "member", q) /\ Live(x)
    BY DEF Update
<1> HIDE DEF q
<1>6. pc'[r] = "member" /\ req'[r] = q /\ UNCHANGED <<state, task, role>>
    BY <1>5 DEF Begin, IInv, TypeOK
<1>7. Shape(r)'
    BY <1>1, <1>2, <1>4, <1>6 DEF Shape
<1>8. Dirty(x, req[r])' = Dirty(x, b)
    BY <1>4, <1>6 DEF Dirty
<1>9. ReadsStillHold(r)'
    BY <1>4, <1>5, <1>6, <1>8 DEF ReadsStillHold, ReadsCreate, ReadsUpdate, ReadsDelete, SetsAsAssignee, Live
<1> QED
    BY <1>3, <1>5, <1>7, <1>9, BeginKeepsIInv

LEMMA DeleteKeepsIInv ==
    ASSUME IInv, NEW r \in Requests, NEW by \in Users, NEW x \in Rows \ {Elsewhere}, Delete(r, by, x)
    PROVE  IInv'
<1> DEFINE q == [Ask("delete", by, x) EXCEPT !.own = x \in Tasks /\ task[x].created_by = by]
<1>1. q \in Request
    BY DEF Ask, Request
<1>2. /\ q.op = "delete" /\ q.by = by /\ q.row = x /\ q.org = Org
      /\ q.own => x \in Tasks /\ task[x].created_by = by
    BY DEF Ask
<1>3. Begin(r, "member", q) /\ Live(x)
    BY DEF Delete
<1> HIDE DEF q
<1>4. pc'[r] = "member" /\ req'[r] = q /\ UNCHANGED <<state, task, role>>
    BY <1>3 DEF Begin, IInv, TypeOK
<1>5. Shape(r)'
    BY <1>2, <1>4 DEF Shape
<1>6. ReadsStillHold(r)'
    BY <1>2, <1>3, <1>4 DEF ReadsStillHold, ReadsCreate, ReadsUpdate, ReadsDelete, Live
<1> QED
    BY <1>1, <1>3, <1>5, <1>6, BeginKeepsIInv

-----------------------------------------------------------------------------
(* The checks between the first statement and the one that writes *)

LEMMA LoadProjectKeepsIInv ==
    ASSUME IInv, NEW r \in Requests, LoadProject(r)
    PROVE  IInv'
<1> USE DEF IInv
<1>1. CASE Finish(r)
    BY <1>1, FinishKeepsIInv
<1>2. CASE ProjectFound(req[r]) /\ Goto(r, "insert") /\ UNCHANGED lock
    <2>1. pc[r] = "project" /\ req[r].op = "create_task" /\ req[r].row \in Projects
        BY DEF LoadProject, Shape
    <2>2. Live(req[r].row) /\ req[r].org = Org
        BY <1>2, <2>1 DEF ProjectFound, Parents
    <2>3. pc'[r] = "insert" /\ req' = req /\ UNCHANGED <<state, task, role, undisturbed>>
        BY <1>2 DEF Goto, TypeOK
    <2>4. Shape(r)'
        BY <2>1, <2>2, <2>3 DEF Shape
    <2>5. ReadsStillHold(r)'
        BY <2>1, <2>2, <2>3 DEF ReadsStillHold, ReadsCreate, ReadsUpdate, ReadsDelete, IsMember, Live
    <2> QED
        BY <1>2, <2>1, <2>4, <2>5, GotoKeepsIInv
<1> QED
    BY <1>1, <1>2 DEF LoadProject

LEMMA ReadMemberKeepsIInv ==
    ASSUME IInv, NEW r \in Requests, ReadMember(r)
    PROVE  IInv'
<1> USE DEF IInv
<1>1. CASE Finish(r)
    BY <1>1, FinishKeepsIInv
<1>2. CASE ~Finish(r)
    <2> DEFINE q == [req[r] EXCEPT !.own = FALSE]
               phase == AfterMember(req[r])
    <2>1. pc[r] = "member" /\ req[r] \in Request
        BY DEF ReadMember, TypeOK
    <2>2. /\ IF req[r].op = "update" THEN MayUpdate(req[r]) ELSE MayDelete(req[r])
          /\ pc' = [pc EXCEPT ![r] = phase]
          /\ req' = [req EXCEPT ![r] = q]
          /\ UNCHANGED <<state, task, role, lock, undisturbed>>
        BY <1>2 DEF ReadMember
    <2>3. /\ q \in Request /\ q.op = req[r].op /\ q.by = req[r].by /\ q.row = req[r].row /\ q.org = req[r].org
          /\ q.sets = req[r].sets /\ q.dirty = req[r].dirty /\ q.status = req[r].status
          /\ q.assigned_to = req[r].assigned_to /\ q.own = FALSE
        BY <2>1 DEF Request
    <2>4. req[r].op \in {"update", "delete"}
        BY <2>1 DEF Shape
    <2>5. /\ phase \in {"write", "assignee", "reload"}
          /\ phase # "write" => req[r].op = "update" /\ req[r].row \in Tasks
          /\ phase \in {"write", "reload"} /\ req[r].op = "update" /\ req[r].row \in Tasks =>
                 "assigned_to" \notin req[r].sets \/ req[r].assigned_to = NoOne
        BY <2>4 DEF AfterMember
    <2> HIDE DEF q, phase
    <2>6. pc'[r] = phase /\ req'[r] = q
        BY <2>2 DEF TypeOK
    <2>7. Shape(r)'
        <3>1. req[r].op = "update" /\ "status" \in req[r].sets => KnownStatus(req[r].status) \/ IsNull(req[r])
            BY <2>1, <2>2 DEF MayUpdate, MaySet, IsNull, Shape
        <3>2. Shape(r)
            OBVIOUS
        <3> QED
            BY <2>1, <2>3, <2>4, <2>5, <2>6, <3>1, <3>2 DEF Shape, IsNull, KnownStatus
    <2>8. LocksHeld(r)'
        BY <2>2, <2>5, <2>6, <2>1, NothingHeld DEF LocksHeld, LockedByRight, Updates, Deletes, Refers
    <2>9. ReadsStillHold(r)'
        <3> SUFFICES ASSUME undisturbed[r]
                     PROVE  ReadsCreate(r)' /\ ReadsUpdate(r)' /\ ReadsDelete(r)'
            BY <2>2 DEF ReadsStillHold
        <3>1. ReadsUpdate(r) /\ ReadsDelete(r)
            BY <2>1 DEF ReadsStillHold
        <3>2. ReadsCreate(r)'
            BY <2>3, <2>4, <2>6 DEF ReadsCreate
        <3>3. ReadsUpdate(r)'
            <4> SUFFICES ASSUME req[r].op = "update"
                         PROVE  ReadsUpdate(r)'
                BY <2>3, <2>6 DEF ReadsUpdate
            <4>1. Dirty(req[r].row, req[r])' = Dirty(req[r].row, req[r])
                BY <2>2, <2>3, <2>6 DEF Dirty
            <4>2. StillMayUpdate(req[r])
                BY <2>2, <3>1 DEF MayUpdate, MaySet, StillMayUpdate, ReadsUpdate
            <4>3. StillMayUpdate(req[r])'
                BY <2>2, <2>3, <2>6, <4>2 DEF StillMayUpdate, SetsAsAssignee, IsMember, IsAdmin
            <4> QED
                BY <2>2, <2>3, <2>5, <2>6, <3>1, <4>1, <4>3 DEF ReadsUpdate, Live
        <3>4. ReadsDelete(r)'
            <4> SUFFICES ASSUME req[r].op = "delete"
                         PROVE  ReadsDelete(r)'
                BY <2>3, <2>6 DEF ReadsDelete
            <4>1. StillMayDelete(req[r])
                BY <2>2, <3>1 DEF MayDelete, StillMayDelete, ReadsDelete
            <4> QED
                BY <2>2, <2>3, <2>6, <3>1, <4>1 DEF ReadsDelete, StillMayDelete, IsMember, IsAdmin, Live
        <3> QED
            BY <3>2, <3>3, <3>4
    <2> QED
        BY <2>1, <2>2, <2>3, <2>5, <2>7, <2>8, <2>9, NothingHeld, StepKeepsIInv DEF TypeOK
<1> QED
    BY <1>1, <1>2

LEMMA ReadAssigneeKeepsIInv ==
    ASSUME IInv, NEW r \in Requests, ReadAssignee(r)
    PROVE  IInv'
<1> USE DEF IInv
<1>1. CASE Finish(r)
    BY <1>1, FinishKeepsIInv
<1>2. CASE IsMember(req[r].assigned_to) /\ Goto(r, "reload") /\ UNCHANGED lock
    <2>1. pc[r] = "assignee"
        BY DEF ReadAssignee
    <2>2. pc'[r] = "reload" /\ req' = req /\ UNCHANGED <<state, task, role, undisturbed>>
        BY <1>2 DEF Goto, TypeOK
    <2>3. Shape(r)'
        BY <2>1, <2>2 DEF Shape, IsNull
    <2>4. ReadsStillHold(r)'
        BY <1>2, <2>1, <2>2 DEF ReadsStillHold, ReadsCreate, ReadsUpdate, ReadsDelete, StillMayUpdate,
           StillMayDelete, SetsAsAssignee, IsMember, IsAdmin, Live, Dirty, Shape
    <2> QED
        BY <1>2, <2>1, <2>3, <2>4, GotoKeepsIInv
<1> QED
    BY <1>1, <1>2 DEF ReadAssignee

LEMMA ReloadKeepsIInv ==
    ASSUME IInv, NEW r \in Requests, Reload(r)
    PROVE  IInv'
<1> USE DEF IInv
<1>1. CASE Finish(r)
    BY <1>1, FinishKeepsIInv
<1>2. CASE Goto(r, "write") /\ UNCHANGED lock
    <2>1. pc[r] = "reload"
        BY DEF Reload
    <2>2. pc'[r] = "write" /\ req' = req /\ UNCHANGED <<state, task, role, undisturbed>>
        BY <1>2 DEF Goto, TypeOK
    <2>3. Shape(r)'
        BY <2>1, <2>2 DEF Shape, IsNull
    <2>4. ReadsStillHold(r)'
        BY <1>2, <2>1, <2>2 DEF ReadsStillHold, ReadsCreate, ReadsUpdate, ReadsDelete, StillMayUpdate,
           StillMayDelete, SetsAsAssignee, IsMember, IsAdmin, Live, Dirty, Shape
    <2> QED
        BY <1>2, <2>1, <2>3, <2>4, GotoKeepsIInv
<1> QED
    BY <1>1, <1>2 DEF Reload

-----------------------------------------------------------------------------
(* The statements that write *)

LEMMA UpdateRowKeepsIInv ==
    ASSUME IInv, NEW r \in Requests, UpdateRow(r)
    PROVE  IInv'
<1> USE DEF IInv
<1>1. CASE Finish(r)
    BY <1>1, FinishKeepsIInv
<1>2. CASE ~Finish(r)
    <2> DEFINE x == req[r].row
    <2>1. /\ pc[r] = "write" /\ req[r].op = "update" /\ Goto(r, "commit")
          /\ \/ req[r].dirty = {} /\ UNCHANGED lock
             \/ Live(x) /\ ~IsNull(req[r]) /\ Acquire(r, x)
        BY <1>2 DEF UpdateRow
    <2>2. /\ pc' = [pc EXCEPT ![r] = "commit"] /\ req' = [req EXCEPT ![r] = req[r]]
          /\ pc'[r] = "commit" /\ req' = req /\ req[r] \in Request /\ x \in Rows
          /\ UNCHANGED <<state, task, role, undisturbed>>
        BY <2>1, RequestTyped DEF Goto, TypeOK
    <2>3. \A y \in Rows : lock[y] # r
        BY <2>1, NothingHeld
    <2>4. Shape(r)'
        BY <2>1, <2>2 DEF Shape, IsNull
    <2>5. lock' \in [Rows -> Requests \cup {NoOne}]
        BY <2>1 DEF Acquire, TypeOK
    <2>6. \A y \in Rows : lock'[y] = lock[y] \/ (lock'[y] = r /\ lock[y] \in {NoOne, r} /\ y = x /\ Live(x))
        BY <2>1, <2>2, FreeForWriter DEF Acquire, TypeOK
    <2>7. LocksHeld(r)'
        BY <2>1, <2>2, <2>3, <2>6 DEF LocksHeld, LockedByRight, Updates, Deletes, Refers, Acquire, TypeOK, Live
    <2>8. ReadsStillHold(r)'
        BY <2>1, <2>2 DEF ReadsStillHold, ReadsCreate, ReadsUpdate, ReadsDelete, StillMayUpdate,
           StillMayDelete, SetsAsAssignee, IsMember, IsAdmin, Live, Dirty, Shape
    <2> QED
        BY <2>1, <2>4, <2>5, <2>6, <2>7, <2>8, LockStepKeepsIInv
<1> QED
    BY <1>1, <1>2

LEMMA DeleteRowKeepsIInv ==
    ASSUME IInv, NEW r \in Requests, DeleteRow(r)
    PROVE  IInv'
<1> USE DEF IInv
<1>1. CASE Finish(r)
    BY <1>1, FinishKeepsIInv
<1>2. CASE ~Finish(r)
    <2> DEFINE x == req[r].row
    <2>1. /\ pc[r] = "write" /\ req[r].op = "delete" /\ Goto(r, "cascade")
          /\ Live(x) /\ Acquire(r, x)
        BY <1>2 DEF DeleteRow
    <2>2. /\ pc' = [pc EXCEPT ![r] = "cascade"] /\ req' = [req EXCEPT ![r] = req[r]]
          /\ pc'[r] = "cascade" /\ req' = req /\ req[r] \in Request /\ x \in Rows
          /\ UNCHANGED <<state, task, role, undisturbed>>
        BY <2>1, RequestTyped DEF Goto, TypeOK
    <2>3. \A y \in Rows : lock[y] # r
        BY <2>1, NothingHeld
    <2>4. Shape(r)'
        BY <2>1, <2>2 DEF Shape
    <2>5. lock' = [lock EXCEPT ![x] = r] /\ lock[x] \in {NoOne, r}
          /\ \A s \in Requests \ {r} : x \notin Refers(s)
        BY <2>1, <2>2, FreeForWriter DEF Acquire
    <2>6. \A y \in Rows : y # x => lock'[y] = lock[y]
        BY <2>5 DEF TypeOK
    <2>7. lock'[x] = r /\ lock' \in [Rows -> Requests \cup {NoOne}]
        BY <2>2, <2>5 DEF TypeOK
    <2>8. LocksHeld(r)'
        <3>1. Live(x)' /\ x \in Reach(r)' /\ Deletes(r)' /\ ~Updates(r)' /\ Refers(r)' = {}
            BY <2>1, <2>2 DEF Live, Reach, Deletes, Updates, Refers
        <3>2. LockedByRight(r)'
            BY <2>2, <2>3, <2>6, <3>1 DEF LockedByRight
        <3> QED
            BY <2>2, <2>7, <3>1, <3>2 DEF LocksHeld
    <2>9. ReadsStillHold(r)'
        BY <2>1, <2>2 DEF ReadsStillHold, ReadsCreate, ReadsUpdate, ReadsDelete, StillMayUpdate,
           StillMayDelete, SetsAsAssignee, IsMember, IsAdmin, Live, Dirty, Shape
    <2> QED
        BY <2>1, <2>3, <2>4, <2>5, <2>6, <2>7, <2>8, <2>9, LockStepKeepsIInv
<1> QED
    BY <1>1, <1>2

LEMMA CascadeRowKeepsIInv ==
    ASSUME IInv, NEW r \in Requests, CascadeRow(r)
    PROVE  IInv'
<1> USE DEF IInv
<1>1. pc[r] = "cascade" /\ req[r].op = "delete" /\ Goto(r, "cascade")
    BY DEF CascadeRow, Shape
<1>2. PICK y \in NextBelow(r) : Acquire(r, y)
    BY DEF CascadeRow
<1>3. /\ pc' = [pc EXCEPT ![r] = "cascade"] /\ req' = [req EXCEPT ![r] = req[r]]
      /\ pc' = pc /\ req' = req /\ req[r] \in Request
      /\ UNCHANGED <<state, task, role, undisturbed>>
    BY <1>1 DEF Goto, TypeOK
<1>4. y \in Rows /\ y \in Below(req[r].row) /\ Live(y)
      /\ \A z \in Parents(y) \cap Reach(r) : lock[z] = r
    BY DEF NextBelow, Below, Reach
<1>5. /\ lock' = [lock EXCEPT ![y] = r] /\ lock[y] \in {NoOne, r}
      /\ \A s \in Requests \ {r} : y \notin Refers(s)
    BY <1>1, <1>2, <1>4, FreeForWriter DEF Acquire
<1>6. \A x \in Rows : x # y => lock'[x] = lock[x]
    BY <1>5 DEF TypeOK
<1>7. lock'[y] = r /\ lock' \in [Rows -> Requests \cup {NoOne}]
    BY <1>4, <1>5 DEF TypeOK
<1>8. /\ Shape(r)' /\ ReadsStillHold(r)'
      /\ \A x : Live(x)' = Live(x) /\ Parents(x)' = Parents(x)
      /\ Reach(r)' = Reach(r) /\ Deletes(r) /\ Deletes(r)'
    <2>1. Shape(r)'
        BY <1>3 DEF Shape, IsNull
    <2>2. ReadsStillHold(r)'
        BY <1>1, <1>3 DEF ReadsStillHold, ReadsCreate, ReadsUpdate, ReadsDelete, StillMayUpdate,
           StillMayDelete, SetsAsAssignee, IsMember, IsAdmin, Live, Dirty
    <2>3. \A x : Live(x)' = Live(x) /\ Parents(x)' = Parents(x)
        BY <1>3 DEF Live, Parents
    <2>4. Reach(r)' = Reach(r)
        BY <1>3 DEF Reach, Below, Live, Parents
    <2> QED
        BY <1>1, <1>3, <2>1, <2>2, <2>3, <2>4 DEF Deletes
<1>9. LocksHeld(r)'
    <2>1. LockedByRight(r) /\ lock[req[r].row] = r /\ req[r].row \in Rows /\ ~Updates(r) /\ ~Updates(r)'
        BY <1>1, <1>3, <1>8, RequestTyped DEF LocksHeld, Updates
    <2>2. LockedByRight(r)'
        <3> SUFFICES ASSUME NEW x \in Rows, lock'[x] = r
                     PROVE  /\ Live(x) /\ x \in Reach(r)
                            /\ x # req[r].row => \A z \in Parents(x) \cap Reach(r) : lock'[z] = r
            BY <1>3, <1>8 DEF LockedByRight
        <3>1. \A z \in Parents(x) : z \in Rows
            BY ParentsAreRows DEF Rows
        <3>2. CASE x = y
            BY <1>4, <1>6, <1>7, <3>1, <3>2 DEF Reach
        <3>3. CASE x # y
            BY <1>6, <1>7, <2>1, <3>1, <3>3 DEF LockedByRight
        <3> QED
            BY <3>2, <3>3
    <2>3. Refers(r)' = {}
        BY <1>1, <1>3 DEF Refers
    <2> QED
        BY <1>1, <1>3, <1>6, <1>7, <2>1, <2>2, <2>3 DEF LocksHeld
<1>10. \A x \in Rows, s \in Requests \ {r} : lock'[x] = r => x \notin Refers(s)
    <2> SUFFICES ASSUME NEW x \in Rows, NEW s \in Requests \ {r}, lock'[x] = r, x # y
                 PROVE  x \notin Refers(s)
        BY <1>5
    <2> QED
        BY <1>6, <1>8 DEF LocksHeld
<1> QED
    BY <1>1, <1>5, <1>6, <1>7, <1>8, <1>9, <1>10, LockStepKeepsIInv

LEMMA CascadeEndsKeepsIInv ==
    ASSUME IInv, NEW r \in Requests, CascadeEnds(r)
    PROVE  IInv'
<1> USE DEF IInv
<1>1. pc[r] = "cascade" /\ req[r].op = "delete" /\ Goto(r, "commit") /\ UNCHANGED lock
    BY DEF CascadeEnds, Shape
<1>2. /\ pc' = [pc EXCEPT ![r] = "commit"] /\ req' = [req EXCEPT ![r] = req[r]]
      /\ pc'[r] = "commit" /\ req' = req /\ req[r] \in Request
      /\ UNCHANGED <<state, task, role, undisturbed>>
    BY <1>1 DEF Goto, TypeOK
<1>3. Shape(r)'
    BY <1>1, <1>2 DEF Shape
<1>4. ReadsStillHold(r)'
    BY <1>1, <1>2 DEF ReadsStillHold, ReadsCreate, ReadsUpdate, ReadsDelete, StillMayUpdate,
       StillMayDelete, SetsAsAssignee, IsMember, IsAdmin, Live, Dirty
<1>5. LocksHeld(r)'
    <2>1. LockedByRight(r) /\ lock[req[r].row] = r /\ ~Updates(r) /\ ~Updates(r)' /\ Deletes(r) /\ Deletes(r)'
        BY <1>1, <1>2 DEF LocksHeld, Updates, Deletes
    <2>2. /\ \A x : Live(x)' = Live(x) /\ Parents(x)' = Parents(x)
          /\ Reach(r)' = Reach(r) /\ Below(req[r].row)' = Below(req[r].row)
        BY <1>2 DEF Live, Parents, Reach, Below
    <2>3. LockedByRight(r)'
        BY <1>1, <1>2, <2>1, <2>2 DEF LockedByRight
    <2>4. Refers(r)' = {}
        BY <1>1, <1>2 DEF Refers
    <2>5. \A y \in Below(req[r].row) : lock[y] = r
        BY DEF CascadeEnds
    <2> QED
        BY <1>1, <1>2, <2>1, <2>2, <2>3, <2>4, <2>5 DEF LocksHeld
<1>6. \A x \in Rows, s \in Requests \ {r} : lock'[x] = r => x \notin Refers(s)
    BY <1>1 DEF LocksHeld, Deletes
<1> QED
    BY <1>1, <1>3, <1>4, <1>5, <1>6, LockStepKeepsIInv DEF TypeOK

LEMMA InsertRowKeepsIInv ==
    ASSUME IInv, NEW r \in Requests, InsertRow(r)
    PROVE  IInv'
<1> USE DEF IInv
<1>1. CASE Finish(r)
    BY <1>1, FinishKeepsIInv
<1>2. CASE ~Finish(r)
    <2> DEFINE phase == IF req[r].op = "create_task" THEN "refer" ELSE "commit"
    <2>1. /\ pc[r] = "insert" /\ req[r].op \in Creates /\ req[r].org = Org
          /\ Free(req[r].org, r) /\ Live(req[r].org) /\ Goto(r, phase) /\ UNCHANGED lock
        BY <1>2 DEF InsertRow, Shape
    <2>2. /\ pc' = [pc EXCEPT ![r] = phase] /\ req' = [req EXCEPT ![r] = req[r]]
          /\ pc'[r] = phase /\ req' = req /\ req[r] \in Request
          /\ UNCHANGED <<state, task, role, undisturbed>>
        BY <2>1 DEF Goto, TypeOK
    <2>3. Shape(r)'
        BY <2>1, <2>2 DEF Shape
    <2>4. ReadsStillHold(r)'
        BY <2>1, <2>2 DEF ReadsStillHold, ReadsCreate, ReadsUpdate, ReadsDelete, IsMember, IsAdmin, Live
    <2>5. \A x \in Rows : lock[x] # r
        BY <2>1, NothingHeld
    <2>6. \A d \in Requests : lock[req[r].org] = d => req[d].op # "delete" /\ d # r
        BY <2>1, <2>5 DEF Free, InTheWay, Rows
    <2>7. LocksHeld(r)'
        BY <2>1, <2>2, <2>5, <2>6 DEF LocksHeld, LockedByRight, Updates, Deletes, Refers, Live
    <2>8. phase \in Phases \ {"idle"}
        OBVIOUS
    <2> HIDE DEF phase
    <2> QED
        BY <2>1, <2>3, <2>4, <2>5, <2>7, <2>8, LockStepKeepsIInv DEF TypeOK
<1> QED
    BY <1>1, <1>2

LEMMA ReferToProjectKeepsIInv ==
    ASSUME IInv, NEW r \in Requests, ReferToProject(r)
    PROVE  IInv'
<1> USE DEF IInv
<1>1. CASE Finish(r)
    BY <1>1, FinishKeepsIInv
<1>2. CASE ~Finish(r)
    <2>1. /\ pc[r] = "refer" /\ req[r].op = "create_task" /\ req[r].org = Org
          /\ Free(req[r].row, r) /\ Live(req[r].row) /\ Goto(r, "commit") /\ UNCHANGED lock
        BY <1>2 DEF ReferToProject, Shape
    <2>2. /\ pc' = [pc EXCEPT ![r] = "commit"] /\ req' = [req EXCEPT ![r] = req[r]]
          /\ pc'[r] = "commit" /\ req' = req /\ req[r] \in Request /\ req[r].row \in Rows
          /\ UNCHANGED <<state, task, role, undisturbed>>
        BY <2>1, RequestTyped DEF Goto, TypeOK
    <2>3. Shape(r)'
        BY <2>1, <2>2 DEF Shape
    <2>4. ReadsStillHold(r)'
        BY <2>1, <2>2 DEF ReadsStillHold, ReadsCreate, ReadsUpdate, ReadsDelete, IsMember, IsAdmin, Live
    <2>5. \A x \in Rows : lock[x] # r
        BY <2>1, NothingHeld
    <2>6. \A d \in Requests : lock[req[r].row] = d => req[d].op # "delete" /\ d # r
        BY <2>1, <2>2, <2>5 DEF Free, InTheWay
    <2>7. Live(Org) /\ \A d \in Requests : lock[Org] = d => ~Deletes(d) /\ d # r
        <3>1. Org \in Refers(r)
            BY <2>1 DEF Refers, Rows
        <3> QED
            BY <2>5, <3>1 DEF LocksHeld, Rows
    <2>8. LocksHeld(r)'
        <3>1. \A d \in Requests \ {r} : Deletes(d)' = Deletes(d)
            BY <2>2 DEF Deletes, TypeOK
        <3>2. ~Updates(r)' /\ ~Deletes(r)' /\ LockedByRight(r)'
            BY <2>1, <2>2, <2>5 DEF Updates, Deletes, LockedByRight
        <3>3. \A x \in Refers(r)' : x = Org \/ x = req[r].row
            BY <2>1, <2>2 DEF Refers
        <3>4. \A d \in Requests : lock[req[r].row] = d => ~Deletes(d)'
            BY <2>2, <2>6 DEF Deletes
        <3>5. \A d \in Requests : lock[Org] = d => ~Deletes(d)'
            BY <2>7, <3>1
        <3>6. \A x \in Refers(r)' : Live(x)' /\ \A d \in Requests : lock'[x] = d => ~Deletes(d)'
            BY <2>1, <2>2, <2>7, <3>3, <3>4, <3>5 DEF Live
        <3> QED
            BY <3>2, <3>6 DEF LocksHeld
    <2> QED
        BY <2>1, <2>3, <2>4, <2>5, <2>8, LockStepKeepsIInv DEF TypeOK
<1> QED
    BY <1>1, <1>2

-----------------------------------------------------------------------------
(* Commits *)

(* A commit of r leaves a request s as it is if no row s has locked or     *)
(* refers to changes, and nothing comes below a row s is deleting.         *)
LEMMA CommitKeepsOthers ==
    ASSUME IInv, NEW r \in Requests, NEW s \in Requests \ {r}, EndWithCommit(r),
           \A x \in Rows : lock[x] = s => Live(x)' /\ Parents(x)' = Parents(x),
           \A w : Deletes(s) /\ w = req[s].row => Below(w)' \subseteq Below(w),
           \A x \in Refers(s) : Live(x)'
    PROVE  Shape(s)' /\ LocksHeld(s)' /\ ReadsStillHold(s)'
<1> USE DEF IInv
<1>1. /\ pc'[s] = pc[s] /\ req'[s] = req[s] /\ ~undisturbed'[s]
      /\ \A x \in Rows, d \in Requests : lock'[x] = d => lock[x] = d /\ d # r
      /\ \A x \in Rows : lock[x] = s => lock'[x] = s
    BY DEF EndWithCommit, EndTransaction, TypeOK
<1>2. Shape(s)'
    BY <1>1 DEF Shape, IsNull
<1>3. ReadsStillHold(s)'
    BY <1>1 DEF ReadsStillHold
<1>4. /\ Updates(s)' = Updates(s) /\ Deletes(s)' = Deletes(s) /\ Refers(s)' = Refers(s)
      /\ \A d \in Requests \ {r} : Deletes(d)' = Deletes(d)
    <2>1. \A d \in Requests \ {r} : pc'[d] = pc[d] /\ req'[d] = req[d]
        BY DEF EndWithCommit, EndTransaction, TypeOK
    <2> QED
        BY <1>1, <2>1 DEF Updates, Deletes, Refers
<1>5. LockedByRight(s)'
    <2> SUFFICES ASSUME NEW x \in Rows, lock'[x] = s
                 PROVE  /\ Live(x)'
                        /\ \/ Updates(s)' /\ x = req'[s].row
                           \/ /\ Deletes(s)' /\ x \in Reach(s)'
                              /\ x # req'[s].row => \A z \in Parents(x)' \cap Reach(s)' : lock'[z] = s
        BY DEF LockedByRight
    <2>1. lock[x] = s /\ Live(x)' /\ Parents(x)' = Parents(x) /\ LockedByRight(s)
        BY <1>1 DEF LocksHeld
    <2>2. CASE Updates(s) /\ x = req[s].row
        BY <1>1, <1>4, <2>1, <2>2
    <2>3. CASE /\ Deletes(s) /\ x \in Reach(s)
               /\ x # req[s].row => \A z \in Parents(x) \cap Reach(s) : lock[z] = s
        <3>1. Reach(s)' \subseteq Reach(s)
            BY <1>1, <2>3 DEF Reach
        <3>2. x \in Reach(s)'
            <4>1. \A z \in Parents(x) : Parents(z)' = Parents(z)
                BY ParentsAreRows DEF Parents
            <4>2. CASE x = req[s].row
                BY <1>1, <4>2 DEF Reach
            <4>3. CASE x \in Below(req[s].row)
                <5>1. PICK z \in Parents(x) : z = req[s].row \/ req[s].row \in Parents(z)
                    BY <4>3 DEF Below
                <5> QED
                    BY <1>1, <2>1, <4>1, <5>1 DEF Reach, Below
            <4> QED
                BY <2>3, <4>2, <4>3 DEF Reach
        <3>3. \A z \in Parents(x) : z \in Rows
            BY ParentsAreRows DEF Rows
        <3> QED
            BY <1>1, <1>4, <2>1, <2>3, <3>1, <3>2, <3>3
    <2> QED
        BY <2>1, <2>2, <2>3 DEF LockedByRight
<1>6. /\ Updates(s) \/ Deletes(s) => req[s].row \in Rows
      /\ Updates(s) /\ req[s].dirty # {} => lock[req[s].row] = s
      /\ Deletes(s) => lock[req[s].row] = s
      /\ Deletes(s) /\ pc[s] = "commit" => \A y \in Below(req[s].row) : y \in Rows /\ lock[y] = s
    BY RequestTyped DEF LocksHeld, Updates, Deletes, Below
<1>7. \A x \in Refers(s) : x \in Rows /\ \A d \in Requests : lock[x] = d => ~Deletes(d)
    BY DEF LocksHeld, Refers
<1>8. Deletes(s) => Below(req[s].row)' \subseteq Below(req[s].row)
    <2> DEFINE w == req[s].row
    <2>1. w' = w
        BY <1>1
    <2> SUFFICES ASSUME Deletes(s), NEW y \in Below(w)'
                 PROVE  y \in Below(w)
        OBVIOUS
    <2>2. \A v : v = w => Below(v)' \subseteq Below(v)
        OBVIOUS
    <2> QED
        BY <2>1, <2>2
<1>9. /\ Updates(s)' /\ req'[s].dirty # {} => lock'[req'[s].row] = s
      /\ Deletes(s)' => lock'[req'[s].row] = s
      /\ Deletes(s)' /\ pc'[s] = "commit" => \A y \in Below(req[s].row)' : lock'[y] = s
    BY <1>1, <1>4, <1>6, <1>8
<1>10. \A x \in Refers(s)' : Live(x)' /\ \A d \in Requests : lock'[x] = d => ~Deletes(d)'
    BY <1>1, <1>4, <1>7
<1>11. LocksHeld(s)'
    BY <1>5, <1>9, <1>10 DEF LocksHeld
<1> QED
    BY <1>2, <1>3, <1>11

LEMMA CommitKeepsIInv ==
    ASSUME IInv, NEW r \in Requests, EndWithCommit(r),
           state' \in [Rows -> {"absent", "live", "deleted"}],
           task' \in [Tasks -> Task \cup {NoTask}],
           \A t \in Tasks : state'[t] = "live" <=> task'[t] \in Task,
           role' \in [Users -> Roles],
           TreeInv',
           \A s \in Requests \ {r}, x \in Rows : lock[x] = s => Live(x)' /\ Parents(x)' = Parents(x),
           \A s \in Requests \ {r} : \A w : Deletes(s) /\ w = req[s].row => Below(w)' \subseteq Below(w),
           \A s \in Requests \ {r} : \A x \in Refers(s) : Live(x)'
    PROVE  IInv'
<1>1. TypeOK'
    BY DEF EndWithCommit, EndTransaction, IInv, TypeOK
<1>2. pc'[r] = "idle" /\ \A x \in Rows : lock'[x] # r
    BY DEF EndWithCommit, EndTransaction, IInv, TypeOK
<1>3. Shape(r)' /\ LocksHeld(r)' /\ ReadsStillHold(r)'
    BY <1>2 DEF Shape, LocksHeld, LockedByRight, Updates, Deletes, Refers, ReadsStillHold
<1>4. \A s \in Requests \ {r} : Shape(s)' /\ LocksHeld(s)' /\ ReadsStillHold(s)'
    BY CommitKeepsOthers
<1> QED
    BY <1>1, <1>3, <1>4 DEF IInv

LEMMA CommitProjectKeepsIInv ==
    ASSUME IInv, NEW r \in Requests, CommitProject(r)
    PROVE  IInv'
<1> USE DEF IInv
<1>1. pc[r] = "commit" /\ req[r].op = "create_project" /\ req[r].org = Org /\ EndWithCommit(r)
      /\ UNCHANGED <<task, role>>
    BY DEF CommitProject, Shape
<1>2. PICK p \in Projects : state[p] = "absent" /\ state' = [state EXCEPT ![p] = "live"]
    BY DEF CommitProject
<1>3. Live(Org) /\ \A d \in Requests : lock[Org] = d => ~Deletes(d)
    <2>1. Org \in Refers(r)
        BY <1>1 DEF Refers, Rows
    <2> QED
        BY <2>1 DEF LocksHeld
<1>4. /\ p \notin Tasks /\ p \notin Orgs /\ p \in Rows
      /\ \A x \in Rows : x # p => Live(x)' = Live(x)
      /\ ~Live(p) /\ Live(p)'
    BY <1>2 DEF Live, Rows, TypeOK
<1>5. \A x \in Rows : Parents(x)' = Parents(x)
    BY <1>1, <1>4 DEF Parents
<1>6. TreeInv'
    <2>1. TasksAreAtHome'
        BY <1>1, <1>2, <1>4, <1>5, TaskTyped DEF TasksAreAtHome, TreeInv, Rows, Live, TypeOK
    <2> QED
        BY <1>1, <1>3, <1>4, <2>1 DEF TreeInv, Rows
<1>7. ASSUME NEW s \in Requests \ {r}, NEW x \in Rows, lock[x] = s
      PROVE  Live(x)' /\ Parents(x)' = Parents(x)
    BY <1>4, <1>5, <1>7 DEF LocksHeld, LockedByRight
<1>8. ASSUME NEW s \in Requests \ {r}, NEW w, Deletes(s), w = req[s].row
      PROVE  Below(w)' \subseteq Below(w)
    <2>1. w # Org
        BY <1>3, <1>8 DEF LocksHeld
    <2>2. w \notin Parents(p) /\ \A z \in Parents(p) : w \notin Parents(z)
        BY <1>4, <2>1 DEF Parents
    <2>3. \A y \in Rows : \A z \in Parents(y) : Parents(z)' = Parents(z)
        BY <1>5, ParentsAreRows DEF Rows
    <2> QED
        BY <1>4, <1>5, <2>2, <2>3 DEF Below
<1>9. ASSUME NEW s \in Requests \ {r}, NEW x \in Refers(s)
      PROVE  Live(x)'
    BY <1>4 DEF LocksHeld, Refers
<1>10. /\ state' \in [Rows -> {"absent", "live", "deleted"}]
       /\ \A t \in Tasks : state'[t] = "live" <=> task'[t] \in Task
    BY <1>1, <1>2, <1>4 DEF TypeOK, Rows
<1> QED
    BY <1>1, <1>6, <1>7, <1>8, <1>9, <1>10, CommitKeepsIInv DEF TypeOK

LEMMA CommitTaskKeepsIInv ==
    ASSUME IInv, NEW r \in Requests, CommitTask(r)
    PROVE  IInv'
<1> USE DEF IInv
<1> DEFINE q == req[r]
           n == NewTask(q)
<1>1. pc[r] = "commit" /\ q.op = "create_task" /\ q.org = Org /\ q.row \in Projects
      /\ q.status \in ALLOWED_STATUSES /\ EndWithCommit(r) /\ UNCHANGED role
    BY DEF CommitTask, Shape
<1>2. PICK t \in Tasks : /\ state[t] = "absent" /\ state' = [state EXCEPT ![t] = "live"]
                         /\ task' = [task EXCEPT ![t] = n]
    BY DEF CommitTask
<1>3. \A x \in {Org, q.row} : Live(x) /\ \A d \in Requests : lock[x] = d => ~Deletes(d)
    <2>1. Org \in Refers(r) /\ q.row \in Refers(r)
        BY <1>1 DEF Refers, Rows
    <2> QED
        BY <2>1 DEF LocksHeld
<1>4. n \in Task /\ n.org = Org /\ n.project = q.row
    BY <1>1, RequestTyped DEF NewTask
<1> HIDE DEF n
<1>5. /\ t \notin Projects /\ t \notin Orgs /\ t \in Rows
      /\ \A x \in Rows : x # t => Live(x)' = Live(x) /\ Parents(x)' = Parents(x)
      /\ ~Live(t) /\ Live(t)'
    BY <1>2 DEF Live, Rows, Parents, TypeOK
<1>6. task'[t] = n /\ Parents(t)' = {Org, q.row} /\ \A u \in Tasks \ {t} : task'[u] = task[u]
    BY <1>2, <1>4, <1>5 DEF Parents, TypeOK
<1>7. TreeInv'
    <2>1. ASSUME NEW u \in Tasks, Live(u)', NEW p, NEW o, p = task'[u].project, o = task'[u].org
          PROVE  Live(p)' /\ Live(o)' /\ o \in Parents(p)'
        <3>1. CASE u = t
            <4>1. q.row \in Rows \ {t} /\ Org \in Rows \ {t} /\ Parents(q.row) = {Org}
                BY <1>1, <1>5 DEF Parents, Rows
            <4> QED
                BY <1>3, <1>4, <1>5, <1>6, <2>1, <3>1, <4>1
        <3>2. CASE u # t
            <4>1. task'[u] = task[u] /\ Live(u) /\ p \in Rows \ {t} /\ o \in Rows \ {t}
                BY <1>5, <1>6, <2>1, <3>2, TaskTyped DEF Rows
            <4>2. Live(p) /\ Live(o) /\ o \in Parents(p)
                BY <2>1, <4>1 DEF TreeInv, TasksAreAtHome
            <4> QED
                BY <1>5, <4>1, <4>2
        <3> QED
            BY <3>1, <3>2
    <2>2. TasksAreAtHome'
        BY <2>1 DEF TasksAreAtHome, Live, Parents
    <2> QED
        BY <1>1, <1>3, <1>5, <2>2 DEF TreeInv, Rows
<1>8. ASSUME NEW s \in Requests \ {r}, NEW x \in Rows, lock[x] = s
      PROVE  Live(x)' /\ Parents(x)' = Parents(x)
    BY <1>5, <1>8 DEF LocksHeld, LockedByRight
<1>9. ASSUME NEW s \in Requests \ {r}, NEW w, Deletes(s), w = req[s].row
      PROVE  Below(w)' \subseteq Below(w)
    <2>1. w # Org /\ w # q.row
        BY <1>3, <1>9 DEF LocksHeld
    <2>2. \A z \in Parents(t)' : w # z /\ w \notin Parents(z)'
        BY <1>1, <1>5, <1>6, <2>1 DEF Parents
    <2>3. \A y \in Rows \ {t} : \A z \in Parents(y) : Parents(z)' = Parents(z)
        BY <1>5, ParentsAreRows DEF Rows
    <2> QED
        BY <1>5, <2>2, <2>3 DEF Below
<1>10. ASSUME NEW s \in Requests \ {r}, NEW x \in Refers(s)
       PROVE  Live(x)'
    BY <1>5 DEF LocksHeld, Refers
<1>11. /\ state' \in [Rows -> {"absent", "live", "deleted"}]
       /\ task' \in [Tasks -> Task \cup {NoTask}]
    BY <1>2, <1>4 DEF TypeOK
<1>12. \A u \in Tasks : state'[u] = "live" <=> task'[u] \in Task
    BY <1>2, <1>4, <1>5, <1>6 DEF TypeOK, Live, Rows
<1> QED
    BY <1>1, <1>7, <1>8, <1>9, <1>10, <1>11, <1>12, CommitKeepsIInv DEF TypeOK

LEMMA CommitUpdateKeepsIInv ==
    ASSUME IInv, NEW r \in Requests, CommitUpdate(r)
    PROVE  IInv'
<1> USE DEF IInv
<1> DEFINE q == req[r]
<1>1. pc[r] = "commit" /\ q.op = "update" /\ EndWithCommit(r) /\ UNCHANGED <<state, role>>
    BY DEF CommitUpdate
<1>2. /\ task' \in [Tasks -> Task \cup {NoTask}]
      /\ \A t \in Tasks : state'[t] = "live" <=> task'[t] \in Task
      /\ \A t \in Tasks : Live(t) => task'[t].org = task[t].org /\ task'[t].project = task[t].project
    <2>1. CASE q.row \in Tasks /\ Live(q.row)
        <3> DEFINE n == Updated(q, task[q.row])
        <3>1. task' = [task EXCEPT ![q.row] = n]
            BY <2>1 DEF CommitUpdate
        <3>2. task[q.row] \in Task
            BY <2>1, TaskTyped
        <3>3. "status" \in q.dirty => q.status \in ALLOWED_STATUSES
            BY <1>1 DEF Shape, KnownStatus, IsNull
        <3>4. q.assigned_to \in Users \cup {NoOne}
            BY <1>1, RequestTyped
        <3>5. n \in Task /\ n.org = task[q.row].org /\ n.project = task[q.row].project
            BY <3>2, <3>3, <3>4 DEF Updated
        <3> HIDE DEF n
        <3> QED
            BY <1>1, <2>1, <3>1, <3>2, <3>5 DEF TypeOK, Live
    <2>2. CASE ~(q.row \in Tasks /\ Live(q.row))
        BY <1>1, <2>2 DEF CommitUpdate, TypeOK
    <2> QED
        BY <2>1, <2>2
<1>3. \A x : Live(x)' = Live(x) /\ Parents(x)' = Parents(x)
    BY <1>1, <1>2 DEF Live, Parents
<1>4. \A x : Below(x)' = Below(x)
    BY <1>3 DEF Below
<1>5. TreeInv'
    BY <1>1, <1>2, <1>3 DEF TreeInv, TasksAreAtHome
<1>6. \A s \in Requests \ {r}, x \in Rows : lock[x] = s => Live(x)' /\ Parents(x)' = Parents(x)
    BY <1>3 DEF LocksHeld, LockedByRight
<1>7. \A s \in Requests \ {r} : \A x \in Refers(s) : Live(x)'
    BY <1>3 DEF LocksHeld
<1> QED
    BY <1>1, <1>2, <1>4, <1>5, <1>6, <1>7, CommitKeepsIInv DEF TypeOK

LEMMA CommitDeleteKeepsIInv ==
    ASSUME IInv, NEW r \in Requests, CommitDelete(r)
    PROVE  IInv'
<1> USE DEF IInv
<1> DEFINE row == req[r].row
           gone == Reach(r)
<1>1. /\ pc[r] = "commit" /\ req[r].op = "delete" /\ EndWithCommit(r)
      /\ state' = [x \in Rows |-> IF x \in gone THEN "deleted" ELSE state[x]]
      /\ task' = [t \in Tasks |-> IF t \in gone THEN NoTask ELSE task[t]]
      /\ role' = LeavesMembers(req[r])
    BY DEF CommitDelete, Reach
<1>2. row \in Rows \ {Elsewhere} /\ Deletes(r)
    BY <1>1, RequestTyped DEF Shape, Deletes
<1>3. /\ \A x \in Rows : Live(x)' <=> Live(x) /\ x \notin gone
      /\ \A t \in Tasks : t \notin gone => task'[t] = task[t]
    BY <1>1 DEF Live
<1>4. \A x \in gone : lock[x] = r
    BY <1>1, <1>2 DEF LocksHeld, Reach
<1>5. \A x \in Rows \ gone : Parents(x)' = Parents(x)
    <2>1. \A x \in Rows \ gone : Live(x)' <=> Live(x)
        BY <1>3
    <2> QED
        BY <1>3, <2>1 DEF Parents
<1>6. \A x \in Rows : Live(x) /\ (\E z \in Parents(x) : z \in gone) => x \in gone
    <2> SUFFICES ASSUME NEW x \in Rows, Live(x), NEW z \in Parents(x), z \in gone
                 PROVE  x \in gone
        OBVIOUS
    <2>1. CASE z = row
        BY <2>1 DEF Reach, Below
    <2>2. CASE z # row
        <3>1. PICK y \in Parents(z) : y = row \/ row \in Parents(y)
            BY <2>2 DEF Reach, Below
        <3>2. z \in Orgs \cup Projects
            BY ParentsAreRows
        <3>3. z \in Projects /\ y = Org
            BY <3>2 DEF Parents, Rows
        <3>4. row = Org
            BY <3>1, <3>3 DEF Parents
        <3> QED
            BY <3>1, <3>3, <3>4 DEF Reach, Below
    <2> QED
        BY <2>1, <2>2
<1>7. Elsewhere \notin gone /\ (Org \in gone <=> row = Org)
    BY <1>2 DEF Reach, Below, Parents
<1>8. TreeInv'
    <2>1. ASSUME NEW t \in Tasks, Live(t)', NEW p, NEW o, p = task'[t].project, o = task'[t].org
          PROVE  Live(p)' /\ Live(o)' /\ o \in Parents(p)'
        <3>1. t \in Rows /\ Live(t) /\ t \notin gone
            BY <1>3, <2>1 DEF Rows
        <3>2. task'[t] = task[t] /\ p \in Projects /\ o \in Orgs /\ p \in Parents(t) /\ o \in Parents(t)
            BY <1>3, <2>1, <3>1, TaskTyped
        <3>3. p \in Rows \ gone /\ o \in Rows \ gone
            BY <1>6, <3>1, <3>2 DEF Rows
        <3>4. Live(p) /\ Live(o) /\ o \in Parents(p)
            BY <2>1, <3>1, <3>2 DEF TreeInv, TasksAreAtHome
        <3> QED
            BY <1>3, <1>5, <3>3, <3>4
    <2>2. TasksAreAtHome'
        BY <2>1 DEF TasksAreAtHome, Live, Parents
    <2>3. ASSUME NEW p \in Projects, Live(p)'
          PROVE  Live(Org)'
        <3>1. p \in Rows /\ Org \in Rows /\ Org \in Parents(p) /\ Live(p) /\ p \notin gone
            BY <1>3, <2>3 DEF Rows, Parents
        <3> QED
            BY <1>3, <1>6, <3>1 DEF TreeInv
    <2>4. Live(Elsewhere)'
        BY <1>3, <1>7 DEF TreeInv, Rows
    <2>5. ~Live(Org)' => \A u \in Users : role'[u] = "NONE"
        BY <1>1, <1>3, <1>7 DEF TreeInv, Rows, LeavesMembers
    <2> QED
        BY <2>2, <2>3, <2>4, <2>5 DEF TreeInv
<1>9. ASSUME NEW s \in Requests \ {r}, NEW x \in Rows, lock[x] = s
      PROVE  Live(x)' /\ Parents(x)' = Parents(x)
    <2>1. x \notin gone /\ Live(x)
        BY <1>4, <1>9 DEF LocksHeld, LockedByRight
    <2> QED
        BY <1>3, <1>5, <2>1
<1>10. ASSUME NEW s \in Requests \ {r}, NEW w, Deletes(s), w = req[s].row
       PROVE  Below(w)' \subseteq Below(w)
    <2> SUFFICES ASSUME NEW y \in Rows, Live(y)', NEW z \in Parents(y)', z = w \/ w \in Parents(z)'
                 PROVE  y \in Below(w)
        BY DEF Below
    <2>1. Live(y) /\ y \notin gone /\ z \in Parents(y)
        BY <1>3, <1>5
    <2>2. z \in Rows \ gone
        BY <1>6, <2>1, ParentsAreRows DEF Rows
    <2> QED
        BY <1>5, <2>1, <2>2 DEF Below
<1>11. ASSUME NEW s \in Requests \ {r}, NEW x \in Refers(s)
       PROVE  Live(x)'
    <2>1. x \in Rows /\ Live(x) /\ ~(lock[x] = r)
        BY <1>2 DEF LocksHeld, Refers
    <2> QED
        BY <1>3, <1>4, <2>1
<1>12. /\ state' \in [Rows -> {"absent", "live", "deleted"}]
       /\ task' \in [Tasks -> Task \cup {NoTask}]
       /\ role' \in [Users -> Roles]
    BY <1>1 DEF TypeOK, LeavesMembers
<1>13. \A t \in Tasks : state'[t] = "live" <=> task'[t] \in Task
    <2>1. NoTask \notin Task
        OBVIOUS
    <2> QED
        BY <1>1, <2>1 DEF TypeOK, Rows
<1> HIDE DEF gone
<1> QED
    BY <1>1, <1>8, <1>9, <1>10, <1>11, <1>12, <1>13, CommitKeepsIInv

-----------------------------------------------------------------------------
(* The other requests of the organization *)

(* A step outside the requests that only adds rows nothing is below of. *)
LEMMA OutsideKeepsIInv ==
    ASSUME IInv, UNCHANGED <<task, lock, pc, req>>,
           undisturbed' = [r \in Requests |-> FALSE],
           TypeOK', TreeInv',
           \A x \in Rows : Live(x) => Live(x)',
           \A x : Parents(x)' = Parents(x) /\ Below(x)' = Below(x)
    PROVE  IInv'
<1> USE DEF IInv
<1> SUFFICES ASSUME NEW s \in Requests
             PROVE  Shape(s)' /\ LocksHeld(s)' /\ ReadsStillHold(s)'
    OBVIOUS
<1>1. Shape(s)'
    BY DEF Shape, IsNull
<1>2. ReadsStillHold(s)'
    BY DEF ReadsStillHold
<1>3. /\ \A d \in Requests : Deletes(d)' = Deletes(d)
      /\ Updates(s)' = Updates(s) /\ Refers(s)' = Refers(s) /\ Reach(s)' = Reach(s)
    BY DEF Updates, Deletes, Refers, Reach
<1>4. LockedByRight(s)'
    <2>1. LockedByRight(s)
        BY DEF LocksHeld
    <2> QED
        BY <1>3, <2>1 DEF LockedByRight
<1>5. \A x \in Refers(s) : x \in Rows
    BY DEF Refers
<1>6. LocksHeld(s)'
    <2>1. Below(req[s].row)' = Below(req[s].row)
        OBVIOUS
    <2> QED
        BY <1>3, <1>4, <1>5, <2>1 DEF LocksHeld
<1> QED
    BY <1>1, <1>2, <1>6

LEMMA CreateOrganizationKeepsIInv ==
    ASSUME IInv, NEW u \in Users, CreateOrganization(u)
    PROVE  IInv'
<1> USE DEF IInv
<1>1. /\ state[Org] = "absent" /\ state' = [state EXCEPT ![Org] = "live"]
      /\ role' = [role EXCEPT ![u] = "OWNER"]
      /\ undisturbed' = [r \in Requests |-> FALSE]
      /\ UNCHANGED <<task, lock, pc, req>>
    BY DEF CreateOrganization
<1>2. /\ \A x \in Rows \ {Org} : state'[x] = state[x]
      /\ state'[Org] = "live" /\ Org \in Rows /\ Org \notin Tasks
    BY <1>1 DEF TypeOK, Rows
<1>3. /\ \A x \in Rows : Live(x) => Live(x)'
      /\ \A t \in Tasks : state'[t] = state[t]
    BY <1>2 DEF Live, Rows
<1>4. \A x : Parents(x)' = Parents(x)
    BY <1>1, <1>3 DEF Parents, Live
<1>5. \A x : Below(x)' = Below(x)
    <2>1. \A y \in Rows \ {Org} : Live(y)' <=> Live(y)
        BY <1>2 DEF Live
    <2>2. Parents(Org) = {}
        BY <1>2 DEF Parents
    <2> QED
        BY <1>4, <2>1, <2>2 DEF Below
<1>6. TypeOK'
    BY <1>1, <1>3 DEF TypeOK
<1>7. TreeInv'
    <2>1. ASSUME NEW t \in Tasks, Live(t)', NEW p, NEW o, p = task'[t].project, o = task'[t].org
          PROVE  Live(p)' /\ Live(o)' /\ o \in Parents(p)'
        <3>1. Live(t) /\ task'[t] = task[t]
            BY <1>1, <1>3, <2>1 DEF Live
        <3>2. p \in Rows /\ o \in Rows /\ Live(p) /\ Live(o) /\ o \in Parents(p)
            BY <2>1, <3>1, TaskTyped DEF TreeInv, TasksAreAtHome, Rows
        <3> QED
            BY <1>3, <1>4, <3>2
    <2>2. TasksAreAtHome'
        BY <2>1 DEF TasksAreAtHome, Live, Parents
    <2>3. Live(Org)' /\ Live(Elsewhere)'
        BY <1>2, <1>3 DEF Live, TreeInv, Rows
    <2> QED
        BY <2>2, <2>3 DEF TreeInv
<1> QED
    BY <1>1, <1>3, <1>4, <1>5, <1>6, <1>7, OutsideKeepsIInv

(* The other requests change nothing but the roles. *)
LEMMA MembersChangeTyped ==
    ASSUME TypeOK, MembersChange
    PROVE  /\ UNCHANGED <<state, task, lock, pc, req>> /\ Live(Org)
           /\ undisturbed' = [r \in Requests |-> FALSE]
           /\ role' \in [Users -> Roles]
BY GivenRolesAssumption DEF MembersChange, Table!Enroll, Table!Assign, Table!Expel, TypeOK, Live

LEMMA MembersChangeKeepsIInv ==
    ASSUME IInv, MembersChange
    PROVE  IInv'
<1> USE DEF IInv
<1>1. /\ UNCHANGED <<state, task, lock, pc, req>> /\ Live(Org)
      /\ undisturbed' = [r \in Requests |-> FALSE]
      /\ role' \in [Users -> Roles]
    BY MembersChangeTyped
<1>2. \A x : Live(x)' = Live(x) /\ Parents(x)' = Parents(x)
    BY <1>1 DEF Live, Parents
<1>3. \A x : Below(x)' = Below(x)
    BY <1>2 DEF Below
<1>4. TypeOK'
    BY <1>1 DEF TypeOK
<1>5. TreeInv'
    BY <1>1 DEF TreeInv, TasksAreAtHome, Live, Parents
<1> QED
    BY <1>1, <1>2, <1>3, <1>4, <1>5, OutsideKeepsIInv

-----------------------------------------------------------------------------
LEMMA CommitStepKeepsIInv ==
    ASSUME IInv, NEW r \in Requests, Commit(r)
    PROVE  IInv'
BY CommitProjectKeepsIInv, CommitTaskKeepsIInv, CommitUpdateKeepsIInv, CommitDeleteKeepsIInv DEF Commit

LEMMA StatementKeepsIInv ==
    ASSUME IInv, NEW r \in Requests, Statement(r)
    PROVE  IInv'
BY LoadProjectKeepsIInv, ReadMemberKeepsIInv, ReadAssigneeKeepsIInv, ReloadKeepsIInv,
   UpdateRowKeepsIInv, DeleteRowKeepsIInv, CascadeRowKeepsIInv, CascadeEndsKeepsIInv,
   InsertRowKeepsIInv, ReferToProjectKeepsIInv, CommitStepKeepsIInv DEF Statement

LEMMA NextKeepsIInv ==
    ASSUME IInv, Next
    PROVE  IInv'
<1>1. CASE \E u \in Users : CreateOrganization(u)
    BY <1>1, CreateOrganizationKeepsIInv
<1>2. CASE MembersChange
    BY <1>2, MembersChangeKeepsIInv
<1>3. ASSUME NEW r \in Requests, NEW by \in Users,
             \/ CreateProject(r, by)
             \/ \E o \in Orgs, p \in Projects, s \in StatusInputs \cup {"TODO"} : CreateTask(r, by, o, p, s)
             \/ \E x \in Rows \ {Elsewhere} :
                 \/ \E b \in Bodies(x) : Update(r, by, x, b)
                 \/ Delete(r, by, x)
      PROVE  IInv'
    BY <1>3, CreateProjectKeepsIInv, CreateTaskKeepsIInv, UpdateKeepsIInv, DeleteKeepsIInv
<1>4. ASSUME NEW r \in Requests, Statement(r)
      PROVE  IInv'
    BY <1>4, StatementKeepsIInv
<1>5. ASSUME NEW r \in Requests, Abort(r)
      PROVE  IInv'
    BY <1>5, FinishKeepsIInv DEF Abort
<1> QED
    BY <1>1, <1>2, <1>3, <1>4, <1>5 DEF Next

LEMMA StutterKeepsIInv ==
    ASSUME IInv, UNCHANGED vars
    PROVE  IInv'
<1>1. TypeOK' /\ TreeInv'
    BY TreeKeeps DEF IInv, TypeOK, vars
<1>2. \A r \in Requests : Shape(r)' /\ LocksHeld(r)' /\ ReadsStillHold(r)'
    <2> SUFFICES ASSUME NEW r \in Requests
                 PROVE  Shape(r)' /\ LocksHeld(r)' /\ ReadsStillHold(r)'
        OBVIOUS
    <2>1. \A x \in Refers(r), d \in Requests : lock'[x] = d => ~Deletes(d)'
        BY DEF IInv, LocksHeld, Deletes, vars
    <2> QED
        BY <2>1, OthersKeep DEF vars
<1> QED
    BY <1>1, <1>2 DEF IInv

(* The inductive invariant. *)
THEOREM Invariance == Spec => []IInv
<1>1. IInv /\ [Next]_vars => IInv'
    BY NextKeepsIInv, StutterKeepsIInv
<1> QED
    BY <1>1, InitIInv, PTL DEF Spec

(* Every reachable state is one of the types the model states. *)
THEOREM TypeCorrect == Spec => []TypeOK
BY Invariance, PTL DEF IInv

(* No overlap of creations and deletions orphans a task or puts one into   *)
(* another organization's project.                                         *)
THEOREM NoOrphanedTasks == Spec => []TasksAreAtHome
BY Invariance, PTL DEF IInv, TreeInv

(* What a request is about to report as written or referred to is there.   *)
THEOREM AnswersAreTrue == Spec => []AnswersHold
<1>1. IInv => AnswersHold
    <2> SUFFICES ASSUME IInv, NEW r \in Requests, pc[r] = "commit"
                 PROVE  /\ req[r].op = "update" => req[r].dirty = {} \/ Live(req[r].row)
                        /\ req[r].op = "delete" => Live(req[r].row)
                        /\ \A x \in Refers(r) : Live(x)
        BY DEF AnswersHold
    <2>1. LocksHeld(r) /\ LockedByRight(r) /\ req[r].row \in Rows
        BY RequestTyped DEF IInv, LocksHeld
    <2> QED
        BY <2>1 DEF LocksHeld, LockedByRight, Updates, Deletes
<1> QED
    BY <1>1, Invariance, PTL

(* An unhandled database error is always the result of an overlap. *)
THEOREM LoneRequestsMissNothing == Spec => []ErrorsNeedOverlap
<1>1. IInv => ErrorsNeedOverlap
    <2> SUFFICES ASSUME IInv, NEW r \in Requests, MissesRow(r), undisturbed[r]
                 PROVE  FALSE
        BY DEF ErrorsNeedOverlap
    <2>1. pc[r] # "idle" /\ Shape(r) /\ ReadsCreate(r) /\ ReadsUpdate(r) /\ TreeInv /\ LocksHeld(r)
        BY DEF IInv, MissesRow, ReadsStillHold
    <2>2. CASE pc[r] = "insert" /\ ~Live(req[r].org)
        <3>1. req[r].op \in Creates /\ req[r].org = Org /\ ~Live(Org) /\ req[r].by \in Users
            BY <2>1, <2>2, RequestTyped DEF IInv, Shape
        <3>2. role[req[r].by] = "NONE"
            BY <2>1, <3>1 DEF TreeInv
        <3> QED
            BY <2>1, <3>1, <3>2 DEF ReadsCreate, IsAdmin, IsMember
    <2>3. CASE pc[r] = "refer" /\ ~Live(req[r].row)
        BY <2>1, <2>3 DEF Shape, ReadsCreate
    <2>4. CASE pc[r] = "write" /\ req[r].op = "update" /\ ~Live(req[r].row)
        BY <2>1, <2>4 DEF ReadsUpdate
    <2> QED
        BY <2>2, <2>3, <2>4 DEF MissesRow
<1> QED
    BY <1>1, Invariance, PTL

-----------------------------------------------------------------------------
(* Nobody waits in a circle *)

(* Who is in the way and waits itself is a cascade, or a create_task that  *)
(* refers to the organization and waits for its project.                   *)
LEMMA WaitingBlocker ==
    ASSUME IInv, NEW r \in Requests, NEW s \in Blockers(r), Blockers(s) # {}
    PROVE  \E x \in Wants(r) :
               \/ pc[s] = "cascade" /\ lock[x] = s
               \/ pc[s] = "refer" /\ x = Org /\ req[r].op = "delete"
<1>1. PICK x \in Wants(r) : s \in Requests /\ s # r /\ x \in Rows /\ InTheWay(s, x, r)
    BY DEF Blockers, Wants
<1>2. pc[s] \in {"insert", "refer", "write", "cascade"}
    BY DEF Blockers, Wants
<1>3. CASE lock[x] = s
    BY <1>1, <1>2, <1>3 DEF IInv, LocksHeld, LockedByRight, Updates, Deletes
<1>4. CASE x \in Refers(s) /\ req[r].op = "delete"
    <2>1. pc[s] = "refer" /\ x = req[s].org
        BY <1>2, <1>4 DEF Refers
    <2> QED
        BY <1>1, <1>4, <2>1 DEF IInv, Shape
<1> QED
    BY <1>1, <1>3, <1>4 DEF InTheWay

(* What is below a row, by the kind of the row. *)
LEMMA BelowByKind ==
    ASSUME IInv, NEW w \in Rows, NEW x \in Below(w)
    PROVE  /\ x \in Rows /\ Live(x)
           /\ \/ x \in Projects /\ w = Org
              \/ x \in Tasks /\ w \in Parents(x)
           /\ w \notin Tasks
<1>1. PICK z \in Parents(x) : z = w \/ w \in Parents(z)
    BY DEF Below
<1>2. x \in Rows /\ Live(x)
    BY DEF Below
<1>3. CASE x \in Projects
    BY <1>1, <1>2, <1>3 DEF Parents, Rows
<1>4. CASE x \in Tasks
    <2>1. /\ Parents(x) = {task[x].org, task[x].project} /\ task[x].project \in Projects
          /\ task[x].org \in Parents(task[x].project)
        BY <1>2, <1>4, TaskTyped DEF IInv, TreeInv, TasksAreAtHome
    <2>2. task[x].org = Org
        BY <2>1 DEF Parents
    <2> QED
        BY <1>1, <1>2, <1>4, <2>1, <2>2 DEF Parents, Rows
<1>5. x \in Projects \/ x \in Tasks
    BY <1>1, <1>2 DEF Parents, Rows
<1> QED
    BY <1>3, <1>4, <1>5

(* Two cascades meet only where one of them started: they come down the    *)
(* same way and lock the parents first.                                    *)
LEMMA CascadesMeet ==
    ASSUME IInv, NEW s \in Requests, NEW t \in Requests, s # t,
           pc[s] = "cascade", pc[t] = "cascade", NEW x \in NextBelow(s), lock[x] = t
    PROVE  x = req[t].row
<1> SUFFICES ASSUME x # req[t].row
             PROVE  FALSE
    OBVIOUS
<1>1. /\ req[s].row \in Rows /\ req[t].row \in Rows
      /\ lock[req[s].row] = s /\ lock[req[t].row] = t
    BY RequestTyped DEF IInv, Shape, LocksHeld, Deletes
<1>2. /\ x \in Below(req[s].row) /\ x \in Rows
      /\ \A z \in Parents(x) \cap Reach(s) : lock[z] = s
    BY DEF NextBelow, Below, Reach
<1>3. /\ x \in Below(req[t].row)
      /\ \A z \in Parents(x) \cap Reach(t) : lock[z] = t
    BY <1>2 DEF IInv, LocksHeld, LockedByRight, Updates, Reach
<1>4. x \in Tasks /\ req[s].row \in Parents(x) /\ req[t].row \in Parents(x)
    BY <1>1, <1>2, <1>3, BelowByKind
<1>5. \A z \in Parents(x) : z \notin Reach(s) \/ z \notin Reach(t)
    BY <1>2, <1>3
<1>6. /\ Parents(x) = {Org, task[x].project} /\ Live(task[x].project)
      /\ Parents(task[x].project) = {Org} /\ task[x].project \in Rows
    <2>1. /\ Parents(x) = {task[x].org, task[x].project} /\ task[x].project \in Projects
          /\ task[x].org \in Parents(task[x].project) /\ Live(task[x].project)
        BY <1>2, <1>4, BelowByKind, <1>1, TaskTyped DEF IInv, TreeInv, TasksAreAtHome
    <2> QED
        BY <2>1 DEF Parents, Rows
<1> QED
    BY <1>1, <1>4, <1>5, <1>6 DEF Reach, Below

(* Below a project there are only tasks, and who has one of them locked    *)
(* has nothing more to wait for.                                           *)
LEMMA SmallCascade ==
    ASSUME IInv, NEW s \in Requests, pc[s] = "cascade", req[s].row # Org, NEW t \in Blockers(s)
    PROVE  Blockers(t) = {}
<1> SUFFICES ASSUME Blockers(t) # {}
             PROVE  FALSE
    OBVIOUS
<1>1. req[s].row \in Rows
    BY RequestTyped DEF IInv
<1>2. PICK x \in Wants(s) :
          \/ pc[t] = "cascade" /\ lock[x] = t
          \/ pc[t] = "refer" /\ x = Org /\ req[s].op = "delete"
    BY WaitingBlocker
<1>3. x \in NextBelow(s) /\ x \in Below(req[s].row)
    BY DEF Wants, NextBelow
<1>4. x \in Tasks
    BY <1>1, <1>3, BelowByKind
<1>5. pc[t] = "cascade" /\ lock[x] = t /\ t \in Requests /\ t # s
    BY <1>2, <1>4 DEF Blockers
<1>6. x = req[t].row
    BY <1>3, <1>5, CascadesMeet
<1>7. Below(req[t].row) = {}
    BY <1>4, <1>6, BelowByKind DEF Rows
<1> QED
    BY <1>5, <1>7 DEF Blockers, Wants, NextBelow

(* A cascade, and a create_task that waits for its project, are held up by *)
(* a request that waits itself only if that one is deleting a project.     *)
LEMMA BlockedBySmallCascade ==
    ASSUME IInv, NEW s \in Requests, pc[s] \in {"cascade", "refer"}, NEW t \in Blockers(s), Blockers(t) # {}
    PROVE  pc[t] = "cascade" /\ req[t].row # Org
<1>1. req[s].row \in Rows /\ t \in Requests /\ t # s
    BY RequestTyped DEF IInv, Blockers
<1>2. PICK x \in Wants(s) :
          \/ pc[t] = "cascade" /\ lock[x] = t
          \/ pc[t] = "refer" /\ x = Org /\ req[s].op = "delete"
    BY WaitingBlocker
<1>3. CASE pc[s] = "cascade"
    <2>1. x \in NextBelow(s) /\ x \in Below(req[s].row)
        BY <1>3 DEF Wants, NextBelow
    <2>2. x # Org
        BY <1>1, <2>1, BelowByKind
    <2>3. pc[t] = "cascade" /\ lock[x] = t
        BY <1>2, <2>2
    <2> QED
        BY <1>1, <1>3, <2>1, <2>2, <2>3, CascadesMeet
<1>4. CASE pc[s] = "refer"
    <2>1. req[s].op = "create_task" /\ req[s].org = Org
        BY <1>4 DEF IInv, Shape
    <2>2. pc[t] = "cascade" /\ lock[x] = t
        BY <1>2, <2>1
    <2>3. Org \in Refers(s)
        BY <1>4, <2>1 DEF Refers, Rows
    <2>4. lock[Org] # t
        BY <1>1, <2>2, <2>3 DEF IInv, LocksHeld, Deletes, Shape
    <2>5. lock[req[t].row] = t
        BY <1>1, <2>2 DEF IInv, LocksHeld, Deletes, Shape
    <2> QED
        BY <2>2, <2>4, <2>5
<1> QED
    BY <1>3, <1>4

(* Requests never wait for each other in a circle. *)
THEOREM NoDeadlockOfRequests == Spec => []NoCircularWait
<1>1. IInv => NoCircularWait
    <2> SUFFICES ASSUME IInv, NEW S \in SUBSET Requests,
                        \A r \in S : Blockers(r) \cap S # {}, S # {}
                 PROVE  FALSE
        BY DEF NoCircularWait
    <2>1. PICK r \in S : TRUE
        OBVIOUS
    <2>2. PICK s \in Blockers(r) : s \in S
        BY <2>1
    <2>3. PICK t \in Blockers(s) : t \in S
        BY <2>2
    <2>4. PICK u \in Blockers(t) : u \in S
        BY <2>3
    <2>5. Blockers(s) # {} /\ Blockers(t) # {} /\ Blockers(u) # {}
        BY <2>2, <2>3, <2>4
    <2>6. pc[s] \in {"cascade", "refer"}
        BY <2>1, <2>2, <2>5, WaitingBlocker
    <2>7. pc[t] = "cascade" /\ req[t].row # Org
        BY <2>2, <2>3, <2>5, <2>6, BlockedBySmallCascade
    <2> QED
        BY <2>3, <2>4, <2>5, <2>7, SmallCascade
<1> QED
    BY <1>1, Invariance, PTL

-----------------------------------------------------------------------------
(* What commits may write *)

(* A commit writes rows of its own kind only. *)
LEMMA CommitProjectWrites ==
    ASSUME IInv, NEW r \in Requests, CommitProject(r)
    PROVE  /\ pc[r] = "commit" /\ req[r].op = "create_project" /\ UNCHANGED <<task, role>>
           /\ \A x \in Rows \ Projects : Live(x)' <=> Live(x)
<1>1. PICK p \in Projects : state' = [state EXCEPT ![p] = "live"]
    BY DEF CommitProject
<1> QED
    BY <1>1 DEF CommitProject, Live, IInv, TypeOK

LEMMA CommitTaskWrites ==
    ASSUME IInv, NEW r \in Requests, CommitTask(r)
    PROVE  /\ pc[r] = "commit" /\ req[r].op = "create_task" /\ UNCHANGED role
           /\ \A t \in Tasks : Live(t) => Live(t)' /\ task'[t] = task[t]
           /\ \A x \in Rows \ Tasks : Live(x)' = Live(x)
<1>1. PICK t \in Tasks : /\ state[t] = "absent" /\ state' = [state EXCEPT ![t] = "live"]
                         /\ task' = [task EXCEPT ![t] = NewTask(req[r])]
    BY DEF CommitTask
<1> QED
    BY <1>1 DEF CommitTask, Live, IInv, TypeOK, Rows

LEMMA CommitUpdateWrites ==
    ASSUME IInv, NEW r \in Requests, CommitUpdate(r)
    PROVE  /\ pc[r] = "commit" /\ req[r].op = "update" /\ UNCHANGED <<state, role>>
           /\ \A t \in Tasks : Live(t) =>
                  task'[t] = IF t = req[r].row THEN Updated(req[r], task[t]) ELSE task[t]
BY DEF CommitUpdate, IInv, TypeOK, Live

LEMMA CommitDeleteWrites ==
    ASSUME IInv, NEW r \in Requests, CommitDelete(r)
    PROVE  /\ pc[r] = "commit" /\ req[r].op = "delete"
           /\ \A x \in Rows : Live(x)' <=> Live(x) /\ x \notin Reach(r)
           /\ \A t \in Tasks : Live(t)' => task'[t] = task[t]
           /\ role' = LeavesMembers(req[r])
           /\ state' = [x \in Rows |-> IF x \in Reach(r) THEN "deleted" ELSE state[x]]
BY DEF CommitDelete, Reach, Live, Rows

(* What the requester of an undisturbed request is, when it commits. *)
LEMMA CommitReads ==
    ASSUME IInv, NEW r \in Requests, pc[r] = "commit", undisturbed[r]
    PROVE  ReadsCreate(r) /\ ReadsUpdate(r) /\ ReadsDelete(r) /\ Shape(r)
BY DEF IInv, ReadsStillHold

LEMMA UpdatedColumns ==
    ASSUME IInv, NEW r \in Requests, CommitUpdate(r), NEW t \in Tasks, Live(t), t = req[r].row
    PROVE  /\ task'[t] = [task[t] EXCEPT !.status = task'[t].status, !.assigned_to = task'[t].assigned_to]
           /\ task'[t].status = IF "status" \in req[r].dirty THEN req[r].status ELSE task[t].status
           /\ task'[t].assigned_to =
                  IF "assigned_to" \in req[r].dirty THEN req[r].assigned_to ELSE task[t].assigned_to
           /\ req[r].dirty \subseteq req[r].sets
<1>1. task[t] \in Task
    BY TaskTyped DEF IInv
<1>2. req[r].dirty \subseteq req[r].sets /\ task'[t] = Updated(req[r], task[t])
    BY CommitUpdateWrites DEF IInv, Shape
<1> DEFINE n == Updated(req[r], task[t])
<1>3. /\ n = [task[t] EXCEPT !.status = n.status, !.assigned_to = n.assigned_to]
      /\ n.status = IF "status" \in req[r].dirty THEN req[r].status ELSE task[t].status
      /\ n.assigned_to = IF "assigned_to" \in req[r].dirty THEN req[r].assigned_to ELSE task[t].assigned_to
    BY <1>1 DEF Updated
<1> HIDE DEF n
<1> QED
    BY <1>2, <1>3 DEF n

(* What one commit may change, in the words of UndisturbedAuthority. *)
WithAuthority(r) ==
    LET by == req[r].by IN
    /\ req[r].org = Org => IsMember(by)
    /\ \A t \in Tasks : Live(t) /\ Live(t)' =>
           /\ task'[t].status # task[t].status => IsAdmin(by) \/ task[t].assigned_to = by
           /\ task'[t].assigned_to # task[t].assigned_to =>
                  IsAdmin(by) /\ (task'[t].assigned_to # NoOne => IsMember(task'[t].assigned_to))
    /\ \A t \in Tasks : Live(t) /\ ~Live(t)' => IsAdmin(by) \/ task[t].created_by = by
    /\ \A p \in Projects : Live(p) # Live(p)' => IsAdmin(by)
    /\ ~Live(Org)' => role[by] = "OWNER"

LEMMA CommitHasAuthority ==
    ASSUME IInv, NEW r \in Requests, undisturbed[r], Commit(r)
    PROVE  WithAuthority(r)
<1> DEFINE by == req[r].by
<1>1. \A u : IsAdmin(u) => IsMember(u)
    BY DEF IsAdmin, IsMember
<1>2. \A x \in Rows : (x \in Projects \/ x = Org) => x \notin Tasks
    BY DEF Rows
<1>3. pc[r] = "commit"
    BY DEF Commit, CommitProject, CommitTask, CommitUpdate, CommitDelete
<1>4. req[r].row \in Rows /\ by \in Users /\ Org \in Rows /\ Projects \subseteq Rows /\ Tasks \subseteq Rows
    BY <1>3, RequestTyped DEF IInv, Rows
<1>5. IsMember(by) => Live(Org)
    BY <1>4 DEF IInv, TreeInv, IsMember
<1>6. CASE CommitProject(r)
    BY <1>1, <1>2, <1>3, <1>4, <1>5, <1>6, CommitProjectWrites, CommitReads DEF ReadsCreate, WithAuthority
<1>7. CASE CommitTask(r)
    <2>1. IsMember(by)
        BY <1>3, <1>7, CommitTaskWrites, CommitReads DEF ReadsCreate, Shape
    <2> QED
        BY <1>2, <1>4, <1>5, <1>7, <2>1, CommitTaskWrites DEF WithAuthority
<1>8. CASE CommitUpdate(r)
    <2>1. req[r].op = "update" /\ UNCHANGED <<state, role>>
        BY <1>8, CommitUpdateWrites
    <2>2. StillMayUpdate(req[r])
        BY <1>3, <2>1, CommitReads DEF ReadsUpdate
    <2>3. IsMember(by)
        BY <1>1, <2>2 DEF StillMayUpdate
    <2>4. \A x \in Rows : Live(x)' = Live(x)
        BY <2>1 DEF Live
    <2>5. ASSUME NEW t \in Tasks, Live(t)
          PROVE  /\ task'[t].status # task[t].status => IsAdmin(by) \/ task[t].assigned_to = by
                 /\ task'[t].assigned_to # task[t].assigned_to =>
                        IsAdmin(by) /\ (task'[t].assigned_to # NoOne => IsMember(task'[t].assigned_to))
        <3>1. CASE t # req[r].row
            BY <1>8, <2>5, <3>1, CommitUpdateWrites
        <3>2. CASE t = req[r].row
            <4>1. /\ task'[t].status = IF "status" \in req[r].dirty THEN req[r].status ELSE task[t].status
                  /\ task'[t].assigned_to =
                         IF "assigned_to" \in req[r].dirty THEN req[r].assigned_to ELSE task[t].assigned_to
                  /\ req[r].dirty \subseteq req[r].sets
                BY <1>8, <2>5, <3>2, UpdatedColumns
            <4>2. "assigned_to" \in req[r].sets /\ req[r].assigned_to # NoOne => IsMember(req[r].assigned_to)
                BY <1>3, <2>1, <3>2, CommitReads DEF ReadsUpdate
            <4> QED
                BY <2>2, <3>2, <4>1, <4>2 DEF StillMayUpdate, SetsAsAssignee
        <3> QED
            BY <3>1, <3>2
    <2> QED
        BY <1>4, <1>5, <2>3, <2>4, <2>5 DEF WithAuthority
<1>9. CASE CommitDelete(r)
    <2>1. /\ req[r].op = "delete" /\ \A x \in Rows : Live(x)' <=> Live(x) /\ x \notin Reach(r)
          /\ \A t \in Tasks : Live(t)' => task'[t] = task[t]
        BY <1>9, CommitDeleteWrites
    <2>2. StillMayDelete(req[r]) /\ req[r].row # Elsewhere
        BY <1>3, <2>1, CommitReads DEF ReadsDelete, Shape
    <2>3. req[r].row = Org => IsAdmin(by)
        BY <2>2 DEF StillMayDelete, IsAdmin
    <2>4. IsMember(by)
        BY <1>1, <1>4, <2>2, <2>3 DEF StillMayDelete, Rows
    <2>5. \A x \in Reach(r) : x = req[r].row \/ IsAdmin(by)
        <3>1. \A x \in Below(req[r].row) : req[r].row \notin Tasks
            BY <1>4, BelowByKind
        <3> QED
            BY <1>4, <2>2, <2>3, <3>1 DEF Reach, StillMayDelete, Rows
    <2>6. Org \in Reach(r) => req[r].row = Org
        BY <1>4, BelowByKind DEF Reach
    <2>7. \A t \in Tasks : Live(t) /\ ~Live(t)' => IsAdmin(by) \/ task[t].created_by = by
        BY <1>4, <2>1, <2>2, <2>5 DEF StillMayDelete
    <2>8. \A p \in Projects : Live(p) # Live(p)' => IsAdmin(by)
        <3> SUFFICES ASSUME NEW p \in Projects, ~(Live(p) <=> Live(p)')
                     PROVE  IsAdmin(by)
            BY DEF Live
        <3> QED
            BY <1>4, <2>1, <2>2, <2>5 DEF StillMayDelete
    <2>9. ~Live(Org)' => role[by] = "OWNER"
        BY <1>4, <1>5, <2>1, <2>2, <2>4, <2>6 DEF StillMayDelete
    <2> QED
        BY <2>1, <2>4, <2>7, <2>8, <2>9 DEF WithAuthority
<1> QED
    BY <1>6, <1>7, <1>8, <1>9 DEF Commit

(* A request that nobody committed beside changes only what its requester  *)
(* may change.                                                             *)
THEOREM LoneRequestsHaveAuthority == Spec => UndisturbedAuthority
<1>1. IInv /\ [Next]_vars => [\A r \in Requests : undisturbed[r] /\ Commit(r) => WithAuthority(r)]_vars
    BY CommitHasAuthority
<1> QED
    BY <1>1, Invariance, PTL DEF Spec, UndisturbedAuthority, WithAuthority

LEMMA CommitWritesItsBody ==
    ASSUME IInv, NEW r \in Requests, CommitUpdate(r), req[r].row \in Tasks, Live(req[r].row)
    PROVE  LET t == req[r].row IN
           /\ task'[t] = [task[t] EXCEPT !.status = task'[t].status, !.assigned_to = task'[t].assigned_to]
           /\ "status" \notin req[r].sets => task'[t].status = task[t].status
           /\ "assigned_to" \notin req[r].sets => task'[t].assigned_to = task[t].assigned_to
           /\ undisturbed[r] /\ "status" \in req[r].sets => task'[t].status = req[r].status
           /\ undisturbed[r] /\ "assigned_to" \in req[r].sets => task'[t].assigned_to = req[r].assigned_to
<1> DEFINE t == req[r].row
<1>1. pc[r] = "commit" /\ req[r].op = "update"
    BY CommitUpdateWrites
<1>2. /\ task'[t] = [task[t] EXCEPT !.status = task'[t].status, !.assigned_to = task'[t].assigned_to]
      /\ task'[t].status = IF "status" \in req[r].dirty THEN req[r].status ELSE task[t].status
      /\ task'[t].assigned_to = IF "assigned_to" \in req[r].dirty THEN req[r].assigned_to ELSE task[t].assigned_to
      /\ req[r].dirty \subseteq req[r].sets
    BY UpdatedColumns
<1>3. undisturbed[r] => req[r].dirty = Dirty(t, req[r])
    BY <1>1, CommitReads DEF ReadsUpdate
<1> QED
    BY <1>2, <1>3 DEF Dirty

(* An update writes what its body says and nothing else. *)
THEOREM UpdatesAreFaithful == Spec => UpdatesWriteTheirBody
<1>1. IInv /\ [Next]_vars =>
          [\A r \in Requests : CommitUpdate(r) /\ req[r].row \in Tasks /\ Live(req[r].row) =>
              LET t == req[r].row IN
              /\ task'[t] = [task[t] EXCEPT !.status = task'[t].status, !.assigned_to = task'[t].assigned_to]
              /\ "status" \notin req[r].sets => task'[t].status = task[t].status
              /\ "assigned_to" \notin req[r].sets => task'[t].assigned_to = task[t].assigned_to
              /\ undisturbed[r] /\ "status" \in req[r].sets => task'[t].status = req[r].status
              /\ undisturbed[r] /\ "assigned_to" \in req[r].sets => task'[t].assigned_to = req[r].assigned_to]_vars
    BY CommitWritesItsBody
<1> QED
    BY <1>1, Invariance, PTL DEF Spec, UpdatesWriteTheirBody
=============================================================================
