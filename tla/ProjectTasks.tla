---------------------------- MODULE ProjectTasks ----------------------------
(***************************************************************************)
(* The projects and tasks of one organization, and the requests that       *)
(* create, change and delete them (src/app/modules/tasks, projects and     *)
(* organizations: service.py, repository.py, models.py, router.py).        *)
(*                                                                         *)
(* A request takes one step per SQL statement, as in OrgMembership.  Here  *)
(* the rows form a tree: the organization, its projects, their tasks.  A   *)
(* row that refers to others holds off their deletion while its insert is  *)
(* not committed (foreign keys), and a deletion takes everything below the *)
(* row with it (ON DELETE CASCADE).                                        *)
(*                                                                         *)
(* Who is a member changes beside these requests, in the ways RoleTable    *)
(* allows: that is what OrgMembership is shown to implement.               *)
(*                                                                         *)
(* Elsewhere is any other organization.  Nothing of it is followed, only   *)
(* that a request may name it where it should name this one.               *)
(*                                                                         *)
(* A few operators stand before one they are a slip of (AnyProject,        *)
(* NeverInTheWay, ...): no action uses them.                               *)
(***************************************************************************)
EXTENDS Naturals, FiniteSets

CONSTANTS
    Users, Projects, Tasks, Requests,
    Org, Elsewhere,
    NoOne,          \* no user, and the holder of a lock that is free
    GivenRoles,     \* bound: the roles members are given
    StatusInputs,   \* bound: the statuses request bodies ask for
    ColumnSets      \* bound: the sets of columns the bodies of updates have

Orgs == {Org, Elsewhere}
Rows == Orgs \cup Projects \cup Tasks

ASSUME DistinctRows ==
    /\ Org # Elsewhere
    /\ Orgs \cap Projects = {} /\ Orgs \cap Tasks = {} /\ Projects \cap Tasks = {}
ASSUME NobodyIsNoOne == NoOne \notin Users /\ NoOne \notin Requests

Roles == {"OWNER", "ADMIN", "MEMBER", "NONE"}
ASSUME GivenRolesAssumption == GivenRoles \subseteq {"OWNER", "ADMIN", "MEMBER"}

ALLOWED_STATUSES == {"TODO", "IN_PROGRESS", "DONE"}

\* "text" stands for title and description, which no rule is about.
Columns == {"text", "status", "assigned_to"}
ASSUME ColumnSetsAssumption == ColumnSets \subseteq SUBSET Columns

Task == [created_by : Users, org : Orgs, project : Projects,
         status : ALLOWED_STATUSES, assigned_to : Users \cup {NoOne}]
NoTask == [created_by |-> NoOne]

Ops == {"create_project", "create_task", "update", "delete"}

(* row, org: those of the path.  sets: the columns the body has, with the  *)
(* values it has for them; dirty: those that differ from the row as the    *)
(* first statement loaded it; own: by that row the requester is the        *)
(* assignee of the task to change, the creator of the task to delete.      *)
Request == [op : Ops, by : Users, row : Rows, org : Orgs,
            sets : SUBSET Columns, dirty : SUBSET Columns, own : BOOLEAN,
            status : StatusInputs \cup {"TODO"}, assigned_to : Users \cup {NoOne}]
NoRequest == [op |-> "none"]

Phases == {"idle", "project", "member", "assignee", "reload",
           "write", "insert", "refer", "cascade", "commit"}

VARIABLES
    state,        \* which rows there are, as committed
    task,         \* the columns of the task rows, as committed
    role,         \* the members of the organization, as committed
    lock,         \* which request holds the lock of a row it writes
    pc, req,      \* the statement each request runs next, and its data
    undisturbed   \* history: nobody else committed since its first statement

vars == <<state, task, role, lock, pc, req, undisturbed>>

TypeOK ==
    /\ state \in [Rows -> {"absent", "live", "deleted"}]
    /\ task \in [Tasks -> Task \cup {NoTask}]
    /\ \A t \in Tasks : state[t] = "live" <=> task[t] \in Task
    /\ role \in [Users -> Roles]
    /\ lock \in [Rows -> Requests \cup {NoOne}]
    /\ pc \in [Requests -> Phases]
    /\ req \in [Requests -> Request \cup {NoRequest}]
    /\ \A r \in Requests : pc[r] # "idle" => req[r] \in Request
    /\ undisturbed \in [Requests -> BOOLEAN]

Init ==
    /\ state = [x \in Rows |-> IF x = Elsewhere THEN "live" ELSE "absent"]
    /\ task = [t \in Tasks |-> NoTask]
    /\ role = [u \in Users |-> "NONE"]
    /\ lock = [x \in Rows |-> NoOne]
    /\ pc = [r \in Requests |-> "idle"]
    /\ req = [r \in Requests |-> NoRequest]
    /\ undisturbed = [r \in Requests |-> FALSE]

Table == INSTANCE RoleTable WITH org <- state[Org], role <- role

Live(x) == state[x] = "live"
IsMember(u) == role[u] # "NONE"
IsAdmin(u) == role[u] \in {"OWNER", "ADMIN"}

-----------------------------------------------------------------------------
(* The tree of rows *)

Parents(x) ==
    IF x \in Projects THEN {Org}
    ELSE IF x \in Tasks /\ Live(x) THEN {task[x].org, task[x].project}
    ELSE {}

(* What a deletion of x takes with it. *)
Below(x) ==
    {y \in Rows : Live(y) /\ \E z \in Parents(y) : z = x \/ x \in Parents(z)}

-----------------------------------------------------------------------------
(* Who waits for whom *)

(* The rows an insert refers to, from the check of the foreign key on. *)
Refers(r) ==
    {x \in Rows :
        \/ pc[r] \in {"refer", "commit"} /\ req[r].op \in {"create_project", "create_task"} /\ x = req[r].org
        \/ pc[r] = "commit" /\ req[r].op = "create_task" /\ x = req[r].row}

NeverInTheWay(s, x, r) == FALSE

(* A writer is in the way of the other writers of a row; a deletion and    *)
(* the inserts that refer to the row are in each other's way.              *)
InTheWay(s, x, r) ==
    \/ lock[x] = s /\ (req[r].op \in {"update", "delete"} \/ req[s].op = "delete")
    \/ x \in Refers(s) /\ req[r].op = "delete"

Free(x, r) == \A s \in Requests \ {r} : ~InTheWay(s, x, r)

Acquire(r, x) == Free(x, r) /\ lock' = [lock EXCEPT ![x] = r]

-----------------------------------------------------------------------------
(* Beginning and ending a request *)

Begin(r, phase, q) ==
    /\ pc[r] = "idle"
    /\ pc' = [pc EXCEPT ![r] = phase]
    /\ req' = [req EXCEPT ![r] = q]
    /\ undisturbed' = [undisturbed EXCEPT ![r] = TRUE]
    /\ UNCHANGED <<state, task, role, lock>>

Goto(r, phase) ==
    /\ pc' = [pc EXCEPT ![r] = phase]
    /\ UNCHANGED <<state, task, role, req, undisturbed>>

EndTransaction(r) ==
    /\ pc' = [pc EXCEPT ![r] = "idle"]
    /\ req' = [req EXCEPT ![r] = NoRequest]
    /\ lock' = [x \in Rows |-> IF lock[x] = r THEN NoOne ELSE lock[x]]

(* An HTTPException or a database error: nothing was committed. *)
Finish(r) ==
    /\ EndTransaction(r)
    /\ undisturbed' = [undisturbed EXCEPT ![r] = FALSE]
    /\ UNCHANGED <<state, task, role>>

Ask(op, by, row) ==
    [op |-> op, by |-> by, row |-> row, org |-> Org, sets |-> {}, dirty |-> {}, own |-> FALSE,
     status |-> "TODO", assigned_to |-> NoOne]

-----------------------------------------------------------------------------
(* The first statement of each handler *)

CreateProject(r, by) ==
    /\ IsAdmin(by)
    /\ Begin(r, "insert", Ask("create_project", by, Org))

AnyStatus(s) == TRUE

KnownStatus(s) == s \in ALLOWED_STATUSES

(* The requester may be a member of the other organization. *)
CreateTask(r, by, o, p, s) ==
    /\ o = Org => IsMember(by)
    /\ KnownStatus(s)
    /\ Begin(r, "project", [Ask("create_task", by, p) EXCEPT !.org = o, !.status = s])

Bodies(x) ==
    {b \in [sets : ColumnSets, status : StatusInputs \cup {"TODO"}, assigned_to : Users \cup {NoOne}] :
        /\ x \notin Tasks => b.sets \subseteq {"text"}
        /\ b.status \in IF "status" \in b.sets THEN StatusInputs ELSE {"TODO"}
        /\ "assigned_to" \notin b.sets => b.assigned_to = NoOne}

(* The object keeps the loaded values as long as the session lives: what   *)
(* the flush will find changed is settled here.  A text that is named is   *)
(* taken to be a new one.                                                  *)
Dirty(x, b) ==
    {c \in b.sets : /\ c = "status" => b.status # task[x].status
                    /\ c = "assigned_to" => b.assigned_to # task[x].assigned_to}

(* update_organization, update_project, update_task: exclude_unset keeps   *)
(* the columns the client sent, an explicit null among them.               *)
Update(r, by, x, b) ==
    /\ Live(x)
    /\ Begin(r, "member", [Ask("update", by, x) EXCEPT
           !.sets = b.sets, !.dirty = Dirty(x, b), !.status = b.status, !.assigned_to = b.assigned_to,
           !.own = x \in Tasks /\ "status" \in b.sets /\ task[x].assigned_to = by])

Delete(r, by, x) ==
    /\ Live(x)
    /\ Begin(r, "member", [Ask("delete", by, x) EXCEPT
           !.own = x \in Tasks /\ task[x].created_by = by])

-----------------------------------------------------------------------------
(* The checks between the first statement and the one that writes *)

AnyProject(q) == Live(q.row)
ProjectOnceThere(q) == q.org = Org

ProjectFound(q) == Live(q.row) /\ q.org \in Parents(q.row)

LoadProject(r) ==
    /\ pc[r] = "project"
    /\ \/ ~ProjectFound(req[r]) /\ Finish(r)
       \/ ProjectFound(req[r]) /\ Goto(r, "insert") /\ UNCHANGED lock

MembersMaySet(q) ==
    "assigned_to" \in q.sets => IsAdmin(q.by)

MaySet(q) ==
    /\ "status" \in q.sets =>
           /\ KnownStatus(q.status) \/ q.status = "null"
           /\ IsAdmin(q.by) \/ q.own
    /\ "assigned_to" \in q.sets => IsAdmin(q.by)

MayUpdate(q) ==
    IF q.row \in Tasks THEN IsMember(q.by) /\ MaySet(q) ELSE IsAdmin(q.by)

MayDelete(q) ==
    /\ q.row = Org => role[q.by] = "OWNER"
    /\ q.row \in Projects => IsAdmin(q.by)
    /\ q.row \in Tasks => IsMember(q.by) /\ (IsAdmin(q.by) \/ q.own)

AfterMember(q) ==
    IF q.op = "delete" \/ q.row \notin Tasks THEN "write"
    ELSE IF "assigned_to" \in q.sets /\ q.assigned_to # NoOne THEN "assignee"
    ELSE "reload"

ReadMember(r) ==
    /\ pc[r] = "member"
    /\ LET may == IF req[r].op = "update" THEN MayUpdate(req[r]) ELSE MayDelete(req[r]) IN
       \/ ~may /\ Finish(r)
       \/ /\ may
          /\ pc' = [pc EXCEPT ![r] = AfterMember(req[r])]
          /\ req' = [req EXCEPT ![r].own = FALSE]    \* not looked at again
          /\ UNCHANGED <<state, task, role, lock, undisturbed>>

ReadAssignee(r) ==
    /\ pc[r] = "assignee"
    /\ \/ ~IsMember(req[r].assigned_to) /\ Finish(r)
       \/ IsMember(req[r].assigned_to) /\ Goto(r, "reload") /\ UNCHANGED lock

(* The second select of update_task finds out whether the row is there;    *)
(* the object it returns is the first one, with the values loaded then.    *)
Reload(r) ==
    /\ pc[r] = "reload"
    /\ \/ ~Live(req[r].row) /\ Finish(r)
       \/ Live(req[r].row) /\ Goto(r, "write") /\ UNCHANGED lock

-----------------------------------------------------------------------------
(* The statements that write *)

IsNull(q) == "status" \in q.sets /\ q.status = "null"

(* Without a changed column there is no UPDATE.  One of a row that is gone *)
(* raises StaleDataError, a null in a NOT NULL column IntegrityError.      *)
UpdateRow(r) ==
    /\ pc[r] = "write" /\ req[r].op = "update"
    /\ \/ req[r].dirty = {} /\ Goto(r, "commit") /\ UNCHANGED lock
       \/ /\ req[r].dirty # {}
          /\ ~Live(req[r].row) \/ IsNull(req[r])
          /\ Finish(r)
       \/ /\ req[r].dirty # {}
          /\ Live(req[r].row) /\ ~IsNull(req[r])
          /\ Acquire(r, req[r].row)
          /\ Goto(r, "commit")

DeleteRow(r) ==
    /\ pc[r] = "write" /\ req[r].op = "delete"
    /\ \/ ~Live(req[r].row) /\ Finish(r)
       \/ Live(req[r].row) /\ Acquire(r, req[r].row) /\ Goto(r, "cascade")

AnyBelow(r) == {y \in Below(req[r].row) : lock[y] # r}

(* The rows of the cascade whose turn it is: a row is reached from the     *)
(* rows it refers to, when these have been deleted.                        *)
NextBelow(r) ==
    {y \in Below(req[r].row) :
        lock[y] # r /\ \A z \in Parents(y) : z \in Below(req[r].row) \cup {req[r].row} => lock[z] = r}

CascadeRow(r) ==
    /\ pc[r] = "cascade"
    /\ \E y \in NextBelow(r) : Acquire(r, y)
    /\ Goto(r, "cascade")

CascadeEnds(r) ==
    /\ pc[r] = "cascade"
    /\ \A y \in Below(req[r].row) : lock[y] = r
    /\ Goto(r, "commit")
    /\ UNCHANGED lock

(* The foreign keys of an insert are checked in the order of their         *)
(* constraints: the organization's, and for a task then the project's.     *)
InsertRow(r) ==
    /\ pc[r] = "insert"
    /\ Free(req[r].org, r)
    /\ \/ ~Live(req[r].org) /\ Finish(r)
       \/ /\ Live(req[r].org)
          /\ Goto(r, IF req[r].op = "create_task" THEN "refer" ELSE "commit")
          /\ UNCHANGED lock

ReferToProject(r) ==
    /\ pc[r] = "refer"
    /\ Free(req[r].row, r)
    /\ \/ ~Live(req[r].row) /\ Finish(r)
       \/ Live(req[r].row) /\ Goto(r, "commit") /\ UNCHANGED lock

-----------------------------------------------------------------------------
(* Commit *)

(* What others see from now on; what they have read may be out of date. *)
EndWithCommit(r) ==
    /\ undisturbed' = [s \in Requests |-> FALSE]
    /\ EndTransaction(r)

CommitProject(r) ==
    /\ pc[r] = "commit" /\ req[r].op = "create_project"
    /\ \E p \in Projects :
        state[p] = "absent" /\ state' = [state EXCEPT ![p] = "live"]
    /\ EndWithCommit(r)
    /\ UNCHANGED <<task, role>>

NewTask(q) ==
    [created_by |-> q.by, org |-> q.org, project |-> q.row,
     status |-> q.status, assigned_to |-> NoOne]

CommitTask(r) ==
    /\ pc[r] = "commit" /\ req[r].op = "create_task"
    /\ \E t \in Tasks :
        /\ state[t] = "absent"
        /\ state' = [state EXCEPT ![t] = "live"]
        /\ task' = [task EXCEPT ![t] = NewTask(req[r])]
    /\ EndWithCommit(r)
    /\ UNCHANGED role

UnsetIsNull(q, t) ==
    [t EXCEPT !.status = IF "status" \in q.dirty THEN q.status ELSE t.status,
              !.assigned_to = q.assigned_to]

Updated(q, t) ==
    [t EXCEPT !.status = IF "status" \in q.dirty THEN q.status ELSE t.status,
              !.assigned_to = IF "assigned_to" \in q.dirty THEN q.assigned_to ELSE t.assigned_to]

CommitUpdate(r) ==
    /\ pc[r] = "commit" /\ req[r].op = "update"
    /\ task' = IF req[r].row \in Tasks /\ Live(req[r].row)
               THEN [task EXCEPT ![req[r].row] = Updated(req[r], task[req[r].row])]
               ELSE task
    /\ EndWithCommit(r)
    /\ UNCHANGED <<state, role>>

LeavesMembers(q) == IF q.row = Org THEN [u \in Users |-> "NONE"] ELSE role

CommitDelete(r) ==
    /\ pc[r] = "commit" /\ req[r].op = "delete"
    /\ LET gone == {req[r].row} \cup Below(req[r].row) IN
        /\ state' = [x \in Rows |-> IF x \in gone THEN "deleted" ELSE state[x]]
        /\ task' = [t \in Tasks |-> IF t \in gone THEN NoTask ELSE task[t]]
    /\ role' = LeavesMembers(req[r])
    /\ EndWithCommit(r)

Commit(r) == CommitProject(r) \/ CommitTask(r) \/ CommitUpdate(r) \/ CommitDelete(r)

(* The client goes away, the process or the connection dies. *)
Abort(r) == pc[r] # "idle" /\ Finish(r)

-----------------------------------------------------------------------------
(* The other requests of the organization *)

CreateOrganization(u) ==
    /\ state[Org] = "absent"
    /\ state' = [state EXCEPT ![Org] = "live"]
    /\ role' = [role EXCEPT ![u] = "OWNER"]
    /\ undisturbed' = [r \in Requests |-> FALSE]
    /\ UNCHANGED <<task, lock, pc, req>>

(* The steps of the role table that leave the organization where it is.    *)
(* Handing over the ownership is two of them: whatever a handler here saw  *)
(* before, during and after it, it can see before, between and after them. *)
MembersChange ==
    /\ UNCHANGED <<state, task, lock, pc, req>>
    /\ \/ \E u \in Users, ro \in GivenRoles : Table!Enroll(u, ro) \/ Table!Assign(u, ro)
       \/ \E u \in Users : Table!Expel(u)
    /\ undisturbed' = [r \in Requests |-> FALSE]

-----------------------------------------------------------------------------
Statement(r) ==
    \/ LoadProject(r) \/ ReadMember(r) \/ ReadAssignee(r) \/ Reload(r)
    \/ UpdateRow(r) \/ DeleteRow(r) \/ CascadeRow(r) \/ CascadeEnds(r)
    \/ InsertRow(r) \/ ReferToProject(r)
    \/ Commit(r)

Next ==
    \/ \E u \in Users : CreateOrganization(u)
    \/ MembersChange
    \/ \E r \in Requests, by \in Users :
        \/ CreateProject(r, by)
        \/ \E o \in Orgs, p \in Projects, s \in StatusInputs \cup {"TODO"} : CreateTask(r, by, o, p, s)
        \/ \E x \in Rows \ {Elsewhere} :
            \/ \E b \in Bodies(x) : Update(r, by, x, b)
            \/ Delete(r, by, x)
    \/ \E r \in Requests : Statement(r) \/ Abort(r)

Spec == Init /\ [][Next]_vars

-----------------------------------------------------------------------------
(* Properties *)

(* A task is in a project of its own organization, and both are there: no  *)
(* overlap of creations with deletions leaves a row behind, and the path   *)
(* cannot put a task into another organization's project (service.py:57).  *)
TasksAreAtHome ==
    \A t \in Tasks : Live(t) =>
        /\ Live(task[t].project) /\ Live(task[t].org)
        /\ task[t].org \in Parents(task[t].project)

(* What a request that is about to be answered has written or referred to  *)
(* is still there: only one delete of a row succeeds, no update of a       *)
(* deleted row does, and no row is added below a deleted one.              *)
AnswersHold ==
    \A r \in Requests : pc[r] = "commit" =>
        /\ req[r].op = "update" => req[r].dirty = {} \/ Live(req[r].row)
        /\ req[r].op = "delete" => Live(req[r].row)
        /\ \A x \in Refers(r) : Live(x)

(* The rows whose lock the next statement of r needs, and who holds them.  *)
Wants(r) ==
    {x \in Rows :
        \/ pc[r] = "insert" /\ x = req[r].org
        \/ pc[r] = "refer" /\ x = req[r].row
        \/ pc[r] = "write" /\ x = req[r].row /\ Live(x)
        \/ pc[r] = "cascade" /\ x \in NextBelow(r)}

Blockers(r) == {s \in Requests \ {r} : \E x \in Wants(r) : InTheWay(s, x, r)}

(* Requests never wait for each other in a circle: creations take the      *)
(* organization before the project, cascades the parents before the rows   *)
(* below them, and updates one row only.                                   *)
NoCircularWait ==
    \A S \in SUBSET Requests : (\A r \in S : Blockers(r) \cap S # {}) => S = {}

(* The statements that would raise an unhandled database error: a foreign  *)
(* key without its row, an UPDATE that finds no row.                       *)
MissesRow(r) ==
    \/ pc[r] = "insert" /\ ~Live(req[r].org)
    \/ pc[r] = "refer" /\ ~Live(req[r].row)
    \/ pc[r] = "write" /\ req[r].op = "update" /\ ~Live(req[r].row)

(* A request meets such an error only if another one committed since its   *)
(* first statement: its own checks (404s) catch every other case.          *)
ErrorsNeedOverlap == \A r \in Requests : MissesRow(r) => ~undisturbed[r]

(* A request during which nobody else committed changes only what its      *)
(* requester may: the status of a task if assigned to it or admin, the     *)
(* assignee if admin and only to a member, tasks go with their creator or  *)
(* an admin, projects with an admin, the organization with an owner.       *)
UndisturbedAuthority ==
    [][\A r \in Requests : undisturbed[r] /\ Commit(r) =>
          LET by == req[r].by IN
          /\ req[r].org = Org => IsMember(by)
          /\ \A t \in Tasks : Live(t) /\ Live(t)' =>
                 /\ task'[t].status # task[t].status => IsAdmin(by) \/ task[t].assigned_to = by
                 /\ task'[t].assigned_to # task[t].assigned_to =>
                        IsAdmin(by) /\ (task'[t].assigned_to # NoOne => IsMember(task'[t].assigned_to))
          /\ \A t \in Tasks : Live(t) /\ ~Live(t)' => IsAdmin(by) \/ task[t].created_by = by
          /\ \A p \in Projects : Live(p) # Live(p)' => IsAdmin(by)
          /\ ~Live(Org)' => role[by] = "OWNER"]_vars

(* An update leaves the columns its body does not name as others committed *)
(* them, and if nobody committed meanwhile the table then has its values,  *)
(* although the flush compares with what an earlier statement loaded.      *)
UpdatesWriteTheirBody ==
    [][\A r \in Requests : CommitUpdate(r) /\ req[r].row \in Tasks /\ Live(req[r].row) =>
          LET t == req[r].row IN
          /\ task'[t] = [task[t] EXCEPT !.status = task'[t].status, !.assigned_to = task'[t].assigned_to]
          /\ "status" \notin req[r].sets => task'[t].status = task[t].status
          /\ "assigned_to" \notin req[r].sets => task'[t].assigned_to = task[t].assigned_to
          /\ undisturbed[r] /\ "status" \in req[r].sets => task'[t].status = req[r].status
          /\ undisturbed[r] /\ "assigned_to" \in req[r].sets => task'[t].assigned_to = req[r].assigned_to]_vars

(* What a task says to those who see the table. *)
CardOf(t) ==
    CASE state[t] = "absent" -> [created_by |-> NoOne, filed |-> FALSE]
      [] state[t] = "deleted" -> [created_by |-> NoOne, filed |-> TRUE]
      [] OTHER -> [created_by |-> task[t].created_by, project |-> task[t].project,
                   status |-> task[t].status, assigned_to |-> task[t].assigned_to]

Work == INSTANCE WorkTree WITH
            org <- state[Org],
            project <- [p \in Projects |-> state[p]],
            card <- [t \in Tasks |-> CardOf(t)]

(* What the callers see is a tree of work that changes by whole operations *)
(* (WorkTree), however the statements of the requests overlap: no deletion *)
(* is seen in part, nothing is added below a row that is gone, and what is *)
(* gone does not come back with a late update.                             *)
IsWorkTree == Work!Spec
=============================================================================
