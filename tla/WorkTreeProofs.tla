---------------------------- MODULE WorkTreeProofs ----------------------------
(***************************************************************************)
(* Proof that the handlers of ProjectTasks implement WorkTree, for any     *)
(* users, projects, tasks and requests.                                    *)
(*                                                                         *)
(* Only commits are seen in the rows, and each is one operation of the     *)
(* tree.  What makes it so is what the transaction holds by then           *)
(* (LocksHeld): the rows an insert refers to are there, the row of an      *)
(* update or a deletion too, and a deletion has all that is below it.      *)
(***************************************************************************)
EXTENDS ProjectTasksProofs

USE DistinctRows, NobodyIsNoOne
USE DEF Roles, ALLOWED_STATUSES, Columns, Task, NoTask, Ops, NoRequest, Phases, Orgs, Creates
USE DEF Work!Statuses, Work!Card, Work!Unfiled, Work!Removed

Seen == <<state[Org], [p \in Projects |-> state[p]], [t \in Tasks |-> CardOf(t)]>>

-----------------------------------------------------------------------------
(* The mapping of tasks to cards *)

LEMMA RowTyped ==
    ASSUME TypeOK
    PROVE  /\ \A x \in Rows : state[x] \in {"absent", "live", "deleted"}
           /\ Org \in Rows /\ Projects \subseteq Rows /\ Tasks \subseteq Rows
BY DEF TypeOK, Rows

LEMMA CardsOfTasks ==
    ASSUME TypeOK, NEW t \in Tasks
    PROVE  /\ state[t] = "absent" => CardOf(t) = Work!Unfiled
           /\ state[t] = "deleted" => CardOf(t) = Work!Removed
           /\ Live(t) => /\ CardOf(t) = [created_by |-> task[t].created_by, project |-> task[t].project,
                                         status |-> task[t].status, assigned_to |-> task[t].assigned_to]
                         /\ CardOf(t).project = task[t].project
           /\ Live(t) <=> CardOf(t) \in Work!Card
<1>1. state[t] \in {"absent", "live", "deleted"}
    BY RowTyped
<1>2. CASE state[t] = "absent"
    BY <1>2 DEF CardOf, Live
<1>3. CASE state[t] = "deleted"
    BY <1>3 DEF CardOf, Live
<1>4. CASE state[t] = "live"
    <2>1. task[t] \in Task
        BY <1>4 DEF TypeOK
    <2>2. CardOf(t) = [created_by |-> task[t].created_by, project |-> task[t].project,
                       status |-> task[t].status, assigned_to |-> task[t].assigned_to]
        BY <1>4 DEF CardOf
    <2> QED
        BY <1>4, <2>1, <2>2 DEF Live
<1> QED
    BY <1>1, <1>2, <1>3, <1>4

(* A task whose row stays as it is keeps its card. *)
LEMMA CardStays ==
    ASSUME NEW t, state'[t] = state[t], task'[t] = task[t]
    PROVE  CardOf(t)' = CardOf(t)
BY DEF CardOf

LEMMA NothingSeen ==
    ASSUME UNCHANGED <<state, task>>
    PROVE  UNCHANGED Seen
BY DEF Seen, CardOf

-----------------------------------------------------------------------------
(* What a commit is in the tree *)

LEMMA CommitProjectOpens ==
    ASSUME IInv, NEW r \in Requests, CommitProject(r)
    PROVE  \E p \in Projects : Work!Open(p)
<1>1. PICK p \in Projects : state[p] = "absent" /\ state' = [state EXCEPT ![p] = "live"]
    BY DEF CommitProject
<1>2. Org \in Refers(r)
    BY DEF CommitProject, IInv, Shape, Refers, Rows
<1>3. state[Org] = "live"
    BY <1>2 DEF IInv, LocksHeld, Live
<1>4. state'[Org] = state[Org] /\ \A t \in Tasks : state'[t] = state[t] /\ task'[t] = task[t]
    BY <1>1, RowTyped DEF CommitProject, IInv, TypeOK
<1>5. \A t \in Tasks : CardOf(t)' = CardOf(t)
    BY <1>4, CardStays
<1>6. [x \in Projects |-> state'[x]] = [[x \in Projects |-> state[x]] EXCEPT ![p] = "live"]
    BY <1>1, RowTyped DEF IInv, TypeOK
<1> QED
    BY <1>1, <1>3, <1>4, <1>5, <1>6 DEF Work!Open

LEMMA CommitTaskFiles ==
    ASSUME IInv, NEW r \in Requests, CommitTask(r)
    PROVE  \E t \in Tasks, c \in Work!Card : Work!File(t, c)
<1> DEFINE q == req[r]
           n == NewTask(q)
           c == [created_by |-> q.by, project |-> q.row, status |-> q.status, assigned_to |-> NoOne]
<1>1. PICK t \in Tasks : /\ state[t] = "absent" /\ state' = [state EXCEPT ![t] = "live"]
                         /\ task' = [task EXCEPT ![t] = n]
    BY DEF CommitTask
<1>2. pc[r] = "commit" /\ q.op = "create_task" /\ q.org = Org /\ q.row \in Projects /\ q.status \in ALLOWED_STATUSES
    BY DEF CommitTask, IInv, Shape
<1>3. q.by \in Users
    BY <1>2, RequestTyped DEF IInv
<1>4. Org \in Refers(r) /\ q.row \in Refers(r)
    BY <1>2 DEF Refers, Rows
<1>5. state[Org] = "live" /\ state[q.row] = "live"
    BY <1>4 DEF IInv, LocksHeld, Live
<1>6. c \in Work!Card /\ c.project = q.row
    BY <1>2, <1>3
<1>7. /\ state'[t] = "live" /\ task'[t] = n /\ t \in Rows \ {Org} /\ t \notin Projects
      /\ \A x \in Rows \ {t} : state'[x] = state[x]
      /\ \A u \in Tasks \ {t} : task'[u] = task[u]
    BY <1>1, RowTyped DEF IInv, TypeOK
<1>8. CardOf(t)' = c
    BY <1>7 DEF CardOf, NewTask
<1>9. \A u \in Tasks \ {t} : CardOf(u)' = CardOf(u)
    BY <1>7, CardStays DEF Rows
<1>10. CardOf(t) = Work!Unfiled
    BY <1>1, CardsOfTasks DEF IInv
<1>11. /\ state'[Org] = state[Org]
       /\ [x \in Projects |-> state'[x]] = [x \in Projects |-> state[x]]
    BY <1>7 DEF Rows
<1> HIDE DEF c
<1>12. [u \in Tasks |-> CardOf(u)'] = [[u \in Tasks |-> CardOf(u)] EXCEPT ![t] = c]
    BY <1>8, <1>9
<1>13. Work!File(t, c)
    BY <1>2, <1>5, <1>6, <1>10, <1>11, <1>12 DEF Work!File
<1> QED
    BY <1>6, <1>13

LEMMA CommitUpdateEdits ==
    ASSUME IInv, NEW r \in Requests, CommitUpdate(r)
    PROVE  \/ \E t \in Tasks, s \in Work!Statuses, u \in Users \cup {NoOne} : Work!Edit(t, s, u)
           \/ UNCHANGED Seen
<1>1. UNCHANGED state
    BY DEF CommitUpdate
<1>2. ASSUME NEW t \in Tasks, t = req[r].row, Live(t)
      PROVE  \E s \in Work!Statuses, u \in Users \cup {NoOne} : Work!Edit(t, s, u)
    <2>1. /\ task'[t] = [task[t] EXCEPT !.status = task'[t].status, !.assigned_to = task'[t].assigned_to]
          /\ task[t] \in Task
        BY <1>2, UpdatedColumns, TaskTyped DEF IInv
    <2>2. task'[t] \in Task
        BY <1>1, <1>2, CommitUpdateKeepsIInv DEF IInv, TypeOK, Live
    <2> PICK s, u : s = task'[t].status /\ u = task'[t].assigned_to
        OBVIOUS
    <2> DEFINE c == [created_by |-> task[t].created_by, project |-> task[t].project, status |-> s, assigned_to |-> u]
    <2>3. s \in Work!Statuses /\ u \in Users \cup {NoOne}
        BY <2>2
    <2>4. task'[t].created_by = task[t].created_by /\ task'[t].project = task[t].project
        BY <2>1
    <2>5. CardOf(t)' = c
        BY <1>1, <1>2, <2>4 DEF CardOf, Live
    <2>6. CardOf(t) = [created_by |-> task[t].created_by, project |-> task[t].project,
                       status |-> task[t].status, assigned_to |-> task[t].assigned_to]
          /\ CardOf(t) \in Work!Card
        BY <1>2, CardsOfTasks DEF IInv
    <2>7. c = [CardOf(t) EXCEPT !.status = s, !.assigned_to = u]
        <3> DEFINE moved == [created_by |-> task[t].created_by, project |-> task[t].project,
                             status |-> s, assigned_to |-> task[t].assigned_to]
        <3>1. moved = [CardOf(t) EXCEPT !.status = s]
            BY <2>6
        <3>2. c = [moved EXCEPT !.assigned_to = u]
            OBVIOUS
        <3> HIDE DEF c, moved
        <3> QED
            BY <3>1, <3>2
    <2>8. \A v \in Tasks \ {t} : CardOf(v)' = CardOf(v)
        <3>1. task' = [task EXCEPT ![t] = Updated(req[r], task[t])]
            BY <1>2 DEF CommitUpdate
        <3> QED
            BY <1>1, <3>1, CardStays DEF IInv, TypeOK
    <2> HIDE DEF c
    <2>9. [v \in Tasks |-> CardOf(v)'] = [[v \in Tasks |-> CardOf(v)] EXCEPT ![t].status = s, ![t].assigned_to = u]
        BY <1>2, <2>5, <2>6, <2>7, <2>8
    <2>10. Work!Edit(t, s, u)
        BY <1>1, <1>2, <2>6, <2>9 DEF Work!Edit
    <2> QED
        BY <2>3, <2>10
<1>3. CASE ~(req[r].row \in Tasks /\ Live(req[r].row))
    BY <1>1, <1>3, NothingSeen DEF CommitUpdate
<1> QED
    BY <1>2, <1>3

(* The rows a deletion removes are the row and those below it, whole. *)
LEMMA CommitDeleteRemoves ==
    ASSUME IInv, NEW r \in Requests, CommitDelete(r), NEW T \in SUBSET Tasks,
           \A t \in Tasks : Live(t) => (t \in T <=> t \in Reach(r))
    PROVE  Work!Remove(T)
<1>1. /\ state' = [x \in Rows |-> IF x \in Reach(r) THEN "deleted" ELSE state[x]]
      /\ task' = [t \in Tasks |-> IF t \in Reach(r) THEN NoTask ELSE task[t]]
      /\ req[r].op = "delete" /\ pc[r] = "commit"
    BY CommitDeleteWrites DEF CommitDelete, Reach
<1>2. \A x \in Reach(r) : Live(x)
    <2>1. Live(req[r].row)
        BY <1>1, RequestTyped DEF IInv, LocksHeld, LockedByRight, Deletes
    <2> QED
        BY <2>1 DEF Reach, Below
<1>3. ASSUME NEW t \in Tasks
      PROVE  CardOf(t)' = IF t \in T /\ CardOf(t) \in Work!Card THEN Work!Removed ELSE CardOf(t)
    <2>1. t \in Rows /\ (Live(t) <=> CardOf(t) \in Work!Card)
        BY RowTyped, CardsOfTasks DEF IInv
    <2>2. CASE t \in Reach(r)
        <3>1. state'[t] = "deleted" /\ Live(t) /\ t \in T
            BY <1>1, <1>2, <2>1, <2>2
        <3> QED
            BY <2>1, <3>1 DEF CardOf
    <2>3. CASE t \notin Reach(r)
        BY <1>1, <2>1, <2>3, CardStays
    <2> QED
        BY <2>2, <2>3
<1> QED
    BY <1>3 DEF Work!Remove

LEMMA CommitDeleteIsWhole ==
    ASSUME IInv, NEW r \in Requests, CommitDelete(r)
    PROVE  \/ Work!Dissolve
           \/ \E p \in Projects : Work!Close(p)
           \/ \E t \in Tasks : Work!Drop(t)
<1> PICK x : x = req[r].row
    OBVIOUS
<1>1. /\ state' = [y \in Rows |-> IF y \in Reach(r) THEN "deleted" ELSE state[y]]
      /\ pc[r] = "commit" /\ req[r].op = "delete"
    BY CommitDeleteWrites
<1>2. x \in Rows /\ x # Elsewhere
    BY <1>1, RequestTyped DEF IInv, Shape
<1>3. Live(x)
    BY <1>1, <1>2 DEF IInv, LocksHeld, LockedByRight, Deletes
<1>4. \A y \in Rows : y \in Reach(r) => y = x \/ y \in Below(x)
    BY DEF Reach
<1>5. \A t \in Tasks : Live(t) => Parents(t) = {Org, task[t].project} /\ task[t].project \in Projects
    <2>1. \A p \in Projects : Parents(p) = {Org}
        BY DEF Parents
    <2> QED
        BY <2>1, TaskTyped DEF IInv, TreeInv, TasksAreAtHome
<1>6. CASE x = Org
    <2>1. \A t \in Tasks : Live(t) => t \in Reach(r)
        BY <1>5, <1>6, RowTyped DEF Reach, Below, IInv
    <2>2. \A p \in Projects : p \in Reach(r) <=> Live(p)
        BY <1>4, <1>6, BelowByKind, RowTyped DEF Reach, Below, Parents, IInv
    <2>3. Work!Remove(Tasks)
        BY <2>1, CommitDeleteRemoves
    <2>4. state[Org] = "live" /\ state'[Org] = "deleted"
        BY <1>1, <1>3, <1>6, RowTyped DEF Live, Reach, IInv
    <2>5. [p \in Projects |-> state'[p]] = [p \in Projects |-> IF state[p] = "live" THEN "deleted" ELSE state[p]]
        BY <1>1, <2>2, RowTyped DEF Live, IInv
    <2> QED
        BY <2>3, <2>4, <2>5 DEF Work!Dissolve
<1>7. CASE x \in Projects
    <2> DEFINE T == {t \in Tasks : CardOf(t) \in Work!Card /\ CardOf(t).project = x}
    <2>1. \A t \in Tasks : Live(t) => (t \in T <=> t \in Reach(r))
        <3> SUFFICES ASSUME NEW t \in Tasks, Live(t)
                     PROVE  task[t].project = x <=> t \in Below(x)
            BY <1>7, CardsOfTasks DEF Reach, IInv
        <3>1. t \in Rows /\ x # Org /\ x \notin Parents(Org)
            BY <1>7, RowTyped DEF Parents, IInv
        <3>2. x \notin Parents(task[t].project)
            BY <1>5, <3>1 DEF Parents
        <3> QED
            BY <1>5, <3>1, <3>2 DEF Below
    <2>2. Work!Remove(T)
        BY <2>1, CommitDeleteRemoves
    <2>3. Org \notin Reach(r) /\ \A p \in Projects : p \in Reach(r) <=> p = x
        BY <1>2, <1>4, <1>7, BelowByKind, RowTyped DEF Reach, IInv
    <2>4. state'[Org] = state[Org]
        BY <1>1, <2>3, RowTyped DEF IInv
    <2>5. [p \in Projects |-> state'[p]] = [[p \in Projects |-> state[p]] EXCEPT ![x] = "deleted"]
        BY <1>1, <1>7, <2>3, RowTyped DEF IInv
    <2>6. Work!Close(x)
        BY <1>3, <1>7, <2>2, <2>4, <2>5 DEF Work!Close, Live
    <2> QED
        BY <1>7, <2>6
<1>8. CASE x \in Tasks
    <2>1. Reach(r) = {x}
        BY <1>2, <1>8, BelowByKind DEF Reach
    <2>2. Work!Remove({x})
        BY <1>8, <2>1, CommitDeleteRemoves
    <2>3. state'[Org] = state[Org] /\ [p \in Projects |-> state'[p]] = [p \in Projects |-> state[p]]
        BY <1>1, <1>8, <2>1, RowTyped DEF IInv
    <2>4. CardOf(x) \in Work!Card
        BY <1>3, <1>8, CardsOfTasks DEF IInv
    <2>5. Work!Drop(x)
        BY <1>8, <2>2, <2>3, <2>4 DEF Work!Drop
    <2> QED
        BY <1>8, <2>5
<1> QED
    BY <1>2, <1>6, <1>7, <1>8 DEF Rows

LEMMA CommitIsTreeStep ==
    ASSUME IInv, NEW r \in Requests, Commit(r)
    PROVE  Work!Next \/ UNCHANGED Seen
<1>1. CASE CommitProject(r)
    BY <1>1, CommitProjectOpens DEF Work!Next
<1>2. CASE CommitTask(r)
    BY <1>2, CommitTaskFiles DEF Work!Next
<1>3. CASE CommitUpdate(r)
    BY <1>3, CommitUpdateEdits DEF Work!Next
<1>4. CASE CommitDelete(r)
    BY <1>4, CommitDeleteIsWhole DEF Work!Next
<1> QED
    BY <1>1, <1>2, <1>3, <1>4 DEF Commit

(* Within a transaction no row changes. *)
LEMMA StatementsAreUnseen ==
    ASSUME NEW r \in Requests, Statement(r) \/ Abort(r), ~Commit(r)
    PROVE  UNCHANGED <<state, task>>
<1> USE DEF Finish, Goto
<1>1. Statement(r) => UNCHANGED <<state, task>>
    BY DEF Statement, LoadProject, ReadMember, ReadAssignee, Reload, UpdateRow, DeleteRow, CascadeRow,
       CascadeEnds, InsertRow, ReferToProject
<1>2. Abort(r) => UNCHANGED <<state, task>>
    BY DEF Abort
<1> QED
    BY <1>1, <1>2

(* However the statements of the requests overlap, what is committed is a  *)
(* tree of work that changes by whole operations.                          *)
THEOREM ImplementsWorkTree == Spec => IsWorkTree
<1>1. Init => Work!Init
    BY DEF Init, Work!Init, CardOf, Rows
<1>2. IInv /\ [Next]_vars => [Work!Next]_Seen
    <2> SUFFICES ASSUME IInv, [Next]_vars
                 PROVE  Work!Next \/ UNCHANGED Seen
        OBVIOUS
    <2>1. ASSUME NEW u \in Users, CreateOrganization(u)
          PROVE  Work!Next
        <3>1. state[Org] = "absent" /\ state' = [state EXCEPT ![Org] = "live"] /\ task' = task
            BY <2>1 DEF CreateOrganization
        <3>2. /\ state'[Org] = "live" /\ \A t \in Tasks : state'[t] = state[t]
              /\ [p \in Projects |-> state'[p]] = [p \in Projects |-> state[p]]
            BY <3>1, RowTyped DEF IInv, TypeOK
        <3>3. \A t \in Tasks : CardOf(t)' = CardOf(t)
            BY <3>1, <3>2, CardStays
        <3>4. Work!Found
            BY <3>1, <3>2, <3>3 DEF Work!Found
        <3> QED
            BY <3>4 DEF Work!Next
    <2>2. CASE MembersChange
        BY <2>2, NothingSeen DEF MembersChange
    <2>3. ASSUME NEW r \in Requests, NEW by \in Users,
                 \/ CreateProject(r, by)
                 \/ \E o \in Orgs, p \in Projects, s \in StatusInputs \cup {"TODO"} : CreateTask(r, by, o, p, s)
                 \/ \E x \in Rows \ {Elsewhere} :
                     \/ \E b \in Bodies(x) : Update(r, by, x, b)
                     \/ Delete(r, by, x)
          PROVE  UNCHANGED Seen
        <3>1. UNCHANGED <<state, task>>
            BY <2>3 DEF CreateProject, CreateTask, Update, Delete, Begin
        <3> QED
            BY <3>1, NothingSeen
    <2>4. ASSUME NEW r \in Requests, Statement(r) \/ Abort(r)
          PROVE  Work!Next \/ UNCHANGED Seen
        BY <2>4, StatementsAreUnseen, NothingSeen, CommitIsTreeStep
    <2>5. UNCHANGED vars => UNCHANGED Seen
        BY NothingSeen DEF vars
    <2> QED
        BY <2>1, <2>2, <2>3, <2>4, <2>5 DEF Next
<1> QED
    BY <1>1, <1>2, Invariance, PTL DEF Spec, IsWorkTree, Work!Spec, Seen
===============================================================================
