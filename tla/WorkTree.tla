------------------------------- MODULE WorkTree -------------------------------
(***************************************************************************)
(* What the project and task services promise to their callers: the work   *)
(* of one organization changes by whole operations.  Work is added only    *)
(* where there is something to add it to, a deletion takes all that is     *)
(* below with it in one step, what was deleted does not come back, and a   *)
(* task keeps its creator and its project.                                 *)
(***************************************************************************)
CONSTANTS Users, Projects, Tasks, NoOne
VARIABLES
    org, project,   \* "absent", "live" or "deleted"
    card            \* what each task says, if it is there

Statuses == {"TODO", "IN_PROGRESS", "DONE"}
Card == [created_by : Users, project : Projects, status : Statuses, assigned_to : Users \cup {NoOne}]
Unfiled == [created_by |-> NoOne, filed |-> FALSE]
Removed == [created_by |-> NoOne, filed |-> TRUE]

Init ==
    /\ org = "absent"
    /\ project = [p \in Projects |-> "absent"]
    /\ card = [t \in Tasks |-> Unfiled]

Found ==
    /\ org = "absent" /\ org' = "live"
    /\ UNCHANGED <<project, card>>

Open(p) ==
    /\ org = "live" /\ project[p] = "absent"
    /\ project' = [project EXCEPT ![p] = "live"]
    /\ UNCHANGED <<org, card>>

File(t, c) ==
    /\ card[t] = Unfiled
    /\ org = "live" /\ project[c.project] = "live"
    /\ card' = [card EXCEPT ![t] = c]
    /\ UNCHANGED <<org, project>>

Edit(t, s, u) ==
    /\ card[t] \in Card
    /\ card' = [card EXCEPT ![t].status = s, ![t].assigned_to = u]
    /\ UNCHANGED <<org, project>>

Remove(T) == card' = [t \in Tasks |-> IF t \in T /\ card[t] \in Card THEN Removed ELSE card[t]]

Drop(t) ==
    /\ card[t] \in Card
    /\ Remove({t})
    /\ UNCHANGED <<org, project>>

Close(p) ==
    /\ project[p] = "live"
    /\ project' = [project EXCEPT ![p] = "deleted"]
    /\ Remove({t \in Tasks : card[t] \in Card /\ card[t].project = p})
    /\ UNCHANGED org

Dissolve ==
    /\ org = "live" /\ org' = "deleted"
    /\ project' = [p \in Projects |-> IF project[p] = "live" THEN "deleted" ELSE project[p]]
    /\ Remove(Tasks)

Next ==
    \/ Found \/ Dissolve
    \/ \E p \in Projects : Open(p) \/ Close(p)
    \/ \E t \in Tasks, c \in Card : File(t, c)
    \/ \E t \in Tasks, s \in Statuses, u \in Users \cup {NoOne} : Edit(t, s, u)
    \/ \E t \in Tasks : Drop(t)

Spec == Init /\ [][Next]_<<org, project, card>>
===============================================================================
