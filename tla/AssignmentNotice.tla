--------------------------- MODULE AssignmentNotice ---------------------------
(***************************************************************************)
(* What assigning a task promises: the step that gives a task to a user    *)
(* files the notice of it, every notice filed is of such a step, and each  *)
(* notice reaches its user at most once.                                   *)
(***************************************************************************)
EXTENDS Naturals

CONSTANTS Tasks, Users, Nobody, Rows
VARIABLES
    assigned,
    subject,    \* what each filed notice is about
    notices     \* how often each was given to its user

NoSubject == [task |-> Nobody, user |-> Nobody]

Init ==
    /\ assigned = [t \in Tasks |-> Nobody]
    /\ subject = [i \in Rows |-> NoSubject]
    /\ notices = [i \in Rows |-> 0]

Assign(i, t, u) ==
    /\ subject[i] = NoSubject
    /\ assigned' = [assigned EXCEPT ![t] = u]
    /\ subject' = [subject EXCEPT ![i] = [task |-> t, user |-> u]]
    /\ UNCHANGED notices

Unassign(t) ==
    /\ assigned' = [assigned EXCEPT ![t] = Nobody]
    /\ UNCHANGED <<subject, notices>>

(* A dispatcher may give several notices in one step. *)
Deliver(D) ==
    /\ \A i \in D : subject[i] # NoSubject /\ notices[i] = 0
    /\ notices' = [i \in Rows |-> IF i \in D THEN 1 ELSE notices[i]]
    /\ UNCHANGED <<assigned, subject>>

Next ==
    \/ \E i \in Rows, t \in Tasks, u \in Users : Assign(i, t, u)
    \/ \E t \in Tasks : Unassign(t)
    \/ \E D \in SUBSET Rows : Deliver(D)

Spec == Init /\ [][Next]_<<assigned, subject, notices>>
=============================================================================
