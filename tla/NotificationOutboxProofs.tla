----------------------- MODULE NotificationOutboxProofs -----------------------
(***************************************************************************)
(* Proofs about NotificationOutbox, for any number of rows, workers, users *)
(* and tasks, any batch size, and with or without beat.                    *)
(*                                                                         *)
(* The inductive invariant says that the rows in a worker's batch are      *)
(* still to be dispatched and in no other batch (what FOR UPDATE SKIP      *)
(* LOCKED is for), and which rows the requests have written.               *)
(***************************************************************************)
EXTENDS NotificationOutbox, TLAPS

(* A claimed row is the claiming worker's own until its transaction ends. *)
BatchInv ==
    /\ \A w \in Workers : \A i \in batch[w] : status[i] \in {"PENDING", "FAILED"}
    /\ \A v, w \in Workers : \A i \in batch[v] \cap batch[w] : v = w

(* Only a request that announced its assignment has written its row. *)
RowInv ==
    \A i \in Rows :
        /\ pc[i] \in {"idle", "loaded"} => status[i] = "ABSENT"
        /\ status[i] # "ABSENT" /\ Supported(i) => job[i] \in Job /\ Announces(job[i])
        /\ pc[i] \in {"loaded", "trigger"} => Supported(i)
        /\ i \in Foreign => notified[i] = 0

IInv == TypeOK /\ BatchInv /\ RowInv /\ NotifiedOnce

USE DEF Job, NoJob, taskVars, rowVars

-----------------------------------------------------------------------------
LEMMA InitIInv == Init => IInv
BY SizesAssumption DEF Init, IInv, TypeOK, BatchInv, RowInv, NotifiedOnce

(* The steps of requests touch no row a worker has claimed. *)
LEMMA RequestKeepsIInv ==
    ASSUME IInv, NEW i \in Rows,
           \/ \E t \in Tasks, u \in Users \cup {Nobody}, title \in Titles : LoadTask(i, t, u, title)
           \/ CommitTask(i)
           \/ Trigger(i)
           \/ RequestEnds(i)
           \/ ForeignRow(i)
    PROVE  IInv'
<1> USE DEF IInv
<1>1. TypeOK'
    BY DEF TypeOK, LoadTask, IsNext, CommitTask, Trigger, RequestEnds, ForeignRow
<1>2. BatchInv'
    BY DEF TypeOK, BatchInv, RowInv, LoadTask, IsNext, CommitTask, Trigger, RequestEnds, ForeignRow
<1>3. RowInv'
    <2>1. \A j \in Rows : j # i => pc'[j] = pc[j] /\ job'[j] = job[j] /\ status'[j] = status[j]
        BY DEF TypeOK, LoadTask, IsNext, CommitTask, Trigger, RequestEnds, ForeignRow
    <2>2. notified' = notified
        BY DEF LoadTask, CommitTask, Trigger, RequestEnds, ForeignRow
    <2>3. /\ pc'[i] \in {"idle", "loaded"} => status'[i] = "ABSENT"
          /\ status'[i] # "ABSENT" /\ Supported(i) => job'[i] \in Job /\ Announces(job'[i])
          /\ pc'[i] \in {"loaded", "trigger"} => Supported(i)
        BY DEF TypeOK, RowInv, LoadTask, IsNext, CommitTask, Trigger, RequestEnds, ForeignRow,
           Supported, Announces
    <2> QED
        BY <2>1, <2>2, <2>3 DEF RowInv, Supported, Announces
<1>4. NotifiedOnce'
    BY DEF TypeOK, NotifiedOnce, RowInv, LoadTask, IsNext, CommitTask, Trigger, RequestEnds, ForeignRow
<1> QED
    BY <1>1, <1>2, <1>3, <1>4

LEMMA ClaimKeepsIInv ==
    ASSUME IInv, NEW w \in Workers, Claim(w)
    PROVE  IInv'
<1> USE DEF IInv
<1>1. Oldest(Claimable) \subseteq Claimable /\ Claimable \subseteq Rows
    BY DEF Oldest, Claimable
<1>2. messages' \in Nat
    BY DEF TypeOK, Claim, Consume
<1>3. TypeOK'
    BY <1>1, <1>2 DEF TypeOK, Claim
<1>4. BatchInv'
    <2>1. \A v \in Workers : batch'[v] = IF v = w THEN Oldest(Claimable) ELSE batch[v]
        BY DEF TypeOK, Claim
    <2>2. \A i \in Oldest(Claimable) :
              status[i] \in {"PENDING", "FAILED"} /\ \A v \in Workers : i \notin batch[v]
        BY <1>1 DEF Claimable, Locked
    <2>3. status' = status
        BY DEF Claim
    <2> HIDE DEF IInv
    <2> QED
        BY <2>1, <2>2, <2>3 DEF BatchInv, IInv
<1>5. RowInv' /\ NotifiedOnce'
    BY DEF RowInv, NotifiedOnce, Claim, Supported
<1> QED
    BY <1>3, <1>4, <1>5

LEMMA DispatchKeepsIInv ==
    ASSUME IInv, NEW w \in Workers, DispatchCommits(w)
    PROVE  IInv'
<1> USE DEF IInv
<1>1. \A i \in Rows : i \in batch[w] => status[i] \in {"PENDING", "FAILED"}
    BY DEF BatchInv
<1>2. \A i \in Rows :
          /\ status'[i] = IF i \notin batch[w] THEN status[i]
                          ELSE IF Supported(i) THEN "SENT" ELSE "FAILED"
          /\ notified'[i] = IF i \in batch[w] /\ Supported(i) THEN notified[i] + 1 ELSE notified[i]
    BY DEF DispatchCommits
<1>3. \A v \in Workers : batch'[v] = IF v = w THEN {} ELSE batch[v]
    BY DEF DispatchCommits, Release, TypeOK
<1>4. TypeOK'
    <2>1. /\ status' \in [Rows -> {"ABSENT", "PENDING", "FAILED", "SENT"}]
          /\ batch' \in [Workers -> SUBSET Rows]
        BY DEF TypeOK, DispatchCommits, Release
    <2>2. notified' \in [Rows -> Nat]
        BY DEF TypeOK, DispatchCommits
    <2>3. due' \in [Rows -> BOOLEAN] /\ failed' \in [Rows -> BOOLEAN]
        BY DEF TypeOK, DispatchCommits, Supported
    <2> QED
        BY <2>1, <2>2, <2>3 DEF TypeOK, DispatchCommits
<1>5. BatchInv'
    BY <1>2, <1>3 DEF BatchInv, TypeOK
<1>6. RowInv'
    BY <1>1, <1>2 DEF RowInv, DispatchCommits, Supported, Announces
<1>7. NotifiedOnce'
    BY <1>1, <1>2 DEF NotifiedOnce
<1> QED
    BY <1>4, <1>5, <1>6, <1>7

(* A rollback, a tick of beat and the passing of time change no row. *)
LEMMA OtherKeepsIInv ==
    ASSUME IInv,
           \/ \E w \in Workers : DispatchRaises(w) \/ WorkerCrashes(w)
           \/ \E i \in Rows : RetryDue(i)
           \/ Beat
           \/ UNCHANGED vars
    PROVE  IInv'
<1> USE DEF IInv
<1>1. TypeOK'
    <2>1. \A w \in Workers : Release(w) => batch' \in [Workers -> SUBSET Rows]
        BY DEF TypeOK, Release
    <2>2. \A w \in Workers : DispatchRaises(w) => failed' \in [Rows -> BOOLEAN]
        BY DEF TypeOK, DispatchRaises
    <2>3. CASE \E w \in Workers : DispatchRaises(w) \/ WorkerCrashes(w)
        BY <2>1, <2>2, <2>3 DEF TypeOK, DispatchRaises, WorkerCrashes
    <2>4. CASE \E i \in Rows : RetryDue(i)
        BY <2>4 DEF TypeOK, RetryDue
    <2>5. CASE Beat \/ UNCHANGED vars
        BY <2>5 DEF TypeOK, Beat, vars
    <2> QED
        BY <2>3, <2>4, <2>5
<1>2. /\ status' = status /\ notified' = notified /\ pc' = pc /\ job' = job
      /\ \A w \in Workers : batch'[w] \subseteq batch[w]
    BY DEF TypeOK, DispatchRaises, WorkerCrashes, RetryDue, Beat, vars, Release
<1>3. BatchInv'
    BY <1>2 DEF BatchInv
<1>4. RowInv' /\ NotifiedOnce'
    BY <1>2 DEF RowInv, NotifiedOnce, Supported, Announces
<1> QED
    BY <1>1, <1>3, <1>4

LEMMA NextKeepsIInv == IInv /\ [Next]_vars => IInv'
BY RequestKeepsIInv, ClaimKeepsIInv, DispatchKeepsIInv, OtherKeepsIInv DEF Next

(* The inductive invariant holds in every behaviour. *)
THEOREM Invariance == Spec => []IInv
BY InitIInv, NextKeepsIInv, PTL DEF Spec

(* Every variable keeps its type. *)
THEOREM TypeCorrect == Spec => []TypeOK
BY Invariance, PTL DEF IInv

(* Each outbox row is turned into at most one notification, and marked     *)
(* SENT with it, however many workers dispatch at once and die.            *)
THEOREM NoDoubleNotification == Spec => []NotifiedOnce
BY Invariance, PTL DEF IInv

-----------------------------------------------------------------------------
(* Refinement of AssignmentNotice *)

noticeVars == <<assigned, Subjects, notified>>

(* A commit that announces an assignment makes it and files its notice; one *)
(* that does not, takes the task from its assignee or leaves it alone.      *)
LEMMA CommitIsNoticeStep ==
    ASSUME IInv, NEW i \in Rows, CommitTask(i)
    PROVE  Notice!Next \/ UNCHANGED noticeVars
<1> USE DEF IInv
<1>1. /\ job[i] \in Job /\ status[i] = "ABSENT" /\ Supported(i)
      /\ job' = job /\ notified' = notified
    BY DEF CommitTask, TypeOK, RowInv
<1>2. Supported(i)' = Supported(i)
    BY DEF Supported
<1>3. CASE Announces(job[i])
    <2>1. job[i].user \in Users /\ job[i].task \in Tasks
        BY <1>1, <1>3 DEF Announces
    <2>2. assigned' = [assigned EXCEPT ![job[i].task] = job[i].user]
        BY <1>3 DEF CommitTask, Announces, ChangesAssignee
    <2>3. status' = [status EXCEPT ![i] = "PENDING"]
        BY <1>3 DEF CommitTask
    <2>4. Subjects' = [Subjects EXCEPT ![i] = [task |-> job[i].task, user |-> job[i].user]]
        BY <1>1, <2>3 DEF Subjects, Supported, TypeOK
    <2>5. Subjects[i] = NoSubject
        BY <1>1 DEF Subjects
    <2>6. Notice!Assign(i, job[i].task, job[i].user)
        BY <1>1, <2>2, <2>4, <2>5 DEF Notice!Assign, Notice!NoSubject, NoSubject
    <2> QED
        BY <2>1, <2>6 DEF Notice!Next
<1>4. CASE ~Announces(job[i])
    <2>1. status' = status
        BY <1>4 DEF CommitTask
    <2>2. Subjects' = Subjects
        BY <1>1, <2>1 DEF Subjects, Supported
    <2>3. CASE ChangesAssignee(job[i])
        <3>1. job[i].user = Nobody /\ job[i].task \in Tasks
            BY <1>1, <1>4, <2>3 DEF Announces, ChangesAssignee
        <3>2. Notice!Unassign(job[i].task)
            BY <1>1, <2>2, <2>3, <3>1 DEF CommitTask, Notice!Unassign
        <3> QED
            BY <3>1, <3>2 DEF Notice!Next
    <2>4. CASE ~ChangesAssignee(job[i])
        BY <1>1, <2>2, <2>4 DEF CommitTask, noticeVars
    <2> QED
        BY <2>3, <2>4
<1> QED
    BY <1>3, <1>4

(* A dispatch delivers the notices of the supported rows of its batch. *)
LEMMA DispatchIsNoticeStep ==
    ASSUME IInv, NEW w \in Workers, DispatchCommits(w)
    PROVE  Notice!Next
<1> USE DEF IInv
<1> DEFINE D == {i \in batch[w] : Supported(i)}
<1>1. \A i \in batch[w] : i \in Rows /\ status[i] \in {"PENDING", "FAILED"}
    BY DEF BatchInv, TypeOK
<1>2. \A i \in D : notified[i] = 0
    BY <1>1 DEF NotifiedOnce
<1>3. \A i \in D : Subjects[i] # NoSubject
    <2> SUFFICES ASSUME NEW i \in D
                 PROVE  Subjects[i] # NoSubject
        OBVIOUS
    <2>1. job[i] \in Job /\ Announces(job[i])
        BY <1>1 DEF RowInv
    <2>2. Subjects[i] = [task |-> job[i].task, user |-> job[i].user]
        BY <1>1 DEF Subjects
    <2> QED
        BY <2>1, <2>2 DEF Announces, NoSubject
<1>4. notified' = [i \in Rows |-> IF i \in D THEN 1 ELSE notified[i]]
    BY <1>1, <1>2 DEF DispatchCommits
<1>5. Subjects' = Subjects
    BY <1>1 DEF Subjects, DispatchCommits, Supported
<1>6. Notice!Deliver(D)
    BY <1>2, <1>3, <1>4, <1>5 DEF Notice!Deliver, DispatchCommits, Notice!NoSubject, NoSubject
<1>7. D \in SUBSET Rows
    BY <1>1
<1> QED
    BY <1>6, <1>7 DEF Notice!Next

(* Every other step leaves the notices as they are. *)
LEMMA OtherStepsKeepNotices ==
    ASSUME IInv,
           \/ \E i \in Rows, t \in Tasks, u \in Users \cup {Nobody}, title \in Titles : LoadTask(i, t, u, title)
           \/ \E i \in Rows : Trigger(i) \/ RequestEnds(i) \/ ForeignRow(i) \/ RetryDue(i)
           \/ \E w \in Workers : Claim(w) \/ DispatchRaises(w) \/ WorkerCrashes(w)
           \/ Beat
           \/ UNCHANGED vars
    PROVE  UNCHANGED noticeVars
<1> USE DEF IInv
<1>1. assigned' = assigned /\ notified' = notified
    BY DEF LoadTask, Trigger, RequestEnds, ForeignRow, RetryDue, Claim, DispatchRaises,
       WorkerCrashes, Beat, vars
<1>2. \A i \in Rows : Supported(i) =>
          status'[i] = status[i] /\ (status[i] # "ABSENT" => job'[i] = job[i])
    BY DEF TypeOK, RowInv, LoadTask, IsNext, Trigger, RequestEnds, ForeignRow, RetryDue, Claim,
       DispatchRaises, WorkerCrashes, Beat, vars, Supported
<1>3. Subjects' = Subjects
    BY <1>2 DEF Subjects, Supported
<1> QED
    BY <1>1, <1>3 DEF noticeVars

(* Assigning tasks through the outbox keeps the promise of AssignmentNotice. *)
THEOREM ImplementsAssignmentNotice == Spec => IsAssignmentNotice
<1>1. Init => Notice!Init
    BY DEF Init, Notice!Init, Subjects, NoSubject, Notice!NoSubject
<1>2. IInv /\ [Next]_vars => [Notice!Next]_noticeVars
    BY CommitIsNoticeStep, DispatchIsNoticeStep, OtherStepsKeepNotices DEF Next
<1> QED
    BY <1>1, <1>2, Invariance, PTL DEF Spec, IsAssignmentNotice, Notice!Spec, noticeVars
=============================================================================
