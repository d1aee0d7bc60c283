-------------------------- MODULE NotificationOutbox --------------------------
(***************************************************************************)
(* From the assignment of a task to the notification of its assignee:      *)
(* update_task writes the assignment and an outbox row in one transaction  *)
(* and then sends a trigger message; Celery workers that consume such      *)
(* messages claim outbox rows and turn them into notifications; Celery     *)
(* beat, where it runs, sends the same message every 15 seconds.           *)
(*                                                                         *)
(* Rows are numbered by created_at, the start of the transaction that      *)
(* inserts them: row i is the one that the i-th request may insert.        *)
(* The flush of the task, the insert of the outbox row and the commit are  *)
(* one step: what they write depends only on what the request holds, and   *)
(* nobody sees a part of it.                                               *)
(*                                                                         *)
(* A few operators stand before one they are a slip of                     *)
(* (AnnouncesFirstAssignee, OldestOnly, ...): no action uses them.  Put in *)
(* its place they show that a property notices the slip.                   *)
(***************************************************************************)
EXTENDS Naturals, FiniteSets

CONSTANTS
    Tasks, Users,
    Nobody,       \* assigned_to is null
    N,            \* bound: the requests, and so the outbox rows, of a behaviour
    Foreign,      \* rows of an event type this release does not support
    Titles,       \* "short", "long": long ones make the payload exceed 2000 characters
    Workers,
    Limit,        \* the batch size in a trigger message
    BeatRunning   \* a Celery beat process runs beside the workers

Rows == 1..N

ASSUME SizesAssumption == N \in Nat /\ Limit \in Nat /\ BeatRunning \in BOOLEAN
ASSUME NobodyAssumption == Nobody \notin Users
ASSUME TitlesAssumption == Titles \subseteq {"short", "long"}

(* old: the assignee when the request loaded the task. *)
Job == [task : Tasks, user : Users \cup {Nobody}, old : Users \cup {Nobody}, title : Titles]
NoJob == [task |-> "none"]

VARIABLES
    assigned,   \* tasks.assigned_to, as committed
    pc, job,    \* the requests
    status,     \* outbox rows; "ABSENT" before their insert is committed
    due,        \* next_retry_at is null or has passed
    notified,   \* how many notifications were created for each row
    messages,   \* trigger messages waiting in the broker
    batch,      \* the rows each worker has claimed; the row locks it holds
    failed      \* history: a dispatch that ran to its end failed on the row

taskVars == <<assigned, pc, job>>
rowVars == <<status, due, notified, failed>>
vars == <<taskVars, rowVars, messages, batch>>

TypeOK ==
    /\ assigned \in [Tasks -> Users \cup {Nobody}]
    /\ pc \in [Rows -> {"idle", "loaded", "trigger", "done"}]
    /\ job \in [Rows -> Job \cup {NoJob}]
    /\ status \in [Rows -> {"ABSENT", "PENDING", "FAILED", "SENT"}]
    /\ due \in [Rows -> BOOLEAN]
    /\ notified \in [Rows -> Nat]
    /\ messages \in Nat
    /\ batch \in [Workers -> SUBSET Rows]
    /\ failed \in [Rows -> BOOLEAN]
    /\ \A i \in Rows : pc[i] \in {"loaded", "trigger"} => job[i] \in Job

Init ==
    /\ assigned = [t \in Tasks |-> Nobody]
    /\ pc = [i \in Rows |-> "idle"]
    /\ job = [i \in Rows |-> NoJob]
    /\ status = [i \in Rows |-> "ABSENT"]
    /\ due = [i \in Rows |-> TRUE]
    /\ notified = [i \in Rows |-> 0]
    /\ messages = 0
    /\ batch = [w \in Workers |-> {}]
    /\ failed = [i \in Rows |-> FALSE]

-----------------------------------------------------------------------------
(* update_task *)

IsNext(i) == pc[i] = "idle" /\ \A j \in Rows : j < i => pc[j] # "idle"

(* The task is loaded; requests that are refused leave no trace. *)
LoadTask(i, t, u, title) ==
    /\ IsNext(i) /\ i \notin Foreign
    /\ pc' = [pc EXCEPT ![i] = "loaded"]
    /\ job' = [job EXCEPT ![i] = [task |-> t, user |-> u, old |-> assigned[t], title |-> title]]
    /\ UNCHANGED <<assigned, rowVars, messages, batch>>

(* The repository selects the task again but gets the object loaded before *)
(* (the session's identity map), and an attribute that is set to the value *)
(* it has makes no UPDATE: the assignee changes if it differs from old.    *)
ChangesAssignee(j) == j.user # j.old

AnnouncesFirstAssignee(j) == j.user # Nobody /\ j.old = Nobody

Announces(j) == j.user # Nobody /\ j.user # j.old

CommitTask(i) ==
    /\ pc[i] = "loaded"
    /\ assigned' = IF ChangesAssignee(job[i])
                       THEN [assigned EXCEPT ![job[i].task] = job[i].user]
                       ELSE assigned
    /\ status' = IF Announces(job[i]) THEN [status EXCEPT ![i] = "PENDING"] ELSE status
    /\ pc' = [pc EXCEPT ![i] = IF Announces(job[i]) THEN "trigger" ELSE "done"]
    /\ UNCHANGED <<job, due, notified, failed, messages, batch>>

(* The message is sent after the commit, and a failure to send it is only  *)
(* logged.                                                                 *)
Trigger(i) ==
    /\ pc[i] = "trigger"
    /\ pc' = [pc EXCEPT ![i] = "done"]
    /\ messages' = messages + 1
    /\ UNCHANGED <<assigned, job, rowVars, batch>>

(* The request dies where it stands, or the broker cannot be reached. *)
RequestEnds(i) ==
    /\ pc[i] \in {"loaded", "trigger"}
    /\ pc' = [pc EXCEPT ![i] = "done"]
    /\ UNCHANGED <<assigned, job, rowVars, messages, batch>>

(* A row of another event type, written by something else than this release. *)
ForeignRow(i) ==
    /\ IsNext(i) /\ i \in Foreign
    /\ pc' = [pc EXCEPT ![i] = "done"]
    /\ status' = [status EXCEPT ![i] = "PENDING"]
    /\ UNCHANGED <<assigned, job, due, notified, failed, messages, batch>>

-----------------------------------------------------------------------------
(* The dispatcher: dispatch_notifications_outbox in a Celery worker *)

(* Beat sends its message whether or not others wait; one that waits is as *)
(* good as several, so the model sends it when none does.                  *)
Beat ==
    /\ BeatRunning
    /\ messages = 0
    /\ messages' = 1
    /\ UNCHANGED <<taskVars, rowVars, batch>>

Locked == UNION {batch[w] : w \in Workers}

ClaimableIgnoringLocks == {i \in Rows : status[i] \in {"PENDING", "FAILED"} /\ due[i]}

Claimable == {i \in Rows : status[i] \in {"PENDING", "FAILED"} /\ due[i]} \ Locked

OldestOnly(S) == {i \in S : \A j \in S : i <= j}

(* ORDER BY created_at LIMIT limit FOR UPDATE SKIP LOCKED *)
Oldest(S) == {i \in S : Cardinality({j \in S : j < i}) < Limit}

ConsumeUnsent == messages' = messages - 1

(* Celery acknowledges a message before it runs the task. *)
Consume == messages > 0 /\ messages' = messages - 1

Claim(w) ==
    /\ batch[w] = {}
    /\ Consume
    /\ batch' = [batch EXCEPT ![w] = Oldest(Claimable)]
    /\ UNCHANGED <<taskVars, rowVars>>

Supported(i) == i \notin Foreign

(* A payload the notifications table refuses (String(2000)) fails in the   *)
(* database.                                                               *)
TooLong(i) == Supported(i) /\ job[i].title = "long"

Release(w) == batch' = [batch EXCEPT ![w] = {}]

(* Each row of the batch is notified or, when its processing raises, is    *)
(* to be retried later; one commit makes all of it visible.                *)
DispatchCommits(w) ==
    /\ batch[w] # {}
    /\ \A i \in batch[w] : ~TooLong(i)
    /\ status' = [i \in Rows |-> IF i \notin batch[w] THEN status[i]
                                 ELSE IF Supported(i) THEN "SENT" ELSE "FAILED"]
    /\ due' = [i \in Rows |-> IF i \in batch[w] THEN Supported(i) ELSE due[i]]
    /\ notified' = [i \in Rows |-> IF i \in batch[w] /\ Supported(i) THEN notified[i] + 1 ELSE notified[i]]
    /\ failed' = [i \in Rows |-> failed[i] \/ (i \in batch[w] /\ ~Supported(i))]
    /\ Release(w)
    /\ UNCHANGED <<taskVars, messages>>

(* After an error of the database the session refuses further work, so the *)
(* handler of that row's failure raises as well: the batch is rolled back. *)
DispatchRaises(w) ==
    /\ \E i \in batch[w] : TooLong(i)
    /\ failed' = [i \in Rows |-> failed[i] \/ (i \in batch[w] /\ TooLong(i))]
    /\ Release(w)
    /\ UNCHANGED <<taskVars, status, due, notified, messages>>

(* The worker dies: its transaction is rolled back, its message is gone. *)
WorkerCrashes(w) ==
    /\ batch[w] # {}
    /\ Release(w)
    /\ UNCHANGED <<taskVars, rowVars, messages>>

(* next_retry_at, at most 256 seconds ahead, passes. *)
RetryDue(i) ==
    /\ ~due[i]
    /\ due' = [due EXCEPT ![i] = TRUE]
    /\ UNCHANGED <<taskVars, status, notified, failed, messages, batch>>

-----------------------------------------------------------------------------
Next ==
    \/ \E i \in Rows, t \in Tasks, u \in Users \cup {Nobody}, title \in Titles : LoadTask(i, t, u, title)
    \/ \E i \in Rows :
        \/ CommitTask(i)
        \/ Trigger(i)
        \/ RequestEnds(i)
        \/ ForeignRow(i)
        \/ RetryDue(i)
    \/ \E w \in Workers :
        \/ Claim(w)
        \/ DispatchCommits(w)
        \/ DispatchRaises(w)
        \/ WorkerCrashes(w)
    \/ Beat

(* Nothing is owed by requests: they may die anywhere.  The broker hands   *)
(* waiting messages to idle workers, beat ticks, and time passes.  Workers *)
(* may die again and again, but not in every dispatch of the same row.     *)
Fairness ==
    /\ WF_vars(Beat)
    /\ \A i \in Rows : WF_vars(RetryDue(i))
    /\ \A w \in Workers : WF_vars(Claim(w)) /\ WF_vars(DispatchRaises(w))
    /\ \A w \in Workers, i \in Rows : SF_vars(i \in batch[w] /\ DispatchCommits(w))

Spec == Init /\ [][Next]_vars /\ Fairness

-----------------------------------------------------------------------------
(* Properties *)

(* A row is SENT exactly when its one notification was created: no overlap *)
(* of dispatchers, crash or retry notifies twice or marks a row unnotified *)
(* (service.py:99-133 of notifications).                                   *)
NotifiedOnce == \A i \in Rows : notified[i] = IF status[i] = "SENT" THEN 1 ELSE 0

(* "Retry metadata (attempts, next_retry_at, last_error) is stored for     *)
(* failed dispatches" (README.md:117).  It is stored together with the     *)
(* status FAILED.  It is not stored when the database refuses a payload.   *)
RetryMetadataStored == \A i \in Rows : failed[i] => status[i] # "PENDING"

(* A caller is promised notices: every step that assigns a task files its  *)
(* notice, and a notice reaches its user at most once (AssignmentNotice).  *)
NoSubject == [task |-> Nobody, user |-> Nobody]

Subjects ==
    [i \in Rows |-> IF status[i] # "ABSENT" /\ Supported(i)
                        THEN [task |-> job[i].task, user |-> job[i].user]
                        ELSE NoSubject]

Notice == INSTANCE AssignmentNotice WITH subject <- Subjects, notices <- notified
IsAssignmentNotice == Notice!Spec

(* Every assignment that was filed is notified in the end, whatever becomes *)
(* of the request, the trigger message and the workers, unless a row with a *)
(* payload the database refuses fails the batches it is in.                 *)
AssigneeIsNotified ==
    \A i \in Rows :
        Subjects[i] # NoSubject ~> notified[i] > 0 \/ \E j \in Rows : status[j] # "ABSENT" /\ TooLong(j)
=============================================================================
