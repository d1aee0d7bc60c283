-------------------------- MODULE NotificationInbox --------------------------
(***************************************************************************)
(* The notifications of one user, and the requests that list them and mark *)
(* them read (src/app/modules/notifications: router.py, service.py 19-59,  *)
(* repository.py 13-73).  They arrive from the dispatchers that module     *)
(* NotificationOutbox follows.                                             *)
(*                                                                         *)
(* created_at is the time the dispatcher's transaction began: the whole    *)
(* batch has the same, and a batch may commit after a later one.           *)
(*                                                                         *)
(* A request takes one step per SQL statement.  The UPDATE of a            *)
(* mark_all_read locks its rows one by one, in no order it could rely on;  *)
(* for a row it had to wait for, the database tests the condition again.   *)
(*                                                                         *)
(* NoDefault, CountsEveryRow, SkipsLocked, TotalOfPage, NoOrder and         *)
(* OneTooMany are slips of the operators after them: no action uses them.  *)
(***************************************************************************)
EXTENDS Naturals, FiniteSets

CONSTANTS
    Notes,          \* the notifications the user ever gets
    Dispatchers, Requests,
    NoOne,          \* the holder of a lock that is free
    Limit,          \* rows of a page
    MaxTime         \* bound: the dispatches that begin

ASSUME NotesFinite == IsFiniteSet(Notes)
ASSUME NobodyIsNoOne == NoOne \notin Requests
ASSUME LimitAssumption == Limit \in Nat \ {0}
ASSUME MaxTimeAssumption == MaxTime \in Nat

Filters == {"all", "unread", "read"}

VARIABLES
    box,            \* the rows of the user, as committed
    created,        \* their created_at, 0 for rows that are not there
    clock,          \* the begin of the latest dispatch
    began,          \* the begin of the dispatch a dispatcher is in, or 0
    lock,           \* which request has a row locked
    pc,             \* the statement each request runs next
    todo,           \* the rows its UPDATE has still to look at
    unread,         \* history: the rows that were unread when it began
    walk,           \* the client that reads the list page by page
    counted,        \* history: the rows in the total of the page under way
    shown           \* history: how often the walk has shown a row

dispatchVars == <<clock, began>>
requestVars == <<lock, pc, todo, unread>>
walkVars == <<walk, counted, shown>>
vars == <<box, created, dispatchVars, requestVars, walkVars>>

Walk == [at : {"start", "total", "rows", "end"}, is_read : Filters, offset : Nat, total : Nat,
         first : SUBSET Notes, quiet : BOOLEAN]

NoWalk ==
    [at |-> "start", is_read |-> "all", offset |-> 0, total |-> 0, first |-> {}, quiet |-> FALSE]

TypeOK ==
    /\ box \in [Notes -> {"absent", "unread", "read"}]
    /\ created \in [Notes -> 0..MaxTime]
    /\ \A n \in Notes : box[n] = "absent" <=> created[n] = 0
    /\ clock \in 0..MaxTime
    /\ began \in [Dispatchers -> 0..MaxTime]
    /\ lock \in [Notes -> Requests \cup {NoOne}]
    /\ pc \in [Requests -> {"idle", "mark", "mark_all", "commit", "commit_all"}]
    /\ todo \in [Requests -> SUBSET Notes]
    /\ unread \in [Requests -> SUBSET Notes]
    /\ walk \in Walk
    /\ counted \subseteq Notes
    /\ shown \in [Notes -> Nat]

Init ==
    /\ box = [n \in Notes |-> "absent"]
    /\ created = [n \in Notes |-> 0]
    /\ clock = 0
    /\ began = [d \in Dispatchers |-> 0]
    /\ lock = [n \in Notes |-> NoOne]
    /\ pc = [r \in Requests |-> "idle"]
    /\ todo = [r \in Requests |-> {}]
    /\ unread = [r \in Requests |-> {}]
    /\ walk = NoWalk
    /\ counted = {}
    /\ shown = [n \in Notes |-> 0]

Unread == {n \in Notes : box[n] = "unread"}

(* The rows a list with this is_read parameter is about. *)
Matching(is_read) ==
    {n \in Notes : IF is_read = "all" THEN box[n] # "absent" ELSE box[n] = is_read}

-----------------------------------------------------------------------------
(* Arrivals *)

DispatchBegins(d) ==
    /\ began[d] = 0 /\ clock < MaxTime
    /\ clock' = clock + 1
    /\ began' = [began EXCEPT ![d] = clock + 1]
    /\ UNCHANGED <<box, created, requestVars, walkVars>>

NoDefault(d) == 0

(* server_default=func.now(): the begin of the transaction. *)
CreatedAt(d) == began[d]

(* What is committed beside a walk moves the rows of its next pages. *)
Disturb == walk' = [walk EXCEPT !.quiet = FALSE]

DispatchCommits(d, batch) ==
    /\ began[d] # 0 /\ \A n \in batch : box[n] = "absent"
    /\ box' = [n \in Notes |-> IF n \in batch THEN "unread" ELSE box[n]]
    /\ created' = [n \in Notes |-> IF n \in batch THEN CreatedAt(d) ELSE created[n]]
    /\ began' = [began EXCEPT ![d] = 0]
    /\ Disturb
    /\ UNCHANGED <<clock, requestVars, counted, shown>>

-----------------------------------------------------------------------------
(* Marking *)

(* mark_read: a notification that is read already is returned as it is. *)
MarkRead(r, n) ==
    /\ pc[r] = "idle" /\ box[n] = "unread"
    /\ pc' = [pc EXCEPT ![r] = "mark"]
    /\ todo' = [todo EXCEPT ![r] = {n}]
    /\ UNCHANGED <<box, created, dispatchVars, lock, unread, walkVars>>

(* The flush names the row by its id alone: it writes it, read or not. *)
WriteRead(r) ==
    /\ pc[r] = "mark"
    /\ \E n \in todo[r] : lock[n] = NoOne /\ lock' = [lock EXCEPT ![n] = r]
    /\ todo' = [todo EXCEPT ![r] = {}]
    /\ pc' = [pc EXCEPT ![r] = "commit"]
    /\ UNCHANGED <<box, created, dispatchVars, unread, walkVars>>

MarkAllRead(r) ==
    /\ pc[r] = "idle"
    /\ pc' = [pc EXCEPT ![r] = "mark_all"]
    /\ todo' = [todo EXCEPT ![r] = Unread]
    /\ unread' = [unread EXCEPT ![r] = Unread]
    /\ UNCHANGED <<box, created, dispatchVars, lock, walkVars>>

SkipsLocked(r, n) == TRUE

(* The UPDATE waits for a row that another request has written. *)
Reaches(r, n) == lock[n] = NoOne

CountsEveryRow(n) == TRUE

(* The condition of the UPDATE, tested on the row as it is by now. *)
StillUnread(n) == box[n] = "unread"

UpdateRow(r) ==
    /\ pc[r] = "mark_all"
    /\ \E n \in todo[r] :
        /\ Reaches(r, n)
        /\ lock' = IF StillUnread(n) /\ lock[n] = NoOne THEN [lock EXCEPT ![n] = r] ELSE lock
        /\ todo' = [todo EXCEPT ![r] = @ \ {n}]
    /\ UNCHANGED <<box, created, dispatchVars, pc, unread, walkVars>>

UpdateEnds(r) ==
    /\ pc[r] = "mark_all" /\ todo[r] = {}
    /\ pc' = [pc EXCEPT ![r] = "commit_all"]
    /\ UNCHANGED <<box, created, dispatchVars, lock, todo, unread, walkVars>>

Written(r) == {n \in Notes : lock[n] = r}

EndTransaction(r) ==
    /\ pc' = [pc EXCEPT ![r] = "idle"]
    /\ todo' = [todo EXCEPT ![r] = {}]
    /\ unread' = [unread EXCEPT ![r] = {}]
    /\ lock' = [n \in Notes |-> IF lock[n] = r THEN NoOne ELSE lock[n]]

(* The answer of mark_all_read is the number of rows it has written. *)
Commit(r) ==
    /\ pc[r] \in {"commit", "commit_all"}
    /\ box' = [n \in Notes |-> IF n \in Written(r) THEN "read" ELSE box[n]]
    /\ EndTransaction(r)
    /\ Disturb
    /\ UNCHANGED <<created, dispatchVars, counted, shown>>

(* The client goes away, the server dies, or the database breaks a circle  *)
(* of two updates that wait for each other's rows.                         *)
Abort(r) ==
    /\ pc[r] # "idle"
    /\ EndTransaction(r)
    /\ UNCHANGED <<box, created, dispatchVars, walkVars>>

-----------------------------------------------------------------------------
(* Listing: a client asks for page after page until one is not full *)

WalkBegins(is_read) ==
    /\ walk.at = "start"
    /\ walk' = [at |-> "total", is_read |-> is_read, offset |-> 0, total |-> 0,
                first |-> Matching(is_read), quiet |-> TRUE]
    /\ UNCHANGED <<box, created, dispatchVars, requestVars, counted, shown>>

TotalOfPage(is_read) ==
    IF Cardinality(Matching(is_read)) > Limit THEN Limit ELSE Cardinality(Matching(is_read))

(* The count is of all the rows, whatever the page. *)
Total(is_read) == Cardinality(Matching(is_read))

CountTotal ==
    /\ walk.at = "total"
    /\ walk' = [walk EXCEPT !.at = "rows", !.total = Total(walk.is_read)]
    /\ counted' = Matching(walk.is_read)
    /\ UNCHANGED <<box, created, dispatchVars, requestVars, shown>>

NoOrder(s) == \A i, j \in DOMAIN s : i < j => s[i] # s[j]

(* ORDER BY created_at DESC: rows of one dispatch come in any order. *)
Newest(s) == \A i, j \in DOMAIN s : i < j => s[i] # s[j] /\ created[s[i]] >= created[s[j]]

OneTooMany(s, offset) == {s[i] : i \in DOMAIN s \cap (offset..(offset + Limit))}

PageOf(s, offset) == {s[i] : i \in DOMAIN s \cap ((offset + 1)..(offset + Limit))}

ReadPage ==
    /\ walk.at = "rows"
    /\ LET rows == Matching(walk.is_read)
       IN
        \E s \in [1..Cardinality(rows) -> rows] :
            /\ Newest(s)
            /\ shown' = [n \in Notes |-> IF n \in PageOf(s, walk.offset) THEN shown[n] + 1 ELSE shown[n]]
            /\ walk' = [walk EXCEPT !.at = IF walk.offset + Limit > Cardinality(rows) THEN "end" ELSE "total",
                                    !.offset = @ + Limit]
    /\ counted' = {}
    /\ UNCHANGED <<box, created, dispatchVars, requestVars>>

WalkEnds ==
    /\ walk.at = "end"
    /\ walk' = NoWalk
    /\ shown' = [n \in Notes |-> 0]
    /\ UNCHANGED <<box, created, dispatchVars, requestVars, counted>>

-----------------------------------------------------------------------------
Next ==
    \/ \E d \in Dispatchers : DispatchBegins(d) \/ \E batch \in SUBSET Notes : DispatchCommits(d, batch)
    \/ \E r \in Requests :
        \/ \E n \in Notes : MarkRead(r, n)
        \/ WriteRead(r) \/ MarkAllRead(r) \/ UpdateRow(r) \/ UpdateEnds(r) \/ Commit(r) \/ Abort(r)
    \/ \E is_read \in Filters : WalkBegins(is_read)
    \/ CountTotal \/ ReadPage \/ WalkEnds

Spec == Init /\ [][Next]_vars

-----------------------------------------------------------------------------
(* Properties *)

(* The number mark_all_read answers is that of the rows it has made read:  *)
(* however it overlaps with others, no notification is counted twice.      *)
CountsWhatItMarks ==
    [][\A r \in Requests : Commit(r) /\ pc[r] = "commit_all" =>
          Written(r) = {n \in Notes : box[n] = "unread" /\ box'[n] = "read"}]_vars

(* When mark_all_read is answered, all that was unread at its start is     *)
(* read, also what another request had locked and then gave up.            *)
AnsweredAllRead ==
    [][\A r \in Requests : Commit(r) /\ pc[r] = "commit_all" => \A n \in unread[r] : box'[n] = "read"]_vars

(* No ORDER BY tells the rows of one batch apart. *)
Alone(n) == \A m \in Notes \ {n} : created[m] # created[n]

(* A client that goes through the pages until one is not full has seen all *)
(* that was there when it began, although rows arrive at the top and, from *)
(* slow dispatches, further down: they only push rows to later pages.  It  *)
(* does not hold of the unread list, which shrinks while rows are marked,  *)
(* nor for the rows of one batch.                                          *)
WalkMissesNothing ==
    walk.at = "end" /\ (walk.is_read = "unread" => walk.quiet) =>
        \A n \in walk.first : Alone(n) => shown[n] > 0

(* A walk during which nothing was committed shows each of its rows once,  *)
(* no other, and the right total.                                          *)
QuietWalkIsExact ==
    walk.at = "end" /\ walk.quiet =>
        /\ \A n \in Notes : Alone(n) => shown[n] = IF n \in walk.first THEN 1 ELSE 0
        /\ walk.total = Cardinality(walk.first)

(* The total and the rows of a page are two statements.  A client that     *)
(* stops when its pages have reached the total it is told may miss rows,   *)
(* but no more of them than came into the list between the two statements  *)
(* of its last page: what arrived before, the total has counted.           *)
TotalMissesOnlyArrivals ==
    [][ReadPage /\ (walk.is_read = "unread" => walk.quiet) /\ walk.offset + Limit >= walk.total =>
          Cardinality({n \in walk.first : Alone(n) /\ shown'[n] = 0})
              <= Cardinality(Matching(walk.is_read) \ counted)]_vars
=============================================================================
