# taskflow-backend: specifications and proofs

TLA+ modules that model the parts of taskflow-backend in which several requests,
workers or processes meet, TLC runs that check them on small instances, and
theorems that hold for instances of every size, checked by TLAPS. Paths below are
relative to the repository; `organizations/service.py` stands for
`src/app/modules/organizations/service.py` and so on.

## The system

A FastAPI application. Each HTTP request is a coroutine with an `AsyncSession` of
its own (`db/session.py:9-13`): one PostgreSQL transaction at READ COMMITTED, rolled
back when the session is closed without a commit. Other requests run at every
`await`, and in other worker processes at any time. Redis keeps tokens with a time
to live. Celery workers, prompted by RabbitMQ messages, turn outbox rows into
notifications.

| component | state | operations | meets others through |
|---|---|---|---|
| organizations: members | `organizations`, `org_members` rows | create, rename, delete, add, change role, remove, transfer, join | every member request reads the requester's row, checks, reads again, and writes; row locks, unique and foreign keys |
| organizations: invites | Redis key per invite, Redis index set per organization | create, list (prunes), revoke, redeem | redeeming crosses from Redis to the member table without a common transaction |
| tasks, projects | `projects`, `tasks` rows | create, update, assign, delete | membership checks; foreign keys and cascades from the organization down; update_task writes the outbox row of an assignment |
| notifications: outbox | `notification_outbox`, `notifications` rows, broker queue | enqueue, trigger, beat, claim, dispatch, retry | written in the transaction of update_task, claimed by several workers with SKIP LOCKED |
| notifications: reading | `notifications` rows | mark one, mark all, list in pages, count | rows arrive from dispatchers while they are listed and marked |
| auth: refresh sessions | Redis key per refresh token, browser cookie | login, rotate, logout | two requests with one cookie |
| auth: accounts | `users` rows, Redis one-time tokens | register, verify e-mail, reset password | commit in the database, then delete in Redis |
| access tokens, hashing, health, configuration, migrations | none kept | | |

What is hard in it: decisions on values read before an `await` and used after it;
checks (`get_member`, `_count_owners`) separate from the write they guard; writes to
two stores that cannot commit together; workers that die with claimed rows; messages
that are sent after a commit or never. `PROJECT.json` lists each of these hazards at
its line.

What makes each component correct:

* members: an organization keeps an owner; nobody acts beyond their role; no row is
  written twice, half, or for an organization that is gone; no lock order blocks for ever;
* outbox: an assignment and its event appear together; one notification per event;
  everybody assigned is told in the end; failures leave a trace;
* tasks, projects: nothing outlives what it is part of; no order of locks blocks; an
  update leaves alone what its body does not name; a request meets a database error over
  a row that is missing, or acts beyond its requester's authority, only when it overlaps
  with another (a null in a column that takes none fails a request on its own);
* reading: a list read page by page misses nothing that was there, or, read up to its
  total, no more than arrived meanwhile; marking all counts each notification once and
  leaves none out;
* invites: a usable invite can be listed and revoked; one that was redeemed or revoked
  admits nobody any more and leaves nothing behind;
* sessions: the browser's cookie is of use unless its own session expired or the request
  that replaces it died; a login has one live session; a logout ends it, whatever token is
  sent after it;
* accounts: one account per e-mail and name; a one-time token does what it was issued
  for, once; verification and reset do not undo each other.

## Modules

| module | what it is |
|---|---|
| `RoleTable` | abstract: the roles of one organization change by whole operations |
| `OrgMembership` | the handlers of `organizations/service.py`, one action per SQL statement |
| `OrgMembershipProofs` | theorems about it |
| `AssignmentNotice` | abstract: assigning files a notice in the same step; each notice is given at most once |
| `NotificationOutbox` | `update_task`'s assignment, the outbox, broker, beat and dispatcher workers |
| `NotificationOutboxProofs` | theorems about it |
| `ProjectTasks` | the handlers of projects, tasks and the organization they belong to, one action per SQL statement |
| `ProjectTasksProofs` | theorems about it |
| `WorkTree` | abstract: the organization, its projects and its tasks change by whole operations |
| `WorkTreeProofs` | the theorem that `ProjectTasks` implements it |
| `NotificationInbox` | a user's notifications: marking and listing them while dispatchers add to them |
| `NotificationInboxProofs` | theorems about it |
| `Invites` | the invites of `organizations/service.py` in Redis, one action per call |
| `InvitesProofs` | theorems about it |
| `RefreshSessions` | login, refresh and logout of one browser's tabs, one action per call of Redis |
| `RefreshSessionsProofs` | theorems about it |
| `Accounts` | registration, e-mail verification, password reset, one action per statement or call |
| `AccountTable` | abstract: accounts change by whole operations on one of their values, each of them granted |
| `AccountsProofs` | theorems about `Accounts` |
| `MC...` | instances of the same name for TLC |

How they compose: `RoleTable` is implemented by `OrgMembership`. `ProjectTasks` takes the
changes of members beside its own handlers from it (`MembersChange`), which that
justifies; its own effect on the members is the cascade of a deleted organization.
`ProjectTasks` implements `WorkTree`, what its callers see of organization, projects
and tasks, and `Accounts` implements `AccountTable`: the tokens in Redis are there the
grants, of which one stays when its token has gone (that it is used once is
`SpentTokenIsRefused`).
`NotificationOutbox` refines what `update_task` does when it assigns: `ProjectTasks`
has the statement and its checks, `NotificationOutbox` the event that is written with
it and everything that follows; `NotificationInbox` goes on where that ends, with the
commit of a dispatcher.

### OrgMembership

`org` and `role` are the committed rows (`"NONE"`: no row), `lock` the row locks,
`pc` and `req` the requests. The first statement of each handler (`require_role`) is
part of the action that starts it (`AddMember`, `ChangeRole`, `RemoveMember`,
`TransferOwnership`, `DeleteOrganization`, `JoinByInvite`); a request refused there
changes nothing. Then one action per statement:

| action | code in `organizations/` |
|---|---|
| `CreateOrganization` | `service.py:38-46`; its rows have fresh keys and are seen by nobody before the commit, so it is one step |
| `ReadTarget` | second `get_member` and the checks after it (111-113, 124-128, 146-152, 252-256) |
| `CountOwners` | `_count_owners` and its refusal (129-131, 153-155) |
| `WriteRow`, `DemoteRequester` | `repository.py:60-74`: rowcount 0 when the row is gone, otherwise wait for the row |
| `InsertRow` | `repository.py:17-20`: unique key (`models.py:40`), foreign key to the organization |
| `DeleteOrgRow`, `CascadeRow`, `CascadeEnds` | `repository.py:43-48` and ON DELETE CASCADE (`models.py:47-51`) |
| `Commit` | makes the writes visible and frees the locks |
| `Abort`, `DeadlockVictim` | a client or process that dies; PostgreSQL's deadlock detector |

Three details of the code matter. `remove_member` keeps the requester's row object,
so when the requester removes itself the second read returns the old attributes
(SQLAlchemy's identity map): `TargetRole`. `change_role` keeps none and reads afresh.
`join_by_invite` uses the role the invite was created with, also after the
organization was deleted. The role of a body is a plain string, hence `RoleInputs`.

`undisturbed[r]` is a history variable: nobody else has committed since the first
statement of `r`. It states what a request guarantees on its own.

Abstracted: names and `update_organization`, which writes no member (it is an update in
`ProjectTasks`); the read-only listings; the wait of a statement whose row is deleted and inserted again meanwhile
(the code then answers 404, a rollback that `Abort` also allows).

### NotificationOutbox

Row `i` is the outbox row the `i`-th request may insert: PostgreSQL's `now()` is the
start of the transaction, so `created_at` follows the order in which requests start.
`LoadTask` holds the assignee it read; `CommitTask` decides by it whether to write
the assignee and the event. Both decisions use the loaded value since the second
select of `tasks/repository.py:46-58` returns the same object. `Trigger` is the
`send_task` after the commit, `RequestEnds` stands for a request that dies or a broker
that cannot be reached. `Claim` consumes a message and locks the oldest claimable rows
(`notifications/repository.py:81-96`); `DispatchCommits`, `DispatchRaises` and
`WorkerCrashes` are the three ends of `_dispatch_outbox_async`. `due` abstracts
`next_retry_at`; the length of the delay, `min(300, 2**min(attempts, 8))`, at most 256
seconds, is left out. A row of another event type than TASK_ASSIGNED is refused in
Python (`service.py:78-79`) and marked FAILED; this release writes none, so `Foreign`
rows come from elsewhere. A payload longer than the 2000 characters of
`notifications.payload` is refused by the database (`Titles`).

### ProjectTasks

One organization with its projects and tasks; `Elsewhere` is any other organization,
which a request may name in its path. `state` and `task` are the committed rows, `role`
the members, `lock` the row locks, `pc` and `req` the requests.

| action | code |
|---|---|
| `CreateProject` | `require_role` of `projects/service.py:29-34` |
| `CreateTask`, `LoadProject` | `tasks/service.py:48-58` |
| `Update`, `Delete` | the first select of `update_organization`, `update_project`, `update_task` and of the three deletes |
| `ReadMember` | the requester's row and the checks on it (`tasks/service.py:110-126`, `187-194`, `require_role`) |
| `ReadAssignee` | `tasks/service.py:128-131` |
| `Reload` | the second select, `tasks/repository.py:47-51` |
| `UpdateRow` | the flush: no UPDATE without a changed column; `StaleDataError` if the row is gone; `IntegrityError` for a null status |
| `DeleteRow`, `CascadeRow`, `CascadeEnds` | DELETE (rowcount 0: 404) and ON DELETE CASCADE, parents first |
| `InsertRow`, `ReferToProject` | the flush of an insert: its foreign keys, one after the other |
| `CommitProject`, `CommitTask`, `CommitUpdate`, `CommitDelete` | the commits |
| `Abort` | the client, the process or the connection dies |

`sets` are the columns in the body (`exclude_unset`), `dirty` those whose value differs
from the row as first loaded: the flush writes these and no others, whatever another
request has committed meanwhile. "text" stands for name, title and description; one that
is named is taken to be a new one, so that a body which names a text and leaves it as it
was is not told apart from one that changes it (the step without an UPDATE is taken by
bodies that leave the status or the assignee as it was). An explicit null status passes
the check of `tasks/service.py:119` and fails in the database, which the model ends as it
ends every failed request, without effect; a null name or title fails there too and is
not told apart from an `Abort`.
`undisturbed` is the history variable of `OrgMembership`. A transfer of ownership is
two steps of `MembersChange`: a handler here reads one member row at a time, and what it
reads before, during and after a transfer it can read before, between and after these.

### NotificationInbox

`box` and `created` are the committed rows of one user, `created` the begin of the
dispatcher's transaction (`now()`), so that a dispatch that takes long commits rows
older than others that are already listed. `MarkRead`, `WriteRead` and `MarkAllRead`,
`UpdateRow`, `UpdateEnds` are the statements of the two handlers; the UPDATE of a
`mark_all_read` locks rows one by one, and tests its condition again on a row it had to
wait for (READ COMMITTED). `walk` is a client that calls the list with growing offset
until a page is not full; a page is two statements, `CountTotal` and `ReadPage`
(`notifications/repository.py:26-32`), and `counted`, a history variable, has the rows the
first of them has counted. The list has no tie-breaker: rows of one batch
have equal `created_at` and may come in another order each time (`Newest`), so the
properties are about rows that are alone with their time (`Alone`).

### Invites

`key[i]` is the Redis key of the `i`-th invite stored, `index[o]` the Redis set of
organization `o`. No two calls of Redis are atomic together, so each is an action:

| action | code in `organizations/service.py` |
|---|---|
| `CreateInvite`, `AddToIndex` | SET (182-191), SADD (193) |
| `ListInvites`, `GetListed`, `ReadTtl`, `RemoveFromIndex`, `EndList` | SMEMBERS, then per entry GET and TTL (205-226); the entry is removed when either finds nothing |
| `RevokeInvite`, `DeleteInvite`, `RemoveFromIndex` | GET (233), DEL (237), SREM (238) |
| `JoinByInvite`, `CheckMember`, `DeleteInvite`, `RemoveFromIndex`, `InsertMember` | GET, member row, DEL, SREM, INSERT and COMMIT (268-293) |

Redis answers TTL in rounded seconds, hence `"ending"`: the key can still be read and
redeemed while TTL answers 0 and a list removes its entry. `Begin` stands for
`require_role` as well; a request that is refused there or by its first call leaves no
trace. The insert of a redemption may be refused by the unique key (the user joined
meanwhile) or the foreign key (the organization is gone). `MembersChange` abstracts `OrgMembership`: any member row may come or go at any
time. `answered`, `ended` and `smooth` are history variables: which invites a client
knows of, which ones a client was told have ended, and whether nothing expired or died.

### RefreshSessions

One user, one browser, several tabs. `session` are the Redis keys, `cookie` what the
browser holds; a request carries the cookie of when it was sent, and its response sets
the cookie when it arrives, in any order. The cookie's path is that of `.env.example`
(`/auth`); with the default of `core/config.py:19`, `/auth/refresh`, browsers do not
send it to `/auth/logout`. `GetSession`, `DeleteSession` and
`StoreSession` are the calls of `rotate_refresh_session`, the latter two also those of
logout and login. `RequestLost` is a process or a connection that dies, before or after
any of them. Five variables are history: `root` names the login a token descends from;
`doubled` are the logins of which two refreshes met between the read and the store;
`ended` those of which a logout deleted a session while none of their refreshes was
there; `alone` says that no requests ever overlapped; `lost` are the tokens whose session
expired, or was deleted by a request that died before its response. A token in `lost` is
of no use to a browser that still holds it: that is the price of a crash between the DEL
and the response, and `CookieIsOfUse` says that no other cookie pays it.

### Accounts

`account` are the committed rows, `token` the one-time tokens in Redis of both kinds. A
flush and the commit behind it are one action: what is flushed is seen by nobody
before, and a second writer waits. `Register`, `CheckName`, `InsertUser` are the two lookups and the
insert of `auth/service.py:94-101`; `RequestVerification`, `RequestReset`, `IssueToken`
end with the token in Redis (it is handed out in debug mode only, the default);
`VerifyEmail`/`ResetPassword`, `LoadUser`, `SaveUser`, `EndConfirm` are GET, SELECT,
UPDATE with COMMIT, DEL. The UPDATE writes only assigned columns (`SavedRow`), not the
row as loaded. No code deletes a user, so the refusals of a token whose user is gone
(`auth/service.py:257, 297`) are unreachable and have no action.

## Runs

| run | checks | expected |
|---|---|---|
| `org_members` | `TypeOK`, `MembersNeedOrg`, `DeadlocksNeedTransfer`, `UndisturbedKeepsOwner`, `UndisturbedAuthority`, `IsRoleTable`, `EveryRequestEnds` | pass |
| `org_last_owner` | `OrgHasOwner` | violated: finding |
| `outbox` | `TypeOK`, `NotifiedOnce`, `IsAssignmentNotice`, `AssigneeIsNotified`, with beat | pass |
| `outbox_without_beat` | `AssigneeIsNotified`, as deployed | violated: finding |
| `outbox_retry_metadata` | `RetryMetadataStored` with a payload the database refuses | violated: finding |
| `invites` | `TypeOK`, `IndexComplete`, `IndexHasNoLeftovers`, `ListShowsUsable`, `EndedInviteAdmitsNobody` | pass |
| `sessions` | `TypeOK`, `CookieIsOfUse`, `OnlyDoubledLoginsSplit`, `LogoutIsFinal`, `LogoutEndsLogin` | pass |
| `sessions_overlap` | `OneSessionPerLogin` | violated: finding |
| `accounts` | `TypeOK`, `UniqueAccounts`, `ConfirmationsStand`, `SpentTokenIsRefused`, `IsAccountTable` | pass |
| `accounts_taken` | `TakenIsRefused` | violated: finding |
| `tasks` | `TypeOK`, `TasksAreAtHome`, `AnswersHold`, `NoCircularWait`, `ErrorsNeedOverlap`, `UndisturbedAuthority`, `UpdatesWriteTheirBody`, `IsWorkTree` | pass |
| `inbox` | `TypeOK`, `WalkMissesNothing`, `QuietWalkIsExact`, `CountsWhatItMarks`, `AnsweredAllRead`, `TotalMissesOnlyArrivals` | pass |

Bounds. Members: two requests at a time, since every race found in the handlers is
between two and a third request only repeats one of their roles; two users, with which
the longest cycle of waits (a transfer holding the target's row against a cascade
holding the requester's) has its two rows. A request about somebody who is neither
requester needs a third user: there the theorems, which hold for any number, take over
from the run. The run has a liveness property and therefore no symmetry. Its behaviours
may stop, since a deleted organization takes no more requests; only there and in the
outbox without beat deadlock is not checked.

Outbox: three rows, two workers and batches of two. Two workers can hold disjoint
batches, a batch can mix a failing and a good row, and a row can be retried while
younger rows are claimed. One task: rows of different tasks meet only in the dispatcher.

Tasks: one project with one task, two users, two requests: every kind of request against
every other, on the same rows of all three levels. Members are only given the role
MEMBER in this run (`GivenRoles`), the creator is the owner, and bodies have one column;
the theorems have no such bound. Inbox: three notifications in pages of one, from two
dispatches of which the first may commit last, two requests that mark them; a batch may
have one row, two or all three.

Invites: two requests, so that a list meets a creation, a revocation, a redemption or
another list, and two users redeem one invite; two invites, so that a list has an entry
to remove and one to show; two organizations, since an invite may be named under the
wrong one. Sessions: three requests, the most that one cookie is used by in an
interesting way (two refreshes and a logout), and three tokens: a login and two
refreshes, together or in turn, or one refresh and a second login. Accounts: two requests over two accounts and two tokens, with
two values of each column: two registrations that collide in one value or in both, and
any two of verification and reset of one account, with one token or two. The theorems below hold for
any number of each.

Fairness. A request that was accepted goes on, and a statement waiting for a row gets
it in its turn, since PostgreSQL queues the waiters: strong fairness of `Statement(r)`.
The deadlock detector is weakly fair. Nobody is obliged to send a request, and any
request may die. In the outbox, beat, time, and the delivery of waiting messages to
idle workers are weakly fair; workers may die again and again, but not in every
dispatch of the same row. `AssigneeIsNotified` also needs fewer rows failing at once
than the batch limit (100 in the code): older rows that are due again are claimed
first, so as many of them as the limit can keep a younger row out.

## Findings

1. A live organization can lose its last owner to two overlapping requests
   (`OrgHasOwner`): the count and the role it depends on are read without a lock. Two
   owners who demote each other both count two; and an owner's `change_role` or
   `remove_member` of X, checked while X is an ADMIN, takes effect after a transfer of
   ownership to X.
2. No process runs the beat schedule of `infra/celery_app.py:22-28`: an event whose
   trigger is lost waits for the next assignment.
3. When the database refuses a notification, the failure handler of
   `_dispatch_outbox_async` raises as well (the session is in its rolled-back state)
   and no retry metadata is stored; the row fails every batch it is claimed in, and
   the rows claimed with it are not sent.
4. Two refreshes that overlap both read the session before either deletes it, and the
   number of deleted keys is ignored: one login then has two live sessions
   (`OneSessionPerLogin`), against "invalidating the old refresh token and issuing a new
   one". Nothing else leads there (`OnlyDoubledLoginsSplit`): not an old token that is
   sent again, nor a logout, a login, an expiry or a lost request at any moment.
5. Of two overlapping registrations with one e-mail or username the second ends in an
   `IntegrityError` that nothing handles, not in the documented 409 (`TakenIsRefused`).
   The accounts themselves stay unique.

Some more effects are real and contradict no document: redemptions of one invite that
overlap may admit two users (nothing says that an invite is for one), and an invite is
lost when the process dies after its DEL and before the commit, or when the row is then
refused. An update of a task that another request deletes after the second select ends
in a `StaleDataError`, a creation below a project that is deleted after its check in an
`IntegrityError`, not in the 404 the handlers mean to give: `ErrorsNeedOverlap` shows
that only overlapping requests meet errors of this kind, over a row that is missing. (An
explicit null in a column that takes none fails alone, with an `IntegrityError`.) A member who is removed keeps the tasks
assigned to it. A transfer of ownership locks the new owner's row and then its
requester's, a deletion of the organization in any order: the two can deadlock, and
PostgreSQL then fails one of them with an error no handler expects
(`DeadlocksNeedTransfer`: no circle without such a transfer). A refresh that has read its
session before a logout deletes it stores the successor after it. And a client of the notifications list that stops at the reported
`total` may miss the last rows: those that arrive between the two statements of a page
are in the page and not in the total. It misses no more rows than arrived so
(`TotalMissesOnlyArrivals`), and none if it goes on until a page is not full.

The hazards in `PROJECT.json` that name no property are races, crashes and limits of this
kind: most are in the models, but no document promises anything that they break, and
properties about lone or answered requests (`UndisturbedAuthority`, `IndexComplete`,
`SpentTokenIsRefused`, ...) do not speak of them. The note of each says so.

## Proofs

For every set of users and requests, `OrgMembershipProofs` proves `TypeOK`,
`MembersNeedOrg`, `DeadlocksNeedTransfer`, `UndisturbedKeepsOwner`,
`UndisturbedAuthority` and the refinement of `RoleTable`. The assumptions are those declared in `OrgMembership`: the set of users is
finite, for the owner count, and `NoOne` is no request. None of these is inductive. The
invariant adds: `LockInv`, which rows a request holds in each phase and that they still
are as its statements found them, so that a commit never overwrites a change it has not
seen to be possible; `OrgInv`, that inserts and deletes of the organization exclude each
other; `ReadsStillHold`, that what an undisturbed request has read is still true, with,
after the count, the existence of another owner than its target. Each kind of step has
a lemma: starting (`BeginKeepsIInv`), ending (`FinishKeepsIInv`), going on
(`GotoKeepsIInv`, `AcquireKeepsIInv`), committing. For the circles of waits `CircleInv`
says in which phases a request holds a row at all, that a transfer waiting for its
requester's row holds the target's and no other, and that this target is no OWNER while
nobody else has committed. So everybody in a circle waits for such a transfer or for the
cascade, of which there is one at most; and where there is none, a transfer waits for the
row of its requester, an OWNER, which is the target of another: one of the two has been
disturbed.

For any number of rows and workers, any batch size, and with or without beat,
`NotificationOutboxProofs` proves `TypeOK`, `NotifiedOnce` and the refinement of
`AssignmentNotice`. The invariant says that a claimed row is in one batch only and still
to be dispatched (SKIP LOCKED), and that a row was written only by a request that
announced its assignment.

The three components on Redis are proved for every set of requests, users and
organizations and every bound on what is created; the assumptions are that the bounds
are naturals and that `NoOrg` is no organization.

* `InvitesProofs`: `TypeOK`, `IndexComplete`, `ListShowsUsable`,
  `EndedInviteAdmitsNobody`, `IndexHasNoLeftovers`. The argument is that a key only goes
  forward from unused to live, ending and gone. So what a request has read of an invite,
  `ReqInv` (its organization is that of the index, an entry about to be removed is not
  live, what a list has still to show is in what it has still to read), still holds at its
  next call. An invite of `ended` is gone (`EndedInv`), so a request that begins later is
  refused by its first call. `SmoothInv` says that an index entry whose key is gone has a
  request that is about to remove it: a key is deleted only after its creation was
  answered, so that no entry is added behind the removal.
* `RefreshSessionsProofs`: `TypeOK`, `CookieIsOfUse`, `OnlyDoubledLoginsSplit`,
  `LogoutIsFinal`, `LogoutEndsLogin`. `CookieIsOfUse` is about the moment when all is
  idle; the invariant says for any moment that a request still owes the browser an answer
  if the cookie's session is gone (`CookieInv`), and that the token of an answer on its way
  is live and known to nobody else (`AnswerInv`), each for a token that is not lost. `AloneInv` says which session of its
  login is live while the only request is under way. For requests that overlap, `RaceInv`
  has two parts: a refresh that has found its session and not yet stored the successor is
  the only one of its login, and no session of the login is live but the one it deletes
  next (`RotationInv`); and a login that was ended has no such refresh (`EndedInv`). Both
  hold of every login that is not doubled, and the two theorems need them both: a late
  refresh brings nothing back because it finds nothing live, an early one would have been
  met by the logout.
* `AccountsProofs`: `TypeOK`, `UniqueAccounts`, `ConfirmationsStand`,
  `SpentTokenIsRefused`, the refinement of `AccountTable`, and `VerifiedByToken`, which TLC
  checks as part of that refinement. No step deletes an account,
  and a token keeps its kind and owner (`TableAdvances`), so what a request has read of
  either (`ReqInv`) stays true until it writes. `SpentInv` says that a spent token does not
  come back. For the refinement, an insert that the unique constraints let through opens an
  account (`InsertOpens`), and a save is covered by the token its request has read, which
  may have gone meanwhile but was there (`SaveIsCovered`).

`ProjectTasksProofs` and `WorkTreeProofs` prove all eight properties of `tasks`, for any users, projects,
tasks and requests, any roles given and any bodies. The invariant has four parts:
`Shape`, which request is in which phase with what data; `LocksHeld`, that the rows a
request has locked or refers to are there, that no deletion has locked what another
request refers to, and that a cascade holds its rows from the top down; `TreeInv`,
about the committed rows alone; `ReadsStillHold`, that what an undisturbed request has
checked is still so. That nobody waits in a circle is shown by following the chain: whoever
is in the way and waits itself is a cascade or a `create_task` waiting for its project
(`WaitingBlocker`), from there the chain can only go on to the deletion of a project
(`BlockedBySmallCascade`), and behind that one it ends (`SmallCascade`). `WorkTreeProofs`
maps each commit to one operation of the tree: by `LocksHeld` the parents of an inserted
row are live, the row of an update is, and a deletion has collected every live row below
its own (a row inserted meanwhile would have made it wait), so that it goes whole.

`NotificationInboxProofs` proves all six properties of `inbox`, for any notifications,
dispatchers and requests and pages of any size. `Marks` says that what a `mark_all_read`
found unread it has still to look at, has locked, or is read. For the pages, `Position`
shows that the place of a row in the list is the number of newer rows, whatever order
ties come in, and `UnseenIsAhead` that a row of the walk not yet shown has at least as
many newer rows as the offset has passed; arrivals and marks only add to that number.
For the client that stops at the total, `RowsLeft` counts such rows: they are no more than
the list is longer than what the pages have gone through, hence than the total, and the
rows of the total are still in the list (`CountInv`).

Only model-checked: liveness (`EveryRequestEnds`, `AssigneeIsNotified`), which is out of
the prover's reach. Every other property of a passing run is also a theorem. The
properties of the five findings are violated and not proved.

## Not modelled

* The read-only endpoints of organizations, projects and tasks (`list_my_orgs`,
  `list_members`, `get_project`, `list_projects`, `get_task`, `list_tasks`): one or two
  selects without effect. The paged list of tasks is cut the way the notifications are.
* Access tokens and password hashing (`core/security.py`, `auth/deps.py`): library
  functions without state.
* Health checks, configuration, logging (`main.py`, `core/`): input and output.
* Migrations: run before the program; the constraints they create are in the models.
* Time: TTLs, the retry delay and `created_at` are kept only as far as their order
  matters. That `asyncio.run` opens an event loop per Celery task while the connection
  pool belongs to an earlier one (`notifications/service.py:139`) is a matter of the
  driver that no state of these modules can show.
* The Celery task `taskflow.task_assigned`: nothing in `src/` sends it.
