------------------------------ MODULE Accounts -------------------------------
(***************************************************************************)
(* Registration, e-mail verification and password reset                    *)
(* (src/app/modules/auth/service.py, src/app/modules/users).  Accounts are *)
(* rows in PostgreSQL, one-time tokens are keys in Redis.  A request takes *)
(* one step per statement or call; a flush and the commit that follows are *)
(* one step, since what is flushed is seen by nobody before the commit and *)
(* a second writer of the row, or of a unique value, waits for it.         *)
(*                                                                         *)
(* No code deletes a user.  Login writes nothing here (RefreshSessions).   *)
(*                                                                         *)
(* UniqueEmail, AnyUser, AnyKind, SaveWholeRow and KeepToken are slips of  *)
(* the operator that follows them and are used by no action.               *)
(***************************************************************************)
EXTENDS Naturals

CONSTANTS
    Emails, Names, Passwords, Requests,
    MaxAccounts, MaxTokens    \* bounds on what a behaviour creates

ASSUME AccountsAssumption == MaxAccounts \in Nat /\ MaxTokens \in Nat

Ids == 1..MaxAccounts
Tokens == 1..MaxTokens

Account == [email : Emails, name : Names, verified : BOOLEAN, password : Passwords]
NoAccount == [verified |-> FALSE]
Token == [kind : {"email_verify", "pwd_reset"}, id : Ids, live : BOOLEAN]
NoToken == [live |-> FALSE]
NoPassword == 0

(* data: the row to insert, or the user as it was loaded; late: a request  *)
(* with the same token was answered before this one began.                 *)
Request == [op : {"register", "email_verify", "pwd_reset"}, id : Ids \cup {0},
            token : Tokens \cup {0}, data : Account \cup {NoAccount},
            password : Passwords \cup {NoPassword}, late : BOOLEAN]
NoRequest == [op |-> "none"]

VARIABLES
    account,   \* the committed rows
    token,     \* the Redis keys, live or gone
    pc, req,   \* the requests
    spent,     \* history: the tokens with which a request was answered
    unhandled  \* history: a request ended in an error of the database

vars == <<account, token, pc, req, spent, unhandled>>

TypeOK ==
    /\ account \in [Ids -> Account \cup {NoAccount}]
    /\ token \in [Tokens -> Token \cup {NoToken}]
    /\ pc \in [Requests -> {"idle", "name", "insert", "issue", "load", "save", "del"}]
    /\ req \in [Requests -> Request \cup {NoRequest}]
    /\ \A r \in Requests : pc[r] # "idle" => req[r] \in Request
    /\ \A r \in Requests : pc[r] \in {"issue", "load", "save"} => account[req[r].id] # NoAccount
    /\ spent \subseteq Tokens /\ unhandled \in BOOLEAN

Init ==
    /\ account = [k \in Ids |-> NoAccount]
    /\ token = [t \in Tokens |-> NoToken]
    /\ pc = [r \in Requests |-> "idle"]
    /\ req = [r \in Requests |-> NoRequest]
    /\ spent = {} /\ unhandled = FALSE

Registered == {k \in Ids : account[k] # NoAccount}

Goto(r, phase) == pc' = [pc EXCEPT ![r] = phase]

Finish(r) == Goto(r, "idle") /\ req' = [req EXCEPT ![r] = NoRequest]

Begin(r, phase, op, k, t, data, password) ==
    /\ pc[r] = "idle"
    /\ Goto(r, phase)
    /\ req' = [req EXCEPT ![r] = [op |-> op, id |-> k, token |-> t, data |-> data,
                                  password |-> password, late |-> t \in spent]]
    /\ UNCHANGED <<account, token, spent, unhandled>>

-----------------------------------------------------------------------------
(* register: SELECT by e-mail, SELECT by username, INSERT and COMMIT *)

EmailTaken(e) == \E k \in Registered : account[k].email = e
NameTaken(n) == \E k \in Registered : account[k].name = n

Register(r, e, n, p) ==
    /\ ~EmailTaken(e)
    /\ Begin(r, "name", "register", 0, 0, [email |-> e, name |-> n, verified |-> FALSE, password |-> p], NoPassword)

CheckName(r) ==
    /\ pc[r] = "name"
    /\ \/ NameTaken(req[r].data.name) /\ Finish(r)
       \/ ~NameTaken(req[r].data.name) /\ Goto(r, "insert") /\ UNCHANGED req
    /\ UNCHANGED <<account, token, spent, unhandled>>

UniqueEmail(row) == ~EmailTaken(row.email)

(* uq_users_email, uq_users_username *)
KeepsUnique(row) == ~EmailTaken(row.email) /\ ~NameTaken(row.name)

InsertUser(r) ==
    /\ pc[r] = "insert"
    /\ \/ /\ KeepsUnique(req[r].data)
          /\ \E k \in Ids \ Registered : account' = [account EXCEPT ![k] = req[r].data]
          /\ UNCHANGED unhandled
       \/ /\ ~KeepsUnique(req[r].data)
          /\ unhandled' = TRUE
          /\ UNCHANGED account
    /\ Finish(r)
    /\ UNCHANGED <<token, spent>>

-----------------------------------------------------------------------------
(* request_email_verification and request_password_reset: SELECT, SET *)

(* The answer carries the token only in debug mode (the default); nothing  *)
(* else delivers it.                                                       *)
AnyUser(k) == k \in Ids

Found(k) == k \in Registered

RequestVerification(r, k) ==
    /\ Found(k)
    /\ ~account[k].verified
    /\ Begin(r, "issue", "email_verify", k, 0, NoAccount, NoPassword)

RequestReset(r, k) ==
    /\ Found(k)
    /\ Begin(r, "issue", "pwd_reset", k, 0, NoAccount, NoPassword)

IssueToken(r, t) ==
    /\ pc[r] = "issue"
    /\ token[t] = NoToken
    /\ token' = [token EXCEPT ![t] = [kind |-> req[r].op, id |-> req[r].id, live |-> TRUE]]
    /\ Finish(r)
    /\ UNCHANGED <<account, spent, unhandled>>

-----------------------------------------------------------------------------
(* verify_email and reset_password: GET, SELECT, UPDATE and COMMIT, DEL *)

AnyKind(kind, t) == token[t].live

(* The keys of the two kinds have prefixes of their own. *)
Redeems(kind, t) == token[t].live /\ token[t].kind = kind

VerifyEmail(r, t) ==
    /\ Redeems("email_verify", t)
    /\ Begin(r, "load", "email_verify", token[t].id, t, NoAccount, NoPassword)

ResetPassword(r, t, p) ==
    /\ Redeems("pwd_reset", t)
    /\ Begin(r, "load", "pwd_reset", token[t].id, t, NoAccount, p)

LoadUser(r) ==
    /\ pc[r] = "load"
    /\ LET user == account[req[r].id] IN
        /\ req' = [req EXCEPT ![r].data = user]
        /\ Goto(r, IF req[r].op = "email_verify" /\ user.verified THEN "del" ELSE "save")
    /\ UNCHANGED <<account, token, spent, unhandled>>

Confirmed(r, user) ==
    IF req[r].op = "email_verify" THEN [user EXCEPT !.verified = TRUE]
                                  ELSE [user EXCEPT !.password = req[r].password]

SaveWholeRow(r) == Confirmed(r, req[r].data)

(* The UPDATE names only the columns that were assigned. *)
SavedRow(r) == Confirmed(r, account[req[r].id])

SaveUser(r) ==
    /\ pc[r] = "save"
    /\ account' = [account EXCEPT ![req[r].id] = SavedRow(r)]
    /\ Goto(r, "del")
    /\ UNCHANGED <<token, req, spent, unhandled>>

KeepToken(t) == UNCHANGED token

DeleteToken(t) == token' = [token EXCEPT ![t].live = FALSE]

EndConfirm(r) ==
    /\ pc[r] = "del"
    /\ DeleteToken(req[r].token)
    /\ spent' = spent \cup {req[r].token}
    /\ Finish(r)
    /\ UNCHANGED <<account, unhandled>>

-----------------------------------------------------------------------------
RequestLost(r) ==
    /\ pc[r] # "idle"
    /\ Finish(r)
    /\ UNCHANGED <<account, token, spent, unhandled>>

Expire(t) ==
    /\ token[t].live
    /\ token' = [token EXCEPT ![t].live = FALSE]
    /\ UNCHANGED <<account, pc, req, spent, unhandled>>

Next ==
    \/ \E r \in Requests :
        \/ \E e \in Emails, n \in Names, p \in Passwords : Register(r, e, n, p)
        \/ CheckName(r)
        \/ InsertUser(r)
        \/ \E k \in Ids : RequestVerification(r, k) \/ RequestReset(r, k)
        \/ \E t \in Tokens : IssueToken(r, t) \/ VerifyEmail(r, t)
        \/ \E t \in Tokens, p \in Passwords : ResetPassword(r, t, p)
        \/ LoadUser(r)
        \/ SaveUser(r)
        \/ EndConfirm(r)
        \/ RequestLost(r)
    \/ \E t \in Tokens : Expire(t)

Spec == Init /\ [][Next]_vars

-----------------------------------------------------------------------------
(* Properties *)

(* Registrations that overlap pass both checks together, and still no two  *)
(* accounts share an e-mail address or a name.                             *)
UniqueAccounts ==
    \A j, k \in Registered : j # k =>
        account[j].email # account[k].email /\ account[j].name # account[k].name

(* Every refusal is an HTTPException: "HTTPException: If the email is      *)
(* already registered (status code 409)" (service.py:88) and the same for  *)
(* the username.                                                           *)
TakenIsRefused == ~unhandled

(* Verifying and resetting overlap without undoing each other: verified    *)
(* stays verified, and a password changes only by a reset of its account.  *)
ConfirmationsStand ==
    [][\A k \in Registered :
          /\ account[k].verified => account'[k].verified
          /\ account[k].password # account'[k].password =>
                \E r \in Requests : SaveUser(r) /\ req[r].op = "pwd_reset" /\ req[r].id = k]_vars

(* Once a request with a token is answered, none that begins later changes *)
(* the account with it; the change is committed before the token goes.     *)
SpentTokenIsRefused == [][\A r \in Requests : SaveUser(r) => ~req[r].late]_vars

(* What each token in Redis allows. *)
Granted == {<<token[t].kind, token[t].id>> : t \in {t \in Tokens : token[t] # NoToken}}

Table == INSTANCE AccountTable WITH granted <- Granted

(* What the requests do to the rows, however their calls overlap, is a     *)
(* table of accounts that change by whole operations, each covered by a    *)
(* token issued for it (AccountTable): no UPDATE carries an older value of *)
(* another column along, no e-mail address or name changes or goes.        *)
IsAccountTable == Table!Spec
=============================================================================
