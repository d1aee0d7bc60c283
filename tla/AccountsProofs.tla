---------------------------- MODULE AccountsProofs ----------------------------
(***************************************************************************)
(* Proofs about Accounts, for any e-mail addresses, names, passwords and   *)
(* requests, and any number of accounts and tokens.                        *)
(*                                                                         *)
(* Accounts are never deleted, and a token keeps its kind and owner and    *)
(* never comes back (TableAdvances): what a request has read of either     *)
(* stays true until it writes (ReqInv).                                    *)
(***************************************************************************)
EXTENDS Accounts, TLAPS

(* An account is verified only after a verification token was issued for   *)
(* it: no token for a reset or for another account serves.                 *)
VerifiedByToken ==
    \A k \in Registered : account[k].verified =>
        \E t \in Tokens : token[t] # NoToken /\ token[t].kind = "email_verify" /\ token[t].id = k

(* What a request holds in each phase. *)
ReqInv(r) ==
    /\ pc[r] \in {"name", "insert"} =>
          /\ req[r].op = "register"
          /\ req[r].data \in Account
          /\ ~req[r].data.verified
    /\ pc[r] \in {"issue", "load", "save", "del"} =>
          /\ req[r].op \in {"email_verify", "pwd_reset"}
          /\ req[r].id \in Registered
    /\ pc[r] \in {"load", "save", "del"} =>
          /\ req[r].token \in Tokens
          /\ token[req[r].token] \in Token
          /\ token[req[r].token].kind = req[r].op
          /\ token[req[r].token].id = req[r].id
          /\ req[r].op = "pwd_reset" => req[r].password \in Passwords
          /\ ~req[r].late

(* A spent token does not come back. *)
SpentInv == \A t \in spent : token[t] \in Token /\ ~token[t].live

(* A token was issued for an account. *)
TokenInv == \A t \in Tokens : token[t] # NoToken => token[t].id \in Registered

IInv ==
    /\ TypeOK
    /\ \A r \in Requests : ReqInv(r)
    /\ SpentInv
    /\ TokenInv
    /\ UniqueAccounts
    /\ VerifiedByToken

USE AccountsAssumption

-----------------------------------------------------------------------------
LEMMA AccountIsNotNoAccount == \A a \in Account : a # NoAccount
<1> SUFFICES ASSUME NEW a \in Account, a = NoAccount
             PROVE  FALSE
    OBVIOUS
<1>1. "email" \in DOMAIN a
    BY DEF Account
<1>2. "email" \notin DOMAIN NoAccount
    BY DEF NoAccount
<1> QED
    BY <1>1, <1>2

LEMMA TokenIsNotNoToken == \A t \in Token : t # NoToken
<1> SUFFICES ASSUME NEW t \in Token, t = NoToken
             PROVE  FALSE
    OBVIOUS
<1>1. "kind" \in DOMAIN t
    BY DEF Token
<1>2. "kind" \notin DOMAIN NoToken
    BY DEF NoToken
<1> QED
    BY <1>1, <1>2

LEMMA InitIInv == Init => IInv
BY DEF Init, IInv, TypeOK, ReqInv, SpentInv, TokenInv, UniqueAccounts, VerifiedByToken, Registered, NoAccount

(* What no step undoes. *)
TableAdvances ==
    /\ \A k \in Registered : k \in Registered'
    /\ \A t \in Tokens : token[t] \in Token =>
          token'[t] \in Token /\ token'[t].kind = token[t].kind /\ token'[t].id = token[t].id

LEMMA RequestKept ==
    ASSUME NEW r \in Requests, ReqInv(r), TableAdvances, pc'[r] = pc[r], req'[r] = req[r]
    PROVE  ReqInv(r)'
BY DEF ReqInv, TableAdvances

LEMMA OthersKept ==
    ASSUME IInv, NEW r \in Requests, TableAdvances, ReqInv(r)',
           \A q \in Requests : q # r => pc'[q] = pc[q] /\ req'[q] = req[q]
    PROVE  \A q \in Requests : ReqInv(q)'
<1> SUFFICES ASSUME NEW q \in Requests
             PROVE  ReqInv(q)'
    OBVIOUS
<1>1. CASE q = r
    BY <1>1
<1>2. CASE q # r
    BY <1>2, RequestKept DEF IInv
<1> QED
    BY <1>1, <1>2

USE DEF Goto, Finish, Begin

(* Steps that change nothing but the request itself. *)
LocalStep(r) ==
    \/ \E e \in Emails, n \in Names, p \in Passwords : Register(r, e, n, p)
    \/ CheckName(r)
    \/ \E k \in Ids : RequestVerification(r, k) \/ RequestReset(r, k)
    \/ \E t \in Tokens : VerifyEmail(r, t)
    \/ \E t \in Tokens, p \in Passwords : ResetPassword(r, t, p)
    \/ LoadUser(r)
    \/ RequestLost(r)

LEMMA LocalKeepsIInv ==
    ASSUME IInv, NEW r \in Requests, LocalStep(r)
    PROVE  IInv'
<1> USE DEF IInv
<1>1. UNCHANGED <<account, token, spent, unhandled>>
    BY DEF LocalStep, Register, CheckName, RequestVerification, RequestReset, VerifyEmail,
           ResetPassword, LoadUser, RequestLost
<1>2. TableAdvances
    BY <1>1 DEF TableAdvances, Registered
<1>3. /\ pc' \in [Requests -> {"idle", "name", "insert", "issue", "load", "save", "del"}]
      /\ \A q \in Requests : q # r => pc'[q] = pc[q] /\ req'[q] = req[q]
    BY DEF TypeOK, LocalStep, Register, CheckName, RequestVerification, RequestReset, VerifyEmail,
           ResetPassword, LoadUser, RequestLost
<1>4. /\ req' \in [Requests -> Request \cup {NoRequest}]
      /\ pc'[r] # "idle" => req'[r] \in Request
      /\ ReqInv(r)'
    <2>1. CASE \E e \in Emails, n \in Names, p \in Passwords : Register(r, e, n, p)
        BY <2>1 DEF TypeOK, Register, Request, Account, ReqInv
    <2>2. CASE CheckName(r) \/ RequestLost(r)
        BY <1>1, <2>2 DEF TypeOK, CheckName, RequestLost, ReqInv
    <2>3. CASE \E k \in Ids : RequestVerification(r, k) \/ RequestReset(r, k)
        <3>1. PICK k \in Ids : RequestVerification(r, k) \/ RequestReset(r, k)
            BY <2>3
        <3>2. PICK op \in {"email_verify", "pwd_reset"} :
                  req' = [req EXCEPT ![r] = [op |-> op, id |-> k, token |-> 0, data |-> NoAccount,
                                             password |-> NoPassword, late |-> 0 \in spent]]
            BY <3>1 DEF RequestVerification, RequestReset
        <3>3. pc'[r] = "issue" /\ k \in Registered
            BY <3>1 DEF TypeOK, RequestVerification, RequestReset, Found
        <3>4. req'[r] \in Request /\ req' \in [Requests -> Request \cup {NoRequest}]
            BY <3>2 DEF TypeOK, Request
        <3>5. req'[r].op = op /\ req'[r].id = k
            BY <3>2 DEF TypeOK
        <3> QED
            BY <1>1, <3>3, <3>4, <3>5 DEF ReqInv, Registered
    <2>4. CASE (\E t \in Tokens : VerifyEmail(r, t)) \/ (\E t \in Tokens, p \in Passwords : ResetPassword(r, t, p))
        <3>1. PICK t \in Tokens : VerifyEmail(r, t) \/ \E p \in Passwords : ResetPassword(r, t, p)
            BY <2>4
        <3>2. token[t].live /\ token[t] \in Token /\ token[t].id \in Registered /\ t \notin spent
            BY <3>1, TokenIsNotNoToken DEF VerifyEmail, ResetPassword, Redeems, TypeOK, NoToken, SpentInv, TokenInv
        <3>3. PICK p \in Passwords \cup {NoPassword} :
                  /\ req' = [req EXCEPT ![r] = [op |-> token[t].kind, id |-> token[t].id, token |-> t,
                                                data |-> NoAccount, password |-> p, late |-> t \in spent]]
                  /\ token[t].kind = "pwd_reset" => p \in Passwords
            BY <3>1 DEF VerifyEmail, ResetPassword, Redeems
        <3>4. pc'[r] = "load" /\ token[t].kind \in {"email_verify", "pwd_reset"}
            BY <3>1, <3>2 DEF TypeOK, VerifyEmail, ResetPassword, Token
        <3>5. req'[r] \in Request /\ req' \in [Requests -> Request \cup {NoRequest}]
            BY <3>2, <3>3, <3>4 DEF TypeOK, Request, Token
        <3>6. /\ req'[r].op = token[t].kind /\ req'[r].id = token[t].id /\ req'[r].token = t
              /\ req'[r].password = p /\ ~req'[r].late
            BY <3>2, <3>3 DEF TypeOK
        <3>7. ReqInv(r)'
            BY <1>1, <3>2, <3>3, <3>4, <3>6 DEF ReqInv, Registered
        <3> QED
            BY <3>5, <3>7
    <2>5. CASE LoadUser(r)
        <3>1. /\ req[r] \in Request /\ account[req[r].id] \in Account \cup {NoAccount}
              /\ req' = [req EXCEPT ![r] = [req[r] EXCEPT !.data = account[req[r].id]]]
            BY <2>5 DEF TypeOK, LoadUser, ReqInv, Registered
        <3>2. [req[r] EXCEPT !.data = account[req[r].id]] \in Request
            BY <3>1 DEF Request
        <3>3. req' \in [Requests -> Request \cup {NoRequest}] /\ req'[r] \in Request
            BY <3>1, <3>2 DEF TypeOK
        <3>4. /\ pc[r] = "load" /\ pc'[r] \in {"save", "del"}
              /\ req'[r].op = req[r].op /\ req'[r].id = req[r].id /\ req'[r].token = req[r].token
              /\ req'[r].password = req[r].password /\ req'[r].late = req[r].late
            BY <2>5, <3>1 DEF TypeOK, LoadUser, Request
        <3>5. ReqInv(r)'
            BY <1>1, <3>4 DEF ReqInv, Registered
        <3> QED
            BY <3>3, <3>5
    <2> QED
        BY <2>1, <2>2, <2>3, <2>4, <2>5 DEF LocalStep
<1>5. \A q \in Requests : ReqInv(q)'
    BY <1>2, <1>3, <1>4, OthersKept
<1>6. TypeOK'
    BY <1>1, <1>3, <1>4, <1>5 DEF TypeOK, ReqInv, Registered
<1>7. SpentInv' /\ TokenInv' /\ UniqueAccounts' /\ VerifiedByToken'
    BY <1>1 DEF SpentInv, TokenInv, UniqueAccounts, VerifiedByToken, Registered
<1> QED
    BY <1>5, <1>6, <1>7

(* register writes the row only if it keeps the unique columns. *)
LEMMA InsertKeepsIInv ==
    ASSUME IInv, NEW r \in Requests, InsertUser(r)
    PROVE  IInv'
<1> USE DEF IInv
<1>1. /\ UNCHANGED <<token, spent>> /\ unhandled' \in BOOLEAN /\ pc[r] = "insert"
      /\ pc' = [pc EXCEPT ![r] = "idle"] /\ req' = [req EXCEPT ![r] = NoRequest]
    BY DEF TypeOK, InsertUser
<1>2. req[r].data \in Account /\ ~req[r].data.verified /\ req[r].data # NoAccount
    BY <1>1, AccountIsNotNoAccount DEF ReqInv
<1>3. CASE UNCHANGED account
    <2>1. TableAdvances
        BY <1>1, <1>3 DEF TableAdvances, Registered
    <2>2. \A q \in Requests : ReqInv(q)'
        BY <1>1, <2>1, OthersKept DEF TypeOK, ReqInv
    <2>3. TypeOK'
        BY <1>1, <1>3 DEF TypeOK
    <2>4. SpentInv' /\ TokenInv' /\ UniqueAccounts' /\ VerifiedByToken'
        BY <1>1, <1>3 DEF SpentInv, TokenInv, UniqueAccounts, VerifiedByToken, Registered
    <2> QED
        BY <2>2, <2>3, <2>4
<1>4. CASE KeepsUnique(req[r].data) /\ \E k \in Ids \ Registered : account' = [account EXCEPT ![k] = req[r].data]
    <2>1. PICK k \in Ids \ Registered : account' = [account EXCEPT ![k] = req[r].data]
        BY <1>4
    <2>2. Registered' = Registered \cup {k} /\ \A j \in Registered : account'[j] = account[j]
        BY <1>2, <2>1 DEF TypeOK, Registered
    <2>3. account'[k] = req[r].data
        BY <2>1 DEF TypeOK
    <2>4. TableAdvances
        BY <1>1, <2>2 DEF TableAdvances
    <2>5. \A q \in Requests : ReqInv(q)'
        BY <1>1, <2>4, OthersKept DEF TypeOK, ReqInv
    <2>6. TypeOK'
        BY <1>1, <1>2, <2>1 DEF TypeOK
    <2>7. UniqueAccounts'
        BY <1>4, <2>2, <2>3 DEF UniqueAccounts, KeepsUnique, EmailTaken, NameTaken
    <2>8. SpentInv' /\ TokenInv' /\ VerifiedByToken'
        BY <1>1, <1>2, <2>2, <2>3 DEF SpentInv, TokenInv, VerifiedByToken
    <2> QED
        BY <2>5, <2>6, <2>7, <2>8
<1> QED
    BY <1>3, <1>4 DEF InsertUser

LEMMA IssueKeepsIInv ==
    ASSUME IInv, NEW r \in Requests, NEW t \in Tokens, IssueToken(r, t)
    PROVE  IInv'
<1> USE DEF IInv
<1> DEFINE new == [kind |-> req[r].op, id |-> req[r].id, live |-> TRUE]
<1>1. /\ UNCHANGED <<account, spent, unhandled>> /\ pc[r] = "issue" /\ token[t] = NoToken
      /\ token' = [token EXCEPT ![t] = new]
      /\ pc' = [pc EXCEPT ![r] = "idle"] /\ req' = [req EXCEPT ![r] = NoRequest]
    BY DEF IssueToken
<1>2. req[r].id \in Registered /\ new \in Token /\ t \notin spent /\ new # NoToken
    BY <1>1, TokenIsNotNoToken DEF ReqInv, Registered, Token, SpentInv
<1>3. /\ token'[t] = new /\ Registered' = Registered
      /\ \A s \in Tokens : s # t => token'[s] = token[s]
    BY <1>1 DEF TypeOK, Registered
<1>4. TableAdvances
    BY <1>1, <1>3, TokenIsNotNoToken DEF TableAdvances
<1>5. \A q \in Requests : ReqInv(q)'
    BY <1>1, <1>4, OthersKept DEF TypeOK, ReqInv
<1>6. TypeOK'
    BY <1>1, <1>2 DEF TypeOK
<1>7. SpentInv'
    BY <1>1, <1>2, <1>3 DEF TypeOK, SpentInv
<1>8. TokenInv'
    BY <1>2, <1>3 DEF TokenInv
<1>9. UniqueAccounts'
    BY <1>1, <1>3 DEF UniqueAccounts
<1>10. VerifiedByToken'
    BY <1>1, <1>3 DEF VerifiedByToken
<1> QED
    BY <1>5, <1>6, <1>7, <1>8, <1>9, <1>10

(* An UPDATE changes one column of one row. *)
LEMMA SaveKeepsIInv ==
    ASSUME IInv, NEW r \in Requests, SaveUser(r)
    PROVE  IInv'
<1> USE DEF IInv
<1> DEFINE k == req[r].id
<1>1. /\ UNCHANGED <<token, req, spent, unhandled>> /\ pc[r] = "save"
      /\ account' = [account EXCEPT ![k] = SavedRow(r)] /\ pc' = [pc EXCEPT ![r] = "del"]
    BY DEF SaveUser
<1>2. k \in Registered /\ account[k] \in Account
    BY <1>1 DEF TypeOK, ReqInv, Registered
<1>3. /\ SavedRow(r) \in Account /\ SavedRow(r).email = account[k].email /\ SavedRow(r).name = account[k].name
      /\ SavedRow(r).verified => account[k].verified \/ req[r].op = "email_verify"
    BY <1>1, <1>2 DEF ReqInv, SavedRow, Confirmed, Account
<1>4. /\ Registered' = Registered /\ account'[k] = SavedRow(r)
      /\ \A j \in Registered : j # k => account'[j] = account[j]
    BY <1>1, <1>2, <1>3, AccountIsNotNoAccount DEF TypeOK, Registered
<1>5. TableAdvances
    BY <1>1, <1>4 DEF TableAdvances
<1>6. ReqInv(r)'
    BY <1>1, <1>4 DEF TypeOK, ReqInv
<1>7. \A q \in Requests : ReqInv(q)'
    BY <1>1, <1>5, <1>6, OthersKept DEF TypeOK
<1>8. TypeOK'
    BY <1>1, <1>2, <1>3, <1>4 DEF TypeOK, Registered
<1>9. UniqueAccounts'
    BY <1>3, <1>4 DEF UniqueAccounts
<1>10. VerifiedByToken'
    <2>1. token[req[r].token] # NoToken
        BY <1>1, TokenIsNotNoToken DEF ReqInv
    <2> QED
        BY <1>1, <1>2, <1>3, <1>4, <2>1 DEF VerifiedByToken, ReqInv
<1>11. SpentInv' /\ TokenInv'
    BY <1>1, <1>4 DEF SpentInv, TokenInv
<1> QED
    BY <1>7, <1>8, <1>9, <1>10, <1>11

(* EndConfirm and Expire: a key goes. *)
LEMMA DropKeepsIInv ==
    ASSUME IInv, (\E r \in Requests : EndConfirm(r)) \/ (\E t \in Tokens : Expire(t))
    PROVE  IInv'
<1> USE DEF IInv
<1>1. PICK t \in Tokens :
          /\ token[t] \in Token
          /\ token' = [token EXCEPT ![t] = [token[t] EXCEPT !.live = FALSE]]
          /\ \/ spent' = spent /\ UNCHANGED <<pc, req>>
             \/ /\ spent' = spent \cup {t}
                /\ \E r \in Requests :
                       pc' = [pc EXCEPT ![r] = "idle"] /\ req' = [req EXCEPT ![r] = NoRequest]
    <2>1. CASE \E r \in Requests : EndConfirm(r)
        <3>1. PICK r \in Requests : EndConfirm(r)
            BY <2>1
        <3>2. req[r].token \in Tokens /\ token[req[r].token] \in Token
            BY <3>1 DEF EndConfirm, ReqInv
        <3> QED
            BY <3>1, <3>2 DEF EndConfirm, DeleteToken
    <2>2. CASE \E t \in Tokens : Expire(t)
        <3>1. PICK t \in Tokens : Expire(t)
            BY <2>2
        <3>2. token[t] \in Token
            BY <3>1 DEF Expire, TypeOK, NoToken
        <3> QED
            BY <3>1, <3>2 DEF Expire
    <2> QED
        BY <2>1, <2>2
<1>2. UNCHANGED <<account, unhandled>>
    BY DEF EndConfirm, Expire
<1>3. /\ token'[t] \in Token /\ token'[t].kind = token[t].kind /\ token'[t].id = token[t].id
      /\ ~token'[t].live /\ \A s \in Tokens : s # t => token'[s] = token[s]
    BY <1>1 DEF TypeOK, Token
<1>4. TableAdvances
    BY <1>2, <1>3 DEF TableAdvances, Registered
<1>5. \A q \in Requests : ReqInv(q)'
    <2>1. CASE UNCHANGED <<pc, req>>
        BY <1>4, <2>1, RequestKept
    <2>2. CASE \E r \in Requests :
                  pc' = [pc EXCEPT ![r] = "idle"] /\ req' = [req EXCEPT ![r] = NoRequest]
        BY <1>4, <2>2, OthersKept DEF TypeOK, ReqInv
    <2> QED
        BY <1>1, <2>1, <2>2
<1>6. TypeOK'
    BY <1>1, <1>2, <1>3 DEF TypeOK
<1>7. SpentInv'
    BY <1>1, <1>3 DEF TypeOK, SpentInv
<1>8. TokenInv'
    BY <1>1, <1>2, <1>3, TokenIsNotNoToken DEF TokenInv, Registered
<1>9. UniqueAccounts'
    BY <1>2 DEF UniqueAccounts, Registered
<1>10. VerifiedByToken'
    <2>1. \A s \in Tokens : token[s] # NoToken =>
              token'[s] # NoToken /\ token'[s].kind = token[s].kind /\ token'[s].id = token[s].id
        BY <1>3, TokenIsNotNoToken
    <2>2. account' = account /\ Registered' = Registered
        BY <1>2 DEF Registered
    <2> QED
        BY <2>1, <2>2 DEF VerifiedByToken
<1> QED
    BY <1>5, <1>6, <1>7, <1>8, <1>9, <1>10

LEMMA StutterKeepsIInv == IInv /\ UNCHANGED vars => IInv'
BY DEF IInv, vars, TypeOK, ReqInv, SpentInv, TokenInv, UniqueAccounts, VerifiedByToken, Registered

(* The invariant of every behaviour. *)
THEOREM Invariance == Spec => []IInv
<1>1. IInv /\ [Next]_vars => IInv'
    BY LocalKeepsIInv, InsertKeepsIInv, IssueKeepsIInv, SaveKeepsIInv, DropKeepsIInv, StutterKeepsIInv
       DEF Next, LocalStep
<1> QED
    BY InitIInv, <1>1, PTL DEF Spec

-----------------------------------------------------------------------------
(* Every variable keeps its type. *)
THEOREM TypeCorrect == Spec => []TypeOK
<1>1. IInv => TypeOK
    BY DEF IInv
<1> QED
    BY <1>1, Invariance, PTL

(* Overlapping registrations leave e-mail addresses and names unique, and  *)
(* only a verification token verifies (service.py:94-101, 244-264).        *)
THEOREM AccountsStayUnique == Spec => []UniqueAccounts
<1>1. IInv => UniqueAccounts
    BY DEF IInv
<1> QED
    BY <1>1, Invariance, PTL

(* An account is verified only with a verification token issued for it.    *)
THEOREM VerificationNeedsToken == Spec => []VerifiedByToken
<1>1. IInv => VerifiedByToken
    BY DEF IInv
<1> QED
    BY <1>1, Invariance, PTL

(* verify_email and reset_password do not undo each other (service.py:259- *)
(* 262, 299-301): each UPDATE writes its own column.                       *)
THEOREM NoLostUpdate == Spec => ConfirmationsStand
<1> DEFINE Stand ==
        \A k \in Registered :
            /\ account[k].verified => account'[k].verified
            /\ account[k].password # account'[k].password =>
                  \E r \in Requests : SaveUser(r) /\ req[r].op = "pwd_reset" /\ req[r].id = k
<1>1. IInv /\ [Next]_vars => [Stand]_vars
    <2> SUFFICES ASSUME IInv, Next
                 PROVE  Stand
        BY DEF vars
    <2>1. CASE \E r \in Requests : SaveUser(r)
        <3>1. PICK r \in Requests : SaveUser(r)
            BY <2>1
        <3>2. /\ req[r].id \in Registered /\ account[req[r].id] \in Account
              /\ req[r].op \in {"email_verify", "pwd_reset"}
            BY <3>1 DEF IInv, TypeOK, SaveUser, ReqInv, Registered
        <3>3. /\ account' = [account EXCEPT ![req[r].id] = SavedRow(r)]
              /\ account[req[r].id].verified => SavedRow(r).verified
              /\ req[r].op = "email_verify" => SavedRow(r).password = account[req[r].id].password
            BY <3>1, <3>2 DEF SaveUser, SavedRow, Confirmed, Account
        <3> QED
            BY <3>1, <3>2, <3>3 DEF IInv, TypeOK, Registered
    <2>2. CASE \E r \in Requests : InsertUser(r)
        BY <2>2 DEF IInv, TypeOK, InsertUser, Registered
    <2>3. CASE UNCHANGED account
        BY <2>3
    <2> QED
        BY <2>1, <2>2, <2>3 DEF Next, Register, CheckName, RequestVerification, RequestReset, IssueToken,
           VerifyEmail, ResetPassword, LoadUser, EndConfirm, RequestLost, Expire
<1> QED
    BY <1>1, Invariance, PTL DEF Spec, ConfirmationsStand

(* A token with which a request was answered changes nothing later.        *)
THEOREM SpentTokensStaySpent == Spec => SpentTokenIsRefused
<1>1. IInv /\ [Next]_vars => [\A r \in Requests : SaveUser(r) => ~req[r].late]_vars
    BY DEF IInv, ReqInv, SaveUser
<1> QED
    BY <1>1, Invariance, PTL DEF Spec, SpentTokenIsRefused

-----------------------------------------------------------------------------
(* The table of accounts, seen from the requests *)

USE DEF Table!Account, Account

(* Tokens that keep kind and owner grant what they did. *)
LEMMA SameGrants ==
    ASSUME \A t \in Tokens : token'[t] # NoToken <=> token[t] # NoToken,
           \A t \in Tokens : token[t] # NoToken =>
               token'[t].kind = token[t].kind /\ token'[t].id = token[t].id
    PROVE  Granted' = Granted
BY DEF Granted

LEMMA InsertOpens ==
    ASSUME IInv, NEW r \in Requests, InsertUser(r)
    PROVE  Table!Next \/ UNCHANGED <<account, Granted>>
<1>1. Granted' = Granted
    BY SameGrants DEF InsertUser
<1>2. CASE UNCHANGED account
    BY <1>1, <1>2
<1>3. CASE KeepsUnique(req[r].data) /\ \E k \in Ids \ Registered : account' = [account EXCEPT ![k] = req[r].data]
    <2>1. PICK k \in Ids \ Registered : account' = [account EXCEPT ![k] = req[r].data]
        BY <1>3
    <2>2. PICK a \in Account : a = req[r].data /\ ~a.verified
        BY DEF InsertUser, IInv, ReqInv
    <2>3. account[k] = NoAccount
        BY <2>1 DEF Registered
    <2>4. \A j \in Ids : account[j] # NoAccount => account[j].email # a.email /\ account[j].name # a.name
        BY <1>3, <2>2 DEF KeepsUnique, EmailTaken, NameTaken, Registered
    <2>5. Table!Open(k, a)
        BY <1>1, <2>1, <2>2, <2>3, <2>4 DEF Table!Open
    <2> QED
        BY <2>2, <2>5 DEF Table!Next
<1> QED
    BY <1>2, <1>3 DEF InsertUser

LEMMA IssueGrants ==
    ASSUME IInv, NEW r \in Requests, NEW t \in Tokens, IssueToken(r, t)
    PROVE  Table!Next
<1> DEFINE new == [kind |-> req[r].op, id |-> req[r].id, live |-> TRUE]
<1>1. PICK kind, k : kind = req[r].op /\ k = req[r].id
    OBVIOUS
<1>2. kind \in {"email_verify", "pwd_reset"} /\ k \in Ids /\ account[k] # NoAccount
    BY <1>1 DEF IssueToken, IInv, ReqInv, Registered
<1>3. token[t] = NoToken /\ token' = [token EXCEPT ![t] = new] /\ UNCHANGED account
    BY DEF IssueToken
<1>4. new \in Token /\ new # NoToken /\ new.kind = kind /\ new.id = k
    BY <1>1, <1>2, TokenIsNotNoToken DEF Token
<1> HIDE DEF new
<1>5. token'[t] = new /\ \A s \in Tokens \ {t} : token'[s] = token[s]
    BY <1>3 DEF IInv, TypeOK
<1>6. Granted' = Granted \cup {<<kind, k>>}
    BY <1>3, <1>4, <1>5 DEF Granted
<1>7. Table!Grant(kind, k)
    BY <1>2, <1>3, <1>6 DEF Table!Grant
<1> QED
    BY <1>2, <1>7 DEF Table!Next

LEMMA SaveIsCovered ==
    ASSUME IInv, NEW r \in Requests, SaveUser(r)
    PROVE  Table!Next
<1>1. PICK k, p : k = req[r].id /\ p = req[r].password
    OBVIOUS
<1>2. /\ pc[r] = "save" /\ UNCHANGED token
      /\ account' = [account EXCEPT ![k] = SavedRow(r)]
    BY <1>1 DEF SaveUser
<1>3. /\ k \in Ids /\ req[r].op \in {"email_verify", "pwd_reset"}
      /\ req[r].op = "pwd_reset" => p \in Passwords
      /\ <<req[r].op, k>> \in Granted
    BY <1>1, <1>2, TokenIsNotNoToken DEF IInv, ReqInv, Registered, Granted
<1>4. Granted' = Granted
    BY <1>2, SameGrants
<1>5. CASE req[r].op = "email_verify"
    <2>1. account' = [account EXCEPT ![k].verified = TRUE]
        BY <1>1, <1>2, <1>5 DEF SavedRow, Confirmed
    <2>2. Table!Verify(k)
        BY <1>3, <1>4, <1>5, <2>1 DEF Table!Verify
    <2> QED
        BY <1>3, <2>2 DEF Table!Next
<1>6. CASE req[r].op = "pwd_reset"
    <2>1. account' = [account EXCEPT ![k].password = p]
        BY <1>1, <1>2, <1>6 DEF SavedRow, Confirmed
    <2>2. Table!Reset(k, p)
        BY <1>3, <1>4, <1>6, <2>1 DEF Table!Reset
    <2> QED
        BY <1>3, <1>6, <2>2 DEF Table!Next
<1> QED
    BY <1>3, <1>5, <1>6

(* A key that goes takes nothing back that was done with it. *)
LEMMA DropIsUnseen ==
    ASSUME IInv, (\E r \in Requests : EndConfirm(r)) \/ (\E t \in Tokens : Expire(t))
    PROVE  UNCHANGED <<account, Granted>>
<1>1. UNCHANGED account
    BY DEF EndConfirm, Expire
<1>2. PICK t \in Tokens : token[t] \in Token /\ token' = [token EXCEPT ![t] = [token[t] EXCEPT !.live = FALSE]]
    <2>1. CASE \E r \in Requests : EndConfirm(r)
        <3>1. PICK r \in Requests : EndConfirm(r)
            BY <2>1
        <3>2. req[r].token \in Tokens /\ token[req[r].token] \in Token
            BY <3>1 DEF EndConfirm, IInv, ReqInv
        <3> QED
            BY <3>1, <3>2 DEF EndConfirm, DeleteToken
    <2>2. CASE \E t \in Tokens : Expire(t)
        <3>1. PICK t \in Tokens : Expire(t)
            BY <2>2
        <3>2. token[t] \in Token
            BY <3>1 DEF Expire, IInv, TypeOK, NoToken
        <3> QED
            BY <3>1, <3>2 DEF Expire
    <2> QED
        BY <2>1, <2>2
<1>3. token'[t] \in Token /\ token'[t].kind = token[t].kind /\ token'[t].id = token[t].id
    BY <1>2 DEF Token, IInv, TypeOK
<1>4. \A s \in Tokens \ {t} : token'[s] = token[s]
    BY <1>2 DEF IInv, TypeOK
<1>5. Granted' = Granted
    BY <1>2, <1>3, <1>4, TokenIsNotNoToken, SameGrants
<1> QED
    BY <1>1, <1>5

(* However their calls overlap, the requests change the accounts by whole  *)
(* operations, each covered by a token (service.py:94-101, 259-262,        *)
(* 299-301).                                                               *)
THEOREM ImplementsAccountTable == Spec => IsAccountTable
<1>1. Init => Table!Init
    BY DEF Init, Table!Init, Granted
<1>2. IInv /\ [Next]_vars => [Table!Next]_<<account, Granted>>
    <2> SUFFICES ASSUME IInv, [Next]_vars
                 PROVE  Table!Next \/ UNCHANGED <<account, Granted>>
        OBVIOUS
    <2>1. ASSUME NEW r \in Requests, LocalStep(r)
          PROVE  UNCHANGED <<account, Granted>>
        <3>1. UNCHANGED <<account, token>>
            BY <2>1 DEF LocalStep, Register, CheckName, RequestVerification, RequestReset, VerifyEmail,
               ResetPassword, LoadUser, RequestLost
        <3> QED
            BY <3>1, SameGrants
    <2>2. UNCHANGED vars => UNCHANGED <<account, Granted>>
        BY SameGrants DEF vars
    <2> QED
        BY <2>1, <2>2, InsertOpens, IssueGrants, SaveIsCovered, DropIsUnseen DEF Next, LocalStep
<1> QED
    BY <1>1, <1>2, Invariance, PTL DEF Spec, IsAccountTable, Table!Spec
=============================================================================
