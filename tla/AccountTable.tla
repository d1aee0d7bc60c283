----------------------------- MODULE AccountTable -----------------------------
(***************************************************************************)
(* What registration, e-mail verification and password reset promise: each *)
(* account changes by whole operations on one of its values.  It is opened *)
(* unverified with an e-mail address and a name of its own, which it keeps *)
(* for ever; it is verified, and its password changes, only by what was    *)
(* granted for that and for this account; it does not go.                  *)
(***************************************************************************)
CONSTANTS Emails, Names, Passwords, Ids, NoAccount
VARIABLES
    account,
    granted   \* what may be done to which account: <<kind, id>>

Account == [email : Emails, name : Names, verified : BOOLEAN, password : Passwords]

Init ==
    /\ account = [k \in Ids |-> NoAccount]
    /\ granted = {}

Open(k, a) ==
    /\ account[k] = NoAccount /\ ~a.verified
    /\ \A j \in Ids : account[j] # NoAccount => account[j].email # a.email /\ account[j].name # a.name
    /\ account' = [account EXCEPT ![k] = a]
    /\ UNCHANGED granted

Grant(kind, k) ==
    /\ account[k] # NoAccount
    /\ granted' = granted \cup {<<kind, k>>}
    /\ UNCHANGED account

Verify(k) ==
    /\ <<"email_verify", k>> \in granted
    /\ account' = [account EXCEPT ![k].verified = TRUE]
    /\ UNCHANGED granted

Reset(k, p) ==
    /\ <<"pwd_reset", k>> \in granted
    /\ account' = [account EXCEPT ![k].password = p]
    /\ UNCHANGED granted

Next ==
    \E k \in Ids :
        \/ \E a \in Account : Open(k, a)
        \/ \E kind \in {"email_verify", "pwd_reset"} : Grant(kind, k)
        \/ Verify(k)
        \/ \E p \in Passwords : Reset(k, p)

Spec == Init /\ [][Next]_<<account, granted>>
===============================================================================
