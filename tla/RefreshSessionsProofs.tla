------------------------- MODULE RefreshSessionsProofs -------------------------
(***************************************************************************)
(* Proofs about RefreshSessions, for any number of requests and tokens.    *)
(*                                                                         *)
(* Three arguments.  If the browser's token is of no use and not lost, the *)
(* request that made it so is still under way and its response will        *)
(* replace the cookie (CookieInv); the token it brings is known to         *)
(* nobody else (AnswerInv).  As long as requests come one at a time, a     *)
(* login has one live session, which is what the request under way has     *)
(* read (AloneInv).  And with any overlap, a refresh that is about to      *)
(* store a successor has the login to itself: no other is, and no session  *)
(* is live but the one it deletes, unless the login counts as doubled      *)
(* (RaceInv).                                                              *)
(***************************************************************************)
EXTENDS RefreshSessions, TLAPS

Busy(r) == pc[r] # "idle"

TokenInv ==
    /\ cookie \in 0..issued
    /\ \A k \in Tokens : k <= issued => root[k] \in 1..issued

ReqInv(r) ==
    Busy(r) =>
        /\ req[r].token \in 0..issued
        /\ pc[r] = "get" => req[r].op = "refresh"
        /\ pc[r] = "del" => req[r].op \in {"refresh", "logout"}
        /\ pc[r] = "set" => req[r].op \in {"refresh", "login"}
        /\ req[r].op = "refresh" \/ pc[r] = "del" => req[r].token # NoToken
        /\ pc[r] # "reply" \/ req[r].op = "logout" <=> req[r].answer = NoToken
        /\ req[r].answer \in 0..issued

(* The token of a response that has not arrived is live and nobody's. *)
AnswerInv(r) ==
    Busy(r) /\ req[r].answer # NoToken =>
        /\ cookie # req[r].answer
        /\ req[r].answer \notin lost => session[req[r].answer] = "live"
        /\ \A q \in Requests : Busy(q) =>
              /\ req[q].token # req[r].answer
              /\ q # r => req[q].answer # req[r].answer

(* A cookie that is of no use is about to be replaced. *)
CookieInv ==
    cookie \notin lost \cup {NoToken} /\ session[cookie] # "live" =>
        \E r \in Requests : OwesCookie(r) /\ req[r].token = cookie

(* No other session than that of k is live among those of k's login. *)
OnlySession(k) == \A j \in Tokens : session[j] = "live" /\ SameLogin(j, k) => j = k
NoSession(k) == \A j \in Tokens : session[j] = "live" => ~SameLogin(j, k)

AloneReqInv(r) ==
    /\ pc[r] = "del" /\ req[r].op = "refresh" => OnlySession(req[r].token)
    /\ pc[r] = "set" /\ req[r].op = "refresh" => NoSession(req[r].token)
    /\ Busy(r) /\ req[r].op = "logout" /\ cookie \notin lost =>
          /\ cookie = req[r].token
          /\ pc[r] = "del" => OnlySession(cookie)
          /\ pc[r] = "reply" /\ cookie # NoToken => NoSession(cookie)

AloneInv ==
    alone =>
        /\ OneSessionPerLogin
        /\ \A q, r \in Requests : Busy(q) /\ Busy(r) => q = r
        /\ \A r \in Requests : AloneReqInv(r)

IInv ==
    /\ TypeOK
    /\ TokenInv
    /\ \A r \in Requests : ReqInv(r)
    /\ \A r \in Requests : AnswerInv(r)
    /\ CookieInv
    /\ AloneInv

USE MaxTokensAssumption DEF Busy, Tokens, NoToken, history

-----------------------------------------------------------------------------
LEMMA InitIInv == Init => IInv
BY DEF Init, IInv, TypeOK, TokenInv, ReqInv, AnswerInv, CookieInv, AloneInv, AloneReqInv, OneSessionPerLogin

(* Sending takes the cookie along: with no other request under way it is   *)
(* of use (CookieInv), and then it is its login's only session.            *)
LEMMA SendKeepsIInv ==
    ASSUME IInv, NEW r \in Requests, Login(r) \/ Refresh(r) \/ Logout(r)
    PROVE  IInv'
<1> USE DEF IInv
<1>1. PICK op \in {"login", "refresh", "logout"}, phase \in {"get", "del", "set", "reply"}, k \in {cookie, 0} :
          /\ Send(r, op, phase, k)
          /\ op = "login" => phase = "set"
          /\ op = "refresh" => phase = "get" /\ k # 0
          /\ op = "logout" => k = cookie /\ phase = IF k = 0 THEN "reply" ELSE "del"
    BY DEF Login, Refresh, Logout, CookieAtLogout
<1>2. /\ ~Busy(r) /\ pc' = [pc EXCEPT ![r] = phase]
      /\ req' = [req EXCEPT ![r] = [op |-> op, token |-> k, answer |-> 0]]
      /\ alone' = (alone /\ AllIdle)
      /\ UNCHANGED <<session, issued, root, cookie, doubled, ended, lost>>
    BY <1>1 DEF Send, Goto
<1>3. k \in 0..issued /\ k \in 0..MaxTokens /\ issued \in Nat
    BY DEF TypeOK, TokenInv
<1>4. /\ pc'[r] = phase /\ req'[r].op = op /\ req'[r].token = k /\ req'[r].answer = 0
      /\ \A q \in Requests : q # r => pc'[q] = pc[q] /\ req'[q] = req[q]
    BY <1>2 DEF TypeOK
<1>5. TypeOK'
    BY <1>2, <1>3 DEF TypeOK, Request
<1>6. TokenInv'
    BY <1>2 DEF TokenInv
<1>7. ASSUME NEW q \in Requests
      PROVE  ReqInv(q)'
    <2>1. CASE q = r
        BY <1>1, <1>2, <1>3, <1>4, <2>1 DEF ReqInv
    <2>2. CASE q # r
        BY <1>2, <1>4, <2>2 DEF ReqInv
    <2> QED
        BY <2>1, <2>2
<1>8. ASSUME NEW q \in Requests
      PROVE  AnswerInv(q)'
    <2>1. CASE q = r
        BY <1>4, <2>1 DEF AnswerInv
    <2>2. CASE q # r
        <3>1. req[q].answer # 0 /\ Busy(q) => k # req[q].answer
            BY DEF AnswerInv
        <3> QED
            BY <1>2, <1>4, <2>2, <3>1 DEF AnswerInv
    <2> QED
        BY <2>1, <2>2
<1>9. CookieInv'
    BY <1>2, <1>4 DEF CookieInv, OwesCookie
<1>10. AloneInv'
    <2>1. SUFFICES ASSUME alone, AllIdle
                   PROVE  AloneInv'
        BY <1>2 DEF AloneInv
    <2>2. cookie \notin lost /\ cookie # 0 => OnlySession(cookie)
        BY <2>1 DEF AllIdle, CookieInv, OwesCookie, AloneInv, OneSessionPerLogin, OnlySession, TypeOK
    <2>3. OneSessionPerLogin'
        BY <1>2, <2>1 DEF AloneInv, OneSessionPerLogin, SameLogin
    <2>4. \A q \in Requests : q # r => ~Busy(q)'
        BY <1>4, <2>1 DEF AllIdle
    <2>5. AloneReqInv(r)'
        BY <1>1, <1>2, <1>4, <2>2 DEF AloneReqInv, OnlySession, NoSession, SameLogin
    <2>6. \A q \in Requests : AloneReqInv(q)'
        BY <2>4, <2>5 DEF AloneReqInv
    <2> QED
        BY <2>3, <2>4, <2>6 DEF AloneInv
<1> QED
    BY <1>5, <1>6, <1>7, <1>8, <1>9, <1>10

LEMMA GetKeepsIInv ==
    ASSUME IInv, NEW r \in Requests, GetSession(r)
    PROVE  IInv'
<1> USE DEF IInv
<1>1. /\ pc[r] = "get" /\ req[r].op = "refresh" /\ req[r].token \in Tokens
      /\ req[r].token \in 0..issued /\ req[r].answer = 0
      /\ root[req[r].token] \in Tokens
      /\ UNCHANGED <<session, issued, root, cookie, ended, alone, lost>>
    <2>1. pc[r] = "get" /\ UNCHANGED <<session, issued, root, cookie, ended, alone, lost>>
        BY DEF GetSession
    <2>2. /\ req[r].op = "refresh" /\ req[r].token \in Tokens
          /\ req[r].token \in 0..issued /\ req[r].answer = 0
        BY <2>1 DEF ReqInv, TypeOK
    <2> QED
        BY <2>1, <2>2 DEF TokenInv, TypeOK
<1>2. \A q \in Requests : q # r => pc'[q] = pc[q] /\ req'[q] = req[q]
    BY DEF GetSession, Goto, Finish, TypeOK
<1>3. \/ pc'[r] = "idle"
      \/ pc'[r] = "del" /\ req'[r] = req[r] /\ session[req[r].token] = "live"
    BY DEF GetSession, SessionFound, Goto, Finish, TypeOK
<1>4. TypeOK'
    <2>1. CASE SessionFound(r)
        <3>1. pc' = [pc EXCEPT ![r] = "del"] /\ req' = req
            BY <2>1 DEF GetSession, Goto
        <3>2. doubled' \subseteq Tokens
            BY <1>1, <2>1 DEF GetSession, TypeOK
        <3> QED
            BY <1>1, <3>1, <3>2 DEF TypeOK
    <2>2. CASE ~SessionFound(r)
        <3>1. /\ pc' = [pc EXCEPT ![r] = "idle"] /\ req' = [req EXCEPT ![r] = NoRequest]
              /\ doubled' = doubled
            BY <2>2 DEF GetSession, Goto, Finish
        <3> QED
            BY <1>1, <3>1 DEF TypeOK
    <2> QED
        BY <2>1, <2>2
<1>5. TokenInv'
    BY <1>1 DEF TokenInv
<1>6. ASSUME NEW q \in Requests
      PROVE  ReqInv(q)' /\ AnswerInv(q)'
    BY <1>1, <1>2, <1>3 DEF ReqInv, AnswerInv
<1>7. CookieInv'
    BY <1>1, <1>2 DEF CookieInv, OwesCookie
<1>8. AloneInv'
    <2>1. SUFFICES ASSUME alone
                   PROVE  AloneInv'
        BY <1>1 DEF AloneInv
    <2>2. OneSessionPerLogin /\ OneSessionPerLogin'
        BY <1>1, <2>1 DEF AloneInv, OneSessionPerLogin, SameLogin
    <2>3. \A p, q \in Requests : Busy(p)' /\ Busy(q)' => p = q
        BY <1>1, <1>2, <2>1 DEF AloneInv
    <2>4. AloneReqInv(r)'
        <3>1. session[req[r].token] = "live" => OnlySession(req[r].token)
            BY <1>1, <2>2 DEF OneSessionPerLogin, OnlySession
        <3> QED
            BY <1>1, <1>3, <3>1 DEF AloneReqInv, OnlySession, SameLogin
    <2>5. ASSUME NEW q \in Requests, q # r
          PROVE  AloneReqInv(q)'
        <3>1. AloneReqInv(q)
            BY <2>1 DEF AloneInv
        <3> QED
            BY <1>1, <1>2, <2>5, <3>1 DEF AloneReqInv, OnlySession, NoSession, SameLogin
    <2> QED
        BY <2>2, <2>3, <2>4, <2>5 DEF AloneInv
<1> QED
    BY <1>4, <1>5, <1>6, <1>7, <1>8

(* The old session goes.  If it was the cookie's, this request has the     *)
(* cookie's replacement.                                                   *)
LEMMA DeleteKeepsIInv ==
    ASSUME IInv, NEW r \in Requests, DeleteSession(r)
    PROVE  IInv'
<1> USE DEF IInv
<1> DEFINE t == req[r].token
<1>1. /\ pc[r] = "del" /\ req[r].op \in {"refresh", "logout"} /\ t \in Tokens /\ t \in 0..issued
      /\ req[r].answer = 0 /\ root[t] \in Tokens
    BY DEF DeleteSession, ReqInv, TokenInv, TypeOK
<1>2. /\ UNCHANGED <<issued, root, cookie, req, doubled, alone, lost>>
      /\ session' = [session EXCEPT ![t] = "gone"]
      /\ \A q \in Requests : q # r => pc'[q] = pc[q]
      /\ pc'[r] = IF req[r].op = "refresh" THEN "set" ELSE "reply"
    BY DEF DeleteSession, OldToken, Goto, TypeOK
<1>3. \A k \in Tokens : session'[k] = IF k = t THEN "gone" ELSE session[k]
    BY <1>2 DEF TypeOK
<1>4. TypeOK'
    <2>1. pc' \in [Requests -> {"idle", "get", "del", "set", "reply"}]
        BY DEF DeleteSession, Goto, TypeOK
    <2>2. session' \in [Tokens -> {"unused", "live", "gone"}]
        BY <1>2 DEF TypeOK
    <2>3. \A k \in Tokens : session'[k] = "unused" <=> k > issued'
        BY <1>1, <1>2, <1>3 DEF TypeOK
    <2>4. \A q \in Requests : pc'[q] # "idle" => req'[q] \in Request
        BY <1>1, <1>2 DEF TypeOK
    <2>5. ended' \subseteq Tokens
        BY <1>1 DEF DeleteSession, TypeOK
    <2> QED
        BY <1>2, <2>1, <2>2, <2>3, <2>4, <2>5 DEF TypeOK
<1>5. TokenInv'
    BY <1>2 DEF TokenInv
<1>6. ASSUME NEW q \in Requests
      PROVE  ReqInv(q)'
    BY <1>1, <1>2 DEF ReqInv
<1>7. ASSUME NEW q \in Requests
      PROVE  AnswerInv(q)'
    <2>1. \A p \in Requests : Busy(p)' <=> Busy(p)
        BY <1>1, <1>2
    <2>2. Busy(q) /\ req[q].answer # 0 => req[q].answer # t /\ req[q].answer \in Tokens
        BY <1>1 DEF AnswerInv, ReqInv, TypeOK
    <2> QED
        BY <1>2, <1>3, <2>1, <2>2 DEF AnswerInv
<1>8. CookieInv'
    <2>1. CASE cookie = t
        BY <1>1, <1>2, <2>1 DEF CookieInv, OwesCookie
    <2>2. CASE cookie # t
        BY <1>1, <1>2, <1>3, <2>2 DEF CookieInv, OwesCookie, TypeOK
    <2> QED
        BY <2>1, <2>2
<1>9. AloneInv'
    <2>1. SUFFICES ASSUME alone
                   PROVE  AloneInv'
        BY <1>2 DEF AloneInv
    <2>2. \A q \in Requests : Busy(q) => q = r
        BY <1>1, <2>1 DEF AloneInv
    <2>3. OneSessionPerLogin'
        BY <1>2, <1>3, <2>1 DEF AloneInv, OneSessionPerLogin, SameLogin
    <2>4. /\ req[r].op = "refresh" => OnlySession(t)
          /\ req[r].op = "logout" /\ cookie \notin lost => cookie = t /\ OnlySession(t)
        BY <1>1, <2>1 DEF AloneInv, AloneReqInv
    <2>5. OnlySession(t) => NoSession(t)'
        BY <1>2, <1>3 DEF OnlySession, NoSession, SameLogin
    <2>6. AloneReqInv(r)'
        BY <1>1, <1>2, <2>4, <2>5 DEF AloneReqInv, NoSession, SameLogin
    <2>7. \A q \in Requests : q # r => ~Busy(q)'
        BY <1>2, <2>2
    <2>8. \A q \in Requests : AloneReqInv(q)'
        BY <2>6, <2>7 DEF AloneReqInv
    <2> QED
        BY <2>3, <2>7, <2>8 DEF AloneInv
<1> QED
    BY <1>4, <1>5, <1>6, <1>7, <1>8, <1>9

(* The new token is nobody else's. *)
LEMMA StoreKeepsIInv ==
    ASSUME IInv, NEW r \in Requests, StoreSession(r)
    PROVE  IInv'
<1> USE DEF IInv
<1> DEFINE n == issued + 1
           t == req[r].token
<1>1. /\ pc[r] = "set" /\ req[r].op \in {"refresh", "login"} /\ t \in 0..issued /\ req[r].answer = 0
      /\ req[r].op = "refresh" => t \in Tokens
      /\ issued \in Nat /\ n \in Tokens /\ n # 0 /\ session[n] = "unused" /\ req[r] \in Request
    BY DEF StoreSession, ReqInv, TypeOK
<1>2. /\ UNCHANGED <<cookie, history>> /\ issued' = n
      /\ session' = [session EXCEPT ![n] = "live"]
      /\ root' = [root EXCEPT ![n] = IF req[r].op = "login" THEN n ELSE root[t]]
      /\ req' = [req EXCEPT ![r] = [req[r] EXCEPT !.answer = n]]
      /\ pc' = [pc EXCEPT ![r] = "reply"]
    BY DEF StoreSession, Goto
<1>3. /\ \A k \in Tokens : session'[k] = IF k = n THEN "live" ELSE session[k]
      /\ \A k \in Tokens : k # n => root'[k] = root[k]
      /\ root'[n] = IF req[r].op = "login" THEN n ELSE root[t]
      /\ pc'[r] = "reply" /\ req'[r].op = req[r].op /\ req'[r].token = t /\ req'[r].answer = n
      /\ \A q \in Requests : q # r => pc'[q] = pc[q] /\ req'[q] = req[q]
    BY <1>1, <1>2 DEF TypeOK, Request
<1>4. root'[n] \in 1..n
    BY <1>1, <1>3 DEF TokenInv
<1>5. TypeOK'
    <2>1. [req[r] EXCEPT !.answer = n] \in Request
        BY <1>1 DEF Request
    <2>2. req' \in [Requests -> Request \cup {NoRequest}] /\ req'[r] \in Request
        BY <1>2, <2>1 DEF TypeOK
    <2>3. root' \in [Tokens -> Tokens \cup {0}]
        BY <1>1, <1>2, <1>3, <1>4 DEF TypeOK
    <2>4. /\ session' \in [Tokens -> {"unused", "live", "gone"}]
          /\ \A k \in Tokens : session'[k] = "unused" <=> k > n
        BY <1>1, <1>2, <1>3 DEF TypeOK
    <2>5. n \in 0..MaxTokens
        BY <1>1
    <2>6. \A q \in Requests : pc'[q] # "idle" => req'[q] \in Request
        BY <1>3, <2>2 DEF TypeOK
    <2>7. pc' \in [Requests -> {"idle", "get", "del", "set", "reply"}]
        BY <1>2 DEF TypeOK
    <2> QED
        BY <1>2, <2>2, <2>3, <2>4, <2>5, <2>6, <2>7 DEF TypeOK
<1>6. TokenInv'
    BY <1>1, <1>2, <1>3, <1>4 DEF TokenInv
<1>7. ASSUME NEW q \in Requests
      PROVE  ReqInv(q)'
    <2>1. CASE q = r
        BY <1>1, <1>2, <1>3, <2>1 DEF ReqInv
    <2>2. CASE q # r
        BY <1>1, <1>2, <1>3, <2>2 DEF ReqInv
    <2> QED
        BY <2>1, <2>2
<1>8. /\ \A q \in Requests : Busy(q) => req[q].token # n /\ req[q].answer # n
      /\ cookie # n
    BY <1>1 DEF ReqInv, TokenInv
<1>9. ASSUME NEW q \in Requests
      PROVE  AnswerInv(q)'
    <2>1. CASE q = r
        BY <1>1, <1>2, <1>3, <1>8, <2>1 DEF AnswerInv
    <2>2. CASE q # r
        BY <1>1, <1>2, <1>3, <1>8, <2>2 DEF AnswerInv, ReqInv, TypeOK
    <2> QED
        BY <2>1, <2>2
<1>10. CookieInv'
    BY <1>1, <1>2, <1>3, <1>8 DEF CookieInv, OwesCookie, TokenInv, TypeOK
<1>11. AloneInv'
    <2>1. SUFFICES ASSUME alone
                   PROVE  AloneInv'
        BY <1>2 DEF AloneInv
    <2>2. \A q \in Requests : q # r => ~Busy(q)'
        BY <1>1, <1>3, <2>1 DEF AloneInv
    <2>3. \A k \in Tokens : session[k] = "live" => root[k] # root'[n]
        <3>1. CASE req[r].op = "login"
            BY <1>1, <1>3, <3>1 DEF TokenInv, TypeOK
        <3>2. CASE req[r].op = "refresh"
            BY <1>1, <1>3, <2>1, <3>2 DEF AloneInv, AloneReqInv, NoSession, SameLogin
        <3> QED
            BY <1>1, <3>1, <3>2
    <2>4. OneSessionPerLogin'
        BY <1>1, <1>3, <2>1, <2>3 DEF AloneInv, OneSessionPerLogin, SameLogin
    <2>5. \A q \in Requests : AloneReqInv(q)'
        BY <1>1, <1>3, <2>2 DEF AloneReqInv
    <2> QED
        BY <2>2, <2>4, <2>5 DEF AloneInv
<1> QED
    BY <1>5, <1>6, <1>7, <1>9, <1>10, <1>11

LEMMA ReceiveKeepsIInv ==
    ASSUME IInv, NEW r \in Requests, Receive(r)
    PROVE  IInv'
<1> USE DEF IInv
<1>1. /\ UNCHANGED <<session, issued, root, history>> /\ pc[r] = "reply"
      /\ cookie' = req[r].answer /\ req[r].answer \in 0..issued
      /\ pc'[r] = "idle" /\ \A q \in Requests : q # r => pc'[q] = pc[q] /\ req'[q] = req[q]
    BY DEF Receive, CookieAfter, Finish, Goto, TypeOK, ReqInv
<1>2. TypeOK'
    BY <1>1 DEF Receive, Finish, Goto, TypeOK
<1>3. TokenInv'
    BY <1>1 DEF TokenInv
<1>4. ASSUME NEW q \in Requests
      PROVE  ReqInv(q)' /\ AnswerInv(q)'
    BY <1>1 DEF ReqInv, AnswerInv
<1>5. CookieInv'
    BY <1>1 DEF CookieInv, OwesCookie, AnswerInv
<1>6. AloneInv'
    BY <1>1 DEF AloneInv, AloneReqInv, OneSessionPerLogin, SameLogin
<1> QED
    BY <1>2, <1>3, <1>4, <1>5, <1>6

(* A session that expires, or the deletion of a request that dies, makes   *)
(* its token lost.                                                         *)
LEMMA LossKeepsIInv ==
    ASSUME IInv, (\E r \in Requests : RequestLost(r)) \/ (\E k \in Tokens : Expire(k))
    PROVE  IInv'
<1> USE DEF IInv
<1>1. /\ UNCHANGED <<issued, root, cookie, doubled, ended, alone>> /\ lost \subseteq lost'
      /\ \A q \in Requests : pc'[q] = "idle" \/ (pc'[q] = pc[q] /\ req'[q] = req[q])
      /\ \A k \in Tokens : session'[k] = "live" => session[k] = "live"
      /\ \A k \in Tokens : session[k] = "live" /\ k \notin lost' => session'[k] = "live"
    BY DEF RequestLost, Expire, Finish, Goto, TypeOK
<1>2. TypeOK'
    <2>1. ASSUME NEW r \in Requests, RequestLost(r)
          PROVE  TypeOK'
        <3>1. OwesCookie(r) => req[r].token \in Tokens
            BY DEF OwesCookie, TypeOK, Request
        <3>2. lost' \subseteq Tokens
            BY <2>1, <3>1 DEF RequestLost, TypeOK
        <3>3. /\ pc' \in [Requests -> {"idle", "get", "del", "set", "reply"}]
              /\ req' \in [Requests -> Request \cup {NoRequest}]
              /\ \A q \in Requests : pc'[q] # "idle" => req'[q] \in Request
            BY <2>1 DEF RequestLost, Finish, Goto, TypeOK
        <3> QED
            BY <2>1, <3>2, <3>3 DEF RequestLost, TypeOK
    <2>2. ASSUME NEW k \in Tokens, Expire(k)
          PROVE  TypeOK'
        BY <2>2 DEF Expire, TypeOK
    <2> QED
        BY <2>1, <2>2
<1>3. TokenInv'
    BY <1>1 DEF TokenInv
<1>4. ASSUME NEW q \in Requests
      PROVE  ReqInv(q)'
    BY <1>1 DEF ReqInv
<1>5. ASSUME NEW q \in Requests
      PROVE  AnswerInv(q)'
    <2>1. Busy(q) /\ req[q].answer # 0 => req[q].answer \in Tokens
        BY DEF TypeOK, Request
    <2> QED
        BY <1>1, <2>1 DEF AnswerInv
<1>6. CookieInv'
    <2> SUFFICES ASSUME cookie \notin lost', cookie # 0, session'[cookie] # "live"
                 PROVE  \E q \in Requests : OwesCookie(q)' /\ req'[q].token = cookie
        BY <1>1 DEF CookieInv
    <2>1. cookie \in Tokens
        BY DEF TypeOK
    <2>2. PICK q \in Requests : OwesCookie(q) /\ req[q].token = cookie
        BY <1>1, <2>1 DEF CookieInv
    <2>3. \A r \in Requests : RequestLost(r) => r # q
        BY <2>2 DEF RequestLost
    <2>4. pc'[q] = pc[q] /\ req'[q] = req[q]
        BY <2>3 DEF RequestLost, Expire, Finish, Goto, TypeOK
    <2> QED
        BY <2>2, <2>4 DEF OwesCookie
<1>7. AloneInv'
    BY <1>1 DEF AloneInv, AloneReqInv, OneSessionPerLogin, SameLogin, OnlySession, NoSession
<1> QED
    BY <1>2, <1>3, <1>4, <1>5, <1>6, <1>7

LEMMA StutterKeepsIInv == IInv /\ UNCHANGED vars => IInv'
BY DEF IInv, vars, TypeOK, TokenInv, ReqInv, AnswerInv, CookieInv, OwesCookie, AloneInv, AloneReqInv,
   OneSessionPerLogin, SameLogin, OnlySession, NoSession

(* The invariant of every behaviour. *)
THEOREM Invariance == Spec => []IInv
<1>1. IInv /\ [Next]_vars => IInv'
    BY SendKeepsIInv, GetKeepsIInv, DeleteKeepsIInv, StoreKeepsIInv, ReceiveKeepsIInv, LossKeepsIInv,
       StutterKeepsIInv DEF Next
<1> QED
    BY InitIInv, <1>1, PTL DEF Spec

-----------------------------------------------------------------------------
(* Every variable keeps its type. *)
THEOREM TypeCorrect == Spec => []TypeOK
<1>1. IInv => TypeOK
    BY DEF IInv
<1> QED
    BY <1>1, Invariance, PTL

(* Overlapping refreshes, logins and logouts never leave the browser with  *)
(* a cookie that is of no use (service.py:169-194, router.py:48-78).       *)
THEOREM CookieStaysOfUse == Spec => []CookieIsOfUse
<1>1. IInv => CookieIsOfUse
    BY DEF IInv, CookieInv, OwesCookie, CookieIsOfUse, AllIdle
<1> QED
    BY <1>1, Invariance, PTL

(* Without overlap and loss a logout ends the login (router.py:72-78).     *)
THEOREM LogoutEnds == Spec => LogoutEndsLogin
<1>1. IInv /\ [Next]_vars =>
        [\A r \in Requests :
            Receive(r) /\ req[r].op = "logout" /\ cookie \notin lost \cup {NoToken} /\ alone =>
                /\ cookie' = NoToken
                /\ \A k \in Tokens : session[k] = "live" => ~SameLogin(k, cookie)]_vars
    BY DEF IInv, AloneInv, AloneReqInv, NoSession, ReqInv, Receive, CookieAfter
<1> QED
    BY <1>1, Invariance, PTL DEF Spec, LogoutEndsLogin

-----------------------------------------------------------------------------
(* Requests that overlap *)

Rotates(r) == pc[r] \in {"del", "set"} /\ req[r].op = "refresh"

(* A rotation of a login that is not doubled is its only one, and what is  *)
(* live of the login is what it deletes next.                              *)
RotationInv ==
    \A r \in Requests : Rotates(r) /\ root[req[r].token] \notin doubled =>
        /\ \A q \in Requests : Rotates(q) /\ SameLogin(req[q].token, req[r].token) => q = r
        /\ \A j \in Tokens : session[j] = "live" /\ SameLogin(j, req[r].token) =>
              pc[r] = "del" /\ j = req[r].token

(* A login that was ended has no rotation on its way. *)
EndedInv ==
    /\ ended \subseteq 1..issued
    /\ \A r \in Requests : Rotates(r) => root[req[r].token] \notin ended \ doubled

RaceInv == OnlyDoubledLoginsSplit /\ RotationInv /\ EndedInv /\ LogoutIsFinal

LEMMA RotatesToken ==
    ASSUME IInv, NEW r \in Requests, Rotates(r)
    PROVE  req[r].token \in Tokens /\ req[r].token \in 1..issued /\ root[req[r].token] \in 1..issued
BY DEF IInv, Rotates, ReqInv, TokenInv, TypeOK

(* Where no session comes to life, no request starts to rotate and no      *)
(* login is ended, nothing is to be shown.                                 *)
LEMMA LessKeepsRaceInv ==
    ASSUME IInv, RaceInv,
           UNCHANGED <<issued, root, doubled, ended>>,
           \A k \in Tokens : session'[k] = "live" => session[k] = "live",
           \A r \in Requests : Rotates(r)' => Rotates(r) /\ pc'[r] = pc[r] /\ req'[r] = req[r]
    PROVE  RaceInv'
<1>1. OnlyDoubledLoginsSplit'
    BY DEF RaceInv, OnlyDoubledLoginsSplit, SameLogin
<1>2. RotationInv'
    BY DEF RaceInv, RotationInv, SameLogin
<1>3. EndedInv'
    BY DEF RaceInv, EndedInv
<1>4. LogoutIsFinal'
    BY DEF RaceInv, LogoutIsFinal
<1> QED
    BY <1>1, <1>2, <1>3, <1>4 DEF RaceInv

LEMMA SendKeepsRaceInv ==
    ASSUME IInv, RaceInv, NEW r \in Requests, Login(r) \/ Refresh(r) \/ Logout(r)
    PROVE  RaceInv'
<1>1. PICK op \in {"login", "refresh", "logout"}, phase \in {"get", "del", "set", "reply"}, k \in {cookie, 0} :
          /\ Send(r, op, phase, k)
          /\ op = "refresh" => phase = "get"
    BY DEF Login, Refresh, Logout, CookieAtLogout
<1>2. /\ UNCHANGED <<session, issued, root, doubled, ended>>
      /\ pc'[r] = phase /\ req'[r].op = op
      /\ \A q \in Requests : q # r => pc'[q] = pc[q] /\ req'[q] = req[q]
    BY <1>1 DEF Send, Goto, IInv, TypeOK
<1>3. \A q \in Requests : Rotates(q)' => Rotates(q) /\ pc'[q] = pc[q] /\ req'[q] = req[q]
    BY <1>1, <1>2 DEF Rotates
<1> QED
    BY <1>2, <1>3, LessKeepsRaceInv

(* A refresh that finds its session rotates alone, or doubles the login.   *)
LEMMA GetKeepsRaceInv ==
    ASSUME IInv, RaceInv, NEW r \in Requests, GetSession(r)
    PROVE  RaceInv'
<1> DEFINE t == req[r].token
<1>1. /\ pc[r] = "get" /\ req[r].op = "refresh" /\ t \in Tokens
      /\ UNCHANGED <<session, issued, root, ended>>
      /\ \A q \in Requests : q # r => pc'[q] = pc[q] /\ req'[q] = req[q]
    <2>1. pc[r] = "get" /\ UNCHANGED <<session, issued, root, ended>>
        BY DEF GetSession
    <2>2. req[r].op = "refresh" /\ t \in Tokens
        BY <2>1 DEF IInv, ReqInv, TypeOK
    <2>3. \A q \in Requests : q # r => pc'[q] = pc[q] /\ req'[q] = req[q]
        BY DEF GetSession, Goto, Finish, IInv, TypeOK
    <2> QED
        BY <2>1, <2>2, <2>3
<1>2. CASE ~SessionFound(r)
    <2>1. pc'[r] = "idle" /\ UNCHANGED doubled
        BY <1>2 DEF GetSession, Finish, Goto, IInv, TypeOK
    <2>2. \A q \in Requests : Rotates(q)' => Rotates(q) /\ pc'[q] = pc[q] /\ req'[q] = req[q]
        BY <1>1, <2>1 DEF Rotates
    <2> QED
        BY <1>1, <2>1, <2>2, LessKeepsRaceInv
<1>3. CASE SessionFound(r)
    <2>1. /\ pc'[r] = "del" /\ req' = req /\ session[t] = "live"
          /\ doubled' = IF Rotating(t) THEN doubled \cup {root[t]} ELSE doubled
        BY <1>3 DEF GetSession, SessionFound, Goto, IInv, TypeOK
    <2>2. /\ ~Rotates(r)
          /\ \A q \in Requests : q # r => (Rotates(q)' <=> Rotates(q))
        BY <1>1, <2>1 DEF Rotates
    <2>3. root[t] \notin doubled' =>
              /\ root[t] \notin doubled
              /\ \A q \in Requests : Rotates(q) => ~SameLogin(req[q].token, t)
        BY <2>1 DEF Rotating, Rotates
    <2>4. OnlyDoubledLoginsSplit'
        BY <1>1, <2>1 DEF RaceInv, OnlyDoubledLoginsSplit, SameLogin
    <2>5. ASSUME NEW p \in Requests, Rotates(p)', root[req[p].token] \notin doubled'
          PROVE  /\ \A q \in Requests : Rotates(q)' /\ SameLogin(req[q].token, req[p].token) => q = p
                 /\ \A j \in Tokens : session[j] = "live" /\ SameLogin(j, req[p].token) =>
                       pc'[p] = "del" /\ j = req[p].token
        <3>1. CASE p = r
            <4>1. \A j \in Tokens : session[j] = "live" /\ SameLogin(j, t) => j = t
                BY <1>1, <2>1, <2>3, <2>5, <3>1 DEF RaceInv, OnlyDoubledLoginsSplit, SameLogin
            <4>2. \A q \in Requests : Rotates(q)' /\ SameLogin(req[q].token, t) => q = r
                BY <2>2, <2>3, <2>5, <3>1
            <4> QED
                BY <2>1, <3>1, <4>1, <4>2
        <3>2. CASE p # r
            <4>1. Rotates(p) /\ root[req[p].token] \notin doubled /\ pc'[p] = pc[p]
                BY <1>1, <2>1, <2>2, <2>5, <3>2
            <4>2. ~SameLogin(t, req[p].token)
                BY <2>3, <2>5, <4>1 DEF SameLogin
            <4> QED
                BY <2>2, <4>1, <4>2 DEF RaceInv, RotationInv
        <3> QED
            BY <3>1, <3>2
    <2>6. RotationInv'
        BY <1>1, <2>1, <2>5 DEF RotationInv, SameLogin
    <2>7. EndedInv'
        <3>1. root[t] \notin ended \ doubled
            BY <1>1, <2>1 DEF RaceInv, LogoutIsFinal
        <3>2. \A q \in Requests : Rotates(q)' => root[req[q].token] \notin ended \ doubled
            BY <2>2, <3>1 DEF RaceInv, EndedInv
        <3>3. doubled \subseteq doubled'
            BY <2>1
        <3> QED
            BY <1>1, <2>1, <3>2, <3>3 DEF RaceInv, EndedInv
    <2>8. LogoutIsFinal'
        BY <1>1, <2>1 DEF RaceInv, LogoutIsFinal
    <2> QED
        BY <2>4, <2>6, <2>7, <2>8 DEF RaceInv
<1> QED
    BY <1>2, <1>3

(* A rotation has deleted all that was live of its login; a logout that    *)
(* met none has deleted the only session.                                  *)
LEMMA DeleteKeepsRaceInv ==
    ASSUME IInv, RaceInv, NEW r \in Requests, DeleteSession(r)
    PROVE  RaceInv'
<1> DEFINE t == req[r].token
<1>1. /\ pc[r] = "del" /\ req[r].op \in {"refresh", "logout"} /\ t \in Tokens
      /\ root[t] \in 1..issued
    BY DEF DeleteSession, IInv, ReqInv, TokenInv, TypeOK
<1>2. /\ UNCHANGED <<issued, root, req, doubled>>
      /\ \A k \in Tokens : session'[k] = IF k = t THEN "gone" ELSE session[k]
      /\ \A q \in Requests : q # r => pc'[q] = pc[q]
      /\ pc'[r] = IF req[r].op = "refresh" THEN "set" ELSE "reply"
    BY DEF DeleteSession, OldToken, Goto, IInv, TypeOK
<1>3. \A q \in Requests : Rotates(q)' <=> Rotates(q)
    BY <1>1, <1>2 DEF Rotates
<1>4. \A k \in Tokens : session'[k] = "live" => session[k] = "live" /\ k # t
    BY <1>2
<1>5. OnlyDoubledLoginsSplit'
    BY <1>2, <1>4 DEF RaceInv, OnlyDoubledLoginsSplit, SameLogin
<1>6. RotationInv'
    BY <1>2, <1>3, <1>4 DEF RaceInv, RotationInv, SameLogin
<1>7. CASE ended' = ended
    <2>1. EndedInv'
        BY <1>2, <1>3, <1>7 DEF RaceInv, EndedInv
    <2>2. LogoutIsFinal'
        BY <1>2, <1>4, <1>7 DEF RaceInv, LogoutIsFinal
    <2> QED
        BY <1>5, <1>6, <2>1, <2>2 DEF RaceInv
<1>8. CASE ended' # ended
    <2>1. ended' = ended \cup {root[t]} /\ session[t] = "live" /\ ~Rotating(t)
        BY <1>8 DEF DeleteSession, SessionFound
    <2>2. \A q \in Requests : Rotates(q) => root[req[q].token] # root[t]
        BY <2>1 DEF Rotating, Rotates, SameLogin
    <2>3. EndedInv'
        BY <1>1, <1>2, <1>3, <2>1, <2>2 DEF RaceInv, EndedInv
    <2>4. \A j \in Tokens : session[j] = "live" /\ root[j] = root[t] /\ root[t] \notin doubled => j = t
        BY <1>1, <2>1 DEF RaceInv, OnlyDoubledLoginsSplit, SameLogin
    <2>5. LogoutIsFinal'
        BY <1>2, <1>4, <2>1, <2>4 DEF RaceInv, LogoutIsFinal
    <2> QED
        BY <1>5, <1>6, <2>3, <2>5 DEF RaceInv
<1> QED
    BY <1>7, <1>8

(* The new session is of a new login, or of one with no other session and  *)
(* no other rotation.                                                      *)
LEMMA StoreKeepsRaceInv ==
    ASSUME IInv, RaceInv, NEW r \in Requests, StoreSession(r)
    PROVE  RaceInv'
<1> DEFINE n == issued + 1
           t == req[r].token
<1>1. /\ pc[r] = "set" /\ req[r].op \in {"refresh", "login"}
      /\ issued \in Nat /\ n \in Tokens
    BY DEF StoreSession, IInv, ReqInv, TypeOK
<1>2. /\ issued' = n /\ UNCHANGED <<doubled, ended>>
      /\ \A k \in Tokens : session'[k] = IF k = n THEN "live" ELSE session[k]
      /\ \A k \in Tokens : k # n => root'[k] = root[k]
      /\ root'[n] = IF req[r].op = "login" THEN n ELSE root[t]
      /\ pc'[r] = "reply"
      /\ \A q \in Requests : q # r => pc'[q] = pc[q] /\ req'[q] = req[q]
    BY <1>1 DEF StoreSession, Goto, IInv, TypeOK
<1>3. \A q \in Requests : Rotates(q)' =>
          /\ q # r /\ Rotates(q) /\ pc'[q] = pc[q] /\ req'[q] = req[q]
          /\ req[q].token \in Tokens /\ root'[req[q].token] = root[req[q].token]
          /\ root[req[q].token] \in 1..issued
    <2>1. \A q \in Requests : Rotates(q)' => q # r /\ Rotates(q) /\ pc'[q] = pc[q] /\ req'[q] = req[q]
        BY <1>2 DEF Rotates
    <2>2. \A q \in Requests : Rotates(q) =>
              req[q].token \in Tokens /\ req[q].token \in 1..issued /\ root[req[q].token] \in 1..issued
        BY RotatesToken
    <2> QED
        BY <1>1, <1>2, <2>1, <2>2
<1>4. \A k \in Tokens : k # n /\ session'[k] = "live" =>
          session[k] = "live" /\ root'[k] = root[k] /\ root[k] \in 1..issued
    BY <1>1, <1>2 DEF IInv, TypeOK, TokenInv
<1>5. root'[n] \notin doubled =>
          /\ \A k \in Tokens : session[k] = "live" => root[k] # root'[n]
          /\ \A q \in Requests : Rotates(q)' => root[req[q].token] # root'[n]
    <2>1. CASE req[r].op = "login"
        <3>1. root'[n] = n /\ n \notin 1..issued
            BY <1>1, <1>2, <2>1
        <3>2. \A k \in Tokens : session[k] = "live" => root[k] \in 1..issued
            BY DEF IInv, TypeOK, TokenInv
        <3> QED
            BY <1>3, <3>1, <3>2
    <2>2. CASE req[r].op = "refresh"
        <3>1. Rotates(r) /\ root'[n] = root[t]
            BY <1>1, <1>2, <2>2 DEF Rotates
        <3>2. root[t] \notin doubled =>
                  /\ \A q \in Requests : Rotates(q) /\ SameLogin(req[q].token, t) => q = r
                  /\ \A j \in Tokens : session[j] = "live" => ~SameLogin(j, t)
            BY <1>1, <3>1 DEF RaceInv, RotationInv
        <3> QED
            BY <1>3, <3>1, <3>2 DEF SameLogin
    <2> QED
        BY <1>1, <2>1, <2>2
<1>6. root'[n] \notin ended \ doubled
    <2>1. CASE req[r].op = "login"
        BY <1>1, <1>2, <2>1 DEF RaceInv, EndedInv
    <2>2. CASE req[r].op = "refresh"
        BY <1>1, <1>2, <2>2 DEF RaceInv, EndedInv, Rotates
    <2> QED
        BY <1>1, <2>1, <2>2
<1>7. OnlyDoubledLoginsSplit'
    <2>1. SUFFICES ASSUME NEW j \in Tokens, NEW k \in Tokens,
                          session'[j] = "live", session'[k] = "live",
                          root'[j] = root'[k], root'[j] \notin doubled
                   PROVE  j = k
        BY <1>2 DEF OnlyDoubledLoginsSplit, SameLogin
    <2>2. CASE j = n \/ k = n
        BY <1>4, <1>5, <2>1, <2>2
    <2>3. CASE j # n /\ k # n
        BY <1>4, <2>1, <2>3 DEF RaceInv, OnlyDoubledLoginsSplit, SameLogin
    <2> QED
        BY <2>2, <2>3
<1>8. RotationInv'
    <2>1. ASSUME NEW p \in Requests, Rotates(p)', root'[req'[p].token] \notin doubled
          PROVE  /\ \A q \in Requests : Rotates(q)' /\ root'[req'[q].token] = root'[req'[p].token] => q = p
                 /\ \A j \in Tokens : session'[j] = "live" /\ root'[j] = root'[req'[p].token] =>
                       pc'[p] = "del" /\ j = req'[p].token
        <3>1. /\ Rotates(p) /\ req'[p] = req[p] /\ pc'[p] = pc[p]
              /\ root'[req[p].token] = root[req[p].token] /\ root[req[p].token] \notin doubled
            BY <1>3, <2>1
        <3>2. ASSUME NEW q \in Requests, Rotates(q)', root'[req'[q].token] = root'[req'[p].token]
              PROVE  q = p
            BY <1>3, <3>1, <3>2 DEF RaceInv, RotationInv, SameLogin
        <3>3. ASSUME NEW j \in Tokens, session'[j] = "live", root'[j] = root'[req'[p].token]
              PROVE  pc'[p] = "del" /\ j = req'[p].token
            <4>1. j # n
                BY <1>5, <2>1, <3>1, <3>3
            <4> QED
                BY <1>4, <3>1, <3>3, <4>1 DEF RaceInv, RotationInv, SameLogin
        <3> QED
            BY <3>2, <3>3
    <2> QED
        BY <1>2, <2>1 DEF RotationInv, SameLogin
<1>9. EndedInv'
    <2>1. ended' \subseteq 1..issued'
        BY <1>1, <1>2 DEF RaceInv, EndedInv
    <2>2. \A q \in Requests : Rotates(q)' => root'[req'[q].token] \notin ended' \ doubled'
        BY <1>2, <1>3 DEF RaceInv, EndedInv
    <2> QED
        BY <2>1, <2>2 DEF EndedInv
<1>10. LogoutIsFinal'
    BY <1>2, <1>4, <1>6 DEF RaceInv, LogoutIsFinal
<1> QED
    BY <1>7, <1>8, <1>9, <1>10 DEF RaceInv

LEMMA LossKeepsRaceInv ==
    ASSUME IInv, RaceInv,
           \/ \E r \in Requests : Receive(r) \/ RequestLost(r)
           \/ \E k \in Tokens : Expire(k)
           \/ UNCHANGED vars
    PROVE  RaceInv'
<1>1. /\ UNCHANGED <<issued, root, doubled, ended>>
      /\ \A k \in Tokens : session'[k] = "live" => session[k] = "live"
      /\ \A r \in Requests : pc'[r] = "idle" \/ (pc'[r] = pc[r] /\ req'[r] = req[r])
    BY DEF Receive, RequestLost, Expire, Finish, Goto, IInv, TypeOK, vars
<1>2. \A r \in Requests : Rotates(r)' => Rotates(r) /\ pc'[r] = pc[r] /\ req'[r] = req[r]
    BY <1>1 DEF Rotates
<1> QED
    BY <1>1, <1>2, LessKeepsRaceInv

LEMMA RaceInvariance == Spec => []RaceInv
<1>1. Init => RaceInv
    BY DEF Init, RaceInv, OnlyDoubledLoginsSplit, RotationInv, EndedInv, LogoutIsFinal, Rotates
<1>2. IInv /\ RaceInv /\ [Next]_vars => RaceInv'
    BY SendKeepsRaceInv, GetKeepsRaceInv, DeleteKeepsRaceInv, StoreKeepsRaceInv, LossKeepsRaceInv DEF Next
<1> QED
    BY <1>1, <1>2, Invariance, PTL DEF Spec

(* Whatever else overlaps, expires or is lost, only two refreshes that     *)
(* meet between the read and the store leave a login with two sessions     *)
(* (service.py:169-182).                                                   *)
THEOREM OnlyMeetingRotationsSplit == Spec => []OnlyDoubledLoginsSplit
<1>1. RaceInv => OnlyDoubledLoginsSplit
    BY DEF RaceInv
<1> QED
    BY <1>1, RaceInvariance, PTL

(* A logout that found the session and met no refresh of the login keeps   *)
(* it ended, whichever old token or late request comes (service.py:169-194).*)
THEOREM LogoutStaysFinal == Spec => []LogoutIsFinal
<1>1. RaceInv => LogoutIsFinal
    BY DEF RaceInv
<1> QED
    BY <1>1, RaceInvariance, PTL
=============================================================================
