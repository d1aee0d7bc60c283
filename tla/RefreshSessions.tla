--------------------------- MODULE RefreshSessions ---------------------------
(***************************************************************************)
(* Login, refresh and logout of one user in one browser                    *)
(* (src/app/modules/auth/service.py, router.py).  Redis holds a session    *)
(* per refresh token, the browser holds one token in a cookie.  Requests   *)
(* of several tabs overlap: each carries the cookie of when it was sent,   *)
(* takes one step per call of Redis, and its response changes the cookie   *)
(* when it arrives, which may be after that of a later request.            *)
(*                                                                         *)
(* Tokens are numbered in the order in which they are stored.              *)
(*                                                                         *)
(* LogoutKeepsCookie, NothingToLogout, AnySession and NewToken are slips   *)
(* of the operator that follows them and are used by no action.            *)
(***************************************************************************)
EXTENDS Naturals, FiniteSets

CONSTANTS
    Requests,
    MaxTokens    \* bound: the tokens issued in a behaviour

ASSUME MaxTokensAssumption == MaxTokens \in Nat

Tokens == 1..MaxTokens
NoToken == 0

(* token: what the cookie was when the request was sent; answer: the       *)
(* cookie that its response sets.                                          *)
Request == [op : {"login", "refresh", "logout"},
            token : Tokens \cup {NoToken}, answer : Tokens \cup {NoToken}]
NoRequest == [op |-> "none"]

VARIABLES
    session,   \* the Redis key of each token
    issued,    \* how many tokens were stored
    root,      \* history: the token of the login that each descends from
    cookie,    \* the browser's cookie
    pc, req,   \* the requests
    doubled,   \* history: the logins of which two rotations met
    ended,     \* history: those ended by a logout that met no rotation
    alone,     \* history: no two requests were ever under way together
    lost       \* history: the tokens whose session expired, or was deleted by
               \* a request that was then lost

history == <<doubled, ended, alone, lost>>
vars == <<session, issued, root, cookie, pc, req, history>>

TypeOK ==
    /\ session \in [Tokens -> {"unused", "live", "gone"}]
    /\ issued \in 0..MaxTokens
    /\ root \in [Tokens -> Tokens \cup {NoToken}]
    /\ cookie \in Tokens \cup {NoToken}
    /\ pc \in [Requests -> {"idle", "get", "del", "set", "reply"}]
    /\ req \in [Requests -> Request \cup {NoRequest}]
    /\ doubled \subseteq Tokens /\ ended \subseteq Tokens
    /\ alone \in BOOLEAN /\ lost \subseteq Tokens
    /\ \A r \in Requests : pc[r] # "idle" => req[r] \in Request
    /\ \A k \in Tokens : session[k] = "unused" <=> k > issued

Init ==
    /\ session = [k \in Tokens |-> "unused"]
    /\ issued = 0
    /\ root = [k \in Tokens |-> NoToken]
    /\ cookie = NoToken
    /\ pc = [r \in Requests |-> "idle"]
    /\ req = [r \in Requests |-> NoRequest]
    /\ doubled = {} /\ ended = {}
    /\ alone = TRUE
    /\ lost = {}

AllIdle == \A r \in Requests : pc[r] = "idle"

Goto(r, phase) == pc' = [pc EXCEPT ![r] = phase]

Finish(r) ==
    /\ Goto(r, "idle")
    /\ req' = [req EXCEPT ![r] = NoRequest]

-----------------------------------------------------------------------------
(* Sending a request *)

Send(r, op, phase, token) ==
    /\ pc[r] = "idle"
    /\ Goto(r, phase)
    /\ req' = [req EXCEPT ![r] = [op |-> op, token |-> token, answer |-> NoToken]]
    /\ alone' = (alone /\ AllIdle)
    /\ UNCHANGED <<session, issued, root, cookie, doubled, ended, lost>>

(* The database part of login writes nothing; one that is refused leaves   *)
(* no trace.                                                               *)
Login(r) == Send(r, "login", "set", NoToken)

(* Without a cookie refresh answers 401 at once. *)
Refresh(r) == cookie # NoToken /\ Send(r, "refresh", "get", cookie)

NothingToLogout == NoToken

(* With REFRESH_COOKIE_PATH=/auth the browser sends the cookie to          *)
(* /auth/logout too.                                                       *)
CookieAtLogout == cookie

Logout(r) == Send(r, "logout", IF CookieAtLogout = NoToken THEN "reply" ELSE "del", CookieAtLogout)

-----------------------------------------------------------------------------
(* The server's calls of Redis *)

SameLogin(j, k) == root[j] = root[k]

(* A refresh has found a session of the login of k and not yet stored its  *)
(* successor.                                                              *)
Rotating(k) ==
    \E r \in Requests : pc[r] \in {"del", "set"} /\ req[r].op = "refresh" /\ SameLogin(req[r].token, k)

AnySession(r) == session[req[r].token] # "unused"

SessionFound(r) == session[req[r].token] = "live"

GetSession(r) ==
    /\ pc[r] = "get"
    /\ \/ /\ SessionFound(r)
          /\ Goto(r, "del")
          /\ doubled' = IF Rotating(req[r].token) THEN doubled \cup {root[req[r].token]} ELSE doubled
          /\ UNCHANGED req
       \/ ~SessionFound(r) /\ Finish(r) /\ UNCHANGED doubled
    /\ UNCHANGED <<session, issued, root, cookie, ended, alone, lost>>

NewToken(r) == issued + 1

OldToken(r) == req[r].token

(* redis_del of a key that is gone deletes nothing, which nobody checks. *)
DeleteSession(r) ==
    /\ pc[r] = "del"
    /\ session' = [session EXCEPT ![OldToken(r)] = "gone"]
    /\ Goto(r, IF req[r].op = "refresh" THEN "set" ELSE "reply")
    /\ ended' = IF req[r].op = "logout" /\ SessionFound(r) /\ ~Rotating(req[r].token)
                THEN ended \cup {root[req[r].token]} ELSE ended
    /\ UNCHANGED <<issued, root, cookie, req, doubled, alone, lost>>

StoreSession(r) ==
    /\ pc[r] = "set"
    /\ issued < MaxTokens
    /\ issued' = issued + 1
    /\ session' = [session EXCEPT ![issued'] = "live"]
    /\ root' = [root EXCEPT ![issued'] =
                    IF req[r].op = "login" THEN issued' ELSE root[req[r].token]]
    /\ req' = [req EXCEPT ![r].answer = issued']
    /\ Goto(r, "reply")
    /\ UNCHANGED <<cookie, history>>

LogoutKeepsCookie(r) == IF req[r].op = "logout" THEN cookie ELSE req[r].answer

CookieAfter(r) == req[r].answer

(* The response arrives.  That of a logout deletes the cookie. *)
Receive(r) ==
    /\ pc[r] = "reply"
    /\ cookie' = CookieAfter(r)
    /\ Finish(r)
    /\ UNCHANGED <<session, issued, root, history>>

(* The request has deleted the session of its token and not yet replaced   *)
(* or removed the cookie.                                                  *)
OwesCookie(r) == pc[r] \in {"set", "reply"} /\ req[r].op # "login" /\ req[r].token # NoToken

(* The server dies in the request, or the connection before its response. *)
RequestLost(r) ==
    /\ pc[r] # "idle"
    /\ Finish(r)
    /\ lost' = IF OwesCookie(r) THEN lost \cup {req[r].token} ELSE lost
    /\ UNCHANGED <<session, issued, root, cookie, doubled, ended, alone>>

(* The key's time to live has passed. *)
Expire(k) ==
    /\ session[k] = "live"
    /\ session' = [session EXCEPT ![k] = "gone"]
    /\ lost' = lost \cup {k}
    /\ UNCHANGED <<issued, root, cookie, pc, req, doubled, ended, alone>>

Next ==
    \/ \E r \in Requests :
        \/ Login(r)
        \/ Refresh(r)
        \/ Logout(r)
        \/ GetSession(r)
        \/ DeleteSession(r)
        \/ StoreSession(r)
        \/ Receive(r)
        \/ RequestLost(r)
    \/ \E k \in Tokens : Expire(k)

Spec == Init /\ [][Next]_vars

-----------------------------------------------------------------------------
(* Properties *)

(* However refreshes, logins and logouts of several tabs overlap, expire   *)
(* or get lost, once none is under way the browser does not hold a token   *)
(* that is of no use: the cookie is deleted or its session is live, unless *)
(* that session itself expired, or one of the requests that deleted it     *)
(* died before its response.  No other loss costs the browser its cookie.  *)
CookieIsOfUse == AllIdle /\ cookie \notin lost \cup {NoToken} => session[cookie] = "live"

(* Refreshing "by invalidating the old refresh token and issuing a new     *)
(* one" (service.py:154) leaves a login with one live session at most.     *)
OneSessionPerLogin ==
    \A j, k \in Tokens :
        session[j] = "live" /\ session[k] = "live" /\ SameLogin(j, k) => j = k

(* It does, whatever else overlaps, expires or is lost, unless two         *)
(* refreshes of the login met between the read and the store: no old token *)
(* that is used again and no logout, login or lost request doubles it.     *)
OnlyDoubledLoginsSplit ==
    \A j, k \in Tokens :
        session[j] = "live" /\ session[k] = "live" /\ SameLogin(j, k) /\ root[j] \notin doubled => j = k

(* A logout that found the session, and no refresh of the login on its     *)
(* way, is final: no request sent before or after it, with whatever token, *)
(* brings a session of this login back.                                    *)
LogoutIsFinal == \A k \in Tokens : root[k] \in ended \ doubled => session[k] # "live"

(* If no requests overlap, a logout leaves no session of the login it      *)
(* ends, whatever was lost before it but the response that would have      *)
(* replaced its cookie.                                                    *)
LogoutEndsLogin ==
    [][\A r \in Requests :
          Receive(r) /\ req[r].op = "logout" /\ cookie \notin lost \cup {NoToken} /\ alone =>
              /\ cookie' = NoToken
              /\ \A k \in Tokens : session[k] = "live" => ~SameLogin(k, cookie)]_vars
=============================================================================
