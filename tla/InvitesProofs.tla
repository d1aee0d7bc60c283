---------------------------- MODULE InvitesProofs ----------------------------
(***************************************************************************)
(* Proofs about Invites, for any organizations, users and requests and any *)
(* number of invites.                                                      *)
(*                                                                         *)
(* Keys only go forward: unused, live, ending, gone (KeysAdvance).  So     *)
(* what a request has once read of a key, that it is not live, or gone,    *)
(* stays true whatever happens before its next call (ReqInv).              *)
(***************************************************************************)
EXTENDS Invites, TLAPS

(* Which handlers have each phase. *)
PhaseInv(r) ==
    /\ pc[r] = "sadd" => req[r].op = "create"
    /\ pc[r] \in {"loop", "ttl"} => req[r].op = "list"
    /\ pc[r] \in {"check", "insert"} => req[r].op = "join"
    /\ pc[r] = "del" => req[r].op \in {"join", "revoke"}
    /\ pc[r] = "srem" => req[r].op \in {"join", "revoke", "list"}
    /\ pc[r] # "idle" /\ req[r].op = "join" => req[r].user \in Users

(* An invite that is stored for an organization. *)
Known(i, o) == i \in Ids /\ key[i] # "unused" /\ orgOf[i] = o

(* What a request knows of its invite.  An entry is removed only of an     *)
(* invite that is not live, a key is gone before a member is inserted, and *)
(* no redemption or revocation under way began after another was answered. *)
IdInv(r) ==
    /\ pc[r] \notin {"idle", "loop"} => Known(req[r].id, req[r].org)
    /\ pc[r] = "srem" => key[req[r].id] # "live"
    /\ pc[r] \in {"srem", "insert"} /\ req[r].op \in {"join", "revoke"} => key[req[r].id] = "gone"
    /\ pc[r] # "idle" /\ req[r].op \in {"join", "revoke"} => ~req[r].late

(* What a list has still to show. *)
ListInv(r) ==
    pc[r] # "idle" /\ req[r].op = "list" =>
        /\ \A i \in req[r].todo \cup req[r].expected : Known(i, req[r].org)
        /\ \A i \in req[r].expected : key[i] = "live" =>
              i \in req[r].items \cup req[r].todo \/ (pc[r] = "ttl" /\ i = req[r].id)

ReqInv(r) == PhaseInv(r) /\ IdInv(r) /\ ListInv(r)

IndexInv == \A o \in Orgs : \A i \in index[o] : Known(i, o)

EndedInv ==
    /\ \A i \in answered : key[i] # "unused"
    /\ \A i \in ended : key[i] = "gone"
    /\ \A i \in Ids : key[i] # "unused" => orgOf[i] \in Orgs

IInv == TypeOK /\ (\A r \in Requests : ReqInv(r)) /\ IndexInv /\ EndedInv /\ IndexComplete

USE InvitesAssumption DEF invites, history

-----------------------------------------------------------------------------
LEMMA InitIInv == Init => IInv
BY DEF Init, IInv, TypeOK, ReqInv, PhaseInv, IdInv, ListInv, IndexInv, EndedInv, IndexComplete, Ids

(* What a step of another request or of the surroundings does to keys. *)
KeysAdvance ==
    \A i \in Ids : key[i] # "unused" =>
        /\ key'[i] # "unused"
        /\ orgOf'[i] = orgOf[i]
        /\ key'[i] = "live" => key[i] = "live"
        /\ key[i] = "gone" => key'[i] = "gone"

LEMMA RequestKept ==
    ASSUME TypeOK, NEW r \in Requests, ReqInv(r), KeysAdvance,
           pc'[r] = pc[r], req'[r] = req[r]
    PROVE  ReqInv(r)'
<1>1. PhaseInv(r)'
    BY DEF ReqInv, PhaseInv
<1>2. \A i \in Ids, o \in Orgs : Known(i, o) => Known(i, o)'
    BY DEF KeysAdvance, Known
<1>3. IdInv(r)'
    BY <1>2 DEF ReqInv, IdInv, KeysAdvance, TypeOK, Known
<1>4. ListInv(r)'
    BY DEF ReqInv, ListInv, KeysAdvance, TypeOK, Known
<1> QED
    BY <1>1, <1>3, <1>4 DEF ReqInv

(* A step that only moves one request on. *)
LEMMA OthersKept ==
    ASSUME IInv, NEW r \in Requests, KeysAdvance, TypeOK', ReqInv(r)',
           \A q \in Requests : q # r => pc'[q] = pc[q] /\ req'[q] = req[q]
    PROVE  \A q \in Requests : ReqInv(q)'
<1> SUFFICES ASSUME NEW q \in Requests
             PROVE  ReqInv(q)'
    OBVIOUS
<1>1. CASE q = r
    BY <1>1
<1>2. CASE q # r
    BY <1>2, RequestKept DEF IInv
<1> QED
    BY <1>1, <1>2

USE DEF Goto, Finish, Begin, Take, Store, SkipStaleEntry, DeleteKey, DropIndexEntry, AfterRemoval,
        Stored, OfOrg, Usable

(* The steps that change nothing but the request itself. *)
LocalStep(r) ==
    \/ \E o \in Orgs : ListInvites(r, o) \/ \E i \in Ids : RevokeInvite(r, o, i)
    \/ \E i \in Ids : GetListed(r, i) \/ \E u \in Users : JoinByInvite(r, u, i)
    \/ ReadTtl(r) \/ EndList(r) \/ CheckMember(r) \/ RequestLost(r)

LEMMA LocalKeepsIInv ==
    ASSUME IInv, NEW r \in Requests, LocalStep(r)
    PROVE  IInv'
<1> USE DEF IInv
<1>1. UNCHANGED <<invites, index, member, answered, ended>>
    BY DEF LocalStep, ListInvites, RevokeInvite, GetListed, JoinByInvite, ReadTtl, EndList,
           CheckMember, RequestLost
<1>2. KeysAdvance
    BY <1>1 DEF KeysAdvance
<1>3. /\ pc' \in [Requests -> {"idle", "sadd", "loop", "ttl", "check", "del", "srem", "insert"}]
      /\ \A q \in Requests : q # r => pc'[q] = pc[q] /\ req'[q] = req[q]
    BY DEF TypeOK, LocalStep, ListInvites, RevokeInvite, GetListed, JoinByInvite, ReadTtl, EndList,
           CheckMember, RequestLost
<1>4. req' \in [Requests -> Request \cup {NoRequest}] /\ (pc'[r] # "idle" => req'[r] \in Request)
    <2>1. CASE \E o \in Orgs : ListInvites(r, o)
        BY <2>1 DEF TypeOK, ListInvites, Request
    <2>2. CASE \E o \in Orgs, i \in Ids : RevokeInvite(r, o, i)
        BY <2>2 DEF TypeOK, RevokeInvite, Request
    <2>3. CASE \E i \in Ids : GetListed(r, i)
        <3>1. PICK i \in Ids : GetListed(r, i)
            BY <2>3
        <3>2. req[r] \in Request /\ req' = [req EXCEPT ![r] = [req[r] EXCEPT !.id = i, !.todo = @ \ {i}]]
            BY <3>1 DEF TypeOK, GetListed
        <3>3. [req[r] EXCEPT !.id = i, !.todo = @ \ {i}] \in Request
            BY <3>2 DEF Request
        <3> QED
            BY <3>2, <3>3 DEF TypeOK
    <2>4. CASE \E i \in Ids, u \in Users : JoinByInvite(r, u, i)
        BY <2>4 DEF TypeOK, JoinByInvite, Request, EndedInv
    <2>5. CASE ReadTtl(r)
        <3>1. req[r] \in Request /\ req[r].id \in Ids
            BY <2>5 DEF TypeOK, ReadTtl, ReqInv, IdInv, Known
        <3>2. \/ req' = req
              \/ req' = [req EXCEPT ![r] = [req[r] EXCEPT !.items = @ \cup {req[r].id}]]
            BY <2>5 DEF ReadTtl
        <3>3. [req[r] EXCEPT !.items = @ \cup {req[r].id}] \in Request
            BY <3>1 DEF Request
        <3>4. CASE req' = req
            BY <3>1, <3>4 DEF TypeOK
        <3>5. CASE req' = [req EXCEPT ![r] = [req[r] EXCEPT !.items = @ \cup {req[r].id}]]
            BY <3>3, <3>5 DEF TypeOK
        <3> QED
            BY <3>2, <3>4, <3>5
    <2>6. CASE EndList(r) \/ CheckMember(r) \/ RequestLost(r)
        BY <2>6 DEF TypeOK, EndList, CheckMember, RequestLost
    <2> QED
        BY <2>1, <2>2, <2>3, <2>4, <2>5, <2>6 DEF LocalStep
<1>5. TypeOK'
    <2>1. smooth' \in BOOLEAN
        BY DEF TypeOK, LocalStep, ListInvites, RevokeInvite, GetListed, JoinByInvite, ReadTtl, EndList,
               CheckMember, RequestLost
    <2> QED
        BY <1>1, <1>3, <1>4, <2>1 DEF TypeOK
<1>6. ReqInv(r)'
    <2>1. CASE \E o \in Orgs : ListInvites(r, o)
        <3>1. PICK o \in Orgs : ListInvites(r, o)
            BY <2>1
        <3>2. \A i \in Usable(o) : i \in index[o]
            BY DEF IndexComplete
        <3> QED
            BY <1>1, <3>1, <3>2 DEF TypeOK, ListInvites, ReqInv, PhaseInv, IdInv, ListInv, Known, IndexInv
    <2>2. CASE \E o \in Orgs, i \in Ids : RevokeInvite(r, o, i)
        <3>1. PICK o \in Orgs, i \in Ids : RevokeInvite(r, o, i)
            BY <2>2
        <3>2. pc'[r] = "del" /\ key[i] # "unused" /\ key[i] # "gone" /\ orgOf[i] = o
            BY <3>1 DEF TypeOK, RevokeInvite
        <3>3. /\ req'[r].op = "revoke" /\ req'[r].org = o /\ req'[r].id = i
              /\ req'[r].late = (i \in ended)
            BY <3>1 DEF TypeOK, RevokeInvite
        <3> QED
            BY <1>1, <3>2, <3>3 DEF ReqInv, PhaseInv, IdInv, ListInv, Known, EndedInv
    <2>3. CASE \E i \in Ids : GetListed(r, i)
        <3>1. PICK i \in Ids : GetListed(r, i)
            BY <2>3
        <3>2. /\ pc[r] = "loop" /\ req[r] \in Request /\ req[r].op = "list" /\ i \in req[r].todo
              /\ Known(i, req[r].org)
              /\ pc'[r] = "ttl" \/ (pc'[r] = "srem" /\ key[i] # "live")
            BY <3>1 DEF TypeOK, GetListed, ReqInv, PhaseInv, ListInv, Known
        <3>3. req' = [req EXCEPT ![r] = [req[r] EXCEPT !.id = i, !.todo = @ \ {i}]]
            BY <3>1 DEF GetListed
        <3>4. /\ req'[r].op = "list" /\ req'[r].org = req[r].org /\ req'[r].id = i
              /\ req'[r].todo = req[r].todo \ {i}
              /\ req'[r].items = req[r].items /\ req'[r].expected = req[r].expected
            BY <3>2, <3>3 DEF TypeOK, Request
        <3>5. PhaseInv(r)' /\ IdInv(r)'
            BY <1>1, <3>2, <3>4 DEF PhaseInv, IdInv, Known
        <3>6. ListInv(r)'
            BY <1>1, <3>2, <3>4 DEF ReqInv, ListInv, Known
        <3> QED
            BY <3>5, <3>6 DEF ReqInv
    <2>4. CASE \E i \in Ids, u \in Users : JoinByInvite(r, u, i)
        <3>1. PICK i \in Ids, u \in Users : JoinByInvite(r, u, i)
            BY <2>4
        <3>2. pc'[r] = "check" /\ key[i] # "unused" /\ key[i] # "gone" /\ orgOf[i] = orgOf[i]
            BY <3>1 DEF TypeOK, JoinByInvite
        <3>3. /\ req'[r].op = "join" /\ req'[r].org = orgOf[i] /\ req'[r].id = i /\ req'[r].user = u
              /\ req'[r].late = (i \in ended)
            BY <3>1 DEF TypeOK, JoinByInvite
        <3> QED
            BY <1>1, <3>2, <3>3 DEF ReqInv, PhaseInv, IdInv, ListInv, Known, EndedInv
    <2>5. CASE ReadTtl(r)
        <3>1. pc[r] = "ttl" /\ req[r] \in Request /\ req[r].op = "list" /\ Known(req[r].id, req[r].org)
            BY <2>5 DEF TypeOK, ReadTtl, ReqInv, PhaseInv, IdInv
        <3>2. CASE key[req[r].id] = "live"
            <4>1. pc'[r] = "loop" /\ req' = [req EXCEPT ![r] = [req[r] EXCEPT !.items = @ \cup {req[r].id}]]
                BY <2>5, <3>2 DEF TypeOK, ReadTtl
            <4>2. /\ req'[r].op = "list" /\ req'[r].org = req[r].org /\ req'[r].todo = req[r].todo
                  /\ req'[r].items = req[r].items \cup {req[r].id} /\ req'[r].expected = req[r].expected
                BY <3>1, <4>1 DEF TypeOK, Request
            <4> QED
                BY <1>1, <3>1, <4>1, <4>2 DEF ReqInv, PhaseInv, IdInv, ListInv, Known
        <3>3. CASE key[req[r].id] # "live"
            BY <1>1, <2>5, <3>1, <3>3 DEF TypeOK, ReadTtl, ReqInv, PhaseInv, IdInv, ListInv, Known
        <3> QED
            BY <3>2, <3>3
    <2>6. CASE EndList(r) \/ CheckMember(r) \/ RequestLost(r)
        BY <1>1, <2>6 DEF TypeOK, EndList, CheckMember, RequestLost, ReqInv, PhaseInv, IdInv, ListInv, Known
    <2> QED
        BY <2>1, <2>2, <2>3, <2>4, <2>5, <2>6 DEF LocalStep
<1>7. \A q \in Requests : ReqInv(q)'
    BY <1>2, <1>3, <1>5, <1>6, OthersKept
<1>8. IndexInv' /\ EndedInv' /\ IndexComplete'
    BY <1>1 DEF IndexInv, EndedInv, IndexComplete, Known
<1> QED
    BY <1>5, <1>7, <1>8

(* create_invite: the new invite is nobody else's. *)
LEMMA CreateKeepsIInv ==
    ASSUME IInv, NEW r \in Requests, NEW o \in Orgs, CreateInvite(r, o)
    PROVE  IInv'
<1> USE DEF IInv
<1> DEFINE i == issued + 1
<1>1. /\ i \in Ids /\ key[i] = "unused" /\ issued' = i
      /\ key' = [key EXCEPT ![i] = "live"] /\ orgOf' = [orgOf EXCEPT ![i] = o]
      /\ UNCHANGED <<index, member, answered, ended, smooth>>
    BY DEF TypeOK, CreateInvite, Ids
<1>2. KeysAdvance
    BY <1>1 DEF TypeOK, KeysAdvance
<1>3. /\ pc' = [pc EXCEPT ![r] = "sadd"]
      /\ req'[r].op = "create" /\ req'[r].id = i /\ req'[r].org = o
      /\ req' \in [Requests -> Request \cup {NoRequest}] /\ req'[r] \in Request
      /\ \A q \in Requests : q # r => req'[q] = req[q]
    BY <1>1 DEF TypeOK, CreateInvite, Request
<1>4. TypeOK'
    <2>1. \A j \in Ids : key'[j] = "unused" <=> j > issued'
        BY <1>1 DEF TypeOK, Ids
    <2>2. issued' \in 0..N
        BY <1>1 DEF Ids
    <2> QED
        BY <1>1, <1>3, <2>1, <2>2 DEF TypeOK
<1>5. ReqInv(r)'
    BY <1>1, <1>3 DEF TypeOK, ReqInv, PhaseInv, IdInv, ListInv, Known
<1>6. \A q \in Requests : ReqInv(q)'
    <2>1. \A q \in Requests : q # r => pc'[q] = pc[q] /\ req'[q] = req[q]
        BY <1>3 DEF TypeOK
    <2> QED
        BY <1>2, <1>4, <1>5, <2>1, OthersKept
<1>7. i \notin answered /\ i \notin ended
    BY <1>1 DEF EndedInv
<1>8. IndexInv' /\ EndedInv' /\ IndexComplete'
    BY <1>1, <1>7 DEF TypeOK, IndexInv, EndedInv, IndexComplete, Known
<1> QED
    BY <1>4, <1>6, <1>8

(* The other calls of Redis that change something, and the insert. *)
LEMMA CallKeepsIInv ==
    ASSUME IInv, NEW r \in Requests,
           AddToIndex(r) \/ DeleteInvite(r) \/ RemoveFromIndex(r) \/ InsertMember(r)
    PROVE  IInv'
<1> USE DEF IInv
<1>1. /\ pc[r] # "idle" /\ req[r] \in Request /\ Known(req[r].id, req[r].org)
      /\ PhaseInv(r) /\ IdInv(r)
    BY DEF TypeOK, AddToIndex, DeleteInvite, RemoveFromIndex, InsertMember, ReqInv, IdInv
<1>2. /\ UNCHANGED <<orgOf, issued, smooth>>
      /\ key' = key \/ key' = [key EXCEPT ![req[r].id] = "gone"]
    BY DEF AddToIndex, DeleteInvite, RemoveFromIndex, InsertMember
<1>3. KeysAdvance
    BY <1>1, <1>2 DEF TypeOK, KeysAdvance
<1>4. TypeOK'
    <2>1. CASE AddToIndex(r)
        BY <1>1, <2>1 DEF TypeOK, AddToIndex, Known, Request
    <2>2. CASE DeleteInvite(r)
        BY <1>1, <2>2 DEF TypeOK, DeleteInvite, Known
    <2>3. CASE RemoveFromIndex(r)
        BY <1>1, <2>3 DEF TypeOK, RemoveFromIndex, Known
    <2>4. CASE InsertMember(r)
        <3>1. req[r].user \in Users
            BY <1>1, <2>4 DEF InsertMember, PhaseInv
        <3> QED
            BY <1>1, <2>4, <3>1 DEF TypeOK, InsertMember, Known
    <2> QED
        BY <2>1, <2>2, <2>3, <2>4
<1>5. \A q \in Requests : ReqInv(q)'
    <2>1. ReqInv(r)'
        BY <1>1, <1>2 DEF TypeOK, AddToIndex, DeleteInvite, RemoveFromIndex, InsertMember,
           ReqInv, PhaseInv, IdInv, ListInv, Known
    <2>2. \A q \in Requests : q # r => pc'[q] = pc[q] /\ req'[q] = req[q]
        BY DEF TypeOK, AddToIndex, DeleteInvite, RemoveFromIndex, InsertMember
    <2> QED
        BY <1>3, <1>4, <2>1, <2>2, OthersKept
<1>6. IndexInv'
    <2>1. \A o \in Orgs : \A i \in index'[o] :
              i \in index[o] \/ (i = req[r].id /\ o = req[r].org)
        BY DEF TypeOK, AddToIndex, DeleteInvite, RemoveFromIndex, InsertMember
    <2>2. \A o \in Orgs : \A i \in index'[o] : Known(i, o)
        BY <1>1, <2>1 DEF IndexInv
    <2> QED
        BY <1>2, <1>3, <2>2 DEF IndexInv, Known, KeysAdvance
<1>7. EndedInv'
    <2>1. \A i \in answered' : i \in answered \/ i = req[r].id
        BY DEF AddToIndex, DeleteInvite, RemoveFromIndex, InsertMember
    <2>2. \A i \in ended' : i \in ended \/ (i = req[r].id /\ key[i] = "gone")
        BY <1>1 DEF AddToIndex, DeleteInvite, RemoveFromIndex, InsertMember, PhaseInv, IdInv
    <2> QED
        BY <1>1, <1>2, <1>3, <2>1, <2>2 DEF TypeOK, EndedInv, KeysAdvance, Known
<1>8. IndexComplete'
    <2>1. CASE AddToIndex(r)
        BY <1>1, <2>1 DEF TypeOK, AddToIndex, IndexComplete, EndedInv, Known
    <2>2. CASE DeleteInvite(r)
        BY <1>1, <2>2 DEF TypeOK, DeleteInvite, IndexComplete, Known
    <2>3. CASE RemoveFromIndex(r)
        BY <1>1, <2>3 DEF TypeOK, RemoveFromIndex, IndexComplete, IdInv, EndedInv, Known
    <2>4. CASE InsertMember(r)
        BY <2>4 DEF InsertMember, IndexComplete
    <2> QED
        BY <2>1, <2>2, <2>3, <2>4
<1> QED
    BY <1>4, <1>5, <1>6, <1>7, <1>8

LEMMA SurroundingsKeepIInv ==
    ASSUME IInv, \/ \E o \in Orgs, u \in Users : MembersChange(o, u)
                 \/ \E i \in Ids : Expire(i)
                 \/ UNCHANGED vars
    PROVE  IInv'
<1> USE DEF IInv
<1>1. UNCHANGED <<orgOf, issued, index, pc, req, answered, ended>>
    BY DEF MembersChange, Expire, vars
<1>2. KeysAdvance
    BY DEF TypeOK, KeysAdvance, MembersChange, Expire, vars
<1>3. TypeOK'
    <2>1. member' \in [Orgs -> SUBSET Users] /\ smooth' \in BOOLEAN
        <3>1. CASE \E o \in Orgs, u \in Users : MembersChange(o, u)
            BY <3>1 DEF TypeOK, MembersChange
        <3>2. CASE (\E i \in Ids : Expire(i)) \/ UNCHANGED vars
            BY <3>2 DEF TypeOK, Expire, vars
        <3> QED
            BY <3>1, <3>2
    <2>2. /\ key' \in [Ids -> {"unused", "live", "ending", "gone"}]
          /\ \A i \in Ids : key'[i] = "unused" <=> key[i] = "unused"
        BY DEF TypeOK, MembersChange, Expire, vars
    <2> QED
        BY <1>1, <2>1, <2>2 DEF TypeOK
<1>4. \A q \in Requests : ReqInv(q)'
    BY <1>1, <1>2, RequestKept
<1>5. IndexInv'
    BY <1>1, <1>2 DEF TypeOK, KeysAdvance, IndexInv, Known
<1>6. EndedInv'
    BY <1>1, <1>2, <1>3 DEF TypeOK, KeysAdvance, EndedInv
<1>7. IndexComplete'
    BY <1>1, <1>2 DEF TypeOK, KeysAdvance, EndedInv, IndexComplete
<1> QED
    BY <1>3, <1>4, <1>5, <1>6, <1>7

(* The invariant of every behaviour. *)
THEOREM Invariance == Spec => []IInv
<1>1. IInv /\ [Next]_vars => IInv'
    BY LocalKeepsIInv, CreateKeepsIInv, CallKeepsIInv, SurroundingsKeepIInv DEF Next, LocalStep
<1> QED
    BY InitIInv, <1>1, PTL DEF Spec

-----------------------------------------------------------------------------
(* Every variable keeps its type. *)
THEOREM TypeCorrect == Spec => []TypeOK
<1>1. IInv => TypeOK
    BY DEF IInv
<1> QED
    BY <1>1, Invariance, PTL

(* Whoever was given an invite's token can see and revoke the invite as    *)
(* long as it is usable (service.py:193-194, 205-214).                     *)
THEOREM UsableInvitesAreIndexed == Spec => []IndexComplete
<1>1. IInv => IndexComplete
    BY DEF IInv
<1> QED
    BY <1>1, Invariance, PTL

(* The scan of list_invites misses nothing that stays usable.              *)
THEOREM ListsAreComplete == Spec => ListShowsUsable
<1>1. IInv /\ [Next]_vars =>
        [\A r \in Requests : EndList(r) =>
            \A i \in req[r].expected : key[i] = "live" => i \in req[r].items]_vars
    BY DEF IInv, ReqInv, PhaseInv, ListInv, EndList
<1> QED
    BY <1>1, Invariance, PTL DEF Spec, ListShowsUsable

(* After an answered redemption or revocation an invite admits nobody new. *)
THEOREM EndedInvitesStayEnded == Spec => EndedInviteAdmitsNobody
<1>1. IInv /\ [Next]_vars => [\A r \in Requests : InsertMember(r) => ~req[r].late]_vars
    BY DEF IInv, ReqInv, PhaseInv, IdInv, InsertMember
<1> QED
    BY <1>1, Invariance, PTL DEF Spec, EndedInviteAdmitsNobody

-----------------------------------------------------------------------------
(* As long as nothing expires and no request is lost, an entry of an index *)
(* is live or some request is about to remove it: keys are deleted only    *)
(* after the creation was answered, so no entry is added to a deleted key. *)

NewApart(r) ==
    pc[r] = "sadd" => /\ key[req[r].id] = "live" /\ req[r].id \notin answered
                      /\ \A q \in Requests \ {r} : pc[q] = "sadd" => req[q].id # req[r].id

EndsAnswered(r) ==
    pc[r] # "idle" /\ req[r].op \in {"join", "revoke"} => req[r].id \in answered

Removing(r, o, i) == pc[r] = "srem" /\ req[r].id = i /\ req[r].org = o

SmoothInv ==
    smooth => /\ \A i \in Ids : key[i] # "ending"
              /\ \A r \in Requests : NewApart(r) /\ EndsAnswered(r)
              /\ \A o \in Orgs : \A i \in index[o] :
                     key[i] = "live" \/ \E r \in Requests : Removing(r, o, i)

(* A step after which no request has begun to create or to end an invite. *)
LEMMA SmoothKept ==
    ASSUME SmoothInv, smooth, NEW r \in Requests, UNCHANGED <<key, index, answered>>,
           \A q \in Requests \ {r} : pc'[q] = pc[q] /\ req'[q] = req[q],
           pc[r] # "srem", pc'[r] # "sadd", EndsAnswered(r)'
    PROVE  SmoothInv'
<1>1. \A q \in Requests : NewApart(q)' /\ EndsAnswered(q)'
    BY DEF SmoothInv, NewApart, EndsAnswered
<1>2. \A o \in Orgs, i \in Ids, q \in Requests : Removing(q, o, i) => Removing(q, o, i)'
    BY DEF Removing
<1>3. \A o \in Orgs : \A i \in index[o] : key[i] = "live" \/ \E q \in Requests : Removing(q, o, i)'
    BY DEF SmoothInv, Removing
<1> QED
    BY <1>1, <1>3 DEF SmoothInv

LEMMA LocalKeepsSmooth ==
    ASSUME IInv, SmoothInv, NEW r \in Requests, LocalStep(r)
    PROVE  SmoothInv'
<1> SUFFICES ASSUME smooth'
             PROVE  SmoothInv'
    BY DEF SmoothInv
<1> USE DEF IInv
<1>1. smooth /\ UNCHANGED <<key, index, answered>>
    BY DEF LocalStep, ListInvites, RevokeInvite, GetListed, JoinByInvite, ReadTtl, EndList,
           CheckMember, RequestLost, TypeOK
<1>2. \A q \in Requests \ {r} : pc'[q] = pc[q] /\ req'[q] = req[q]
    BY DEF TypeOK, LocalStep, ListInvites, RevokeInvite, GetListed, JoinByInvite, ReadTtl, EndList,
           CheckMember, RequestLost
<1>3. pc[r] # "srem" /\ pc'[r] # "sadd"
    BY <1>1 DEF TypeOK, LocalStep, ListInvites, RevokeInvite, GetListed, JoinByInvite, ReadTtl, EndList,
           CheckMember, RequestLost
<1>4. EndsAnswered(r)'
    <2>1. CASE \E o \in Orgs : ListInvites(r, o)
        BY <2>1 DEF TypeOK, ListInvites, EndsAnswered
    <2>2. CASE \E o \in Orgs, i \in Ids : RevokeInvite(r, o, i)
        BY <2>2 DEF TypeOK, RevokeInvite, EndsAnswered
    <2>3. CASE \E i \in Ids, u \in Users : JoinByInvite(r, u, i)
        BY <2>3 DEF TypeOK, JoinByInvite, EndsAnswered
    <2>4. CASE (\E i \in Ids : GetListed(r, i)) \/ ReadTtl(r)
        <3>1. req[r].op = "list" /\ req[r] \in Request
            BY <2>4 DEF TypeOK, GetListed, ReadTtl, ReqInv, PhaseInv
        <3>2. \/ req' = req
              \/ \E i \in Ids : req' = [req EXCEPT ![r] = [req[r] EXCEPT !.id = i, !.todo = @ \ {i}]]
              \/ req' = [req EXCEPT ![r] = [req[r] EXCEPT !.items = @ \cup {req[r].id}]]
            BY <2>4 DEF GetListed, ReadTtl
        <3>3. CASE req' = req
            BY <3>1, <3>3 DEF EndsAnswered
        <3>4. ASSUME NEW i \in Ids, req' = [req EXCEPT ![r] = [req[r] EXCEPT !.id = i, !.todo = @ \ {i}]]
              PROVE  req'[r].op = "list"
            BY <3>1, <3>4 DEF TypeOK, Request
        <3>5. CASE req' = [req EXCEPT ![r] = [req[r] EXCEPT !.items = @ \cup {req[r].id}]]
            <4>1. req'[r].op = "list"
                BY <3>1, <3>5 DEF TypeOK, Request
            <4> QED
                BY <4>1 DEF EndsAnswered
        <3> QED
            BY <3>2, <3>3, <3>4, <3>5 DEF EndsAnswered
    <2>5. CASE EndList(r) \/ CheckMember(r) \/ RequestLost(r)
        BY <1>1, <2>5 DEF TypeOK, EndList, CheckMember, RequestLost, EndsAnswered, SmoothInv
    <2> QED
        BY <2>1, <2>2, <2>3, <2>4, <2>5 DEF LocalStep
<1> QED
    BY <1>1, <1>2, <1>3, <1>4, SmoothKept

LEMMA CreateKeepsSmooth ==
    ASSUME IInv, SmoothInv, NEW r \in Requests, NEW o \in Orgs, CreateInvite(r, o)
    PROVE  SmoothInv'
<1> SUFFICES ASSUME smooth'
             PROVE  SmoothInv'
    BY DEF SmoothInv
<1> USE DEF IInv
<1> DEFINE i == issued + 1
<1>1. /\ i \in Ids /\ key[i] = "unused" /\ key' = [key EXCEPT ![i] = "live"]
      /\ smooth /\ UNCHANGED <<index, answered>>
    BY DEF TypeOK, CreateInvite, Ids
<1>2. /\ pc[r] = "idle" /\ pc'[r] = "sadd" /\ req'[r].id = i /\ req'[r].op = "create"
      /\ \A q \in Requests \ {r} : pc'[q] = pc[q] /\ req'[q] = req[q]
    BY DEF TypeOK, CreateInvite
<1> HIDE DEF i
<1>3. i \notin answered /\ \A q \in Requests : pc[q] = "sadd" => req[q].id # i
    BY <1>1 DEF EndedInv, SmoothInv, NewApart
<1>4. \A q \in Requests : NewApart(q)' /\ EndsAnswered(q)'
    BY <1>1, <1>2, <1>3 DEF SmoothInv, NewApart, EndsAnswered, TypeOK, ReqInv, IdInv, Known
<1>5. \A p \in Orgs : \A j \in index[p] : j \in Ids /\ j # i
    BY <1>1 DEF IndexInv, Known
<1>6. \A p \in Orgs : \A j \in index'[p] : key'[j] = "live" \/ \E q \in Requests : Removing(q, p, j)'
    BY <1>1, <1>2, <1>5 DEF SmoothInv, Removing, TypeOK
<1> QED
    BY <1>1, <1>4, <1>6 DEF SmoothInv, TypeOK

LEMMA CallKeepsSmooth ==
    ASSUME IInv, SmoothInv, NEW r \in Requests,
           AddToIndex(r) \/ DeleteInvite(r) \/ RemoveFromIndex(r) \/ InsertMember(r)
    PROVE  SmoothInv'
<1> SUFFICES ASSUME smooth'
             PROVE  SmoothInv'
    BY DEF SmoothInv
<1> USE DEF IInv
<1>1. smooth /\ req[r] \in Request /\ pc[r] # "idle" /\ Known(req[r].id, req[r].org)
    BY DEF TypeOK, AddToIndex, DeleteInvite, RemoveFromIndex, InsertMember, ReqInv, IdInv
<1>2. /\ \A j \in Ids : key[j] # "ending"
      /\ \A q \in Requests : NewApart(q) /\ EndsAnswered(q)
      /\ \A p \in Orgs : \A j \in index[p] : key[j] = "live" \/ \E q \in Requests : Removing(q, p, j)
    BY <1>1 DEF SmoothInv
<1>3. \A q \in Requests \ {r} : pc'[q] = pc[q] /\ req'[q] = req[q]
    BY DEF TypeOK, AddToIndex, DeleteInvite, RemoveFromIndex, InsertMember
<1>4. CASE AddToIndex(r)
    <2>1. /\ pc[r] = "sadd" /\ pc'[r] = "idle" /\ UNCHANGED key
          /\ index' = [index EXCEPT ![req[r].org] = @ \cup {req[r].id}]
          /\ answered' = answered \cup {req[r].id} /\ key[req[r].id] = "live"
        BY <1>2, <1>4 DEF TypeOK, AddToIndex, NewApart
    <2>2. \A q \in Requests : NewApart(q)' /\ EndsAnswered(q)'
        BY <1>2, <1>3, <2>1 DEF NewApart, EndsAnswered
    <2>3. \A p \in Orgs : \A j \in index'[p] : key[j] = "live" \/ \E q \in Requests : Removing(q, p, j)
        BY <1>2, <2>1 DEF TypeOK
    <2>4. \A p \in Orgs : \A j \in index'[p] : key'[j] = "live" \/ \E q \in Requests : Removing(q, p, j)'
        BY <1>3, <2>1, <2>3 DEF Removing
    <2> QED
        BY <1>2, <2>1, <2>2, <2>4 DEF SmoothInv
<1>5. CASE DeleteInvite(r)
    <2> DEFINE i == req[r].id
    <2>1. /\ pc[r] = "del" /\ pc'[r] = "srem" /\ req' = req /\ UNCHANGED <<index, answered>>
          /\ i \in Ids /\ key' = [key EXCEPT ![i] = "gone"]
          /\ i \in answered /\ orgOf[i] = req[r].org
        BY <1>1, <1>2, <1>5 DEF TypeOK, DeleteInvite, EndsAnswered, ReqInv, PhaseInv, Known
    <2>2. \A q \in Requests : NewApart(q)' /\ EndsAnswered(q)'
        BY <1>2, <1>3, <2>1 DEF NewApart, EndsAnswered, TypeOK
    <2>3. \A p \in Orgs : \A j \in index[p] : j \in Ids /\ orgOf[j] = p
        BY DEF IndexInv, Known
    <2>4. ASSUME NEW p \in Orgs, NEW j \in index[p]
          PROVE  key'[j] = "live" \/ \E q \in Requests : Removing(q, p, j)'
        <3>1. CASE j = i
            BY <2>1, <2>3, <3>1 DEF Removing
        <3>2. CASE j # i
            <4>1. key'[j] = key[j]
                BY <2>1, <2>3, <3>2 DEF TypeOK
            <4>2. \A q \in Requests : Removing(q, p, j) => Removing(q, p, j)'
                BY <1>3, <2>1 DEF Removing
            <4> QED
                BY <1>2, <4>1, <4>2
        <3> QED
            BY <3>1, <3>2
    <2> QED
        BY <1>2, <2>1, <2>2, <2>4 DEF SmoothInv, TypeOK
<1>6. CASE RemoveFromIndex(r)
    <2>1. /\ pc[r] = "srem" /\ pc'[r] \in {"loop", "insert", "idle"} /\ UNCHANGED <<key, answered>>
          /\ index' = [index EXCEPT ![req[r].org] = @ \ {req[r].id}]
          /\ pc'[r] # "idle" => req'[r] = req[r]
        BY <1>6 DEF TypeOK, RemoveFromIndex
    <2>2. \A q \in Requests : NewApart(q)' /\ EndsAnswered(q)'
        BY <1>1, <1>2, <1>3, <2>1 DEF NewApart, EndsAnswered
    <2>3. \A p \in Orgs : \A j \in index'[p] :
              j \in index[p] /\ (p = req[r].org => j # req[r].id)
        BY <2>1 DEF TypeOK
    <2>4. \A p \in Orgs : \A j \in index'[p] : key'[j] = "live" \/ \E q \in Requests : Removing(q, p, j)'
        BY <1>2, <1>3, <2>1, <2>3 DEF Removing
    <2> QED
        BY <1>2, <2>1, <2>2, <2>4 DEF SmoothInv
<1>7. CASE InsertMember(r)
    <2>1. pc[r] = "insert" /\ pc'[r] = "idle" /\ UNCHANGED <<key, index, answered>>
        BY <1>7 DEF TypeOK, InsertMember
    <2>2. EndsAnswered(r)'
        BY <2>1 DEF EndsAnswered
    <2> QED
        BY <1>1, <1>3, <2>1, <2>2, SmoothKept
<1> QED
    BY <1>4, <1>5, <1>6, <1>7

LEMMA SurroundingsKeepSmooth ==
    ASSUME SmoothInv, \/ \E o \in Orgs, u \in Users : MembersChange(o, u)
                      \/ \E i \in Ids : Expire(i)
                      \/ UNCHANGED vars
    PROVE  SmoothInv'
<1>1. CASE \E i \in Ids : Expire(i)
    BY <1>1 DEF Expire, SmoothInv
<1>2. CASE (\E o \in Orgs, u \in Users : MembersChange(o, u)) \/ UNCHANGED vars
    <2>1. UNCHANGED <<key, index, answered, pc, req, smooth>>
        BY <1>2 DEF MembersChange, vars
    <2> QED
        BY <2>1 DEF SmoothInv, NewApart, EndsAnswered, Removing
<1> QED
    BY <1>1, <1>2

(* When no request is under way, the index of an organization holds only   *)
(* invites that can be redeemed, unless one expired or a request was lost. *)
THEOREM NoLeftovers == Spec => []IndexHasNoLeftovers
<1>1. Init => SmoothInv
    BY DEF Init, SmoothInv, NewApart, EndsAnswered
<1>2. IInv /\ SmoothInv /\ [Next]_vars => SmoothInv'
    BY LocalKeepsSmooth, CreateKeepsSmooth, CallKeepsSmooth, SurroundingsKeepSmooth DEF Next, LocalStep
<1>3. SmoothInv => IndexHasNoLeftovers
    BY DEF SmoothInv, IndexHasNoLeftovers, Removing
<1> QED
    BY <1>1, <1>2, <1>3, Invariance, PTL DEF Spec
=============================================================================
