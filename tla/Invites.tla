------------------------------- MODULE Invites -------------------------------
(***************************************************************************)
(* Invites to organizations (src/app/modules/organizations/service.py).    *)
(* Redis holds one expiring key per invite and, for each organization, the *)
(* set of its invites (the index), which does not expire.  No transaction  *)
(* spans two calls of Redis: a request takes one step per call, and any    *)
(* other request may come between them.                                    *)
(*                                                                         *)
(* The requester's role is read before the first call of Redis, and a      *)
(* request that is refused there leaves no trace; the first step of a      *)
(* request is its first call.  Roles of members are left to OrgMembership. *)
(* Invites are numbered in the order in which they are stored.             *)
(*                                                                         *)
(* StoreSameId, StopAtStaleEntry, KeepKey, KeepIndexEntry and DropIndex    *)
(* are slips of the operator that follows them and are used by no action.  *)
(***************************************************************************)
EXTENDS Naturals

CONSTANTS
    Orgs, Users, Requests,
    N,        \* bound: the invites created in a behaviour
    NoOrg

ASSUME InvitesAssumption == N \in Nat /\ NoOrg \notin Orgs

Ids == 1..N

VARIABLES
    key,       \* the Redis key of each invite; "ending": TTL answers 0,
               \* since Redis rounds the last half second down
    orgOf,     \* the organization in its payload
    index,     \* the index of each organization
    issued,    \* how many invites were stored
    member,    \* the committed member rows
    pc, req,   \* the requests
    answered,  \* history: the invites whose creation was answered
    ended,     \* history: those whose redemption or revocation was answered
    smooth     \* history: no invite expired, no request was lost

invites == <<key, orgOf, issued>>
history == <<answered, ended, smooth>>
vars == <<invites, index, member, pc, req, history>>

(* todo, items: the loop of list_invites; expected: what could be redeemed *)
(* when it started; late: the invite had ended before this request began.  *)
Request == [op : {"create", "list", "revoke", "join"}, org : Orgs, id : Ids \cup {0},
            user : Users \cup {NoOrg}, todo : SUBSET Ids, items : SUBSET Ids,
            expected : SUBSET Ids, late : BOOLEAN]
NoRequest == [op |-> "none"]

TypeOK ==
    /\ key \in [Ids -> {"unused", "live", "ending", "gone"}]
    /\ orgOf \in [Ids -> Orgs \cup {NoOrg}]
    /\ index \in [Orgs -> SUBSET Ids]
    /\ issued \in 0..N
    /\ member \in [Orgs -> SUBSET Users]
    /\ pc \in [Requests -> {"idle", "sadd", "loop", "ttl", "check", "del", "srem", "insert"}]
    /\ req \in [Requests -> Request \cup {NoRequest}]
    /\ \A r \in Requests : pc[r] # "idle" => req[r] \in Request
    /\ answered \subseteq Ids /\ ended \subseteq Ids /\ smooth \in BOOLEAN
    /\ \A i \in Ids : key[i] = "unused" <=> i > issued

Init ==
    /\ key = [i \in Ids |-> "unused"]
    /\ orgOf = [i \in Ids |-> NoOrg]
    /\ index = [o \in Orgs |-> {}]
    /\ issued = 0
    /\ member = [o \in Orgs |-> {}]
    /\ pc = [r \in Requests |-> "idle"]
    /\ req = [r \in Requests |-> NoRequest]
    /\ answered = {} /\ ended = {} /\ smooth = TRUE

(* What GET returns a payload for. *)
Stored(i) == key[i] \in {"live", "ending"}

OfOrg(o, i) == Stored(i) /\ orgOf[i] = o

Usable(o) == {i \in answered : key[i] = "live" /\ orgOf[i] = o}

Goto(r, phase) == pc' = [pc EXCEPT ![r] = phase]

Finish(r) == Goto(r, "idle") /\ req' = [req EXCEPT ![r] = NoRequest]

Begin(r, op, phase, o, i, u) ==
    /\ pc[r] = "idle"
    /\ Goto(r, phase)
    /\ req' = [req EXCEPT ![r] =
                [op |-> op, org |-> o, id |-> i, user |-> u,
                 todo |-> IF op = "list" THEN index[o] ELSE {}, items |-> {},
                 expected |-> IF op = "list" THEN Usable(o) ELSE {},
                 late |-> i \in ended]]

-----------------------------------------------------------------------------
(* create_invite: SET of the invite, then SADD to the index *)

StoreSameId(r, o) ==
    /\ issued < N
    /\ key' = [key EXCEPT ![issued + 1] = "live"]
    /\ orgOf' = [orgOf EXCEPT ![issued + 1] = o]
    /\ UNCHANGED issued

Store(r, o) ==
    /\ issued < N
    /\ issued' = issued + 1
    /\ key' = [key EXCEPT ![issued'] = "live"]
    /\ orgOf' = [orgOf EXCEPT ![issued'] = o]

CreateInvite(r, o) ==
    /\ Begin(r, "create", "sadd", o, issued + 1, NoOrg)
    /\ Store(r, o)
    /\ UNCHANGED <<index, member, history>>

AddToIndex(r) ==
    /\ pc[r] = "sadd"
    /\ index' = [index EXCEPT ![req[r].org] = @ \cup {req[r].id}]
    /\ answered' = answered \cup {req[r].id}
    /\ Finish(r)
    /\ UNCHANGED <<invites, member, ended, smooth>>

-----------------------------------------------------------------------------
(* list_invites: SMEMBERS, then GET and TTL of every entry, and SREM of    *)
(* those that are gone                                                     *)

ListInvites(r, o) ==
    /\ Begin(r, "list", "loop", o, 0, NoOrg)
    /\ UNCHANGED <<invites, index, member, history>>

Take(r, i, phase) ==
    /\ Goto(r, phase)
    /\ req' = [req EXCEPT ![r].id = i, ![r].todo = @ \ {i}]

StopAtStaleEntry(r, i) ==
    /\ Goto(r, "srem")
    /\ req' = [req EXCEPT ![r].id = i, ![r].todo = {}]

SkipStaleEntry(r, i) == Take(r, i, "srem")

(* An invite's organization never differs from that of the index, yet the *)
(* code compares them.                                                     *)
GetListed(r, i) ==
    /\ pc[r] = "loop"
    /\ i \in req[r].todo
    /\ \/ OfOrg(req[r].org, i) /\ Take(r, i, "ttl")
       \/ ~OfOrg(req[r].org, i) /\ SkipStaleEntry(r, i)
    /\ UNCHANGED <<invites, index, member, history>>

ReadTtl(r) ==
    /\ pc[r] = "ttl"
    /\ \/ /\ key[req[r].id] = "live"
          /\ Goto(r, "loop")
          /\ req' = [req EXCEPT ![r].items = @ \cup {req[r].id}]
       \/ key[req[r].id] # "live" /\ Goto(r, "srem") /\ UNCHANGED req
    /\ UNCHANGED <<invites, index, member, history>>

EndList(r) ==
    /\ pc[r] = "loop"
    /\ req[r].todo = {}
    /\ Finish(r)
    /\ UNCHANGED <<invites, index, member, history>>

-----------------------------------------------------------------------------
(* revoke_invite: GET, DEL, SREM; join_by_invite: GET, the member row, DEL, *)
(* SREM, INSERT                                                            *)

RevokeInvite(r, o, i) ==
    /\ i \in answered
    /\ OfOrg(o, i)
    /\ Begin(r, "revoke", "del", o, i, NoOrg)
    /\ UNCHANGED <<invites, index, member, history>>

JoinByInvite(r, u, i) ==
    /\ i \in answered
    /\ Stored(i)
    /\ Begin(r, "join", "check", orgOf[i], i, u)
    /\ UNCHANGED <<invites, index, member, history>>

IsMember(r) == req[r].user \in member[req[r].org]

CheckMember(r) ==
    /\ pc[r] = "check"
    /\ \/ IsMember(r) /\ Finish(r)
       \/ ~IsMember(r) /\ Goto(r, "del") /\ UNCHANGED req
    /\ UNCHANGED <<invites, index, member, history>>

KeepKey(r) == UNCHANGED key

DeleteKey(r) == key' = [key EXCEPT ![req[r].id] = "gone"]

(* Nobody looks at how many keys redis_del has deleted. *)
DeleteInvite(r) ==
    /\ pc[r] = "del"
    /\ DeleteKey(r)
    /\ Goto(r, "srem")
    /\ UNCHANGED <<orgOf, issued, index, member, req, history>>

AfterRemoval(r) ==
    \/ req[r].op = "list" /\ Goto(r, "loop") /\ UNCHANGED <<req, ended>>
    \/ req[r].op = "join" /\ Goto(r, "insert") /\ UNCHANGED <<req, ended>>
    \/ req[r].op = "revoke" /\ Finish(r) /\ ended' = ended \cup {req[r].id}

KeepIndexEntry(r) ==
    index' = [index EXCEPT ![req[r].org] = IF req[r].op = "join" THEN @ ELSE @ \ {req[r].id}]

DropIndex(r) == index' = [index EXCEPT ![req[r].org] = {}]

DropIndexEntry(r) == index' = [index EXCEPT ![req[r].org] = @ \ {req[r].id}]

RemoveFromIndex(r) ==
    /\ pc[r] = "srem"
    /\ DropIndexEntry(r)
    /\ AfterRemoval(r)
    /\ UNCHANGED <<invites, member, answered, smooth>>

(* INSERT and COMMIT.  If the user has become a member meanwhile, or the   *)
(* organization is gone, a key refuses the row: the members are the same.  *)
InsertMember(r) ==
    /\ pc[r] = "insert"
    /\ \/ member' = [member EXCEPT ![req[r].org] = @ \cup {req[r].user}]
       \/ UNCHANGED member
    /\ ended' = ended \cup {req[r].id}
    /\ Finish(r)
    /\ UNCHANGED <<invites, index, answered, smooth>>

-----------------------------------------------------------------------------
(* Surroundings *)

(* add_member, remove_member and the end of the organization *)
MembersChange(o, u) ==
    /\ \/ member' = [member EXCEPT ![o] = @ \cup {u}]
       \/ member' = [member EXCEPT ![o] = @ \ {u}]
    /\ UNCHANGED <<invites, index, pc, req, history>>

RequestLost(r) ==
    /\ pc[r] # "idle"
    /\ Finish(r)
    /\ smooth' = FALSE
    /\ UNCHANGED <<invites, index, member, answered, ended>>

Expire(i) ==
    /\ \/ key[i] = "live" /\ key' = [key EXCEPT ![i] = "ending"]
       \/ key[i] = "ending" /\ key' = [key EXCEPT ![i] = "gone"]
    /\ smooth' = FALSE
    /\ UNCHANGED <<orgOf, issued, index, member, pc, req, answered, ended>>

Next ==
    \/ \E r \in Requests, o \in Orgs :
        \/ CreateInvite(r, o)
        \/ ListInvites(r, o)
        \/ \E i \in Ids : RevokeInvite(r, o, i)
    \/ \E r \in Requests, i \in Ids :
        \/ GetListed(r, i)
        \/ \E u \in Users : JoinByInvite(r, u, i)
    \/ \E r \in Requests :
        \/ AddToIndex(r)
        \/ ReadTtl(r)
        \/ EndList(r)
        \/ CheckMember(r)
        \/ DeleteInvite(r)
        \/ RemoveFromIndex(r)
        \/ InsertMember(r)
        \/ RequestLost(r)
    \/ \E o \in Orgs, u \in Users : MembersChange(o, u)
    \/ \E i \in Ids : Expire(i)

Spec == Init /\ [][Next]_vars

-----------------------------------------------------------------------------
(* Properties *)

(* Whoever was given an invite's token can see and revoke the invite: the  *)
(* pruning of list_invites never takes a usable invite out of the index,   *)
(* since create_invite stores the invite before its entry.                 *)
IndexComplete == \A i \in answered : key[i] = "live" => i \in index[orgOf[i]]

(* Invites that were redeemed or revoked leave no entry behind, in         *)
(* whatever order the calls of overlapping requests come.                  *)
IndexHasNoLeftovers ==
    smooth /\ (\A r \in Requests : pc[r] = "idle") =>
        \A o \in Orgs : \A i \in index[o] : key[i] = "live"

(* A list shows every invite that was usable from its start to its end,    *)
(* although it reads entry after entry and removes some on its way.        *)
ListShowsUsable ==
    [][\A r \in Requests : EndList(r) =>
          \A i \in req[r].expected : key[i] = "live" => i \in req[r].items]_vars

(* Redemptions that overlap may both succeed, but once one is answered, or *)
(* a revocation, no request that begins later is admitted.                 *)
EndedInviteAdmitsNobody == [][\A r \in Requests : InsertMember(r) => ~req[r].late]_vars
=============================================================================
