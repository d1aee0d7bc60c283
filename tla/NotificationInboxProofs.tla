----------------------- MODULE NotificationInboxProofs -----------------------
(***************************************************************************)
(* Proofs about NotificationInbox, for any notifications, dispatchers,     *)
(* requests and sizes of pages.                                            *)
(*                                                                         *)
(* Marks is what a mark_all_read knows: every row that was unread when it  *)
(* began it has still to look at, has locked, or is read.                  *)
(***************************************************************************)
EXTENDS NotificationInbox, FiniteSetTheorems, FunctionTheorems, TLAPS

Marks(r) ==
    /\ pc[r] \in {"idle", "mark"} => Written(r) = {}
    /\ \A n \in todo[r] : box[n] # "absent"
    /\ \A n \in Written(r) : box[n] # "absent"
    /\ pc[r] \in {"mark_all", "commit_all"} =>
           /\ \A n \in Written(r) : box[n] = "unread"
           /\ \A n \in unread[r] : n \in todo[r] \cup Written(r) \/ box[n] = "read"
    /\ pc[r] = "commit_all" => todo[r] = {}

IInv == TypeOK /\ \A r \in Requests : Marks(r)

USE NobodyIsNoOne, LimitAssumption, MaxTimeAssumption
USE DEF dispatchVars, requestVars, walkVars, Walk, Filters

-----------------------------------------------------------------------------
LEMMA InitIInv == Init => IInv
BY DEF Init, IInv, TypeOK, Marks, Written, NoWalk

(* The walk is a record of its type whatever it does. *)
LEMMA WalkTyped ==
    ASSUME TypeOK
    PROVE  /\ NoWalk \in Walk
           /\ [walk EXCEPT !.quiet = FALSE] \in Walk
           /\ \A f \in Filters :
                  [at |-> "total", is_read |-> f, offset |-> 0, total |-> 0,
                   first |-> Matching(f), quiet |-> TRUE] \in Walk
           /\ \A a \in {"end", "total"} : [walk EXCEPT !.at = a, !.offset = @ + Limit] \in Walk
<1>1. walk \in Walk
    BY DEF TypeOK
<1>2. NoWalk \in Walk
    BY DEF NoWalk
<1>3. [walk EXCEPT !.quiet = FALSE] \in Walk
    BY <1>1
<1>4. ASSUME NEW f \in Filters
      PROVE  [at |-> "total", is_read |-> f, offset |-> 0, total |-> 0,
              first |-> Matching(f), quiet |-> TRUE] \in Walk
    <2>1. Matching(f) \in SUBSET Notes
        BY DEF Matching
    <2>2. ASSUME NEW m \in SUBSET Notes, NEW q \in BOOLEAN, NEW o \in Nat
          PROVE  [at |-> "total", is_read |-> f, offset |-> o, total |-> o, first |-> m, quiet |-> q] \in Walk
        BY Zenon
    <2>3. 0 \in Nat /\ TRUE \in BOOLEAN
        OBVIOUS
    <2> QED
        BY <2>1, <2>2, <2>3, Zenon
<1>5. ASSUME NEW a \in {"end", "total"}
      PROVE  [walk EXCEPT !.at = a, !.offset = @ + Limit] \in Walk
    <2>1. ASSUME NEW o \in Nat, NEW w \in Walk
          PROVE  [w EXCEPT !.at = a, !.offset = o] \in Walk
        OBVIOUS
    <2>2. walk.offset + Limit \in Nat
        BY <1>1
    <2> QED
        BY <1>1, <2>1, <2>2
<1> QED
    BY <1>2, <1>3, <1>4, <1>5

(* A step that leaves the rows and the requests alone. *)
LEMMA RestKeeps ==
    ASSUME IInv, UNCHANGED <<box, lock, pc, todo, unread>>, TypeOK'
    PROVE  IInv'
BY DEF IInv, Marks, Written

(* A step of request r that leaves the rows alone and takes only free locks. *)
LEMMA RequestKeeps ==
    ASSUME IInv, NEW r \in Requests, UNCHANGED box, TypeOK', Marks(r)',
           \A s \in Requests \ {r} : pc'[s] = pc[s] /\ todo'[s] = todo[s] /\ unread'[s] = unread[s],
           \A n \in Notes, s \in Requests \ {r} : lock'[n] = s <=> lock[n] = s
    PROVE  IInv'
<1> SUFFICES ASSUME NEW s \in Requests \ {r}
             PROVE  Marks(s)'
    BY DEF IInv
<1>1. Written(s)' = Written(s)
    BY DEF Written
<1> QED
    BY <1>1 DEF IInv, Marks

LEMMA MarkReadKeepsIInv ==
    ASSUME IInv, NEW r \in Requests, NEW n \in Notes, MarkRead(r, n)
    PROVE  IInv'
<1>1. TypeOK'
    BY DEF IInv, TypeOK, MarkRead
<1>2. Marks(r)'
    BY DEF IInv, TypeOK, Marks, Written, MarkRead
<1> QED
    BY <1>1, <1>2, RequestKeeps DEF IInv, TypeOK, MarkRead

LEMMA WriteReadKeepsIInv ==
    ASSUME IInv, NEW r \in Requests, WriteRead(r)
    PROVE  IInv'
<1>1. PICK n \in todo[r] : lock[n] = NoOne /\ lock' = [lock EXCEPT ![n] = r]
    BY DEF WriteRead
<1>2. TypeOK'
    BY <1>1 DEF IInv, TypeOK, WriteRead
<1>3. Marks(r)'
    BY <1>1 DEF IInv, TypeOK, Marks, Written, WriteRead
<1> QED
    BY <1>1, <1>2, <1>3, RequestKeeps DEF IInv, TypeOK, WriteRead

LEMMA MarkAllReadKeepsIInv ==
    ASSUME IInv, NEW r \in Requests, MarkAllRead(r)
    PROVE  IInv'
<1>1. TypeOK'
    BY DEF IInv, TypeOK, MarkAllRead, Unread
<1>2. Marks(r)'
    BY DEF IInv, TypeOK, Marks, Written, MarkAllRead, Unread
<1> QED
    BY <1>1, <1>2, RequestKeeps DEF IInv, TypeOK, MarkAllRead

LEMMA UpdateRowKeepsIInv ==
    ASSUME IInv, NEW r \in Requests, UpdateRow(r)
    PROVE  IInv'
<1>1. PICK n \in todo[r] :
          /\ lock[n] = NoOne
          /\ lock' = IF box[n] = "unread" THEN [lock EXCEPT ![n] = r] ELSE lock
          /\ todo' = [todo EXCEPT ![r] = @ \ {n}]
    BY DEF UpdateRow, Reaches, StillUnread
<1>2. pc[r] = "mark_all" /\ UNCHANGED <<box, created, dispatchVars, pc, unread, walkVars>>
    BY DEF UpdateRow
<1>3. TypeOK'
    BY <1>1, <1>2 DEF IInv, TypeOK
<1>4. Marks(r)'
    <2>1. Marks(r) /\ n \in Notes /\ box[n] \in {"absent", "unread", "read"} /\ box[n] # "absent"
        BY <1>1 DEF IInv, TypeOK, Marks
    <2>2. Written(r)' = IF box[n] = "unread" THEN Written(r) \cup {n} ELSE Written(r)
        BY <1>1, <2>1 DEF IInv, TypeOK, Written
    <2>3. todo'[r] = todo[r] \ {n}
        BY <1>1 DEF IInv, TypeOK
    <2> QED
        BY <1>2, <2>1, <2>2, <2>3 DEF Marks
<1> QED
    BY <1>1, <1>2, <1>3, <1>4, RequestKeeps DEF IInv, TypeOK

LEMMA UpdateEndsKeepsIInv ==
    ASSUME IInv, NEW r \in Requests, UpdateEnds(r)
    PROVE  IInv'
<1>1. TypeOK'
    BY DEF IInv, TypeOK, UpdateEnds
<1>2. Marks(r)'
    BY DEF IInv, TypeOK, Marks, Written, UpdateEnds
<1> QED
    BY <1>1, <1>2, RequestKeeps DEF IInv, TypeOK, UpdateEnds

LEMMA AbortKeepsIInv ==
    ASSUME IInv, NEW r \in Requests, Abort(r)
    PROVE  IInv'
<1>1. TypeOK'
    BY DEF IInv, TypeOK, Abort, EndTransaction
<1>2. Marks(r)'
    BY DEF IInv, TypeOK, Marks, Written, Abort, EndTransaction
<1> QED
    BY <1>1, <1>2, RequestKeeps DEF IInv, TypeOK, Abort, EndTransaction

LEMMA CommitKeepsIInv ==
    ASSUME IInv, NEW r \in Requests, Commit(r)
    PROVE  IInv'
<1>1. /\ box' = [n \in Notes |-> IF n \in Written(r) THEN "read" ELSE box[n]]
      /\ EndTransaction(r) /\ walk' = [walk EXCEPT !.quiet = FALSE]
      /\ UNCHANGED <<created, dispatchVars, counted, shown>>
    BY DEF Commit, Disturb
<1>2. \A n \in Written(r) : box[n] # "absent"
    BY DEF IInv, Marks
<1>3. TypeOK'
    BY <1>1, <1>2, WalkTyped DEF IInv, TypeOK, EndTransaction
<1>4. Marks(r)'
    BY <1>1 DEF IInv, TypeOK, Marks, Written, EndTransaction
<1>5. ASSUME NEW s \in Requests \ {r}
      PROVE  Marks(s)'
    <2>1. /\ pc'[s] = pc[s] /\ todo'[s] = todo[s] /\ unread'[s] = unread[s]
          /\ Written(s)' = Written(s)
        BY <1>1 DEF EndTransaction, Written, IInv, TypeOK
    <2>2. \A n \in Notes : box'[n] = "read" \/ box'[n] = box[n]
        BY <1>1
    <2>3. \A n \in Written(s) : n \in Notes /\ box'[n] = box[n]
        BY <1>1 DEF Written
    <2>4. todo[s] \subseteq Notes /\ unread[s] \subseteq Notes
        BY DEF IInv, TypeOK
    <2> QED
        BY <2>1, <2>2, <2>3, <2>4 DEF IInv, Marks
<1> QED
    BY <1>3, <1>4, <1>5 DEF IInv

LEMMA DispatchCommitsKeepsIInv ==
    ASSUME IInv, NEW d \in Dispatchers, NEW batch \in SUBSET Notes, DispatchCommits(d, batch)
    PROVE  IInv'
<1>1. /\ began[d] # 0 /\ \A n \in batch : box[n] = "absent"
      /\ box' = [n \in Notes |-> IF n \in batch THEN "unread" ELSE box[n]]
      /\ created' = [n \in Notes |-> IF n \in batch THEN began[d] ELSE created[n]]
      /\ began' = [began EXCEPT ![d] = 0] /\ walk' = [walk EXCEPT !.quiet = FALSE]
      /\ UNCHANGED <<clock, requestVars, counted, shown>>
    BY DEF DispatchCommits, Disturb, CreatedAt
<1>2. TypeOK'
    BY <1>1, WalkTyped DEF IInv, TypeOK
<1>3. \A n \in Notes : box[n] # "absent" => box'[n] = box[n]
    BY <1>1
<1>4. ASSUME NEW r \in Requests
      PROVE  Marks(r)'
    <2>1. Written(r)' = Written(r) /\ Written(r) \subseteq Notes
          /\ todo[r] \subseteq Notes /\ unread[r] \subseteq Notes
        BY <1>1 DEF Written, IInv, TypeOK
    <2> QED
        BY <1>1, <1>3, <2>1 DEF IInv, Marks
<1> QED
    BY <1>2, <1>4 DEF IInv

LEMMA DispatchBeginsKeepsIInv ==
    ASSUME IInv, NEW d \in Dispatchers, DispatchBegins(d)
    PROVE  IInv'
<1>1. TypeOK'
    BY DEF IInv, TypeOK, DispatchBegins
<1> QED
    BY <1>1, RestKeeps DEF DispatchBegins

(* Only finitely many rows are counted. *)
LEMMA MatchingFinite ==
    ASSUME NEW f
    PROVE  IsFiniteSet(Matching(f)) /\ Cardinality(Matching(f)) \in Nat
BY FS_Subset, FS_CardinalityType, NotesFinite DEF Matching

LEMMA ListingKeepsIInv ==
    ASSUME IInv, (\E f \in Filters : WalkBegins(f)) \/ CountTotal \/ ReadPage \/ WalkEnds
    PROVE  IInv'
<1>1. UNCHANGED <<box, created, dispatchVars, requestVars>>
    BY DEF WalkBegins, CountTotal, ReadPage, WalkEnds
<1>2. walk \in Walk /\ shown \in [Notes -> Nat]
    BY DEF IInv, TypeOK
<1>3. walk' \in Walk /\ shown' \in [Notes -> Nat]
    <2>1. ASSUME NEW f \in Filters, WalkBegins(f)
          PROVE  walk' \in Walk /\ shown' \in [Notes -> Nat]
        BY <1>2, <2>1, WalkTyped DEF WalkBegins, IInv
    <2>2. CASE CountTotal
        <3>1. Total(walk.is_read) \in Nat
            BY MatchingFinite DEF Total
        <3> QED
            BY <1>2, <2>2, <3>1 DEF CountTotal
    <2>3. CASE ReadPage
        <3> DEFINE a == IF walk.offset + Limit > Cardinality(Matching(walk.is_read)) THEN "end" ELSE "total"
        <3>1. PICK s :
                  /\ shown' = [n \in Notes |-> IF n \in PageOf(s, walk.offset) THEN shown[n] + 1 ELSE shown[n]]
                  /\ walk' = [walk EXCEPT !.at = a, !.offset = @ + Limit]
            BY <2>3 DEF ReadPage
        <3>2. a \in {"end", "total"}
            OBVIOUS
        <3> HIDE DEF a
        <3>3. walk' \in Walk
            BY <3>1, <3>2, WalkTyped DEF IInv
        <3> QED
            BY <1>2, <3>1, <3>3
    <2>4. CASE WalkEnds
        BY <1>2, <2>4, WalkTyped DEF WalkEnds, IInv
    <2> QED
        BY <2>1, <2>2, <2>3, <2>4
<1>4. counted' \subseteq Notes
    BY DEF WalkBegins, CountTotal, ReadPage, WalkEnds, Matching, IInv, TypeOK
<1>5. TypeOK'
    BY <1>1, <1>3, <1>4 DEF IInv, TypeOK
<1> QED
    BY <1>1, <1>5, RestKeeps

LEMMA NextKeepsIInv ==
    ASSUME IInv, [Next]_vars
    PROVE  IInv'
<1>1. CASE UNCHANGED vars
    BY <1>1, RestKeeps DEF IInv, TypeOK, vars
<1>2. CASE Next
    BY <1>2, DispatchBeginsKeepsIInv, DispatchCommitsKeepsIInv, MarkReadKeepsIInv, WriteReadKeepsIInv,
       MarkAllReadKeepsIInv, UpdateRowKeepsIInv, UpdateEndsKeepsIInv, CommitKeepsIInv, AbortKeepsIInv,
       ListingKeepsIInv DEF Next
<1> QED
    BY <1>1, <1>2

THEOREM Invariance == Spec => []IInv
BY InitIInv, NextKeepsIInv, PTL DEF Spec

(* Every variable keeps its type. *)
THEOREM TypeCorrect == Spec => []TypeOK
BY Invariance, PTL DEF IInv

(* No two answers of mark_all_read count the same notification. *)
THEOREM AnswersCountOnce == Spec => CountsWhatItMarks
<1>1. IInv /\ [Next]_vars =>
          [\A r \in Requests : Commit(r) /\ pc[r] = "commit_all" =>
              Written(r) = {n \in Notes : box[n] = "unread" /\ box'[n] = "read"}]_vars
    BY DEF IInv, Marks, Written, Commit
<1> QED
    BY <1>1, Invariance, PTL DEF Spec, CountsWhatItMarks

(* A mark_all_read that is answered has left none of its rows unread. *)
THEOREM NoneIsLeftUnread == Spec => AnsweredAllRead
<1>1. IInv /\ [Next]_vars =>
          [\A r \in Requests : Commit(r) /\ pc[r] = "commit_all" => \A n \in unread[r] : box'[n] = "read"]_vars
    BY DEF IInv, TypeOK, Marks, Written, Commit
<1> QED
    BY <1>1, Invariance, PTL DEF Spec, AnsweredAllRead

-----------------------------------------------------------------------------
(* What the client that reads page by page has seen.  Only the number of   *)
(* rows before a row says whether a page has it: no row of the walk that   *)
(* is still unseen has fewer before it than the pages have gone through.   *)

Newer(n) == {m \in Matching(walk.is_read) : created[m] > created[n]}

(* The rows there when the walk began stay in its list. *)
Lasting == walk.is_read = "unread" => walk.quiet

UnseenIsAhead(n) ==
    /\ n \in Matching(walk.is_read)
    /\ Alone(n) /\ shown[n] = 0 => walk.at # "end" /\ Cardinality(Newer(n)) >= walk.offset

SeenOnce(n) ==
    Alone(n) => shown[n] = IF n \in walk.first /\ (walk.at = "end" \/ Cardinality(Newer(n)) < walk.offset)
                           THEN 1 ELSE 0

WInv ==
    /\ walk.at = "start" => \A n \in Notes : shown[n] = 0
    /\ walk.at # "start" /\ Lasting => \A n \in walk.first : UnseenIsAhead(n)
    /\ walk.at # "start" /\ walk.quiet =>
           /\ walk.first = Matching(walk.is_read)
           /\ walk.at # "total" => walk.total = Cardinality(walk.first)
           /\ \A n \in Notes : SeenOnce(n)

(* In a list ordered by created_at the rows before n are the newer ones. *)
LEMMA Position ==
    ASSUME NEW R \in SUBSET Notes, NEW s \in [1..Cardinality(R) -> R], Newest(s),
           NEW n \in R, Alone(n), created \in [Notes -> Nat]
    PROVE  /\ Cardinality(R) \in Nat
           /\ \E i \in 1..Cardinality(R) :
                  /\ s[i] = n /\ \A j \in 1..Cardinality(R) : s[j] = n => j = i
                  /\ Cardinality({m \in R : created[m] > created[n]}) = i - 1
<1> DEFINE N == Cardinality(R)
           K == {m \in R : created[m] > created[n]}
<1>1. IsFiniteSet(R) /\ N \in Nat
    BY FS_Subset, FS_CardinalityType, NotesFinite
<1> HIDE DEF N
<1>2. s \in [1..N -> R] /\ DOMAIN s = 1..N
    BY DEF N
<1>3. \A i, j \in 1..N : s[i] = s[j] => i = j
    <2> SUFFICES ASSUME NEW i \in 1..N, NEW j \in 1..N, i # j
                 PROVE  s[i] # s[j]
        OBVIOUS
    <2>1. i < j \/ j < i
        BY <1>1
    <2> QED
        BY <1>2, <2>1 DEF Newest
<1>4. s \in Injection(1..N, R)
    BY <1>2, <1>3, Fun_IsInj
<1>5. Cardinality(1..N) = N
    BY <1>1, FS_Interval
<1>6. s \in Surjection(1..N, R)
    BY <1>1, <1>4, <1>5, FS_Injection DEF N
<1>7. \A m \in R : \E i \in 1..N : s[i] = m
    BY <1>6 DEF Surjection
<1>8. PICK i \in 1..N : s[i] = n
    BY <1>7
<1> DEFINE f == [j \in 1..(i - 1) |-> s[j]]
<1>9. \A j \in 1..(i - 1) : j \in 1..N /\ j < i
    BY <1>1
<1>10. f \in [1..(i - 1) -> K]
    <2> SUFFICES ASSUME NEW j \in 1..(i - 1)
                 PROVE  s[j] \in K
        OBVIOUS
    <2>1. s[j] \in R /\ s[j] # n /\ created[s[j]] >= created[n]
        BY <1>2, <1>8, <1>9 DEF Newest
    <2>2. created[s[j]] # created[n]
        BY <2>1 DEF Alone
    <2>3. created[s[j]] \in Nat /\ created[n] \in Nat
        BY <2>1
    <2> QED
        BY <2>1, <2>2, <2>3
<1>11. \A a, b \in 1..(i - 1) : f[a] = f[b] => a = b
    BY <1>3, <1>9
<1>12. \A m \in K : \E j \in 1..(i - 1) : f[j] = m
    <2> SUFFICES ASSUME NEW m \in K
                 PROVE  \E j \in 1..(i - 1) : s[j] = m
        OBVIOUS
    <2>1. PICK j \in 1..N : s[j] = m
        BY <1>7
    <2>2. created[m] \in Nat /\ created[n] \in Nat /\ created[m] > created[n]
        OBVIOUS
    <2>3. j # i
        BY <1>8, <2>1, <2>2
    <2>4. ~(i < j)
        BY <1>2, <1>8, <2>1, <2>2 DEF Newest
    <2>5. j \in 1..(i - 1)
        BY <1>1, <2>3, <2>4
    <2> QED
        BY <2>1, <2>5
<1> HIDE DEF K, f
<1>13. f \in Bijection(1..(i - 1), K)
    BY <1>10, <1>11, <1>12, Fun_IsBij
<1>14. Cardinality(K) = i - 1
    <2>1. ExistsBijection(1..(i - 1), K)
        BY <1>13, Fun_ExistsBij
    <2>2. i - 1 \in Nat
        BY <1>1
    <2> QED
        BY <2>1, <2>2, FS_CountingElements
<1> QED
    BY <1>1, <1>3, <1>8, <1>14 DEF N, K

(* Whether a page has a row depends on the number of newer ones. *)
LEMMA InPage ==
    ASSUME NEW R \in SUBSET Notes, NEW s \in [1..Cardinality(R) -> R], Newest(s),
           NEW n \in R, Alone(n), created \in [Notes -> Nat], NEW offset \in Nat,
           NEW k, k = Cardinality({m \in R : created[m] > created[n]})
    PROVE  /\ k \in Nat /\ Cardinality(R) \in Nat /\ k < Cardinality(R)
           /\ n \in PageOf(s, offset) <=> offset <= k /\ k < offset + Limit
<1> DEFINE N == Cardinality(R)
<1>1. N \in Nat /\ \E i \in 1..N : s[i] = n /\ (\A j \in 1..N : s[j] = n => j = i) /\ k = i - 1
    BY Position
<1>2. DOMAIN s = 1..N
    OBVIOUS
<1> HIDE DEF N
<1>3. PICK i \in 1..N : s[i] = n /\ (\A j \in 1..N : s[j] = n => j = i) /\ k = i - 1
    BY <1>1
<1>4. n \in PageOf(s, offset) <=> i \in (offset + 1)..(offset + Limit)
    BY <1>2, <1>3 DEF PageOf
<1> QED
    BY <1>1, <1>3, <1>4 DEF N

LEMMA NewerFinite ==
    ASSUME NEW n
    PROVE  Newer(n) \subseteq Notes /\ IsFiniteSet(Newer(n)) /\ Cardinality(Newer(n)) \in Nat
BY FS_Subset, FS_CardinalityType, NotesFinite DEF Newer, Matching

(* A step that changes neither the list nor the walk. *)
LEMMA RestKeepsWalk ==
    ASSUME WInv, UNCHANGED <<box, created, walk, shown>>
    PROVE  WInv'
<1>1. \A n \in Notes : Newer(n)' = Newer(n) /\ Alone(n)' = Alone(n)
    BY DEF Newer, Matching, Alone
<1>2. Matching(walk.is_read)' = Matching(walk.is_read) /\ Matching(walk.is_read) \subseteq Notes
    BY DEF Matching
<1>3. \A n \in Notes : SeenOnce(n)' = SeenOnce(n)
    BY <1>1 DEF SeenOnce
<1>4. \A n \in Notes : UnseenIsAhead(n)' = UnseenIsAhead(n)
    BY <1>1, <1>2 DEF UnseenIsAhead
<1>5. \A n \in walk.first : UnseenIsAhead(n) => n \in Notes
    BY <1>2 DEF UnseenIsAhead
<1> QED
    BY <1>2, <1>3, <1>4, <1>5 DEF WInv, Lasting

(* Arrivals and marks beside the walk push its rows only to later pages. *)
LEMMA DisturbKeepsWalk ==
    ASSUME IInv, WInv, TypeOK', Disturb, UNCHANGED shown,
           \A n \in Notes : box[n] # "absent" => created'[n] = created[n] /\ box'[n] # "absent",
           \A n \in Notes : box[n] = "read" => box'[n] = "read"
    PROVE  WInv'
<1>1. walk \in Walk
    BY DEF IInv, TypeOK
<1>2. /\ walk'.at = walk.at /\ walk'.is_read = walk.is_read /\ walk'.first = walk.first
      /\ walk'.offset = walk.offset /\ ~walk'.quiet
    BY <1>1 DEF Disturb
<1>3. (walk.at = "start" => \A n \in Notes : shown[n] = 0)'
    BY <1>2 DEF WInv
<1>4. ASSUME walk.at # "start", walk.is_read # "unread", NEW n \in walk.first
      PROVE  UnseenIsAhead(n)'
    <2>1. UnseenIsAhead(n)
        BY <1>4 DEF WInv, Lasting
    <2>2. walk.is_read \in {"all", "read"}
        BY <1>1, <1>4
    <2>3. Matching(walk.is_read) \subseteq Matching(walk.is_read)'
        BY <1>2, <2>2 DEF Matching
    <2>4. n \in Notes /\ box[n] # "absent" /\ n \in Matching(walk.is_read)
        BY <2>1, <2>2 DEF UnseenIsAhead, Matching
    <2>5. Newer(n) \subseteq Newer(n)'
        <3>1. \A m \in Newer(n) : m \in Notes /\ box[m] # "absent" /\ m \in Matching(walk.is_read)'
                                  /\ created[m] > created[n]
            BY <2>2, <2>3 DEF Newer, Matching
        <3> QED
            BY <1>2, <2>4, <3>1 DEF Newer
    <2>6. Cardinality(Newer(n)) <= Cardinality(Newer(n)')
          /\ Cardinality(Newer(n)) \in Nat /\ Cardinality(Newer(n)') \in Nat
        <3>1. Newer(n)' \subseteq Notes
            BY DEF Newer, Matching
        <3>2. IsFiniteSet(Newer(n)')
            BY <3>1, FS_Subset, NotesFinite
        <3> QED
            BY <2>5, <3>2, FS_Subset, FS_CardinalityType
    <2>7. Alone(n)' => Alone(n)
        <3> SUFFICES ASSUME NEW m \in Notes \ {n}, created[m] = created[n]
                     PROVE  created'[m] = created'[n]
            BY DEF Alone
        <3>1. box[m] # "absent"
            BY <2>4 DEF IInv, TypeOK
        <3> QED
            BY <2>4, <3>1
    <2>8. walk.offset \in Nat
        BY <1>1
    <2> QED
        BY <1>2, <2>1, <2>3, <2>4, <2>6, <2>7, <2>8 DEF UnseenIsAhead
<1> QED
    BY <1>2, <1>3, <1>4 DEF WInv, Lasting

LEMMA WalkBeginsKeepsWalk ==
    ASSUME IInv, WInv, NEW f \in Filters, WalkBegins(f)
    PROVE  WInv'
<1>1. /\ walk' = [at |-> "total", is_read |-> f, offset |-> 0, total |-> 0,
                  first |-> Matching(f), quiet |-> TRUE]
      /\ UNCHANGED <<box, created, shown>>
      /\ \A n \in Notes : shown[n] = 0
    BY DEF WalkBegins, WInv
<1>2. /\ walk'.at = "total" /\ walk'.is_read = f /\ walk'.offset = 0 /\ walk'.first = Matching(f)
      /\ Matching(f)' = Matching(f) /\ Matching(f) \subseteq Notes
    BY <1>1 DEF Matching
<1>3. \A n \in Notes : Cardinality(Newer(n)') \in Nat
    <2>1. \A n \in Notes : Newer(n)' \subseteq Notes
        BY DEF Newer, Matching
    <2> QED
        BY <2>1, FS_Subset, FS_CardinalityType, NotesFinite
<1>4. \A n \in Matching(f) : UnseenIsAhead(n)'
    BY <1>1, <1>2, <1>3 DEF UnseenIsAhead
<1>5. \A n \in Notes : SeenOnce(n)'
    BY <1>1, <1>2, <1>3 DEF SeenOnce
<1>6. (walk.first = Matching(walk.is_read))'
    BY <1>2 DEF Matching
<1> QED
    BY <1>2, <1>4, <1>5, <1>6 DEF WInv

LEMMA CountTotalKeepsWalk ==
    ASSUME IInv, WInv, CountTotal
    PROVE  WInv'
<1>1. /\ walk.at = "total" /\ UNCHANGED <<box, created, shown>>
      /\ walk' = [walk EXCEPT !.at = "rows", !.total = Cardinality(Matching(walk.is_read))]
    BY DEF CountTotal, Total
<1>2. walk \in Walk
    BY DEF IInv, TypeOK
<1> DEFINE c == Cardinality(Matching(walk.is_read))
<1>3. /\ walk'.at = "rows" /\ walk'.is_read = walk.is_read /\ walk'.offset = walk.offset
      /\ walk'.first = walk.first /\ walk'.quiet = walk.quiet /\ walk'.total = c
    <2> HIDE DEF c
    <2>1. walk' = [walk EXCEPT !.at = "rows", !.total = c]
        BY <1>1 DEF c
    <2> QED
        BY <1>2, <2>1
<1>4. \A n \in Notes : Newer(n)' = Newer(n) /\ Alone(n)' = Alone(n)
    BY <1>1, <1>3 DEF Newer, Matching, Alone
<1>5. Matching(walk.is_read)' = Matching(walk.is_read) /\ Matching(walk.is_read) \subseteq Notes
    BY <1>1, <1>3 DEF Matching
<1>6. \A n \in Notes : SeenOnce(n) => SeenOnce(n)'
    BY <1>1, <1>3, <1>4 DEF SeenOnce
<1>7. \A n \in walk.first : UnseenIsAhead(n) => UnseenIsAhead(n)'
    BY <1>1, <1>3, <1>4, <1>5 DEF UnseenIsAhead
<1> QED
    BY <1>1, <1>3, <1>5, <1>6, <1>7 DEF WInv, Lasting

LEMMA ReadPageKeepsWalk ==
    ASSUME IInv, WInv, ReadPage
    PROVE  WInv'
<1> DEFINE rows == Matching(walk.is_read)
           a == IF walk.offset + Limit > Cardinality(rows) THEN "end" ELSE "total"
<1>1. PICK s \in [1..Cardinality(rows) -> rows] :
          /\ Newest(s)
          /\ shown' = [n \in Notes |-> IF n \in PageOf(s, walk.offset) THEN shown[n] + 1 ELSE shown[n]]
          /\ walk' = [walk EXCEPT !.at = a, !.offset = @ + Limit]
    BY DEF ReadPage
<1>2. walk \in Walk /\ walk.at = "rows" /\ UNCHANGED <<box, created>>
      /\ shown \in [Notes -> Nat] /\ created \in [Notes -> Nat]
    BY DEF IInv, TypeOK, ReadPage
<1>3. /\ walk'.at = a /\ walk'.is_read = walk.is_read /\ walk'.offset = walk.offset + Limit
      /\ walk'.first = walk.first /\ walk'.quiet = walk.quiet /\ walk'.total = walk.total
    <2> HIDE DEF a
    <2>1. \A o \in Nat : LET w == [walk EXCEPT !.at = a, !.offset = o] IN
              /\ w.at = a /\ w.is_read = walk.is_read /\ w.offset = o
              /\ w.first = walk.first /\ w.quiet = walk.quiet /\ w.total = walk.total
        BY <1>2
    <2>2. walk.offset + Limit \in Nat
        BY <1>2
    <2> QED
        BY <1>1, <2>1, <2>2
<1>4. rows \subseteq Notes /\ rows' = rows
    BY <1>2, <1>3 DEF Matching
<1>5. \A n \in Notes : Newer(n)' = Newer(n) /\ Alone(n)' = Alone(n)
    BY <1>2, <1>3 DEF Newer, Matching, Alone
<1>6. ASSUME NEW n \in rows, Alone(n)
      PROVE  /\ Cardinality(Newer(n)) \in Nat /\ Cardinality(rows) \in Nat
             /\ Cardinality(Newer(n)) < Cardinality(rows)
             /\ n \in PageOf(s, walk.offset) <=>
                    walk.offset <= Cardinality(Newer(n)) /\ Cardinality(Newer(n)) < walk.offset + Limit
    <2>1. walk.offset \in Nat /\ Newest(s) /\ rows \in SUBSET Notes /\ created \in [Notes -> Nat]
        BY <1>1, <1>2, <1>4
    <2> DEFINE k == Cardinality(Newer(n))
    <2>2. k = Cardinality({m \in rows : created[m] > created[n]})
        BY DEF Newer
    <2> HIDE DEF rows, k, a
    <2>3. /\ k \in Nat /\ Cardinality(rows) \in Nat /\ k < Cardinality(rows)
          /\ n \in PageOf(s, walk.offset) <=> walk.offset <= k /\ k < walk.offset + Limit
        BY <1>6, <2>1, <2>2, InPage
    <2> QED
        BY <2>3 DEF k
<1>7. \A n \in PageOf(s, walk.offset) : n \in rows
    BY DEF PageOf
<1> HIDE DEF rows
<1>8. walk.offset \in Nat
    BY <1>2
<1>9. ASSUME NEW n \in walk.first, UnseenIsAhead(n)
      PROVE  UnseenIsAhead(n)'
    <2>1. n \in rows /\ n \in Notes /\ n \in Matching(walk.is_read)'
        BY <1>4, <1>9 DEF UnseenIsAhead, rows
    <2>2. CASE ~Alone(n) \/ shown'[n] # 0
        BY <1>5, <2>1, <2>2 DEF UnseenIsAhead
    <2>3. CASE Alone(n) /\ shown'[n] = 0
        <3>1. n \notin PageOf(s, walk.offset) /\ shown[n] = 0
            BY <1>1, <1>2, <2>1, <2>3
        <3>2. Cardinality(Newer(n)) >= walk.offset
            BY <1>9, <2>3, <3>1 DEF UnseenIsAhead
        <3>3. Cardinality(Newer(n)) >= walk.offset + Limit /\ Cardinality(Newer(n)) < Cardinality(rows)
              /\ Cardinality(Newer(n)) \in Nat /\ Cardinality(rows) \in Nat
            BY <1>6, <1>8, <2>1, <2>3, <3>1, <3>2
        <3>4. a = "total"
            BY <1>8, <3>3
        <3> QED
            BY <1>3, <1>5, <2>1, <3>3, <3>4 DEF UnseenIsAhead
    <2> QED
        BY <2>2, <2>3
<1>10. ASSUME walk.quiet, NEW n \in Notes, SeenOnce(n), walk.first = rows
       PROVE  SeenOnce(n)'
    <2> SUFFICES ASSUME Alone(n)
                 PROVE  shown'[n] = IF n \in rows /\ (a = "end" \/ Cardinality(Newer(n)) < walk.offset + Limit)
                                    THEN 1 ELSE 0
        BY <1>3, <1>5, <1>10 DEF SeenOnce
    <2>1. shown[n] = IF n \in rows /\ Cardinality(Newer(n)) < walk.offset THEN 1 ELSE 0
        BY <1>2, <1>10 DEF SeenOnce
    <2>2. shown'[n] = IF n \in PageOf(s, walk.offset) THEN shown[n] + 1 ELSE shown[n]
        BY <1>1
    <2>3. CASE n \notin rows
        BY <1>7, <2>1, <2>2, <2>3
    <2>4. CASE n \in rows
        <3>1. /\ Cardinality(Newer(n)) \in Nat /\ Cardinality(rows) \in Nat
              /\ Cardinality(Newer(n)) < Cardinality(rows)
              /\ n \in PageOf(s, walk.offset) <=>
                     walk.offset <= Cardinality(Newer(n)) /\ Cardinality(Newer(n)) < walk.offset + Limit
            BY <1>6, <2>4
        <3>2. a = "end" => Cardinality(Newer(n)) < walk.offset + Limit
            BY <1>8, <3>1
        <3> HIDE DEF a
        <3> QED
            BY <1>8, <2>1, <2>2, <2>4, <3>1, <3>2
    <2> QED
        BY <2>3, <2>4
<1>11. a \in {"end", "total"}
    OBVIOUS
<1> HIDE DEF a
<1> QED
    BY <1>2, <1>3, <1>4, <1>9, <1>10, <1>11 DEF WInv, Lasting, rows

LEMMA NextKeepsWalk ==
    ASSUME IInv, IInv', WInv, [Next]_vars
    PROVE  WInv'
<1>1. CASE UNCHANGED <<box, created, walk, shown>>
    BY <1>1, RestKeepsWalk
<1>2. ASSUME NEW d \in Dispatchers, NEW batch \in SUBSET Notes, DispatchCommits(d, batch)
      PROVE  WInv'
    <2>1. Disturb /\ UNCHANGED shown /\ TypeOK'
        BY <1>2 DEF DispatchCommits, IInv
    <2>2. \A n \in batch : box[n] = "absent"
        BY <1>2 DEF DispatchCommits
    <2>3. \A n \in Notes : n \notin batch => box'[n] = box[n] /\ created'[n] = created[n]
        BY <1>2 DEF DispatchCommits
    <2>4. \A n \in Notes : box[n] # "absent" => created'[n] = created[n] /\ box'[n] # "absent"
        BY <2>2, <2>3
    <2>5. \A n \in Notes : box[n] = "read" => box'[n] = "read"
        BY <2>2, <2>3
    <2> QED
        BY <2>1, <2>4, <2>5, DisturbKeepsWalk
<1>3. ASSUME NEW r \in Requests, Commit(r)
      PROVE  WInv'
    <2>1. Disturb /\ UNCHANGED <<shown, created>> /\ TypeOK'
        BY <1>3 DEF Commit, IInv
    <2>2. \A n \in Notes : box'[n] = "read" \/ box'[n] = box[n]
        BY <1>3 DEF Commit
    <2>3. \A n \in Notes : box[n] # "absent" => created'[n] = created[n] /\ box'[n] # "absent"
        BY <2>1, <2>2
    <2>4. \A n \in Notes : box[n] = "read" => box'[n] = "read"
        BY <2>2
    <2> QED
        BY <2>1, <2>3, <2>4, DisturbKeepsWalk
<1>4. CASE WalkEnds
    <2>1. walk' = NoWalk /\ shown' = [n \in Notes |-> 0]
        BY <1>4 DEF WalkEnds
    <2>2. walk'.at = "start"
        BY <2>1 DEF NoWalk
    <2> QED
        BY <2>1, <2>2 DEF WInv
<1>5. \/ UNCHANGED <<box, created, walk, shown>>
      \/ \E d \in Dispatchers, batch \in SUBSET Notes : DispatchCommits(d, batch)
      \/ \E r \in Requests : Commit(r)
      \/ \E f \in Filters : WalkBegins(f)
      \/ CountTotal \/ ReadPage \/ WalkEnds
    BY DEF Next, vars, DispatchBegins, MarkRead, WriteRead, MarkAllRead, UpdateRow, UpdateEnds, Abort
<1> QED
    BY <1>1, <1>2, <1>3, <1>4, <1>5, WalkBeginsKeepsWalk, CountTotalKeepsWalk, ReadPageKeepsWalk

LEMMA WalkInvariance == Spec => [](IInv /\ WInv)
<1>1. Init => WInv
    BY DEF Init, WInv, NoWalk
<1>2. IInv /\ WInv /\ [Next]_vars => (IInv /\ WInv)'
    BY NextKeepsIInv, NextKeepsWalk
<1> QED
    BY <1>1, <1>2, InitIInv, PTL DEF Spec

(* Whatever is dispatched or marked meanwhile, a client that reads page    *)
(* after page misses no row that was there when it began.                  *)
THEOREM NothingIsMissed == Spec => []WalkMissesNothing
<1>1. IInv /\ WInv => WalkMissesNothing
    <2> SUFFICES ASSUME IInv, WInv, walk.at = "end", Lasting, NEW n \in walk.first, Alone(n)
                 PROVE  shown[n] > 0
        BY DEF WalkMissesNothing, Lasting
    <2>1. UnseenIsAhead(n)
        BY DEF WInv
    <2>2. n \in Notes /\ shown[n] # 0
        BY <2>1 DEF UnseenIsAhead, Matching
    <2>3. shown[n] \in Nat
        BY <2>2 DEF IInv, TypeOK
    <2> QED
        BY <2>2, <2>3
<1> QED
    BY <1>1, WalkInvariance, PTL

(* Undisturbed, the pages are the list: each row once, and the right total. *)
THEOREM PagesAreTheList == Spec => []QuietWalkIsExact
<1>1. IInv /\ WInv => QuietWalkIsExact
    BY DEF WInv, QuietWalkIsExact, SeenOnce
<1> QED
    BY <1>1, WalkInvariance, PTL

-----------------------------------------------------------------------------
(* The total of the page under way counts rows that are still in the list. *)
CountInv ==
    walk.at = "rows" /\ Lasting =>
        /\ counted \subseteq Matching(walk.is_read)
        /\ walk.total = Cardinality(counted)

LEMMA DisturbKeepsCount ==
    ASSUME IInv, CountInv, Disturb, UNCHANGED counted,
           \A n \in Notes : box[n] # "absent" => box'[n] # "absent",
           \A n \in Notes : box[n] = "read" => box'[n] = "read"
    PROVE  CountInv'
<1>1. walk \in Walk
    BY DEF IInv, TypeOK
<1>2. /\ walk'.at = walk.at /\ walk'.is_read = walk.is_read
      /\ walk'.total = walk.total /\ ~walk'.quiet
    BY <1>1 DEF Disturb
<1>3. walk.is_read # "unread" => Matching(walk.is_read) \subseteq Matching(walk.is_read)'
    BY <1>1, <1>2 DEF Matching
<1> QED
    BY <1>2, <1>3 DEF CountInv, Lasting

LEMMA CountTotalCounts ==
    ASSUME IInv, CountTotal
    PROVE  CountInv'
<1> DEFINE c == Cardinality(Matching(walk.is_read))
<1>1. /\ counted' = Matching(walk.is_read) /\ UNCHANGED box
      /\ walk' = [walk EXCEPT !.at = "rows", !.total = c]
    BY DEF CountTotal, Total
<1>2. walk \in Walk
    BY DEF IInv, TypeOK
<1> HIDE DEF c
<1>3. walk'.is_read = walk.is_read /\ walk'.total = c
    BY <1>1, <1>2
<1>4. Matching(walk.is_read)' = Matching(walk.is_read)
    BY <1>1, <1>3 DEF Matching
<1> QED
    BY <1>1, <1>3, <1>4 DEF CountInv, c

LEMMA NextKeepsCount ==
    ASSUME IInv, CountInv, [Next]_vars
    PROVE  CountInv'
<1>1. CASE UNCHANGED <<box, walk, counted>>
    BY <1>1 DEF CountInv, Lasting, Matching
<1>2. ASSUME NEW d \in Dispatchers, NEW batch \in SUBSET Notes, DispatchCommits(d, batch)
      PROVE  CountInv'
    <2>1. Disturb /\ UNCHANGED counted /\ \A n \in batch : box[n] = "absent"
        BY <1>2 DEF DispatchCommits
    <2>2. \A n \in Notes : n \notin batch => box'[n] = box[n]
        BY <1>2 DEF DispatchCommits
    <2>3. \A n \in Notes : box[n] # "absent" => box'[n] = box[n]
        BY <2>1, <2>2
    <2> QED
        BY <2>1, <2>3, DisturbKeepsCount
<1>3. ASSUME NEW r \in Requests, Commit(r)
      PROVE  CountInv'
    <2>1. Disturb /\ UNCHANGED counted
        BY <1>3 DEF Commit
    <2>2. \A n \in Notes : box'[n] = "read" \/ box'[n] = box[n]
        BY <1>3 DEF Commit
    <2> QED
        BY <2>1, <2>2, DisturbKeepsCount
<1>4. ASSUME NEW f \in Filters, WalkBegins(f)
      PROVE  CountInv'
    <2>1. walk'.at = "total"
        BY <1>4 DEF WalkBegins
    <2> QED
        BY <2>1 DEF CountInv
<1>5. CASE ReadPage
    <2>1. walk \in Walk
        BY DEF IInv, TypeOK
    <2>2. PICK a \in {"end", "total"} : walk' = [walk EXCEPT !.at = a, !.offset = @ + Limit]
        BY <1>5 DEF ReadPage
    <2>3. walk'.at = a
        BY <2>1, <2>2
    <2> QED
        BY <2>2, <2>3 DEF CountInv
<1>6. CASE WalkEnds
    BY <1>6 DEF WalkEnds, NoWalk, CountInv
<1>7. \/ UNCHANGED <<box, walk, counted>>
      \/ \E d \in Dispatchers, batch \in SUBSET Notes : DispatchCommits(d, batch)
      \/ \E r \in Requests : Commit(r)
      \/ \E f \in Filters : WalkBegins(f)
      \/ CountTotal \/ ReadPage \/ WalkEnds
    BY DEF Next, vars, DispatchBegins, MarkRead, WriteRead, MarkAllRead, UpdateRow, UpdateEnds, Abort
<1> QED
    BY <1>1, <1>2, <1>3, <1>4, <1>5, <1>6, <1>7, CountTotalCounts

(* Rows that a page and those before it have left come after them in the   *)
(* list: there are no more than the list is longer.                        *)
LEMMA RowsLeft ==
    ASSUME NEW R \in SUBSET Notes, NEW s \in [1..Cardinality(R) -> R], Newest(s),
           created \in [Notes -> Nat], NEW o \in Nat, NEW U \in SUBSET R,
           \A n \in U : Alone(n) /\ Cardinality({m \in R : created[m] > created[n]}) >= o
    PROVE  /\ IsFiniteSet(U) /\ Cardinality(U) \in Nat
           /\ U = {} \/ Cardinality(U) <= Cardinality(R) - o
<1> DEFINE N == Cardinality(R)
           I == (o + 1)..N
           V == {s[i] : i \in I}
           f == [i \in I |-> s[i]]
<1>1. IsFiniteSet(R) /\ N \in Nat
    BY FS_Subset, FS_CardinalityType, NotesFinite
<1>2. IsFiniteSet(I) /\ Cardinality(I) = IF o + 1 > N THEN 0 ELSE N - (o + 1) + 1
    <2>1. o + 1 \in Int /\ N \in Int
        BY <1>1
    <2> HIDE DEF N
    <2> QED
        BY <2>1, FS_Interval
<1>3. f \in Surjection(I, V)
    <2>1. f \in [I -> V] /\ \A v \in V : \E i \in I : f[i] = v
        OBVIOUS
    <2> QED
        BY <2>1, Fun_IsSurj
<1>4. IsFiniteSet(V) /\ Cardinality(V) <= Cardinality(I) /\ Cardinality(V) \in Nat
    <2> HIDE DEF f, V, I
    <2> QED
        BY <1>2, <1>3, FS_Surjection, FS_CardinalityType
<1>5. U \subseteq V
    <2> SUFFICES ASSUME NEW n \in U
                 PROVE  \E i \in I : s[i] = n
        OBVIOUS
    <2>1. \E i \in 1..N : s[i] = n /\ Cardinality({m \in R : created[m] > created[n]}) = i - 1
        BY Position
    <2>2. PICK i \in 1..N : s[i] = n /\ Cardinality({m \in R : created[m] > created[n]}) = i - 1
        BY <2>1
    <2>3. i - 1 >= o
        BY <2>2
    <2> HIDE DEF N
    <2>4. i \in I
        BY <1>1, <2>3
    <2> QED
        BY <2>2, <2>4
<1>6. IsFiniteSet(U) /\ Cardinality(U) \in Nat /\ Cardinality(U) <= Cardinality(V)
    <2> HIDE DEF V
    <2> QED
        BY <1>4, <1>5, FS_Subset, FS_CardinalityType
<1>7. CASE I = {}
    BY <1>5, <1>6, <1>7
<1>8. CASE I # {}
    <2>1. o + 1 <= N
        <3> HIDE DEF N
        <3> QED
            BY <1>1, <1>8
    <2> HIDE DEF N, I, V, f
    <2> QED
        BY <1>1, <1>2, <1>4, <1>6, <2>1 DEF N
<1> QED
    BY <1>7, <1>8

LEMMA PageLeavesArrivals ==
    ASSUME IInv, WInv, WInv', CountInv, ReadPage, Lasting, walk.offset + Limit >= walk.total
    PROVE  Cardinality({n \in walk.first : Alone(n) /\ shown'[n] = 0})
               <= Cardinality(Matching(walk.is_read) \ counted)
<1> DEFINE rows == Matching(walk.is_read)
           a == IF walk.offset + Limit > Cardinality(rows) THEN "end" ELSE "total"
           U == {n \in walk.first : Alone(n) /\ shown'[n] = 0}
<1>1. PICK s \in [1..Cardinality(rows) -> rows] :
          Newest(s) /\ walk' = [walk EXCEPT !.at = a, !.offset = @ + Limit]
    BY DEF ReadPage
<1>2. walk \in Walk /\ walk.at = "rows" /\ UNCHANGED <<box, created>> /\ created \in [Notes -> Nat]
    BY DEF IInv, TypeOK, ReadPage
<1>3. /\ walk'.at # "start" /\ walk'.is_read = walk.is_read /\ walk'.offset = walk.offset + Limit
      /\ walk'.first = walk.first /\ walk'.quiet = walk.quiet
    <2>1. a # "start"
        OBVIOUS
    <2> HIDE DEF a
    <2>2. \A o \in Nat : LET w == [walk EXCEPT !.at = a, !.offset = o] IN
              /\ w.at = a /\ w.is_read = walk.is_read /\ w.offset = o
              /\ w.first = walk.first /\ w.quiet = walk.quiet
        BY <1>2
    <2>3. walk.offset + Limit \in Nat
        BY <1>2
    <2> QED
        BY <1>1, <2>1, <2>2, <2>3
<1>4. rows \subseteq Notes /\ rows' = rows
    BY <1>2, <1>3 DEF Matching
<1>5. ASSUME NEW n \in U
      PROVE  n \in rows /\ Cardinality({m \in rows : created[m] > created[n]}) >= walk.offset + Limit
    <2>1. UnseenIsAhead(n)'
        BY <1>3 DEF WInv, Lasting
    <2>2. Newer(n)' = {m \in rows : created[m] > created[n]}
        BY <1>2, <1>4 DEF Newer
    <2>3. n \in rows
        BY <1>4, <2>1 DEF UnseenIsAhead
    <2>4. Alone(n)'
        BY <1>2 DEF Alone
    <2> QED
        BY <1>3, <2>1, <2>2, <2>3, <2>4 DEF UnseenIsAhead
<1>6. counted \subseteq rows /\ walk.total = Cardinality(counted)
    BY <1>2 DEF CountInv
<1>7. walk.offset + Limit \in Nat /\ \A n \in U : Alone(n)
    BY <1>2
<1>8. IsFiniteSet(rows) /\ Cardinality(rows) \in Nat
    BY MatchingFinite
<1> HIDE DEF rows, a, U
<1>9. /\ Cardinality(U) \in Nat
      /\ U = {} \/ Cardinality(U) <= Cardinality(rows) - (walk.offset + Limit)
    <2>1. rows \in SUBSET Notes /\ s \in [1..Cardinality(rows) -> rows] /\ Newest(s)
        BY <1>1, <1>4
    <2>2. U \in SUBSET rows
        BY <1>5
    <2> DEFINE o == walk.offset + Limit
    <2>3. \A n \in U : Alone(n) /\ Cardinality({m \in rows : created[m] > created[n]}) >= o
        BY <1>5, <1>7
    <2>4. o \in Nat /\ created \in [Notes -> Nat]
        BY <1>2, <1>7
    <2> HIDE DEF o
    <2>5. Cardinality(U) \in Nat /\ (U = {} \/ Cardinality(U) <= Cardinality(rows) - o)
        BY <2>1, <2>2, <2>3, <2>4, RowsLeft
    <2> QED
        BY <2>5 DEF o
<1>10. /\ IsFiniteSet(counted) /\ Cardinality(counted) \in Nat
       /\ IsFiniteSet(rows \ counted) /\ Cardinality(rows \ counted) \in Nat
       /\ Cardinality(rows \ counted) = Cardinality(rows) - Cardinality(counted)
    <2>1. IsFiniteSet(counted) /\ rows \cap counted = counted
        BY <1>6, <1>8, FS_Subset
    <2> QED
        BY <1>8, <2>1, FS_Difference, FS_CardinalityType
<1>11. U = {} => Cardinality(U) = 0
    BY FS_EmptySet
<1>12. Cardinality(U) <= Cardinality(rows \ counted)
    BY <1>6, <1>7, <1>8, <1>9, <1>10, <1>11
<1> QED
    BY <1>12 DEF U, rows

(* A client that stops at the total it is told misses no more rows than    *)
(* came between the count and the page (repository.py:26-32).              *)
THEOREM TotalIsNearlyRight == Spec => TotalMissesOnlyArrivals
<1>1. Init => CountInv
    BY DEF Init, CountInv, NoWalk
<1>2. IInv /\ WInv /\ IInv' /\ WInv' /\ CountInv /\ [Next]_vars => CountInv'
    BY NextKeepsCount
<1>3. IInv /\ WInv /\ IInv' /\ WInv' /\ CountInv /\ [Next]_vars =>
          [ReadPage /\ (walk.is_read = "unread" => walk.quiet) /\ walk.offset + Limit >= walk.total =>
              Cardinality({n \in walk.first : Alone(n) /\ shown'[n] = 0})
                  <= Cardinality(Matching(walk.is_read) \ counted)]_vars
    BY PageLeavesArrivals DEF Lasting
<1> QED
    BY <1>1, <1>2, <1>3, WalkInvariance, PTL DEF Spec, TotalMissesOnlyArrivals
=============================================================================
