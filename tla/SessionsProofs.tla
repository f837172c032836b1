--------------------------- MODULE SessionsProofs ---------------------------
(***************************************************************************)
(* Proofs about Sessions, for any number of requests, users and token      *)
(* pairs, any TTLs that satisfy the assumptions, and any faults.           *)
(*                                                                         *)
(* None of the properties is inductive: whether a command of a request is  *)
(* safe depends on what the request holds in its local variables.  IInv    *)
(* says what that is (RequestInv, OwnPair) and how the keys in Redis       *)
(* relate to the pairs generated (KeyInv, PairInv, BlockInv).              *)
(***************************************************************************)
EXTENDS Sessions, TLAPS

\* A request that holds a generated pair it has not returned; one that holds a
\* validated refresh token; one that holds a verified access token.
Holding(r) == req[r].pc \in {"store", "del", "set"}

Refreshing(r) == req[r].pc \in {"lookup", "del", "set"}

Protected(r) == req[r].pc \in {"check", "serve", "block", "revoke"}

\* What a request in flight knows.  A pair it holds is stored nowhere yet and
\* no client has it; a token it presented was sent to its user.
ReqOK(r) ==
  /\ Holding(r) =>
       /\ req[r].id \in Ids
       /\ req[r].id \notin sent
       /\ req[r].user \in Users
       /\ issued[req[r].id].user = req[r].user
       /\ refresh[req[r].id] = NoKey
  /\ req[r].pc = "store" => issued[req[r].id].parent = None
  /\ req[r].pc \in {"del", "set"} => issued[req[r].id].parent = req[r].tok
  /\ req[r].pc = "set" => req[r].tok \in spent
  /\ Refreshing(r) =>
       /\ req[r].tok \in sent
       /\ req[r].user \in Users
       /\ issued[req[r].tok].user = req[r].user
  /\ Protected(r) => req[r].jti \in sent /\ req[r].tok \in sent \cup {None}

RequestInv == \A r \in Requests : ReqOK(r)

\* No two requests hold the same pair.
OwnPair ==
  \A r, q \in Requests : Holding(r) /\ Holding(q) /\ req[r].id = req[q].id => r = q

\* The refresh keys and the tokens sent and spent.
KeyInv ==
  \A i \in Ids :
    /\ i \in sent \/ refresh[i] # NoKey => issued[i].user \in Users
    /\ refresh[i] # NoKey =>
         /\ refresh[i].val = issued[i].user
         /\ \/ RefreshTTL = 0 /\ refresh[i].exp = 0
            \/ refresh[i].exp + AccessTTL >= issued[i].exp + RefreshTTL
    /\ i \in spent => i \in sent /\ refresh[i] = NoKey
    /\ i \in sent /\ i \notin spent => refresh[i] # NoKey
    /\ issued[i].parent # None /\ (i \in sent \/ refresh[i] # NoKey)
         => issued[i].parent \in spent

\* A pair is issued for the user of its session, and not in the future.
PairInv ==
  \A i \in Ids :
    issued[i].user # None =>
      /\ issued[i].root \in Ids
      /\ issued[issued[i].root].user = issued[i].user
      /\ issued[i].exp <= clock + AccessTTL

\* A revoked access token is blocklisted for as long as it is valid.
BlockInv ==
  \A j \in revoked :
    /\ j \in sent
    /\ blocklist[j].val = "1"
    /\ blocklist[j].exp = 0 \/ blocklist[j].exp >= issued[j].exp

IInv == TypeOK /\ RequestInv /\ OwnPair /\ KeyInv /\ PairInv /\ BlockInv

-----------------------------------------------------------------------------
(***************************************************************************)
(* Types.                                                                  *)
(***************************************************************************)
\* What a request is reset to, and every key a command writes, has its type.
LEMMA ValueTypes ==
  /\ Idle \in Request
  /\ NotIssued \in Pair
  /\ NoKey \in Key /\ NoKey \in BlockKey
  /\ \A u \in Users, c \in Nat : SetKey(u, c, RefreshTTL) \in Key
  /\ \A c \in Nat : SetKey("1", c, RefreshTTL) \in BlockKey
BY TTLAssumption
   DEF Idle, Request, Pcs, Operations, NotIssued, Pair, NoKey, Key, BlockKey, SetKey

\* A key that a command stores is not the absent key.
LEMMA StoredKey ==
  ASSUME NEW v, v # None, NEW c, NEW ttl
  PROVE  SetKey(v, c, ttl) # NoKey
BY DEF SetKey, NoKey

\* A request that is answered, or only moves on, keeps its type.
LEMMA RequestTypes ==
  ASSUME TypeOK, NEW r \in Requests
  PROVE  /\ Answer(r) => req' \in [Requests -> Request]
         /\ \A l \in Pcs : req' = [req EXCEPT ![r].pc = l] => req' \in [Requests -> Request]
BY ValueTypes DEF TypeOK, Answer, Request

\* Deleting and storing refresh keys keeps the types of refresh and spent.
LEMMA RefreshKeyTypes ==
  ASSUME TypeOK, NEW t \in Ids \cup {None}, NEW o
  PROVE  /\ RevokeRefreshToken(t, o) => refresh' \in [Ids -> Key] /\ spent' \subseteq Ids
         /\ \A u \in Users : StoreRefreshToken(t, u, o) => refresh' \in [Ids -> Key]
BY ValueTypes DEF TypeOK, RevokeRefreshToken, StoreRefreshToken

\* The initial state satisfies the invariant.
LEMMA InitInv == Init => IInv
<1> SUFFICES ASSUME Init PROVE IInv
  OBVIOUS
<1>1. TypeOK
  BY ValueTypes DEF Init, TypeOK
<1>2. \A r \in Requests : req[r].pc = "idle"
  BY DEF Init, Idle
<1>3. RequestInv /\ OwnPair
  BY <1>2 DEF RequestInv, ReqOK, OwnPair, Holding, Refreshing, Protected
<1>4. KeyInv /\ PairInv /\ BlockInv
  BY DEF Init, KeyInv, PairInv, BlockInv, NotIssued
<1> QED
  BY <1>1, <1>3, <1>4 DEF IInv

-----------------------------------------------------------------------------
(***************************************************************************)
(* What each command does to the keys.                                     *)
(***************************************************************************)
\* Generating a fresh pair for user u, in exchange for p if that is a token,
\* changes nothing about the pairs generated before.
LEMMA IssueStep ==
  ASSUME IInv, NEW i \in Ids, NEW u \in Users, NEW p \in sent \cup {None},
         p # None => issued[p].user = u,
         IssueRefreshToken(i), IssueAccessToken(i, u, p),
         UNCHANGED <<clock, sent, refresh, blocklist, revoked, spent>>
  PROVE  /\ issued' \in [Ids -> Pair]
         /\ i \notin sent /\ refresh[i] = NoKey
         /\ issued'[i].user = u /\ issued'[i].parent = p
         /\ \A k \in Ids : issued[k].user \in Users => k # i /\ issued'[k] = issued[k]
         /\ KeyInv' /\ PairInv' /\ BlockInv'
<1> USE DEF IInv
<1>1. i \notin sent /\ refresh[i] = NoKey
  BY NoneAssumption DEF KeyInv, IssueRefreshToken
<1>2. \A k \in Ids : k # i => issued'[k] = issued[k]
  BY DEF TypeOK, IssueAccessToken
<1>3. /\ issued'[i].user = u
      /\ issued'[i].parent = p
      /\ issued'[i].exp = clock + AccessTTL
      /\ issued'[i].root = IF p = None THEN i ELSE issued[p].root
  BY DEF TypeOK, IssueAccessToken
<1>4. p # None => p \in Ids /\ p # i /\ issued[p].root \in Ids /\ issued[p].root # i
                  /\ issued[issued[p].root].user = u
  BY NoneAssumption, <1>1 DEF TypeOK, PairInv, IssueRefreshToken
<1>5. issued' \in [Ids -> Pair]
  BY <1>4, TTLAssumption DEF TypeOK, IssueAccessToken, Pair
<1>6. \A k \in Ids : issued[k].user \in Users => k # i /\ issued'[k] = issued[k]
  BY <1>2, NoneAssumption DEF IssueRefreshToken
<1>7. KeyInv'
  BY <1>1, <1>2, <1>6 DEF KeyInv
<1>8. PairInv'
  <2> SUFFICES ASSUME NEW k \in Ids, issued'[k].user # None
               PROVE  /\ issued'[k].root \in Ids
                      /\ issued'[issued'[k].root].user = issued'[k].user
                      /\ issued'[k].exp <= clock' + AccessTTL
    BY DEF PairInv
  <2>1. CASE k = i
    BY <2>1, <1>2, <1>3, <1>4, TTLAssumption DEF TypeOK
  <2>2. CASE k # i
    <3>1. issued'[k] = issued[k]
      BY <2>2, <1>2
    <3>2. /\ issued[k].root \in Ids
          /\ issued[issued[k].root].user = issued[k].user
          /\ issued[k].exp <= clock + AccessTTL
      BY <3>1 DEF PairInv
    <3>3. issued[k].root # i
      BY <3>1, <3>2 DEF IssueRefreshToken
    <3> QED
      BY <3>1, <3>2, <3>3, <1>2
  <2> QED
    BY <2>1, <2>2
<1>9. BlockInv'
  BY <1>1, <1>2 DEF BlockInv, TypeOK
<1> QED
  BY <1>1, <1>3, <1>5, <1>6, <1>7, <1>8, <1>9

\* A request that holds a pair stores its refresh token, and returns the pair
\* only if the command was answered.
LEMMA StoreStep ==
  ASSUME IInv, NEW r \in Requests, req[r].pc \in {"store", "set"}, NEW o \in RedisOutcomes,
         StoreRefreshToken(req[r].id, req[r].user, o),
         sent' = IF o = "ok" THEN sent \cup {req[r].id} ELSE sent,
         UNCHANGED <<clock, issued, blocklist, revoked, spent>>
  PROVE  /\ refresh' \in [Ids -> Key] /\ sent' \subseteq Ids
         /\ \A k \in Ids : k # req[r].id => refresh'[k] = refresh[k] /\ (k \in sent' <=> k \in sent)
         /\ KeyInv' /\ PairInv' /\ BlockInv'
<1> USE DEF IInv
<1> DEFINE i == req[r].id
<1>1. /\ i \in Ids /\ i \notin sent /\ i \notin spent
      /\ req[r].user \in Users /\ issued[i].user = req[r].user /\ refresh[i] = NoKey
      /\ issued[i].parent # None => issued[i].parent \in spent
  BY DEF RequestInv, ReqOK, Holding, KeyInv
<1>2. refresh' \in [Ids -> Key] /\ sent' \subseteq Ids
  BY <1>1, RefreshKeyTypes DEF TypeOK
<1>3. \A k \in Ids : k # i => refresh'[k] = refresh[k] /\ (k \in sent' <=> k \in sent)
  BY <1>1 DEF TypeOK, StoreRefreshToken
<1>4. \/ refresh'[i] = SetKey(req[r].user, clock, RefreshTTL)
      \/ refresh'[i] = NoKey /\ i \notin sent'
  BY <1>1 DEF TypeOK, StoreRefreshToken, Executed
<1>5. issued[i].exp <= clock + AccessTTL
  BY <1>1, NoneAssumption DEF PairInv
<1>6. SetKey(req[r].user, clock, RefreshTTL) # NoKey
  BY <1>1, StoredKey, NoneAssumption
<1>7. LET e == SetKey(req[r].user, clock, RefreshTTL)
      IN  /\ e.val = issued[i].user
          /\ \/ RefreshTTL = 0 /\ e.exp = 0
             \/ e.exp + AccessTTL >= issued[i].exp + RefreshTTL
  BY <1>1, <1>5, TTLAssumption DEF SetKey, TypeOK, Pair
<1>8. KeyInv'
  <2> SUFFICES ASSUME NEW k \in Ids
               PROVE  /\ k \in sent' \/ refresh'[k] # NoKey => issued[k].user \in Users
                      /\ refresh'[k] # NoKey =>
                           /\ refresh'[k].val = issued[k].user
                           /\ \/ RefreshTTL = 0 /\ refresh'[k].exp = 0
                              \/ refresh'[k].exp + AccessTTL >= issued[k].exp + RefreshTTL
                      /\ k \in spent => k \in sent' /\ refresh'[k] = NoKey
                      /\ k \in sent' /\ k \notin spent => refresh'[k] # NoKey
                      /\ issued[k].parent # None /\ (k \in sent' \/ refresh'[k] # NoKey)
                           => issued[k].parent \in spent
    BY DEF KeyInv
  <2>1. CASE k = i
    BY <2>1, <1>1, <1>4, <1>6, <1>7
  <2>2. CASE k # i
    BY <2>2, <1>3 DEF KeyInv
  <2> QED
    BY <2>1, <2>2
<1>9. PairInv' /\ BlockInv'
  BY DEF PairInv, BlockInv
<1> QED
  BY <1>2, <1>3, <1>8, <1>9

\* Deleting a token that was sent, or none.
LEMMA RevokeStep ==
  ASSUME IInv, NEW t \in sent \cup {None}, NEW o \in RedisOutcomes,
         RevokeRefreshToken(t, o),
         UNCHANGED <<clock, issued, sent, blocklist, revoked>>
  PROVE  /\ refresh' \in [Ids -> Key] /\ spent' \subseteq Ids
         /\ \A k \in Ids : refresh[k] = NoKey => refresh'[k] = NoKey
         /\ spent \subseteq spent'
         /\ o = "ok" /\ t # None => t \in spent'
         /\ KeyInv' /\ PairInv' /\ BlockInv'
<1> USE DEF IInv
<1>1. refresh' \in [Ids -> Key] /\ spent' \subseteq Ids
  BY RefreshKeyTypes DEF TypeOK
<1>2. CASE t # None /\ Executed(o)
  <2>1. /\ refresh' = [refresh EXCEPT ![t] = NoKey]
        /\ spent' = spent \cup {t}
        /\ t \in Ids /\ t \in sent
    BY <1>2 DEF RevokeRefreshToken, TypeOK
  <2>2. \A k \in Ids : refresh'[k] = IF k = t THEN NoKey ELSE refresh[k]
    BY <2>1 DEF TypeOK
  <2>3. KeyInv'
    BY <2>1, <2>2 DEF KeyInv
  <2> QED
    BY <1>1, <2>1, <2>2, <2>3 DEF PairInv, BlockInv
<1>3. CASE ~(t # None /\ Executed(o))
  <2>1. UNCHANGED <<refresh, spent>>
    BY <1>3 DEF RevokeRefreshToken
  <2>2. ~(o = "ok" /\ t # None)
    BY <1>3 DEF Executed
  <2>3. KeyInv' /\ PairInv' /\ BlockInv'
    BY <2>1 DEF KeyInv, PairInv, BlockInv
  <2> QED
    BY <1>1, <2>1, <2>2, <2>3
<1> QED
  BY <1>2, <1>3

\* Blocklisting the jti of a verified access token: the key outlives the token
\* because RefreshTTL is 0 or at least AccessTTL.
LEMMA BlockStep ==
  ASSUME IInv, NEW j \in sent, NEW o \in RedisOutcomes, BlocklistJTI(j, o),
         UNCHANGED <<clock, issued, sent, refresh, spent>>
  PROVE  /\ blocklist' \in [Ids -> BlockKey] /\ revoked' \subseteq Ids
         /\ KeyInv' /\ PairInv' /\ BlockInv'
<1> USE DEF IInv
<1>1. j \in Ids
  BY DEF TypeOK
<1>2. blocklist' \in [Ids -> BlockKey] /\ revoked' \subseteq Ids
  BY <1>1, ValueTypes DEF TypeOK, BlocklistJTI
<1>3. issued[j].exp <= clock + AccessTTL
  BY <1>1, NoneAssumption DEF KeyInv, PairInv
<1>4. LET e == SetKey("1", clock, RefreshTTL)
      IN  e.val = "1" /\ (e.exp = 0 \/ e.exp >= issued[j].exp)
  BY <1>1, <1>3, TTLAssumption, BlocklistTTLAssumption DEF SetKey, TypeOK, Pair
<1>5. \A k \in Ids : k # j => blocklist'[k] = blocklist[k] /\ (k \in revoked' => k \in revoked)
  BY DEF BlocklistJTI, TypeOK
<1>6. blocklist'[j] = SetKey("1", clock, RefreshTTL) \/ (blocklist'[j] = blocklist[j] /\ revoked' = revoked)
  BY <1>1 DEF BlocklistJTI, TypeOK, Executed
<1>7. BlockInv'
  <2> SUFFICES ASSUME NEW k \in revoked'
               PROVE  /\ k \in sent
                      /\ blocklist'[k].val = "1"
                      /\ blocklist'[k].exp = 0 \/ blocklist'[k].exp >= issued[k].exp
    BY DEF BlockInv
  <2>1. CASE k = j
    BY <2>1, <1>4, <1>6 DEF BlockInv
  <2>2. CASE k # j
    BY <2>2, <1>2, <1>5 DEF BlockInv
  <2> QED
    BY <2>1, <2>2
<1>8. KeyInv' /\ PairInv'
  BY DEF KeyInv, PairInv
<1> QED
  BY <1>2, <1>7, <1>8

\* A step that touches only the local state of requests leaves the keys alone.
LEMMA LocalStep ==
  ASSUME IInv, UNCHANGED <<clock, issued, sent, refresh, blocklist, revoked, spent>>
  PROVE  KeyInv' /\ PairInv' /\ BlockInv'
BY DEF IInv, KeyInv, PairInv, BlockInv

-----------------------------------------------------------------------------
(***************************************************************************)
(* What each action does to the requests.                                  *)
(***************************************************************************)
\* The other requests are not disturbed by a step of r that sends, stores or
\* generates no pair that they hold.
LEMMA OtherRequests ==
  ASSUME IInv, NEW r \in Requests,
         \A q \in Requests : q # r => req'[q] = req[q],
         \A k \in Ids : issued[k].user \in Users => issued'[k] = issued[k],
         sent \subseteq sent', spent \subseteq spent',
         \A q \in Requests : q # r /\ Holding(q) =>
             req[q].id \notin sent' /\ refresh'[req[q].id] = NoKey
  PROVE  \A q \in Requests : q # r => ReqOK(q)'
<1> SUFFICES ASSUME NEW q \in Requests, q # r PROVE ReqOK(q)'
  OBVIOUS
<1>1. req'[q] = req[q] /\ ReqOK(q)
  BY DEF IInv, RequestInv
<1>2. Holding(q) => issued'[req[q].id] = issued[req[q].id]
  BY <1>1 DEF ReqOK
<1>3. Refreshing(q) => issued'[req[q].tok] = issued[req[q].tok]
  BY <1>1 DEF ReqOK, IInv, TypeOK
<1> QED
  BY <1>1, <1>2, <1>3 DEF ReqOK, Holding, Refreshing, Protected

\* An idle request satisfies its part of the invariant.
LEMMA IdleOK ==
  ASSUME NEW r \in Requests, req'[r] = Idle
  PROVE  ReqOK(r)' /\ ~Holding(r)'
BY DEF ReqOK, Holding, Refreshing, Protected, Idle

\* Pairs stay owned when r ends up holding nothing, or what it held before.
LEMMA OwnPairKept ==
  ASSUME IInv, NEW r \in Requests,
         \A q \in Requests : q # r => req'[q] = req[q],
         Holding(r)' => Holding(r) /\ req'[r].id = req[r].id
  PROVE  OwnPair'
BY DEF IInv, OwnPair, Holding

\* ... or a pair that was fresh.
LEMMA OwnPairFresh ==
  ASSUME IInv, NEW r \in Requests,
         \A q \in Requests : q # r => req'[q] = req[q],
         issued[req'[r].id].user = None
  PROVE  OwnPair'
<1>1. \A q \in Requests : Holding(q) => req[q].id # req'[r].id
  BY NoneAssumption DEF IInv, RequestInv, ReqOK
<1> QED
  BY <1>1 DEF IInv, OwnPair, Holding

\* Answering r, while no pair is generated and none that others hold is sent
\* or stored, keeps the invariant of all requests.
LEMMA AnsweredRequests ==
  ASSUME IInv, NEW r \in Requests, Answer(r), UNCHANGED issued,
         sent \subseteq sent', spent \subseteq spent',
         \A q \in Requests : q # r /\ Holding(q) =>
             req[q].id \notin sent' /\ refresh'[req[q].id] = NoKey
  PROVE  req' \in [Requests -> Request] /\ RequestInv' /\ OwnPair'
<1>1. req' \in [Requests -> Request]
  BY RequestTypes DEF IInv
<1>2. req'[r] = Idle /\ \A q \in Requests : q # r => req'[q] = req[q]
  BY DEF IInv, TypeOK, Answer
<1>3. ReqOK(r)' /\ ~Holding(r)'
  BY <1>2, IdleOK
<1>4. \A q \in Requests : q # r => ReqOK(q)'
  BY <1>2, OtherRequests
<1>5. OwnPair'
  BY <1>2, <1>3, OwnPairKept
<1> QED
  BY <1>1, <1>3, <1>4, <1>5 DEF RequestInv

\* The same when no key, pair or token changes.
LEMMA AnsweredLocally ==
  ASSUME IInv, NEW r \in Requests, Answer(r),
         UNCHANGED <<clock, issued, sent, refresh, blocklist, revoked, spent, ended>>
  PROVE  IInv'
<1>1. \A q \in Requests : q # r /\ Holding(q) =>
        req[q].id \notin sent' /\ refresh'[req[q].id] = NoKey
  BY DEF IInv, RequestInv, ReqOK
<1>2. req' \in [Requests -> Request] /\ RequestInv' /\ OwnPair'
  BY <1>1, AnsweredRequests
<1>3. KeyInv' /\ PairInv' /\ BlockInv'
  BY LocalStep
<1>4. TypeOK'
  BY <1>2 DEF IInv, TypeOK
<1> QED
  BY <1>2, <1>3, <1>4 DEF IInv

\* The same for a request that moves on with local state q.
LEMMA MovedLocally ==
  ASSUME IInv, NEW r \in Requests, NEW q \in Request, req' = [req EXCEPT ![r] = q],
         UNCHANGED <<clock, issued, sent, refresh, blocklist, revoked, spent, ended>>,
         ReqOK(r)', Holding(r)' => Holding(r) /\ q.id = req[r].id
  PROVE  IInv'
<1>1. req'[r] = q /\ \A p \in Requests : p # r => req'[p] = req[p]
  BY DEF IInv, TypeOK
<1>2. \A p \in Requests : p # r => ReqOK(p)'
  BY <1>1, OtherRequests DEF IInv, RequestInv, ReqOK
<1>3. OwnPair'
  BY <1>1, OwnPairKept
<1>4. TypeOK'
  BY DEF IInv, TypeOK
<1>5. KeyInv' /\ PairInv' /\ BlockInv'
  BY LocalStep
<1> QED
  BY <1>2, <1>3, <1>4, <1>5 DEF IInv, RequestInv

\* Login generates a fresh pair with no parent, which only r holds.
LEMMA LoginInv ==
  ASSUME IInv, NEW r \in Requests, NEW u \in Users, Login(r, u)
  PROVE  IInv'
<1> USE DEF IInv
<1> DEFINE q(i) == [Idle EXCEPT !.pc = "store", !.op = "login", !.user = u, !.id = i]
<1>1. PICK i \in Ids : /\ IssueRefreshToken(i) /\ IssueAccessToken(i, u, None)
                       /\ req' = [req EXCEPT ![r] = q(i)]
  BY DEF Login
<1>2. UNCHANGED <<clock, sent, refresh, blocklist, revoked, spent, ended>>
  BY DEF Login
<1>3. /\ issued' \in [Ids -> Pair]
      /\ i \notin sent /\ refresh[i] = NoKey
      /\ issued'[i].user = u /\ issued'[i].parent = None
      /\ \A k \in Ids : issued[k].user \in Users => k # i /\ issued'[k] = issued[k]
      /\ KeyInv' /\ PairInv' /\ BlockInv'
  BY <1>1, <1>2, IssueStep
<1>4. q(i) \in Request /\ q(i).pc = "store" /\ q(i).id = i /\ q(i).user = u
  BY DEF Idle, Request, Pcs, Operations
<1>5. req'[r] = q(i) /\ \A p \in Requests : p # r => req'[p] = req[p]
  BY <1>1 DEF TypeOK
<1> HIDE DEF q
<1>6. TypeOK'
  BY <1>1, <1>2, <1>3, <1>4 DEF TypeOK
<1>7. ReqOK(r)'
  BY <1>2, <1>3, <1>4, <1>5 DEF ReqOK, Holding, Refreshing, Protected
<1>8. \A p \in Requests : p # r => ReqOK(p)'
  BY <1>2, <1>3, <1>5, OtherRequests DEF RequestInv, ReqOK
<1>9. OwnPair'
  BY <1>1, <1>4, <1>5, OwnPairFresh DEF IssueRefreshToken
<1> QED
  BY <1>3, <1>6, <1>7, <1>8, <1>9 DEF RequestInv

\* LoginStore and RotateSet store the pair that r holds, whether or not the
\* command is answered, and forget it.
LEMMA StoreInv ==
  ASSUME IInv, NEW r \in Requests, LoginStore(r) \/ RotateSet(r)
  PROVE  IInv'
<1> USE DEF IInv
<1>1. PICK o \in RedisOutcomes :
        /\ StoreRefreshToken(req[r].id, req[r].user, o)
        /\ Answer(r)
        /\ sent' = IF o = "ok" THEN sent \cup {req[r].id} ELSE sent
  BY DEF LoginStore, RotateSet, SendPair
<1>2. /\ UNCHANGED <<clock, issued, blocklist, revoked, spent, ended>>
      /\ req[r].pc \in {"store", "set"}
  BY DEF LoginStore, RotateSet
<1>3. /\ refresh' \in [Ids -> Key] /\ sent' \subseteq Ids
      /\ \A k \in Ids : k # req[r].id => refresh'[k] = refresh[k] /\ (k \in sent' <=> k \in sent)
      /\ KeyInv' /\ PairInv' /\ BlockInv'
  BY <1>1, <1>2, StoreStep
<1>4. \A p \in Requests : p # r /\ Holding(p) =>
        req[p].id \notin sent' /\ refresh'[req[p].id] = NoKey
  BY <1>2, <1>3 DEF OwnPair, Holding, RequestInv, ReqOK
<1>5. req' \in [Requests -> Request] /\ RequestInv' /\ OwnPair'
  BY <1>1, <1>2, <1>4, AnsweredRequests
<1>6. TypeOK'
  BY <1>2, <1>3, <1>5 DEF TypeOK
<1> QED
  BY <1>3, <1>5, <1>6

\* RefreshValidate reads the user of a token that was sent and is stored.
LEMMA RefreshValidateInv ==
  ASSUME IInv, NEW r \in Requests, NEW t \in Ids, RefreshValidate(r, t)
  PROVE  IInv'
<1> USE DEF IInv
<1> DEFINE q == [Idle EXCEPT !.pc = "lookup", !.op = "refresh",
                             !.user = refresh[t].val, !.tok = t]
<1>1. /\ t \in sent
      /\ req' = [req EXCEPT ![r] = q]
      /\ UNCHANGED <<clock, issued, sent, refresh, blocklist, revoked, spent, ended>>
  BY DEF RefreshValidate
<1>2. refresh[t].val # None
  BY DEF RefreshValidate, ValidateRefreshToken, LiveKey
<1>3. refresh[t].val = issued[t].user /\ refresh[t].val \in Users
  BY <1>2 DEF KeyInv, NoKey, TypeOK, Key
<1>4. q \in Request /\ q.pc = "lookup" /\ q.tok = t /\ q.user = refresh[t].val
  BY <1>3 DEF Idle, Request, Pcs, Operations
<1> HIDE DEF q
<1>5. req'[r] = q
  BY <1>1 DEF TypeOK
<1>6. ReqOK(r)' /\ ~Holding(r)'
  BY <1>1, <1>3, <1>4, <1>5 DEF ReqOK, Holding, Refreshing, Protected
<1> QED
  BY <1>1, <1>4, <1>6, MovedLocally

\* RefreshIssue generates a fresh pair for the user read with the old token.
LEMMA RefreshIssueInv ==
  ASSUME IInv, NEW r \in Requests, RefreshIssue(r)
  PROVE  IInv'
<1> USE DEF IInv
<1>1. PICK i \in Ids : /\ IssueRefreshToken(i)
                       /\ IssueAccessToken(i, req[r].user, req[r].tok)
                       /\ req' = [req EXCEPT ![r].pc = "del", ![r].id = i]
  BY DEF RefreshIssue
<1>2. /\ UNCHANGED <<clock, sent, refresh, blocklist, revoked, spent, ended>>
      /\ req[r].pc = "lookup"
  BY DEF RefreshIssue
<1>3. /\ req[r].tok \in sent /\ req[r].tok \in Ids
      /\ req[r].user \in Users /\ issued[req[r].tok].user = req[r].user
  BY <1>2 DEF RequestInv, ReqOK, Refreshing, TypeOK
<1>4. /\ issued' \in [Ids -> Pair]
      /\ i \notin sent /\ refresh[i] = NoKey
      /\ issued'[i].user = req[r].user /\ issued'[i].parent = req[r].tok
      /\ \A k \in Ids : issued[k].user \in Users => k # i /\ issued'[k] = issued[k]
      /\ KeyInv' /\ PairInv' /\ BlockInv'
  BY <1>1, <1>2, <1>3, IssueStep
<1>5. /\ req'[r].pc = "del" /\ req'[r].id = i
      /\ req'[r].tok = req[r].tok /\ req'[r].user = req[r].user
      /\ \A p \in Requests : p # r => req'[p] = req[p]
  BY <1>1 DEF TypeOK, Request
<1>6. req' \in [Requests -> Request]
  <2>1. [req[r] EXCEPT !.pc = "del", !.id = i] \in Request
    BY DEF TypeOK, Request, Pcs
  <2>2. req' = [req EXCEPT ![r] = [req[r] EXCEPT !.pc = "del", !.id = i]]
    BY <1>1 DEF TypeOK
  <2> QED
    BY <2>1, <2>2 DEF TypeOK
<1>7. TypeOK'
  BY <1>2, <1>4, <1>6 DEF TypeOK
<1>8. ReqOK(r)'
  BY <1>2, <1>3, <1>4, <1>5 DEF ReqOK, Holding, Refreshing, Protected
<1>9. \A p \in Requests : p # r => ReqOK(p)'
  BY <1>2, <1>4, <1>5, OtherRequests DEF RequestInv, ReqOK
<1>10. OwnPair'
  BY <1>1, <1>5, OwnPairFresh DEF IssueRefreshToken
<1> QED
  BY <1>4, <1>7, <1>8, <1>9, <1>10 DEF RequestInv

\* RotateDel deletes the old token before r may store the new one.
LEMMA RotateDelInv ==
  ASSUME IInv, NEW r \in Requests, RotateDel(r)
  PROVE  IInv'
<1> USE DEF IInv
<1>1. PICK o \in RedisOutcomes :
        /\ RevokeRefreshToken(req[r].tok, o)
        /\ IF o = "ok" THEN req' = [req EXCEPT ![r].pc = "set"] ELSE Answer(r)
  BY DEF RotateDel
<1>2. /\ UNCHANGED <<clock, issued, sent, blocklist, revoked, ended>>
      /\ req[r].pc = "del"
  BY DEF RotateDel
<1>3. ReqOK(r) /\ req[r].tok \in sent /\ req[r].tok # None
  BY <1>2, NoneAssumption DEF RequestInv, ReqOK, Refreshing, TypeOK
<1>4. /\ refresh' \in [Ids -> Key] /\ spent' \subseteq Ids
      /\ \A k \in Ids : refresh[k] = NoKey => refresh'[k] = NoKey
      /\ spent \subseteq spent'
      /\ o = "ok" => req[r].tok \in spent'
      /\ KeyInv' /\ PairInv' /\ BlockInv'
  BY <1>1, <1>2, <1>3, RevokeStep
<1>5. \A q \in Requests : q # r /\ Holding(q) =>
        req[q].id \notin sent' /\ refresh'[req[q].id] = NoKey
  BY <1>2, <1>4 DEF RequestInv, ReqOK
<1>6. CASE o # "ok"
  <2>1. req' \in [Requests -> Request] /\ RequestInv' /\ OwnPair'
    BY <1>1, <1>2, <1>4, <1>5, <1>6, AnsweredRequests
  <2>2. TypeOK'
    BY <1>2, <1>4, <2>1 DEF TypeOK
  <2> QED
    BY <1>4, <2>1, <2>2
<1>7. CASE o = "ok"
  <2>1. /\ req'[r].pc = "set" /\ req'[r].id = req[r].id
        /\ req'[r].tok = req[r].tok /\ req'[r].user = req[r].user
        /\ \A q \in Requests : q # r => req'[q] = req[q]
    BY <1>1, <1>7 DEF TypeOK, Request
  <2>2. TypeOK'
    BY <1>1, <1>2, <1>4, <1>7, RequestTypes DEF TypeOK, Pcs
  <2>3. ReqOK(r)'
    BY <1>2, <1>3, <1>4, <1>7, <2>1 DEF ReqOK, Holding, Refreshing, Protected
  <2>4. \A q \in Requests : q # r => ReqOK(q)'
    BY <1>2, <1>4, <1>5, <2>1, OtherRequests
  <2>5. OwnPair'
    BY <1>2, <2>1, OwnPairKept DEF Holding
  <2> QED
    BY <1>4, <2>2, <2>3, <2>4, <2>5 DEF RequestInv
<1> QED
  BY <1>6, <1>7

\* JWTVerify only reads the claims of an access token that was sent.
LEMMA JWTVerifyInv ==
  ASSUME IInv, NEW r \in Requests, NEW j \in Ids, NEW op \in Operations,
         NEW t \in sent \cup {None}, JWTVerify(r, j, op, t)
  PROVE  IInv'
<1> USE DEF IInv
<1> DEFINE s == IF t # None /\ LiveKey(refresh[t], clock) THEN issued[t].root ELSE None
           q == [Idle EXCEPT !.pc = "check", !.op = op, !.user = issued[j].user, !.jti = j,
                             !.tok = t, !.sess = s]
<1>1. /\ j \in sent
      /\ req' = [req EXCEPT ![r] = q]
      /\ UNCHANGED <<clock, issued, sent, refresh, blocklist, revoked, spent, ended>>
  BY DEF JWTVerify, Verify
<1>2. issued[j].user \in Users \cup {None} /\ s \in Ids \cup {None} /\ t \in Ids \cup {None}
  BY DEF TypeOK, Pair
<1> HIDE DEF s
<1>3. q \in Request /\ q.pc = "check" /\ q.jti = j /\ q.tok = t
  BY <1>2 DEF Idle, Request, Pcs, Operations
<1> HIDE DEF q
<1>4. req'[r] = q
  BY <1>1 DEF TypeOK
<1>5. ReqOK(r)' /\ ~Holding(r)'
  BY <1>1, <1>3, <1>4 DEF ReqOK, Holding, Refreshing, Protected
<1> QED
  BY <1>1, <1>3, <1>5, MovedLocally

\* JWTCheck refuses the request or lets it through to its handler.
LEMMA JWTCheckInv ==
  ASSUME IInv, NEW r \in Requests, JWTCheck(r)
  PROVE  IInv'
<1> USE DEF IInv
<1>1. /\ req[r].pc = "check"
      /\ UNCHANGED <<clock, issued, sent, refresh, blocklist, revoked, spent, ended>>
      /\ \/ Answer(r)
         \/ \E l \in {"block", "serve"}, b \in BOOLEAN :
              req' = [req EXCEPT ![r].pc = l, ![r].open = b]
  BY DEF JWTCheck
<1>2. CASE Answer(r)
  BY <1>1, <1>2, AnsweredLocally
<1>3. ASSUME NEW l \in {"block", "serve"}, NEW b \in BOOLEAN,
             req' = [req EXCEPT ![r].pc = l, ![r].open = b]
      PROVE  IInv'
  <2> DEFINE q == [req[r] EXCEPT !.pc = l, !.open = b]
  <2>1. req' = [req EXCEPT ![r] = q]
    BY <1>3 DEF TypeOK
  <2>2. q \in Request /\ q.pc = l /\ q.jti = req[r].jti /\ q.tok = req[r].tok
    BY DEF TypeOK, Request, Pcs
  <2> HIDE DEF q
  <2>3. req'[r] = q
    BY <2>1 DEF TypeOK
  <2>4. req[r].jti \in sent /\ req[r].tok \in sent \cup {None}
    BY <1>1 DEF RequestInv, ReqOK, Protected
  <2>5. ReqOK(r)' /\ ~Holding(r)'
    BY <1>1, <2>2, <2>3, <2>4 DEF ReqOK, Holding, Refreshing, Protected
  <2> QED
    BY <1>1, <2>1, <2>2, <2>5, MovedLocally
<1> QED
  BY <1>1, <1>2, <1>3

\* LogoutBlocklist stores a blocklist key that outlives the access token.
LEMMA LogoutBlocklistInv ==
  ASSUME IInv, NEW r \in Requests, LogoutBlocklist(r)
  PROVE  IInv'
<1> USE DEF IInv
<1>1. PICK o \in RedisOutcomes :
        /\ BlocklistJTI(req[r].jti, o)
        /\ IF o = "ok" THEN req' = [req EXCEPT ![r].pc = "revoke"] ELSE Answer(r)
  BY DEF LogoutBlocklist
<1>2. /\ UNCHANGED <<clock, issued, sent, refresh, spent, ended>>
      /\ req[r].pc = "block"
  BY DEF LogoutBlocklist
<1>3. req[r].jti \in sent /\ req[r].tok \in sent \cup {None}
  BY <1>2 DEF RequestInv, ReqOK, Protected
<1>4. /\ blocklist' \in [Ids -> BlockKey] /\ revoked' \subseteq Ids
      /\ KeyInv' /\ PairInv' /\ BlockInv'
  BY <1>1, <1>2, <1>3, BlockStep
<1>5. \A q \in Requests : q # r /\ Holding(q) =>
        req[q].id \notin sent' /\ refresh'[req[q].id] = NoKey
  BY <1>2 DEF RequestInv, ReqOK
<1>6. CASE o # "ok"
  <2>1. req' \in [Requests -> Request] /\ RequestInv' /\ OwnPair'
    BY <1>1, <1>2, <1>5, <1>6, AnsweredRequests
  <2>2. TypeOK'
    BY <1>2, <1>4, <2>1 DEF TypeOK
  <2> QED
    BY <1>4, <2>1, <2>2
<1>7. CASE o = "ok"
  <2>1. /\ req'[r].pc = "revoke" /\ req'[r].jti = req[r].jti /\ req'[r].tok = req[r].tok
        /\ \A q \in Requests : q # r => req'[q] = req[q]
    BY <1>1, <1>7 DEF TypeOK, Request
  <2>2. TypeOK'
    BY <1>1, <1>2, <1>4, <1>7, RequestTypes DEF TypeOK, Pcs
  <2>3. ReqOK(r)' /\ ~Holding(r)'
    BY <1>2, <1>3, <2>1 DEF ReqOK, Holding, Refreshing, Protected
  <2>4. \A q \in Requests : q # r => ReqOK(q)'
    BY <1>2, <1>5, <2>1, OtherRequests
  <2>5. OwnPair'
    BY <2>1, <2>3, OwnPairKept
  <2> QED
    BY <1>4, <2>2, <2>3, <2>4, <2>5 DEF RequestInv
<1> QED
  BY <1>6, <1>7

\* LogoutRevoke deletes a token that was sent, or nothing.
LEMMA LogoutRevokeInv ==
  ASSUME IInv, NEW r \in Requests, LogoutRevoke(r)
  PROVE  IInv'
<1> USE DEF IInv
<1>1. PICK o \in RedisOutcomes :
        /\ RevokeRefreshToken(req[r].tok, o)
        /\ ended' = IF o = "ok" /\ SoleToken(req[r].tok, req[r].sess)
                    THEN ended \cup ({req[r].sess} \ {None}) ELSE ended
  BY DEF LogoutRevoke
<1>2. /\ UNCHANGED <<clock, issued, sent, blocklist, revoked>>
      /\ Answer(r) /\ req[r].pc = "revoke"
  BY DEF LogoutRevoke
<1>3. req[r].tok \in sent \cup {None}
  BY <1>2 DEF RequestInv, ReqOK, Protected
<1>4. /\ refresh' \in [Ids -> Key] /\ spent' \subseteq Ids
      /\ \A k \in Ids : refresh[k] = NoKey => refresh'[k] = NoKey
      /\ spent \subseteq spent'
      /\ KeyInv' /\ PairInv' /\ BlockInv'
  BY <1>1, <1>2, <1>3, RevokeStep
<1>5. \A q \in Requests : q # r /\ Holding(q) =>
        req[q].id \notin sent' /\ refresh'[req[q].id] = NoKey
  BY <1>2, <1>4 DEF RequestInv, ReqOK
<1>6. req' \in [Requests -> Request] /\ RequestInv' /\ OwnPair'
  BY <1>2, <1>4, <1>5, AnsweredRequests
<1>7. ended' \subseteq Ids
  BY <1>1 DEF TypeOK, Request
<1>8. TypeOK'
  BY <1>2, <1>4, <1>6, <1>7 DEF TypeOK
<1> QED
  BY <1>4, <1>6, <1>8

\* The invariant does not depend on how much time has passed.
LEMMA TickInv ==
  ASSUME IInv, Tick
  PROVE  IInv'
<1> USE DEF IInv
<1>1. clock' = clock + 1 /\ UNCHANGED <<issued, sent, refresh, blocklist, req, revoked, spent, ended>>
  BY DEF Tick
<1>2. TypeOK'
  BY <1>1 DEF TypeOK
<1>3. RequestInv' /\ OwnPair'
  BY <1>1 DEF RequestInv, ReqOK, OwnPair, Holding, Refreshing, Protected
<1>4. KeyInv' /\ BlockInv'
  BY <1>1 DEF KeyInv, BlockInv
<1>5. PairInv'
  BY <1>1, TTLAssumption DEF PairInv, TypeOK, Pair
<1> QED
  BY <1>2, <1>3, <1>4, <1>5

\* A crash forgets every request in flight, and with them the pairs they held.
LEMMA CrashInv ==
  ASSUME IInv, Crash
  PROVE  IInv'
<1> USE DEF IInv
<1>1. /\ req' = [r \in Requests |-> Idle]
      /\ UNCHANGED <<clock, issued, sent, refresh, blocklist, revoked, spent, ended>>
  BY DEF Crash
<1>2. TypeOK'
  BY <1>1, ValueTypes DEF TypeOK
<1>3. \A r \in Requests : ReqOK(r)' /\ ~Holding(r)'
  BY <1>1, IdleOK
<1>4. KeyInv' /\ PairInv' /\ BlockInv'
  BY <1>1, LocalStep
<1> QED
  BY <1>2, <1>3, <1>4 DEF RequestInv, OwnPair

-----------------------------------------------------------------------------
(***************************************************************************)
(* The invariant, and what follows from it.                                *)
(***************************************************************************)
\* IInv is inductive.
LEMMA NextInv ==
  ASSUME IInv, [Next]_vars
  PROVE  IInv'
<1>1. CASE UNCHANGED vars
  BY <1>1 DEF vars, IInv, TypeOK, RequestInv, ReqOK, OwnPair, KeyInv, PairInv, BlockInv,
              Holding, Refreshing, Protected
<1>2. ASSUME NEW r \in Requests, Arrive(r) PROVE IInv'
  <2>1. CASE \E u \in Users : Login(r, u)
    BY <2>1, LoginInv
  <2>2. CASE \E t \in Ids : RefreshValidate(r, t)
    BY <2>2, RefreshValidateInv
  <2>3. CASE \E j \in Ids : JWTVerify(r, j, "call", None)
    BY <2>3, JWTVerifyInv DEF Operations
  <2>4. CASE \E j \in Ids, t \in sent \cup {None} : JWTVerify(r, j, "logout", t)
    BY <2>4, JWTVerifyInv DEF Operations
  <2>5. CASE RefreshRefused(r) \/ JWTRefused(r)
    BY <2>5, <1>1 DEF RefreshRefused, JWTRefused
  <2> QED
    BY <1>2, <2>1, <2>2, <2>3, <2>4, <2>5 DEF Arrive
<1>3. ASSUME NEW r \in Requests, Proceed(r) PROVE IInv'
  <2>1. CASE LoginStore(r) \/ RotateSet(r)
    BY <2>1, StoreInv
  <2>2. CASE RefreshUserGone(r) \/ RateLimited(r) \/ Serve(r)
    BY <2>2, AnsweredLocally DEF RefreshUserGone, RateLimited, Serve
  <2> QED
    BY <1>3, <2>1, <2>2, RefreshIssueInv, RotateDelInv, JWTCheckInv, LogoutBlocklistInv,
       LogoutRevokeInv DEF Proceed
<1> QED
  BY <1>1, <1>2, <1>3, TickInv, CrashInv DEF Next

\* Every behaviour satisfies the inductive invariant.
THEOREM Invariance == Spec => []IInv
BY InitInv, NextInv, PTL DEF Spec

\* Type correctness: no step of a request, no fault, crash or tick of the
\* clock takes a variable out of its type.
THEOREM TypeCorrect == Spec => []TypeOK
BY Invariance, PTL DEF IInv

\* A refresh token deleted by a rotation or a logout stays dead, a token that
\* replaces another is stored only once that one is deleted, and a token a
\* client was sent is honoured until it is deleted or its TTL is over, however
\* the commands of concurrent Login, Refresh and Logout requests interleave
\* and fail.
THEOREM RefreshTokensSafe ==
  Spec => [](SpentTokenStaysDead /\ NewTokenOnlyAfterOldDeleted /\ SentTokenHonoured)
<1>1. IInv => SpentTokenStaysDead /\ NewTokenOnlyAfterOldDeleted /\ SentTokenHonoured
  <2> SUFFICES ASSUME IInv
               PROVE  SpentTokenStaysDead /\ NewTokenOnlyAfterOldDeleted /\ SentTokenHonoured
    OBVIOUS
  <2> USE DEF IInv
  <2>1. SpentTokenStaysDead
    BY DEF SpentTokenStaysDead, KeyInv, TypeOK
  <2>2. NewTokenOnlyAfterOldDeleted
    BY DEF NewTokenOnlyAfterOldDeleted, KeyInv, TypeOK
  <2>3. SentTokenHonoured
    BY DEF SentTokenHonoured, KeyInv, TypeOK
  <2> QED
    BY <2>1, <2>2, <2>3
<1> QED
  BY <1>1, Invariance, PTL

\* Every pair of a session and every refresh key stored for one belongs to the
\* user who logged in: rotation in Refresh never moves a session.
THEOREM SessionUser == Spec => []SessionKeepsItsUser
<1>1. IInv => SessionKeepsItsUser
  BY DEF IInv, SessionKeepsItsUser, PairInv, KeyInv
<1> QED
  BY <1>1, Invariance, PTL

\* A blocklisted access token is refused by the JWT middleware as long as it
\* has not expired, unless Redis does not answer the check.
THEOREM RevocationHolds == Spec => RevokedTokenRefused
<1> DEFINE Refused(r) ==
      /\ req[r].pc = "check"
      /\ req'[r].pc \in {"serve", "block"}
      /\ ~req'[r].open
      => ~(req[r].jti \in revoked /\ clock < issued[req[r].jti].exp)
<1>1. IInv /\ [Next]_vars => [\A r \in Requests : Refused(r)]_vars
  <2> SUFFICES ASSUME IInv, Next, NEW r \in Requests,
                      req[r].pc = "check", req'[r].pc \in {"serve", "block"},
                      ~req'[r].open, req[r].jti \in revoked,
                      clock < issued[req[r].jti].exp
               PROVE  FALSE
    BY DEF vars
  <2> USE DEF IInv
  <2>1. JWTCheck(r)
    <3>1. ~Tick /\ ~Crash
      BY DEF Tick, Crash, Idle
    <3>2. PICK q \in Requests : Arrive(q) \/ Proceed(q)
      BY <3>1 DEF Next
    <3>3. q # r => req'[r] = req[r]
      BY <3>2 DEF TypeOK, Arrive, Proceed, Login, LoginStore, RefreshRefused, RefreshValidate,
                  RefreshUserGone, RefreshIssue, RotateDel, RotateSet, JWTRefused, JWTVerify,
                  JWTCheck, RateLimited, Serve, LogoutBlocklist, LogoutRevoke, Answer, SendPair,
                  vars
    <3>4. q = r
      BY <3>3
    <3>5. ~Arrive(r)
      BY DEF Arrive, Login, RefreshRefused, RefreshValidate, JWTRefused, JWTVerify
    <3> QED
      BY <3>2, <3>4, <3>5 DEF Proceed, LoginStore, RefreshUserGone, RefreshIssue, RotateDel,
                              RotateSet, RateLimited, Serve, LogoutBlocklist, LogoutRevoke
  <2>2. PICK o \in RedisOutcomes :
          IF o = "ok" /\ IsBlocklisted(req[r].jti)
          THEN Answer(r)
          ELSE req' = [req EXCEPT ![r].pc = IF req[r].op = "logout" THEN "block" ELSE "serve",
                                  ![r].open = (o # "ok")]
    BY <2>1 DEF JWTCheck
  <2>3. ~(o = "ok" /\ IsBlocklisted(req[r].jti))
    BY <2>2 DEF Answer, TypeOK, Idle
  <2>4. req'[r].open = (o # "ok")
    BY <2>2, <2>3 DEF TypeOK, Request
  <2>5. ~IsBlocklisted(req[r].jti)
    BY <2>3, <2>4
  <2>6. LiveKey(blocklist[req[r].jti], clock)
    BY NoneAssumption DEF BlockInv, LiveKey, TypeOK, BlockKey, Pair
  <2> QED
    BY <2>5, <2>6 DEF IsBlocklisted
<1> QED
  BY <1>1, Invariance, PTL DEF Spec, RevokedTokenRefused

-----------------------------------------------------------------------------
(***************************************************************************)
(* Sessions implements TokenLife: under the invariant each step of a       *)
(* request generates, stores or deletes one token as TokenLife allows, or  *)
(* leaves the lives of all tokens alone.                                   *)
(***************************************************************************)
\* What the life of a token is, in the terms of Sessions.
LEMMA LifeFacts ==
  ASSUME NEW i \in Ids
  PROVE  /\ LifeOf(i) = "dead" <=> i \in spent
         /\ LifeOf(i) = "live" <=> i \notin spent /\ refresh[i] # NoKey
         /\ LifeOf(i) = "held" <=> i \notin spent /\ refresh[i] = NoKey /\ issued[i].user # None
         /\ LifeOf(i) = "new" <=> i \notin spent /\ refresh[i] = NoKey /\ issued[i].user = None
BY DEF LifeOf

\* The life of a token after a step is read off the variables after the step.
LEMMA NextLifeFacts ==
  ASSUME NEW i \in Ids
  PROVE  /\ LifeOf(i)' = "dead" <=> i \in spent'
         /\ LifeOf(i)' = "live" <=> i \notin spent' /\ refresh'[i] # NoKey
         /\ LifeOf(i)' = "held" <=> i \notin spent' /\ refresh'[i] = NoKey
                                     /\ issued'[i].user # None
         /\ LifeOf(i)' = "new" <=> i \notin spent' /\ refresh'[i] = NoKey
                                     /\ issued'[i].user = None
BY DEF LifeOf, NoKey

\* A token that no command touches keeps its life.
LEMMA Untouched ==
  ASSUME NEW i \in Ids, i \in spent' <=> i \in spent, refresh'[i] = refresh[i],
         issued'[i] = issued[i]
  PROVE  LifeOf(i)' = LifeOf(i)
BY DEF LifeOf, NoKey

\* No token is generated in the initial state.
LEMMA InitRefines == Init => TL!Init
BY DEF Init, TL!Init, LifeOf, NotIssued, NoKey

\* Generating a pair is TokenLife's Generate.
LEMMA GenerateRefines ==
  ASSUME IInv, NEW i \in Ids, NEW u \in Users, NEW p \in Ids \cup {None},
         IssueRefreshToken(i), IssueAccessToken(i, u, p),
         p # None => p \in sent /\ issued[p].user = u,
         UNCHANGED <<refresh, spent>>
  PROVE  TL!Next
<1> USE DEF IInv
<1>1. issued[i].user = None /\ i \notin sent /\ refresh[i] = NoKey /\ i \notin spent
  BY NoneAssumption DEF IssueRefreshToken, KeyInv
<1>2. /\ issued'[i].user = u /\ issued'[i].parent = p
      /\ \A k \in Ids : k # i => issued'[k] = issued[k]
  BY DEF IssueAccessToken, TypeOK
<1>3. LifeOf(i) = "new" /\ LifeOf(i)' = "held"
  BY <1>1, <1>2, LifeFacts, NextLifeFacts, NoneAssumption
<1>4. \A k \in Ids : k # i => LifeOf(k)' = LifeOf(k)
  BY <1>2, Untouched
<1>5. p # None => p \in Ids /\ LifeOf(p) \in {"live", "dead"} /\ issued[p].user = u
  BY LifeFacts DEF KeyInv
<1>6. TL!Generate(i, u, p)
  BY <1>2, <1>3, <1>4, <1>5 DEF TL!Generate
<1> QED
  BY <1>6 DEF TL!Next

\* Storing the token a request holds is TokenLife's Store.
LEMMA StoreRefines ==
  ASSUME IInv, NEW i \in Ids, NEW u \in Users, NEW o,
         i \notin sent, refresh[i] = NoKey, issued[i].user = u,
         issued[i].parent # None => issued[i].parent \in spent,
         StoreRefreshToken(i, u, o), UNCHANGED <<issued, spent>>
  PROVE  TL!Next \/ UNCHANGED refresh
<1> USE DEF IInv
<1>0. CASE ~Executed(o)
  BY <1>0 DEF StoreRefreshToken
<1>1. CASE Executed(o)
  <2>1. /\ refresh'[i] = SetKey(u, clock, RefreshTTL)
        /\ \A k \in Ids : k # i => refresh'[k] = refresh[k]
    BY <1>1 DEF StoreRefreshToken, TypeOK
  <2>2. refresh'[i] # NoKey
    BY <2>1, StoredKey, NoneAssumption
  <2>3. i \notin spent
    BY DEF KeyInv
  <2>4. LifeOf(i) = "held" /\ LifeOf(i)' = "live"
    BY <2>2, <2>3, LifeFacts, NextLifeFacts, NoneAssumption
  <2>5. \A k \in Ids : k # i => LifeOf(k)' = LifeOf(k)
    BY <2>1, Untouched
  <2>6. issued[i].parent # None => issued[i].parent \in Ids /\ LifeOf(issued[i].parent) = "dead"
    BY LifeFacts DEF TypeOK
  <2>7. TL!Store(i)
    BY <2>4, <2>5, <2>6 DEF TL!Store
  <2> QED
    BY <2>7 DEF TL!Next
<1> QED
  BY <1>0, <1>1

\* Deleting a token that was sent is TokenLife's Delete, unless it is dead.
LEMMA DeleteRefines ==
  ASSUME IInv, NEW t \in sent \cup {None}, NEW o, RevokeRefreshToken(t, o), UNCHANGED issued
  PROVE  TL!Next \/ \A k \in Ids : LifeOf(k)' = LifeOf(k)
<1> USE DEF IInv
<1>1. CASE ~(Executed(o) /\ t # None)
  BY <1>1, Untouched DEF RevokeRefreshToken
<1>2. CASE Executed(o) /\ t # None
  <2>1. /\ t \in Ids /\ refresh'[t] = NoKey /\ spent' = spent \cup {t}
        /\ \A k \in Ids : k # t => refresh'[k] = refresh[k]
    BY <1>2 DEF RevokeRefreshToken, TypeOK
  <2>2. \A k \in Ids : k # t => LifeOf(k)' = LifeOf(k)
    BY <2>1, Untouched
  <2>3. LifeOf(t)' = "dead" /\ LifeOf(t) \in {"live", "dead"}
    BY <1>2, <2>1, LifeFacts, NextLifeFacts DEF KeyInv
  <2>4. CASE LifeOf(t) = "live"
    <3>1. TL!Delete(t)
      BY <2>1, <2>2, <2>3, <2>4 DEF TL!Delete
    <3> QED
      BY <2>1, <3>1 DEF TL!Next
  <2>5. CASE LifeOf(t) = "dead"
    BY <2>2, <2>3, <2>5
  <2> QED
    BY <2>3, <2>4, <2>5
<1> QED
  BY <1>1, <1>2

\* A step that leaves Redis' refresh keys, the pairs and spent alone, or that
\* changes no token's life, stutters in TokenLife.
LEMMA Stutters ==
  ASSUME UNCHANGED issued, \A k \in Ids : LifeOf(k)' = LifeOf(k)
  PROVE  UNCHANGED TL!tokenVars
BY DEF TL!tokenVars

LEMMA StuttersUnchanged ==
  ASSUME UNCHANGED <<issued, refresh, spent>>
  PROVE  UNCHANGED TL!tokenVars
BY Untouched, Stutters

\* Every step of Sessions is a step of TokenLife or a stutter.
LEMMA NextRefines ==
  ASSUME IInv, [Next]_vars
  PROVE  [TL!Next]_(TL!tokenVars)
<1> USE DEF IInv
<1>1. CASE UNCHANGED vars \/ Tick \/ Crash
  BY <1>1, StuttersUnchanged DEF vars, Tick, Crash
<1>2. ASSUME NEW r \in Requests, Arrive(r) PROVE [TL!Next]_(TL!tokenVars)
  <2>1. CASE \E u \in Users : Login(r, u)
    <3>1. PICK u \in Users : Login(r, u)
      BY <2>1
    <3>2. PICK i \in Ids : IssueRefreshToken(i) /\ IssueAccessToken(i, u, None)
      BY <3>1 DEF Login
    <3>3. UNCHANGED <<refresh, spent>>
      BY <3>1 DEF Login
    <3> QED
      BY <3>2, <3>3, GenerateRefines
  <2>2. CASE UNCHANGED <<issued, refresh, spent>>
    BY <2>2, StuttersUnchanged
  <2> QED
    BY <1>2, <2>1, <2>2 DEF Arrive, RefreshRefused, RefreshValidate, JWTRefused, JWTVerify, vars
<1>3. ASSUME NEW r \in Requests, Proceed(r) PROVE [TL!Next]_(TL!tokenVars)
  <2>1. CASE LoginStore(r) \/ RotateSet(r)
    <3>1. PICK o \in RedisOutcomes : StoreRefreshToken(req[r].id, req[r].user, o)
      BY <2>1 DEF LoginStore, RotateSet
    <3>2. UNCHANGED <<issued, spent>> /\ req[r].pc \in {"store", "set"}
      BY <2>1 DEF LoginStore, RotateSet
    <3>3. ReqOK(r)
      BY DEF RequestInv
    <3>4. /\ req[r].id \in Ids /\ req[r].id \notin sent /\ req[r].user \in Users
          /\ issued[req[r].id].user = req[r].user /\ refresh[req[r].id] = NoKey
          /\ issued[req[r].id].parent # None => issued[req[r].id].parent \in spent
      BY <3>2, <3>3 DEF ReqOK, Holding
    <3>5. TL!Next \/ UNCHANGED refresh
      BY <3>1, <3>2, <3>4, StoreRefines
    <3> QED
      BY <3>2, <3>5, StuttersUnchanged
  <2>2. CASE RefreshIssue(r)
    <3>1. PICK i \in Ids : IssueRefreshToken(i) /\ IssueAccessToken(i, req[r].user, req[r].tok)
      BY <2>2 DEF RefreshIssue
    <3>2. UNCHANGED <<refresh, spent>> /\ req[r].pc = "lookup"
      BY <2>2 DEF RefreshIssue
    <3>3. ReqOK(r)
      BY DEF RequestInv
    <3>4. /\ req[r].tok \in sent /\ req[r].tok \in Ids /\ req[r].user \in Users
          /\ issued[req[r].tok].user = req[r].user
      BY <3>2, <3>3 DEF ReqOK, Refreshing, TypeOK
    <3> QED
      BY <3>1, <3>2, <3>4, GenerateRefines
  <2>3. CASE RotateDel(r) \/ LogoutRevoke(r)
    <3>1. PICK o \in RedisOutcomes : RevokeRefreshToken(req[r].tok, o)
      BY <2>3 DEF RotateDel, LogoutRevoke
    <3>2. UNCHANGED issued /\ req[r].pc \in {"del", "revoke"}
      BY <2>3 DEF RotateDel, LogoutRevoke
    <3>3. ReqOK(r)
      BY DEF RequestInv
    <3>4. req[r].tok \in sent \cup {None}
      BY <3>2, <3>3 DEF ReqOK, Refreshing, Protected
    <3> QED
      BY <3>1, <3>2, <3>4, DeleteRefines, Stutters
  <2>4. CASE UNCHANGED <<issued, refresh, spent>>
    BY <2>4, StuttersUnchanged
  <2> QED
    BY <1>3, <2>1, <2>2, <2>3, <2>4 DEF Proceed, RefreshUserGone, JWTCheck, RateLimited, Serve,
                                        LogoutBlocklist
<1> QED
  BY <1>1, <1>2, <1>3 DEF Next

\* Sessions implements TokenLife: whatever requests of Login, Refresh and
\* Logout interleave, fail or die with the process, each refresh token becomes
\* valid at most once, only after the token it replaces is deleted, never
\* returns after its own deletion, and never changes its user.
THEOREM Refinement == Spec => ImplementsTokenLife
BY InitRefines, NextRefines, Invariance, PTL DEF Spec, ImplementsTokenLife, TL!Spec

-----------------------------------------------------------------------------
(***************************************************************************)
(* Logout ends the session.  A second invariant, SessionInv, follows the   *)
(* sessions: their pairs and the requests that refresh them.               *)
(***************************************************************************)
\* A session's root is its first pair, which was sent before any other of its
\* pairs was generated.
RootInv ==
  \A i \in Ids : issued[i].user # None => issued[i].root = i \/ issued[i].root \in sent

\* Which sessions a request is about.
SessionOf(r) ==
  /\ req[r].op = "refresh" <=> Refreshing(r)
  /\ req[r].pc = "store" => issued[req[r].id].root = req[r].id
  /\ req[r].pc \in {"del", "set"} => issued[req[r].id].root = issued[req[r].tok].root
  /\ Protected(r) /\ req[r].sess # None =>
       req[r].tok \in sent /\ req[r].sess = issued[req[r].tok].root

\* An ended session has no key, and no request that could store one.
EndedInv ==
  \A s \in ended :
    /\ s \in sent
    /\ \A i \in Ids : issued[i].root = s => refresh[i] = NoKey
    /\ \A r \in Requests : Refreshing(r) => issued[req[r].tok].root # s

SessionInv == RootInv /\ (\A r \in Requests : SessionOf(r)) /\ EndedInv

\* A step of r that ends no session, stores keys of sessions that go on and
\* starts refreshing none but those.
LEMMA SessionStep ==
  ASSUME IInv, SessionInv, NEW r \in Requests,
         \A q \in Requests : q # r => req'[q] = req[q],
         \A k \in Ids : issued[k].user \in Users => issued'[k] = issued[k],
         \A k \in Ids : \/ issued'[k] = issued[k]
                        \/ issued'[k].root = k
                        \/ issued'[k].root \in sent,
         sent \subseteq sent', ended' = ended,
         \A k \in Ids : \/ refresh'[k] = refresh[k]
                        \/ refresh'[k] = NoKey
                        \/ issued[k].user \in Users /\ issued[k].root \notin ended,
         SessionOf(r)',
         Refreshing(r)' => req'[r].tok \in sent /\ issued[req'[r].tok].root \notin ended
  PROVE  SessionInv'
<1>1. \A k \in sent : k \in Ids /\ issued[k].user \in Users /\ issued'[k] = issued[k]
  BY DEF IInv, TypeOK, KeyInv
<1>2. RootInv'
  BY DEF SessionInv, RootInv
<1>3. ASSUME NEW q \in Requests PROVE SessionOf(q)'
  <2>1. CASE q = r
    BY <2>1
  <2>2. CASE q # r
    <3>1. req'[q] = req[q] /\ ReqOK(q) /\ SessionOf(q)
      BY <2>2 DEF IInv, RequestInv, SessionInv
    <3>2. Holding(q) => issued'[req[q].id] = issued[req[q].id]
      BY <3>1 DEF ReqOK
    <3>3. Refreshing(q) => issued'[req[q].tok] = issued[req[q].tok]
      BY <1>1, <3>1 DEF ReqOK
    <3>4. Protected(q) /\ req[q].sess # None => issued'[req[q].tok] = issued[req[q].tok]
      BY <1>1, <3>1 DEF SessionOf
    <3> QED
      BY <3>1, <3>2, <3>3, <3>4 DEF SessionOf, Holding, Refreshing, Protected
  <2> QED
    BY <2>1, <2>2
<1>4. EndedInv'
  <2> SUFFICES ASSUME NEW s \in ended
               PROVE  /\ s \in sent'
                      /\ \A i \in Ids : issued'[i].root = s => refresh'[i] = NoKey
                      /\ \A q \in Requests : Refreshing(q)' => issued'[req'[q].tok].root # s
    BY DEF EndedInv
  <2>1. /\ s \in sent /\ \A i \in Ids : issued[i].root = s => refresh[i] = NoKey
        /\ \A q \in Requests : Refreshing(q) => issued[req[q].tok].root # s
    BY DEF SessionInv, EndedInv
  <2>2. ASSUME NEW i \in Ids, issued'[i].root = s PROVE refresh'[i] = NoKey
    <3>1. CASE issued[i].user \in Users
      BY <2>1, <2>2, <3>1
    <3>2. CASE issued[i].user \notin Users
      BY <3>2 DEF IInv, KeyInv
    <3> QED
      BY <3>1, <3>2
  <2>3. ASSUME NEW q \in Requests, Refreshing(q)' PROVE issued'[req'[q].tok].root # s
    <3>1. CASE q = r
      BY <1>1, <2>3, <3>1
    <3>2. CASE q # r
      <4>1. Refreshing(q) /\ req'[q] = req[q] /\ req[q].tok \in sent
        BY <2>3, <3>2 DEF Refreshing, IInv, RequestInv, ReqOK
      <4> QED
        BY <1>1, <2>1, <4>1
    <3> QED
      BY <3>1, <3>2
  <2> QED
    BY <2>1, <2>2, <2>3
<1> QED
  BY <1>2, <1>3, <1>4 DEF SessionInv

\* An idle request is about no session.
LEMMA IdleSession ==
  ASSUME NEW r \in Requests, req'[r] = Idle
  PROVE  SessionOf(r)' /\ ~Refreshing(r)'
BY DEF SessionOf, Refreshing, Protected, Idle

\* A step that answers r, and stores keys of sessions that go on.
LEMMA SessionAnswered ==
  ASSUME IInv, SessionInv, NEW r \in Requests, Answer(r), UNCHANGED <<issued, ended>>,
         sent \subseteq sent',
         \A k \in Ids : \/ refresh'[k] = refresh[k]
                        \/ refresh'[k] = NoKey
                        \/ issued[k].user \in Users /\ issued[k].root \notin ended
  PROVE  SessionInv'
<1>1. req'[r] = Idle /\ \A q \in Requests : q # r => req'[q] = req[q]
  BY DEF Answer, IInv, TypeOK
<1>2. SessionOf(r)' /\ ~Refreshing(r)'
  BY <1>1, IdleSession
<1> QED
  BY <1>1, <1>2, SessionStep

\* A login begins a session, and a refresh continues one.
LEMMA SessionIssue ==
  ASSUME IInv, SessionInv, NEW r \in Requests, (\E u \in Users : Login(r, u)) \/ RefreshIssue(r)
  PROVE  SessionInv'
<1>1. CASE \E u \in Users : Login(r, u)
  <2>1. PICK u \in Users : Login(r, u)
    BY <1>1
  <2>2. PICK i \in Ids :
          \E q : /\ q = [Idle EXCEPT !.pc = "store", !.op = "login", !.user = u, !.id = i]
                /\ issued[i].user = None
                /\ IssueAccessToken(i, u, None)
                /\ req' = [req EXCEPT ![r] = q]
    BY <2>1 DEF Login, IssueRefreshToken
  <2>3. PICK q : /\ q.pc = "store" /\ q.op = "login" /\ q.id = i
                 /\ req' = [req EXCEPT ![r] = q]
    BY <2>2 DEF Idle
  <2>4. req'[r] = q /\ \A p \in Requests : p # r => req'[p] = req[p]
    BY <2>3 DEF IInv, TypeOK
  <2>5. issued'[i].root = i /\ \A k \in Ids : k # i => issued'[k] = issued[k]
    BY <2>2 DEF IssueAccessToken, IInv, TypeOK
  <2>6. \A k \in Ids : issued[k].user \in Users => issued'[k] = issued[k]
    BY <2>2, <2>5, NoneAssumption
  <2>7. SessionOf(r)' /\ ~Refreshing(r)'
    BY <2>3, <2>4, <2>5 DEF SessionOf, Refreshing, Protected
  <2>8. refresh' = refresh /\ sent' = sent /\ ended' = ended
    BY <2>1 DEF Login
  <2> QED
    BY <2>4, <2>5, <2>6, <2>7, <2>8, SessionStep
<1>2. CASE RefreshIssue(r)
  <2>1. PICK p \in Request : p = req[r] /\ p.pc = "lookup" /\ p.tok \in sent
    BY <1>2 DEF RefreshIssue, IInv, TypeOK, RequestInv, ReqOK, Refreshing
  <2>2. PICK i \in Ids : /\ issued[i].user = None
                        /\ IssueAccessToken(i, p.user, p.tok)
                        /\ req' = [req EXCEPT ![r].pc = "del", ![r].id = i]
    BY <1>2, <2>1 DEF RefreshIssue, IssueRefreshToken
  <2>3. PICK q : q = [p EXCEPT !.pc = "del", !.id = i]
    OBVIOUS
  <2>4. req' = [req EXCEPT ![r] = q]
    BY <2>1, <2>2, <2>3 DEF IInv, TypeOK
  <2>5. q.pc = "del" /\ q.op = p.op /\ q.id = i /\ q.tok = p.tok /\ p.op = "refresh"
    BY <2>1, <2>3 DEF Request, SessionInv, SessionOf, Refreshing
  <2>6. req'[r] = q /\ \A k \in Requests : k # r => req'[k] = req[k]
    BY <2>4 DEF IInv, TypeOK
  <2>7. p.tok \in Ids /\ p.tok # None /\ issued[p.tok].user \in Users /\ p.tok # i
    BY <2>1, <2>2, NoneAssumption DEF IInv, TypeOK, KeyInv
  <2>8. /\ issued'[i].root = issued[p.tok].root
        /\ \A k \in Ids : k # i => issued'[k] = issued[k]
    BY <2>2, <2>7 DEF IssueAccessToken, IInv, TypeOK
  <2>9. issued[p.tok].root \in sent
    BY <2>1, <2>7, NoneAssumption DEF SessionInv, RootInv
  <2>10. issued[p.tok].root \notin ended
    BY <2>1 DEF SessionInv, EndedInv, Refreshing
  <2>11. \A k \in Ids : issued[k].user \in Users => issued'[k] = issued[k]
    BY <2>2, <2>8, NoneAssumption
  <2>12. SessionOf(r)'
    BY <2>5, <2>6, <2>7, <2>8 DEF SessionOf, Refreshing, Protected
  <2>13. refresh' = refresh /\ sent' = sent /\ ended' = ended
    BY <1>2 DEF RefreshIssue
  <2> QED
    BY <2>1, <2>5, <2>6, <2>8, <2>9, <2>10, <2>11, <2>12, <2>13, SessionStep
<1> QED
  BY <1>1, <1>2

\* What is stored is the first key of a session or, while a refresh of it is in
\* flight, the next one: the session has not ended.
LEMMA SessionStored ==
  ASSUME IInv, SessionInv, NEW r \in Requests, LoginStore(r) \/ RotateSet(r)
  PROVE  SessionInv'
<1>1. PICK i \in Ids : i = req[r].id /\ i \notin sent /\ issued[i].user \in Users
  BY DEF LoginStore, RotateSet, IInv, RequestInv, ReqOK, Holding
<1>2. issued[i].root \notin ended
  <2>1. CASE req[r].pc = "store"
    BY <1>1, <2>1 DEF SessionInv, SessionOf, EndedInv
  <2>2. CASE req[r].pc = "set"
    BY <1>1, <2>2 DEF SessionInv, SessionOf, EndedInv, Refreshing
  <2> QED
    BY <2>1, <2>2 DEF LoginStore, RotateSet
<1>3. \A k \in Ids : k # i => refresh'[k] = refresh[k]
  BY <1>1 DEF LoginStore, RotateSet, StoreRefreshToken, IInv, TypeOK
<1>4. Answer(r) /\ sent \subseteq sent' /\ issued' = issued /\ ended' = ended
  BY DEF LoginStore, RotateSet, SendPair
<1> QED
  BY <1>1, <1>2, <1>3, <1>4, SessionAnswered

\* Deleting a key does not disturb the sessions.
LEMMA DeletedKeys ==
  ASSUME IInv, NEW t, NEW o, RevokeRefreshToken(t, o)
  PROVE  \A k \in Ids : refresh'[k] = refresh[k] \/ refresh'[k] = NoKey
BY DEF RevokeRefreshToken, IInv, TypeOK

\* The steps of a request that read or delete keys.
LEMMA SessionMoved ==
  ASSUME IInv, SessionInv, NEW r \in Requests,
         \/ \E t \in Ids : RefreshValidate(r, t)
         \/ \E j \in Ids, op \in {"call", "logout"}, t \in sent \cup {None} : JWTVerify(r, j, op, t)
         \/ RotateDel(r) \/ JWTCheck(r) \/ LogoutBlocklist(r)
  PROVE  SessionInv'
<1> USE DEF IInv, TypeOK
<1>1. ASSUME NEW t \in Ids, RefreshValidate(r, t) PROVE SessionInv'
  <2>1. PICK q : /\ q = [Idle EXCEPT !.pc = "lookup", !.op = "refresh", !.user = refresh[t].val,
                                     !.tok = t]
                 /\ req' = [req EXCEPT ![r] = q]
    BY <1>1 DEF RefreshValidate
  <2>2. q.pc = "lookup" /\ q.op = "refresh" /\ q.tok = t
    BY <2>1 DEF Idle
  <2>3. req'[r] = q /\ \A k \in Requests : k # r => req'[k] = req[k]
    BY <2>1
  <2>4. SessionOf(r)'
    BY <2>2, <2>3 DEF SessionOf, Refreshing, Protected
  <2>5. t \in sent /\ refresh[t] # NoKey
    <3>1. t \in sent /\ refresh[t].val # None
      BY <1>1 DEF RefreshValidate, ValidateRefreshToken, LiveKey
    <3> QED
      BY <3>1 DEF NoKey
  <2>6. issued[t].root \notin ended
    BY <2>5 DEF SessionInv, EndedInv
  <2>7. issued' = issued /\ refresh' = refresh /\ sent' = sent /\ ended' = ended
    BY <1>1 DEF RefreshValidate
  <2> QED
    BY <2>2, <2>3, <2>4, <2>5, <2>6, <2>7, SessionStep
<1>2. ASSUME NEW j \in Ids, NEW op \in {"call", "logout"}, NEW t \in sent \cup {None},
             JWTVerify(r, j, op, t)
      PROVE  SessionInv'
  <2>1. PICK sess : sess = IF t # None /\ LiveKey(refresh[t], clock) THEN issued[t].root ELSE None
    OBVIOUS
  <2>2. PICK q : /\ q = [Idle EXCEPT !.pc = "check", !.op = op, !.user = issued[j].user,
                                     !.jti = j, !.tok = t, !.sess = sess]
                 /\ req' = [req EXCEPT ![r] = q]
    BY <1>2, <2>1 DEF JWTVerify
  <2>3. q.pc = "check" /\ q.op = op /\ q.tok = t /\ q.sess = sess
    BY <2>2 DEF Idle
  <2>4. req'[r] = q /\ \A k \in Requests : k # r => req'[k] = req[k]
    BY <2>2
  <2>5. issued' = issued /\ refresh' = refresh /\ sent' = sent /\ ended' = ended
    BY <1>2 DEF JWTVerify
  <2>6. SessionOf(r)' /\ ~Refreshing(r)'
    BY <2>1, <2>3, <2>4, <2>5 DEF SessionOf, Refreshing, Protected
  <2> QED
    BY <2>4, <2>5, <2>6, SessionStep
<1>3. CASE Answer(r) /\ (RotateDel(r) \/ JWTCheck(r) \/ LogoutBlocklist(r))
  <2>1. \A k \in Ids : refresh'[k] = refresh[k] \/ refresh'[k] = NoKey
    BY <1>3, DeletedKeys DEF RotateDel, JWTCheck, LogoutBlocklist
  <2>2. issued' = issued /\ ended' = ended /\ sent' = sent
    BY <1>3 DEF RotateDel, JWTCheck, LogoutBlocklist
  <2> QED
    BY <1>3, <2>1, <2>2, SessionAnswered
<1>4. CASE ~Answer(r) /\ (RotateDel(r) \/ JWTCheck(r) \/ LogoutBlocklist(r))
  <2>1. PICK p \in Request : p = req[r]
    OBVIOUS
  <2>2. PICK l \in {"set", "serve", "block", "revoke"}, open \in BOOLEAN :
          /\ req' = [req EXCEPT ![r] = [p EXCEPT !.pc = l, !.open = open]]
          /\ l = "set" <=> p.pc = "del"
          /\ p.pc \in {"del", "check", "block"}
    <3>1. CASE RotateDel(r)
      <4>1. p.pc = "del" /\ req' = [req EXCEPT ![r].pc = "set"]
        BY <1>4, <2>1, <3>1 DEF RotateDel
      <4>2. [p EXCEPT !.pc = "set"] = [p EXCEPT !.pc = "set", !.open = p.open] /\ p.open \in BOOLEAN
        BY DEF Request
      <4> QED
        BY <2>1, <4>1, <4>2
    <3>2. CASE JWTCheck(r)
      <4>1. PICK o \in RedisOutcomes :
              req' = [req EXCEPT ![r].pc = IF req[r].op = "logout" THEN "block" ELSE "serve",
                                 ![r].open = (o # "ok")]
        BY <1>4, <3>2 DEF JWTCheck
      <4>2. p.pc = "check"
        BY <2>1, <3>2 DEF JWTCheck
      <4>3. PICK open \in BOOLEAN : open = (o # "ok")
        OBVIOUS
      <4>4. PICK l \in {"block", "serve"} : l = IF p.op = "logout" THEN "block" ELSE "serve"
        OBVIOUS
      <4>5. req' = [req EXCEPT ![r] = [p EXCEPT !.pc = l, !.open = open]]
        BY <2>1, <4>1, <4>3, <4>4
      <4> QED
        BY <4>2, <4>5
    <3>3. CASE LogoutBlocklist(r)
      <4>1. p.pc = "block" /\ req' = [req EXCEPT ![r].pc = "revoke"]
        BY <1>4, <2>1, <3>3 DEF LogoutBlocklist
      <4>2. /\ [p EXCEPT !.pc = "revoke"] = [p EXCEPT !.pc = "revoke", !.open = p.open]
            /\ p.open \in BOOLEAN
        BY DEF Request
      <4> QED
        BY <2>1, <4>1, <4>2
    <3> QED
      BY <1>4, <3>1, <3>2, <3>3
  <2>3. PICK q : q = [p EXCEPT !.pc = l, !.open = open]
    OBVIOUS
  <2>4. q.pc = l /\ q.op = p.op /\ q.tok = p.tok /\ q.id = p.id /\ q.sess = p.sess
    BY <2>3 DEF Request
  <2>5. req'[r] = q /\ \A k \in Requests : k # r => req'[k] = req[k]
    BY <2>2, <2>3
  <2>6. \A k \in Ids : refresh'[k] = refresh[k] \/ refresh'[k] = NoKey
    BY <1>4, DeletedKeys DEF RotateDel, JWTCheck, LogoutBlocklist
  <2>7. issued' = issued /\ ended' = ended /\ sent' = sent
    BY <1>4 DEF RotateDel, JWTCheck, LogoutBlocklist
  <2>8. SessionOf(r) /\ ReqOK(r)
    BY DEF SessionInv, RequestInv
  <2>9. SessionOf(r)'
    BY <2>1, <2>2, <2>4, <2>5, <2>7, <2>8 DEF SessionOf, Refreshing, Protected
  <2>10. Refreshing(r)' => Refreshing(r)
    BY <2>1, <2>2, <2>4, <2>5 DEF Refreshing
  <2>11. Refreshing(r) => req[r].tok \in sent /\ issued[req[r].tok].root \notin ended
    BY <2>8 DEF ReqOK, SessionInv, EndedInv
  <2> QED
    BY <2>1, <2>4, <2>5, <2>6, <2>7, <2>9, <2>10, <2>11, SessionStep
<1> QED
  BY <1>1, <1>2, <1>3, <1>4

\* The logout that presents the only token of its session ends it.
LEMMA SessionEnds ==
  ASSUME IInv, SessionInv, NEW r \in Requests, LogoutRevoke(r)
  PROVE  SessionInv'
<1> USE DEF IInv, TypeOK
<1>1. PICK o \in RedisOutcomes :
        /\ RevokeRefreshToken(req[r].tok, o)
        /\ ended' = IF o = "ok" /\ SoleToken(req[r].tok, req[r].sess)
                    THEN ended \cup ({req[r].sess} \ {None}) ELSE ended
  BY DEF LogoutRevoke
<1>2. \A k \in Ids : refresh'[k] = refresh[k] \/ refresh'[k] = NoKey
  BY <1>1, DeletedKeys
<1>3. Answer(r) /\ issued' = issued /\ sent' = sent
  BY DEF LogoutRevoke
<1>4. req'[r] = Idle /\ \A q \in Requests : q # r => req'[q] = req[q]
  BY <1>3 DEF Answer
<1>5. RootInv'
  BY <1>3 DEF SessionInv, RootInv
<1>6. \A q \in Requests : SessionOf(q)' /\ (Refreshing(q)' => Refreshing(q) /\ q # r)
  BY <1>3, <1>4, IdleSession DEF SessionInv, SessionOf, Refreshing, Protected
<1>7. ASSUME NEW s \in ended'
      PROVE  /\ s \in sent
             /\ \A i \in Ids : issued[i].root = s => refresh'[i] = NoKey
             /\ \A q \in Requests : Refreshing(q) => issued[req[q].tok].root # s
  <2>1. CASE s \in ended
    BY <1>2, <2>1 DEF SessionInv, EndedInv
  <2>2. CASE s \notin ended
    <3>1. o = "ok" /\ SoleToken(req[r].tok, s) /\ s = req[r].sess /\ s # None
      BY <1>1, <2>2
    <3>2. req[r].pc = "revoke" /\ SessionOf(r)
      BY DEF LogoutRevoke, SessionInv
    <3>3. PICK t \in sent : t = req[r].tok /\ s = issued[t].root
      BY <3>1, <3>2 DEF SessionOf, Protected
    <3>4. t \in Ids /\ issued[t].user # None
      BY NoneAssumption DEF KeyInv
    <3>5. s \in sent
      BY <3>3, <3>4 DEF SessionInv, RootInv
    <3>6. refresh'[t] = NoKey
      BY <1>1, <3>1, <3>3, <3>4, NoneAssumption DEF RevokeRefreshToken, Executed
    <3>7. \A i \in Ids : issued[i].root = s => refresh'[i] = NoKey
      BY <1>2, <3>1, <3>3, <3>6 DEF SoleToken
    <3>8. \A q \in Requests : Refreshing(q) => issued[req[q].tok].root # s
      BY <3>1 DEF SoleToken, SessionInv, SessionOf
    <3> QED
      BY <3>5, <3>7, <3>8
  <2> QED
    BY <2>1, <2>2
<1>8. EndedInv'
  <2>1. \A q \in Requests : Refreshing(q)' => req'[q] = req[q]
    BY <1>4, <1>6
  <2> QED
    BY <1>3, <1>6, <1>7, <2>1 DEF EndedInv
<1> QED
  BY <1>5, <1>6, <1>8 DEF SessionInv

\* SessionInv is inductive, relative to IInv.
LEMMA SessionNext ==
  ASSUME IInv, SessionInv, [Next]_vars
  PROVE  SessionInv'
<1>1. CASE UNCHANGED <<issued, sent, refresh, req, ended>>
  BY <1>1 DEF SessionInv, RootInv, SessionOf, EndedInv, Refreshing, Protected
<1>2. CASE Tick \/ UNCHANGED vars
  BY <1>1, <1>2 DEF Tick, vars
<1>3. CASE Crash
  <2>1. \A q \in Requests : SessionOf(q)' /\ ~Refreshing(q)'
    BY <1>3, IdleSession DEF Crash
  <2>2. issued' = issued /\ sent' = sent /\ refresh' = refresh /\ ended' = ended
    BY <1>3 DEF Crash
  <2> QED
    BY <2>1, <2>2 DEF SessionInv, RootInv, EndedInv
<1>4. ASSUME NEW r \in Requests, Arrive(r) PROVE SessionInv'
  <2>1. CASE RefreshRefused(r) \/ JWTRefused(r)
    BY <1>1, <2>1 DEF RefreshRefused, JWTRefused, vars
  <2>2. CASE \E u \in Users : Login(r, u)
    BY <2>2, SessionIssue
  <2>3. CASE \E t \in Ids : RefreshValidate(r, t)
    BY <2>3, SessionMoved
  <2>4. CASE \/ \E j \in Ids : JWTVerify(r, j, "call", None)
             \/ \E j \in Ids, t \in sent \cup {None} : JWTVerify(r, j, "logout", t)
    <3>1. \E j \in Ids, op \in {"call", "logout"}, t \in sent \cup {None} : JWTVerify(r, j, op, t)
      BY <2>4
    <3> QED
      BY <3>1, SessionMoved
  <2> QED
    BY <1>4, <2>1, <2>2, <2>3, <2>4 DEF Arrive
<1>5. ASSUME NEW r \in Requests, Proceed(r) PROVE SessionInv'
  <2>1. CASE LoginStore(r) \/ RotateSet(r)
    BY <2>1, SessionStored
  <2>2. CASE RefreshUserGone(r) \/ RateLimited(r) \/ Serve(r)
    BY <2>2, SessionAnswered DEF RefreshUserGone, RateLimited, Serve
  <2>3. CASE RefreshIssue(r)
    BY <2>3, SessionIssue
  <2>4. CASE RotateDel(r) \/ JWTCheck(r) \/ LogoutBlocklist(r)
    BY <2>4, SessionMoved
  <2>5. CASE LogoutRevoke(r)
    BY <2>5, SessionEnds
  <2> QED
    BY <1>5, <2>1, <2>2, <2>3, <2>4, <2>5 DEF Proceed
<1> QED
  BY <1>2, <1>3, <1>4, <1>5 DEF Next

\* Logout ends the session: after one that presented the session's only token
\* returned 204, no token of the session is valid again, whatever requests and
\* crashes follow.
THEOREM LogoutEnds == Spec => []LogoutEndsSession
<1>1. Init => SessionInv
  <2> SUFFICES ASSUME Init PROVE SessionInv
    OBVIOUS
  <2>1. \A r \in Requests : req[r] = Idle
    BY DEF Init
  <2>2. \A r \in Requests : SessionOf(r)
    BY <2>1 DEF SessionOf, Refreshing, Protected, Idle
  <2> QED
    BY <2>2 DEF Init, SessionInv, RootInv, EndedInv, NotIssued
<1>2. IInv /\ SessionInv => LogoutEndsSession
  BY DEF SessionInv, EndedInv, LogoutEndsSession, LiveKey, NoKey
<1>3. IInv /\ SessionInv /\ [Next]_vars => SessionInv'
  BY SessionNext
<1> QED
  BY <1>1, <1>2, <1>3, Invariance, PTL DEF Spec

=============================================================================
