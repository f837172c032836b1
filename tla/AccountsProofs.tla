--------------------------- MODULE AccountsProofs ---------------------------
(***************************************************************************)
(* Proofs about Accounts, for any number of users, addresses and requests, *)
(* any latency and any life of cache entries and tokens, whatever requests *)
(* overlap and whatever commands fail or answers are lost.                 *)
(*                                                                         *)
(* The invariant follows a row's data along its way, from the table into   *)
(* the copy of a request, from there into the cache or a token, and says   *)
(* at each place how long ago at most the table had it (Had), and that the *)
(* role in it had been granted.  Had at one state gives Had at the next,   *)
(* whatever happens to the row (HadStep).                                  *)
(***************************************************************************)
EXTENDS Accounts, FiniteSetTheorems, TLAPS

\* A user whose row is inactive with no update on its way that could make it
\* active again.
Gone(u) ==
  /\ row[u] # None
  /\ ~row[u].active
  /\ \A r \in Requests : ~(req[r].pc = "write" /\ req[r].user = u)

\* A row, or a copy of one, whose role was granted and whose data the table had
\* no more than n ticks ago.
Granted(u, copy) == row[u] # None /\ copy.role \in granted[u]

Fresh(u, copy, n) == Had(u, copy.role, n)

Active(u, n) == Had(u, "active", n)

\* Delay of what is read from the cache.
CacheLag == Latency + (CacheTTL - 1)

\* What holds of request q that has been in flight for a ticks.
ReqOK(q, a) ==
  /\ q.pc \in {"read", "fill", "write", "remove", "inval", "issue"} => q.user \in Users
  /\ q.pc \in {"fill", "write", "issue"} => q.copy \in Row /\ row[q.user] # None
  /\ q.pc = "remove" => row[q.user] # None
  /\ q.pc = "fill" => /\ Granted(q.user, q.copy)
                      /\ Fresh(q.user, q.copy, a) /\ Active(q.user, a)
  /\ q.pc = "issue" => /\ Granted(q.user, q.copy)
                       /\ Fresh(q.user, q.copy, a + CacheLag)
                       /\ q.then = "issue" => Active(q.user, a + CacheLag)
  /\ q.pc = "write" => q.caller = "admin" \/ Granted(q.user, q.copy)
  /\ q.pc = "select" => q.total <= Cardinality(Rows)
  /\ q.del => q.user \in Users /\ Gone(q.user)

\* Of the row and the cache entry of user u.
RowOK(u) == row[u] # None => Granted(u, row[u])

CacheOK(u) ==
  cache[u] # None =>
    /\ Granted(u, cache[u])
    /\ Fresh(u, cache[u], Latency + (CacheTTL - ttl[u]))
    /\ Active(u, Latency + (CacheTTL - ttl[u]))

\* Of token t.
TokenOK(t) ==
  /\ Granted(t.user, t)
  /\ Fresh(t.user, t, TokenAge(t) + MaxLag)
  /\ t.via = "refresh" => Active(t.user, TokenAge(t) + MaxLag)

ReqsOK == \A r \in Requests : ReqOK(req[r], age[r])

IInv ==
  /\ TypeOK
  /\ IsFiniteSet(Rows)
  /\ ReqsOK
  /\ \A u \in Users : RowOK(u) /\ CacheOK(u)
  /\ \A t \in tokens : TokenOK(t)
  /\ \A u \in deleted : Gone(u)

\* What every step does to the table, as the others see it: rows and grants
\* only grow, and who is gone stays so.
Kept ==
  /\ \A u \in Users : row[u] # None => row'[u] # None /\ granted[u] \subseteq granted'[u]
  /\ IsFiniteSet(Rows)' /\ Cardinality(Rows) <= Cardinality(Rows)'
  /\ \A u \in Users : Gone(u) => Gone(u)'

-----------------------------------------------------------------------------
(***************************************************************************)
(* The passing of time.                                                    *)
(***************************************************************************)
\* The times are numbers.
LEMMA Times ==
  /\ CacheTTL \in Nat /\ CacheTTL > 0 /\ AccessTTL \in Nat /\ AccessTTL > 0
  /\ Latency \in Nat /\ Latency > 0 /\ CacheLag \in Nat
  /\ MaxLag \in Nat /\ MaxLag = CacheLag + Latency /\ LongAgo \in Nat
BY CacheTTLAssumption, TimeAssumption DEF CacheLag, MaxLag, LongAgo

\* Variables that count time, with their types.
LEMMA Ages ==
  ASSUME IInv
  PROVE  /\ \A u \in Users, f \in Facts : was[u][f] \in Nat
         /\ \A r \in Requests : age[r] \in Nat /\ age[r] <= Latency
         /\ \A u \in Users : ttl[u] \in Nat /\ ttl[u] <= CacheTTL
         /\ \A t \in tokens : /\ t \in Token /\ t.user \in Users /\ t.role \in Roles
                              /\ t.ttl \in Nat /\ t.ttl > 0 /\ t.ttl <= AccessTTL
                              /\ TokenAge(t) \in Nat
BY Times DEF IInv, TypeOK, StoreTypeOK, Token, TokenAge

\* What was so n ticks ago was so no more than m ago.
LEMMA HadMore ==
  ASSUME IInv, NEW u \in Users, NEW f \in Facts, NEW n \in Nat, NEW m \in Nat, n <= m,
         Had(u, f, n)
  PROVE  Had(u, f, m)
BY Ages DEF Had

\* What was so n ticks ago was so n + dt ago after a step that takes dt.
LEMMA HadStep ==
  ASSUME IInv, NEW dt \in {0, 1}, Remember(dt), NEW u \in Users, NEW f \in Facts,
         NEW n \in Nat, Had(u, f, n)
  PROVE  Had(u, f, n + dt)'
<1>1. was'[u][f] = IF Has(u, f) THEN dt
                   ELSE IF was[u][f] + dt < LongAgo THEN was[u][f] + dt ELSE LongAgo
  BY DEF Remember
<1>2. was[u][f] \in Nat /\ LongAgo \in Nat
  BY Ages, Times
<1>3. was'[u][f] <= n + dt
  <2>1. CASE Has(u, f)
    BY <1>1, <2>1
  <2>2. CASE ~Has(u, f)
    <3>1. was[u][f] <= n
      BY <2>2 DEF Had
    <3> QED
      BY <1>1, <1>2, <2>2, <3>1
  <2> QED
    BY <2>1, <2>2
<1> QED
  BY <1>3 DEF Had

\* What the table has now it had no tick ago.
LEMMA HadNow ==
  ASSUME NEW u \in Users, row[u] # None, NEW n \in Nat
  PROVE  Had(u, row[u].role, n) /\ (row[u].active => Had(u, "active", n))
BY DEF Had, Has

\* Roles are facts.
LEMMA RoleFacts ==
  /\ Roles \subseteq Facts /\ "active" \in Facts
  /\ \A copy \in Row : copy.role \in Facts
BY DEF Facts, Row

-----------------------------------------------------------------------------
(***************************************************************************)
(* What a step keeps.                                                      *)
(***************************************************************************)
\* A request in flight that a step leaves alone.
LEMMA ReqKept ==
  ASSUME IInv, NEW dt \in {0, 1}, Remember(dt), Kept, NEW q \in Request, NEW a \in Nat,
         ReqOK(q, a)
  PROVE  ReqOK(q, a + dt)'
<1>1. \A copy : q.user \in Users /\ Granted(q.user, copy) => Granted(q.user, copy)'
  BY DEF Kept, Granted
<1>2. q.pc = "fill" => Fresh(q.user, q.copy, a + dt)' /\ Active(q.user, a + dt)'
  BY HadStep, RoleFacts DEF ReqOK, Fresh, Active
<1>3. q.pc = "issue" => /\ Fresh(q.user, q.copy, a + dt + CacheLag)'
                        /\ q.then = "issue" => Active(q.user, a + dt + CacheLag)'
  <2>1. a + CacheLag \in Nat /\ a + dt + CacheLag = (a + CacheLag) + dt
    BY Times
  <2> QED
    BY <2>1, HadStep, RoleFacts DEF ReqOK, Fresh, Active
<1>4. q.pc = "select" => q.total <= Cardinality(Rows)'
  <2>1. q.total \in Nat
    BY DEF Request
  <2>2. Cardinality(Rows) \in Nat /\ Cardinality(Rows)' \in Nat
    BY FS_CardinalityType DEF IInv, Kept
  <2> QED
    BY <2>1, <2>2 DEF ReqOK, Kept
<1>5. q.del => q.user \in Users /\ Gone(q.user)'
  BY DEF ReqOK, Kept
<1>6. q.pc \in {"fill", "write", "issue", "remove"} => row'[q.user] # None
  BY DEF ReqOK, Kept
<1>7. /\ q.pc = "fill" => Granted(q.user, q.copy)'
      /\ q.pc = "issue" => Granted(q.user, q.copy)'
      /\ q.pc = "write" => q.caller = "admin" \/ Granted(q.user, q.copy)'
  BY <1>1 DEF ReqOK
<1> QED
  BY <1>2, <1>3, <1>4, <1>5, <1>6, <1>7 DEF ReqOK

\* An idle request has no age.
LEMMA IdleKept ==
  ASSUME NEW q \in Request, q.pc = "idle", NEW a, NEW b, ReqOK(q, a)'
  PROVE  ReqOK(q, b)'
BY DEF ReqOK

\* The requests after a step of one of them.
LEMMA ReqsStep ==
  ASSUME IInv, Remember(0), Kept, NEW r \in Requests, NEW q \in Request, NEW a \in Nat,
         a = age[r], req' = [req EXCEPT ![r] = q], ReqOK(q, a) \/ ReqOK(q, a)'
  PROVE  ReqsOK'
<1>1. req'[r] = q /\ \A p \in Requests : p # r => req'[p] = req[p]
  BY DEF IInv, TypeOK, StoreTypeOK
<1> SUFFICES ASSUME NEW p \in Requests PROVE ReqOK(req[p], age[p])'
  BY DEF ReqsOK
<1>2. PICK s \in Request : s = req'[p]
  BY <1>1 DEF IInv, TypeOK, StoreTypeOK
<1>3. PICK b \in Nat : b = age[p]
  BY Ages
<1>4. ReqOK(s, b)'
  <2>1. CASE p = r
    BY <1>1, <1>2, <1>3, <2>1, ReqKept
  <2>2. CASE p # r
    <3>1. ReqOK(s, b)
      BY <1>1, <1>2, <1>3, <2>2 DEF IInv, ReqsOK
    <3> QED
      BY <3>1, ReqKept
  <2> QED
    BY <2>1, <2>2
<1>5. age'[p] = IF s.pc = "idle" THEN 0 ELSE b
  BY <1>2, <1>3 DEF Remember
<1>6. PICK d : d = age'[p]
  OBVIOUS
<1>7. ReqOK(s, d)'
  <2>1. CASE s.pc = "idle"
    BY <1>4, <2>1, IdleKept
  <2>2. CASE s.pc # "idle"
    BY <1>4, <1>5, <1>6, <2>2
  <2> QED
    BY <2>1, <2>2
<1> QED
  BY <1>2, <1>6, <1>7

\* A cache entry that a step leaves alone.
LEMMA CacheKept ==
  ASSUME IInv, NEW dt \in {0, 1}, Remember(dt), Kept, NEW u \in Users,
         cache'[u] = cache[u], ttl'[u] \in Int, ttl'[u] = ttl[u] - dt
  PROVE  CacheOK(u)'
<1> SUFFICES ASSUME cache[u] # None PROVE CacheOK(u)'
  BY DEF CacheOK
<1>1. PICK y \in Row : y = cache[u]
  BY DEF IInv, TypeOK, StoreTypeOK
<1>2. PICK n \in Nat : n = Latency + (CacheTTL - ttl[u])
  BY Ages, Times
<1>3. Granted(u, y) /\ Fresh(u, y, n) /\ Active(u, n)
  BY <1>1, <1>2 DEF IInv, CacheOK
<1>4. Granted(u, y)'
  BY <1>3 DEF Granted, Kept
<1>5. Fresh(u, y, n + dt)' /\ Active(u, n + dt)'
  BY <1>3, HadStep, RoleFacts DEF Fresh, Active
<1>6. n + dt = Latency + (CacheTTL - ttl'[u])
  BY <1>2, Ages, Times
<1> QED
  BY <1>1, <1>4, <1>5, <1>6 DEF CacheOK

\* A token dt ticks later.
LEMMA TokenKept ==
  ASSUME IInv, NEW dt \in {0, 1}, Remember(dt), Kept, NEW t \in tokens,
         NEW k, k.user = t.user, k.role = t.role, k.via = t.via, k.ttl = t.ttl - dt
  PROVE  TokenOK(k)'
<1>1. TokenOK(t)
  BY DEF IInv
<1>2. t.user \in Users /\ t.role \in Facts /\ TokenAge(t) \in Nat /\ t.ttl \in Nat
  BY Ages, RoleFacts
<1>3. Granted(k.user, k)'
  BY <1>1, <1>2 DEF TokenOK, Granted, Kept
<1>4. PICK n \in Nat : n = TokenAge(t) + MaxLag
  BY <1>2, Times
<1>5. TokenAge(k) + MaxLag = n + dt
  BY <1>2, <1>4, Times DEF TokenAge
<1>6. Had(t.user, t.role, n + dt)'
  BY <1>1, <1>2, <1>4, HadStep DEF TokenOK, Fresh
<1>7. k.via = "refresh" => Had(t.user, "active", n + dt)'
  BY <1>1, <1>2, <1>4, HadStep, RoleFacts DEF TokenOK, Active
<1>8. PICK m : m = n + dt
  OBVIOUS
<1>9. TokenAge(k)' + MaxLag = m
  BY <1>5, <1>8 DEF TokenAge
<1> QED
  BY <1>3, <1>6, <1>7, <1>8, <1>9 DEF TokenOK, Fresh, Active

\* History stays in its bounds.
LEMMA RememberTypes ==
  ASSUME IInv, NEW dt \in {0, 1}, Remember(dt),
         dt = 1 => \A r \in Requests : age[r] < Latency
  PROVE  age' \in [Requests -> 0 .. Latency] /\ was' \in [Users -> [Facts -> 0 .. LongAgo]]
<1>1. \A r \in Requests : age[r] \in 0 .. Latency /\ age[r] + dt \in 0 .. Latency
  BY Times DEF IInv, TypeOK
<1>2. age' \in [Requests -> 0 .. Latency]
  BY <1>1, Times DEF Remember
<1>3. ASSUME NEW u \in Users, NEW f \in Facts
      PROVE  (IF Has(u, f) THEN dt
              ELSE IF was[u][f] + dt < LongAgo THEN was[u][f] + dt ELSE LongAgo) \in 0 .. LongAgo
  <2>1. was[u][f] \in Nat /\ LongAgo \in Nat /\ dt <= LongAgo
    BY Ages, Times DEF LongAgo
  <2> QED
    BY <2>1
<1>4. was' \in [Users -> [Facts -> 0 .. LongAgo]]
  BY <1>3 DEF Remember
<1> QED
  BY <1>2, <1>4

\* A step of request r, which becomes q: what is left to show is about what the
\* step writes.
LEMMA StepOf ==
  ASSUME IInv, Remember(0), Kept, NEW r \in Requests, NEW q \in Request, NEW a \in Nat,
         a = age[r], req' = [req EXCEPT ![r] = q], ReqOK(q, a) \/ ReqOK(q, a)',
         row' \in [Users -> Row \cup {None}], cache' \in [Users -> Row \cup {None}],
         ttl' \in [Users -> 0 .. CacheTTL], writes' \in 0 .. MaxWrites,
         granted' \in [Users -> SUBSET Roles], deleted' \subseteq Users,
         tokens' \subseteq Token, sessions' \subseteq Users,
         \A u \in Users : RowOK(u)',
         \A u \in Users : \/ cache'[u] = cache[u] /\ ttl'[u] = ttl[u]
                          \/ /\ cache'[u] # None <=> ttl'[u] > 0
                             /\ CacheOK(u)',
         \A t \in tokens' : t \in tokens \/ TokenOK(t)',
         \A u \in deleted' : u \in deleted \/ Gone(u)'
  PROVE  IInv'
<1>1. ReqsOK'
  BY ReqsStep
<1>2. \A u \in Users : CacheOK(u)' /\ (cache'[u] # None <=> ttl'[u] > 0)
  <2> SUFFICES ASSUME NEW u \in Users, cache'[u] = cache[u], ttl'[u] = ttl[u]
               PROVE  CacheOK(u)' /\ (cache'[u] # None <=> ttl'[u] > 0)
    OBVIOUS
  <2>1. ttl[u] \in Nat /\ ttl'[u] = ttl[u] - 0
    BY Ages
  <2>2. CacheOK(u)'
    BY <2>1, CacheKept
  <2> QED
    BY <2>2 DEF IInv, TypeOK, StoreTypeOK
<1>3. \A t \in tokens' : TokenOK(t)'
  <2> SUFFICES ASSUME NEW t \in tokens PROVE TokenOK(t)'
    OBVIOUS
  <2>1. t.ttl = t.ttl - 0
    BY Ages
  <2> QED
    BY <2>1, TokenKept
<1>4. \A u \in deleted' : Gone(u)'
  BY DEF IInv, Kept, TypeOK, StoreTypeOK
<1>5. StoreTypeOK'
  <2>1. req' \in [Requests -> Request]
    BY DEF IInv, TypeOK, StoreTypeOK
  <2> QED
    BY <1>2, <2>1 DEF StoreTypeOK
<1>6. TypeOK'
  BY <1>5, RememberTypes DEF TypeOK
<1>7. IsFiniteSet(Rows)'
  BY DEF Kept
<1> QED
  BY <1>1, <1>2, <1>3, <1>4, <1>6, <1>7 DEF IInv

\* A table that does not change is kept when no update of an inactive user starts.
LEMMA TableUnchanged ==
  ASSUME IInv, NEW r \in Requests, NEW q, req' = [req EXCEPT ![r] = q],
         UNCHANGED <<row, granted>>, q.pc = "write" => ~Gone(q.user)
  PROVE  Kept /\ \A u \in Users : RowOK(u)'
<1>1. \A p \in Requests : req'[p] = IF p = r THEN q ELSE req[p]
  BY DEF IInv, TypeOK, StoreTypeOK
<1>2. ASSUME NEW u \in Users, Gone(u) PROVE Gone(u)'
  BY <1>1, <1>2 DEF Gone
<1>3. Rows' = Rows
  BY DEF Rows
<1>4. \A u \in Users : RowOK(u)'
  BY DEF IInv, RowOK, Granted
<1>5. Cardinality(Rows) <= Cardinality(Rows)' /\ IsFiniteSet(Rows)'
  <2>1. Cardinality(Rows) \in Nat /\ IsFiniteSet(Rows)
    BY FS_CardinalityType DEF IInv
  <2> QED
    BY <1>3, <2>1
<1> QED
  BY <1>2, <1>4, <1>5 DEF Kept

\* A step that only looks.
LEMMA LookStep ==
  ASSUME IInv, Remember(0), NEW r \in Requests, NEW q \in Request, NEW a \in Nat,
         a = age[r], req' = [req EXCEPT ![r] = q], ReqOK(q, a),
         UNCHANGED <<row, cache, ttl, writes, granted, deleted>>, KeepsTokens,
         q.pc = "write" => ~Gone(q.user)
  PROVE  IInv'
<1>1. Kept /\ \A u \in Users : RowOK(u)'
  BY TableUnchanged
<1>2. /\ row' = row /\ cache' = cache /\ ttl' = ttl /\ writes' = writes /\ granted' = granted
      /\ deleted' = deleted /\ tokens' = tokens /\ sessions' = sessions
  BY DEF KeepsTokens
<1> QED
  BY <1>1, <1>2, StepOf DEF IInv, TypeOK, StoreTypeOK

\* An idle request is one, and says nothing.
LEMMA IdleOK == Idle \in Request /\ Idle.pc = "idle" /\ \A a : ReqOK(Idle, a)
<1>1. Idle \in Request
  BY DEF Idle, Request, Pcs, Roles
<1>2. Idle.pc = "idle" /\ Idle.del = FALSE
  BY DEF Idle
<1> QED
  BY <1>1, <1>2 DEF ReqOK

\* The state of one request and of one user, with their types.
LEMMA Facts1 ==
  ASSUME IInv, NEW r \in Requests
  PROVE  /\ req[r] \in Request /\ ReqOK(req[r], age[r]) /\ age[r] \in Nat /\ age[r] <= Latency
         /\ req \in [Requests -> Request]
BY Ages DEF IInv, TypeOK, StoreTypeOK, ReqsOK

\* What holds of one user.
LEMMA UserFacts ==
  ASSUME IInv, NEW u \in Users
  PROVE  /\ row[u] \in Row \cup {None} /\ cache[u] \in Row \cup {None} /\ u # None
         /\ RowOK(u) /\ CacheOK(u) /\ granted[u] \subseteq Roles
BY NoneAssumption DEF IInv, TypeOK, StoreTypeOK

-----------------------------------------------------------------------------
(***************************************************************************)
(* Reading: GetByID, the look-ups before updates and deletions, List.      *)
(***************************************************************************)
\* Answering ends a request.
LEMMA AnswerInv ==
  ASSUME IInv, Remember(0), NEW r \in Requests, Answer(r),
         UNCHANGED <<row, cache, ttl, writes, granted, deleted>>, KeepsTokens
  PROVE  IInv'
<1>1. PICK a \in Nat : a = age[r]
  BY Facts1
<1>2. PICK q \in Request : q = Idle /\ q.pc = "idle" /\ ReqOK(q, a)
  BY IdleOK
<1> QED
  BY <1>1, <1>2, LookStep DEF Answer

\* A cache hit.
LEMMA GetHitInv ==
  ASSUME IInv, Remember(0), NEW r \in Requests, NEW u \in Users, NEW then \in {"idle", "issue"},
         GetHit(r, u, then), KeepsTokens
  PROVE  IInv'
<1>1. CASE then = "idle"
  BY <1>1, AnswerInv DEF GetHit, Return, Answer
<1>2. CASE then = "issue"
  <2>1. PICK a \in Nat : a = age[r]
    BY Facts1
  <2>2. PICK y \in Row : y = cache[u]
    BY UserFacts DEF GetHit
  <2>3. PICK q : q = [Idle EXCEPT !.pc = then, !.user = u, !.copy = y, !.then = then]
    OBVIOUS
  <2>4. q = [pc |-> "issue", user |-> u, copy |-> y, caller |-> "user", then |-> "issue",
             total |-> 0, limit |-> 0, offset |-> 0, del |-> FALSE]
    BY <1>2, <2>3 DEF Idle
  <2>5. q \in Request
    BY <2>4 DEF Request, Pcs, Roles
  <2>6. PICK n \in Nat : n = Latency + (CacheTTL - ttl[u])
    BY Ages, Times
  <2>7. Granted(u, y) /\ Fresh(u, y, n) /\ Active(u, n)
    BY <2>2, <2>6, UserFacts DEF CacheOK, GetHit
  <2>8. n <= a + CacheLag /\ a + CacheLag \in Nat
    <3>1. ttl[u] > 0 /\ ttl[u] \in Nat
      BY Ages DEF IInv, TypeOK, StoreTypeOK, GetHit
    <3> QED
      BY <2>6, <3>1, Times DEF CacheLag
  <2>9. Fresh(u, y, a + CacheLag) /\ Active(u, a + CacheLag)
    BY <2>7, <2>8, HadMore, RoleFacts DEF Fresh, Active
  <2>10. ReqOK(q, a)
    BY <2>4, <2>7, <2>9 DEF ReqOK, Granted
  <2>11. req' = [req EXCEPT ![r] = q]
    BY <1>2, <2>2, <2>3 DEF GetHit, Return
  <2>12. q.pc # "write" /\ UNCHANGED <<row, cache, ttl, writes, granted, deleted>>
    BY <2>4 DEF GetHit
  <2> QED
    BY <2>1, <2>5, <2>10, <2>11, <2>12, LookStep
<1> QED
  BY <1>1, <1>2

\* A miss, or a GET that fails.
LEMMA GetMissInv ==
  ASSUME IInv, Remember(0), NEW r \in Requests, NEW u \in Users, NEW then \in {"idle", "issue"},
         GetMiss(r, u, then), KeepsTokens
  PROVE  IInv'
<1>1. PICK a \in Nat : a = age[r]
  BY Facts1
<1>2. PICK q : q = [Idle EXCEPT !.pc = "read", !.user = u, !.then = then]
  OBVIOUS
<1>3. q = [pc |-> "read", user |-> u, copy |-> None, caller |-> "user", then |-> then,
           total |-> 0, limit |-> 0, offset |-> 0, del |-> FALSE]
  BY <1>2 DEF Idle
<1>4. q \in Request
  BY <1>3 DEF Request, Pcs, Roles
<1>5. ReqOK(q, a) /\ q.pc # "write"
  BY <1>3 DEF ReqOK
<1> QED
  BY <1>1, <1>2, <1>4, <1>5, LookStep DEF GetMiss

\* Login finds the row.
LEMMA LoginFindInv ==
  ASSUME IInv, Remember(0), NEW r \in Requests, NEW e \in Emails, LoginFind(r, e)
  PROVE  IInv'
<1>1. PICK a \in Nat : a = age[r]
  BY Facts1
<1>2. PICK u \in Users :
         /\ row[u] # None
         /\ req' = [req EXCEPT ![r] = [Idle EXCEPT !.pc = "issue", !.user = u, !.copy = row[u]]]
  BY DEF LoginFind, FindByEmail
<1>3. PICK y \in Row : y = row[u]
  BY <1>2, UserFacts
<1>4. PICK q : q = [Idle EXCEPT !.pc = "issue", !.user = u, !.copy = y]
  OBVIOUS
<1>5. q = [pc |-> "issue", user |-> u, copy |-> y, caller |-> "user", then |-> "idle",
           total |-> 0, limit |-> 0, offset |-> 0, del |-> FALSE]
  BY <1>4 DEF Idle
<1>6. q \in Request
  BY <1>5 DEF Request, Pcs, Roles
<1>7. Granted(u, y)
  BY <1>2, <1>3, UserFacts DEF RowOK
<1>8. a + CacheLag \in Nat
  BY Times
<1>9. Fresh(u, y, a + CacheLag)
  BY <1>2, <1>3, <1>8, HadNow DEF Fresh
<1>10. ReqOK(q, a) /\ q.pc # "write"
  BY <1>2, <1>5, <1>7, <1>9 DEF ReqOK
<1> QED
  BY <1>1, <1>2, <1>3, <1>4, <1>6, <1>10, LookStep DEF LoginFind

\* The miss reads the table.
LEMMA GetReadInv ==
  ASSUME IInv, Remember(0), NEW r \in Requests, GetRead(r), KeepsTokens
  PROVE  IInv'
<1>1. PICK a \in Nat : a = age[r]
  BY Facts1
<1>2. PICK p \in Request : p = req[r] /\ ReqOK(p, a) /\ p.pc = "read"
  BY <1>1, Facts1 DEF GetRead
<1>3. PICK u \in Users : u = p.user
  BY <1>2 DEF ReqOK
<1>4. CASE Answer(r)
  BY <1>4, AnswerInv DEF GetRead
<1>5. CASE ~Answer(r)
  <2>1. /\ FindByID(u) # None
        /\ req' = [req EXCEPT ![r].pc = "fill", ![r].copy = FindByID(u)]
    BY <1>2, <1>3, <1>5 DEF GetRead
  <2>2. row[u] # None /\ row[u].active /\ FindByID(u) = row[u]
    BY <2>1 DEF FindByID
  <2>3. PICK y \in Row : y = row[u]
    BY <2>2, UserFacts
  <2>4. PICK q : q = [p EXCEPT !.pc = "fill", !.copy = y]
    OBVIOUS
  <2>5. q \in Request /\ q.pc = "fill" /\ q.user = u /\ q.copy = y /\ q.del = p.del
    BY <1>3, <2>4 DEF Request, Pcs
  <2>6. req' = [req EXCEPT ![r] = q]
    BY <1>2, <2>1, <2>2, <2>3, <2>4, Facts1
  <2>7. Granted(u, y) /\ Fresh(u, y, a) /\ Active(u, a)
    BY <2>2, <2>3, UserFacts, HadNow DEF RowOK, Fresh, Active
  <2>8. ReqOK(q, a)
    BY <1>2, <1>3, <2>2, <2>5, <2>7 DEF ReqOK
  <2> QED
    BY <1>1, <2>5, <2>6, <2>8, LookStep DEF GetRead
<1> QED
  BY <1>4, <1>5

\* The look-up before an update of an active row: only an admin patches the role.
LEMMA UpdateFindInv ==
  ASSUME IInv, Remember(0), NEW r \in Requests, NEW u \in Users, NEW caller \in Roles,
         NEW email \in Emails \cup {None}, NEW role \in Roles \cup {None},
         NEW active \in BOOLEAN \cup {None},
         UpdateFind(r, u, caller, email, role, active), KeepsTokens
  PROVE  IInv'
<1>1. PICK a \in Nat : a = age[r]
  BY Facts1
<1>2. row[u] # None /\ row[u].active /\ FindByID(u) = row[u]
  BY DEF UpdateFind, FindByID
<1>3. PICK x \in Row : x = row[u]
  BY <1>2, UserFacts
<1>4. PICK y : y = Patch(x, email, role, active, caller)
  OBVIOUS
<1>5. y \in Row /\ (caller = "admin" \/ y.role = x.role)
  BY <1>4 DEF Patch, Row
<1>6. PICK q : q = [Idle EXCEPT !.pc = "write", !.user = u, !.caller = caller, !.copy = y]
  OBVIOUS
<1>7. q = [pc |-> "write", user |-> u, copy |-> y, caller |-> caller, then |-> "idle",
           total |-> 0, limit |-> 0, offset |-> 0, del |-> FALSE]
  BY <1>6 DEF Idle
<1>8. q \in Request
  BY <1>5, <1>7 DEF Request, Pcs
<1>9. caller = "admin" \/ Granted(u, y)
  BY <1>2, <1>3, <1>5, UserFacts DEF RowOK, Granted
<1>10. ReqOK(q, a)
  BY <1>2, <1>5, <1>7, <1>9 DEF ReqOK
<1>11. ~Gone(q.user)
  BY <1>2, <1>7 DEF Gone
<1>12. req' = [req EXCEPT ![r] = q]
  BY <1>2, <1>3, <1>4, <1>6 DEF UpdateFind
<1> QED
  BY <1>1, <1>8, <1>10, <1>11, <1>12, LookStep DEF UpdateFind

\* The look-up before a deletion.
LEMMA DeleteFindInv ==
  ASSUME IInv, Remember(0), NEW r \in Requests, NEW u \in Users, DeleteFind(r, u), KeepsTokens
  PROVE  IInv'
<1>1. PICK a \in Nat : a = age[r]
  BY Facts1
<1>2. row[u] # None
  BY DEF DeleteFind, FindByID
<1>3. PICK q : q = [Idle EXCEPT !.pc = "remove", !.user = u, !.caller = "admin"]
  OBVIOUS
<1>4. q = [pc |-> "remove", user |-> u, copy |-> None, caller |-> "admin", then |-> "idle",
           total |-> 0, limit |-> 0, offset |-> 0, del |-> FALSE]
  BY <1>3 DEF Idle
<1>5. q \in Request
  BY <1>4 DEF Request, Pcs, Roles
<1>6. ReqOK(q, a) /\ q.pc # "write"
  BY <1>2, <1>4 DEF ReqOK
<1> QED
  BY <1>1, <1>3, <1>5, <1>6, LookStep DEF DeleteFind

\* The COUNT of a listing.
LEMMA ListCountInv ==
  ASSUME IInv, Remember(0), NEW r \in Requests, NEW limit \in Nat, NEW offset \in Nat,
         ListCount(r, limit, offset), KeepsTokens
  PROVE  IInv'
<1>1. PICK a \in Nat : a = age[r]
  BY Facts1
<1>2. PICK n \in Nat : n = Cardinality(Rows)
  BY FS_CardinalityType DEF IInv
<1>3. PICK q : q = [Idle EXCEPT !.pc = "select", !.total = n, !.limit = limit,
                                !.offset = offset]
  OBVIOUS
<1>4. q = [pc |-> "select", user |-> None, copy |-> None, caller |-> "user", then |-> "idle",
           total |-> n, limit |-> limit, offset |-> offset, del |-> FALSE]
  BY <1>3 DEF Idle
<1>5. q \in Request
  BY <1>4 DEF Request, Pcs, Roles
<1>6. ReqOK(q, a) /\ q.pc # "write"
  BY <1>2, <1>4 DEF ReqOK
<1> QED
  BY <1>1, <1>2, <1>3, <1>5, <1>6, LookStep DEF ListCount

\* What listings ask for.
LEMMA QueryTypes ==
  /\ MaxPerPage \in Nat
  /\ \A page, perPage \in Int :
       /\ Clamp(perPage, 1, MaxPerPage) \in Nat
       /\ (IF page < 1 THEN 0 ELSE page - 1) * Clamp(perPage, 1, MaxPerPage) \in Nat
<1>1. \A m, n \in Nat : m * n \in Nat
  OBVIOUS
<1>2. \A perPage \in Int : Clamp(perPage, 1, MaxPerPage) \in Nat
  BY DEF Clamp, MaxPerPage
<1>3. \A page \in Int : (IF page < 1 THEN 0 ELSE page - 1) \in Nat
  OBVIOUS
<1>4. MaxPerPage \in Nat
  BY DEF MaxPerPage
<1> QED
  BY <1>1, <1>2, <1>3, <1>4

-----------------------------------------------------------------------------
(***************************************************************************)
(* Writing: the cache, the table and the tokens.                           *)
(***************************************************************************)
\* The row goes to the cache, where it is at most Latency old.
LEMMA GetFillInv ==
  ASSUME IInv, Remember(0), NEW r \in Requests, GetFill(r), KeepsTokens
  PROVE  IInv'
<1>1. PICK a \in Nat : a = age[r] /\ a <= Latency
  BY Facts1
<1>2. PICK p \in Request : p = req[r] /\ ReqOK(p, a) /\ p.pc = "fill"
  BY <1>1, Facts1 DEF GetFill
<1>3. PICK u \in Users, y \in Row : u = p.user /\ y = p.copy
  BY <1>2 DEF ReqOK
<1>4. Granted(u, y) /\ Fresh(u, y, a) /\ Active(u, a)
  BY <1>2, <1>3 DEF ReqOK
<1>5. PICK q \in Request : /\ req' = [req EXCEPT ![r] = q] /\ ReqOK(q, a)
                           /\ q.pc # "write"
  <2>1. CASE p.then = "idle"
    <3>1. req' = [req EXCEPT ![r] = Idle]
      BY <1>2, <2>1 DEF GetFill, Return
    <3>2. Idle.pc # "write"
      BY DEF Idle
    <3> QED
      BY <3>1, <3>2, IdleOK
  <2>2. CASE p.then = "issue"
    <3>1. PICK q : q = [Idle EXCEPT !.pc = "issue", !.user = u, !.copy = y, !.then = "issue"]
      OBVIOUS
    <3>2. q = [pc |-> "issue", user |-> u, copy |-> y, caller |-> "user", then |-> "issue",
               total |-> 0, limit |-> 0, offset |-> 0, del |-> FALSE]
      BY <3>1 DEF Idle
    <3>3. q \in Request
      BY <3>2 DEF Request, Pcs, Roles
    <3>4. a <= a + CacheLag /\ a + CacheLag \in Nat
      BY Times
    <3>5. Fresh(u, y, a + CacheLag) /\ Active(u, a + CacheLag)
      BY <1>4, <3>4, HadMore, RoleFacts DEF Fresh, Active
    <3>6. ReqOK(q, a)
      BY <1>4, <3>2, <3>5 DEF ReqOK, Granted
    <3>7. req' = [req EXCEPT ![r] = q]
      BY <1>2, <1>3, <2>2, <3>1 DEF GetFill, Return
    <3> QED
      BY <3>2, <3>3, <3>6, <3>7
  <2> QED
    BY <1>2, <2>1, <2>2 DEF Request
<1>6. UNCHANGED <<row, writes, granted, deleted, tokens, sessions>>
  BY DEF GetFill, KeepsTokens
<1>7. Kept /\ \A v \in Users : RowOK(v)'
  BY <1>5, <1>6, TableUnchanged
<1>8. \/ UNCHANGED <<cache, ttl>>
      \/ cache' = [cache EXCEPT ![u] = y] /\ ttl' = [ttl EXCEPT ![u] = CacheTTL]
  BY <1>2, <1>3 DEF GetFill
<1>9. /\ cache' \in [Users -> Row \cup {None}] /\ ttl' \in [Users -> 0 .. CacheTTL]
  BY <1>8, Times DEF IInv, TypeOK, StoreTypeOK
<1>10. ASSUME NEW v \in Users
       PROVE  \/ cache'[v] = cache[v] /\ ttl'[v] = ttl[v]
              \/ /\ cache'[v] # None <=> ttl'[v] > 0
                 /\ CacheOK(v)'
  <2>1. CASE cache' = [cache EXCEPT ![u] = y] /\ ttl' = [ttl EXCEPT ![u] = CacheTTL] /\ v = u
    <3>1. cache'[u] = y /\ ttl'[u] = CacheTTL /\ y # None
      BY <2>1, NoneAssumption DEF IInv, TypeOK, StoreTypeOK
    <3>2. Fresh(u, y, Latency) /\ Active(u, Latency)
      BY <1>1, <1>4, HadMore, RoleFacts, Times DEF Fresh, Active
    <3>3. Latency + 0 = Latency /\ Latency + (CacheTTL - CacheTTL) = Latency
      BY Times
    <3>4. Had(u, y.role, Latency + 0)' /\ Had(u, "active", Latency + 0)'
      BY <3>2, HadStep, RoleFacts, Times DEF Fresh, Active
    <3>5. Granted(u, y)'
      BY <1>4, <1>7 DEF Granted, Kept
    <3>6. CacheOK(u)'
      BY <3>1, <3>3, <3>4, <3>5 DEF CacheOK, Fresh, Active
    <3> QED
      BY <2>1, <3>1, <3>6, Times
  <2>2. CASE ~(cache' = [cache EXCEPT ![u] = y] /\ ttl' = [ttl EXCEPT ![u] = CacheTTL]) \/ v # u
    BY <1>8, <2>2 DEF IInv, TypeOK, StoreTypeOK
  <2> QED
    BY <2>1, <2>2
<1>11. /\ row' = row /\ writes' = writes /\ granted' = granted /\ deleted' = deleted
       /\ tokens' = tokens /\ sessions' = sessions
  BY <1>6
<1> QED
  BY <1>1, <1>5, <1>7, <1>9, <1>10, <1>11, StepOf DEF IInv, TypeOK, StoreTypeOK

\* The cache entry is deleted, unless that fails.
LEMMA InvalidateInv ==
  ASSUME IInv, Remember(0), NEW r \in Requests, Invalidate(r), KeepsTokens
  PROVE  IInv'
<1>1. PICK a \in Nat : a = age[r]
  BY Facts1
<1>2. PICK p \in Request : p = req[r] /\ ReqOK(p, a) /\ p.pc = "inval"
  BY <1>1, Facts1 DEF Invalidate
<1>3. PICK u \in Users : u = p.user
  BY <1>2 DEF ReqOK
<1>4. PICK q \in Request : q = Idle /\ ReqOK(q, a) /\ q.pc # "write"
  BY IdleOK
<1>5. req' = [req EXCEPT ![r] = q]
  BY <1>4 DEF Invalidate, Answer
<1>6. UNCHANGED <<row, writes, granted, tokens, sessions>>
  BY DEF Invalidate, KeepsTokens
<1>7. Kept /\ \A v \in Users : RowOK(v)'
  BY <1>4, <1>5, <1>6, TableUnchanged
<1>8. \/ UNCHANGED <<cache, ttl>>
      \/ cache' = [cache EXCEPT ![u] = None] /\ ttl' = [ttl EXCEPT ![u] = 0]
  BY <1>2, <1>3 DEF Invalidate
<1>9. /\ cache' \in [Users -> Row \cup {None}] /\ ttl' \in [Users -> 0 .. CacheTTL]
  BY <1>8, Times DEF IInv, TypeOK, StoreTypeOK
<1>10. \A v \in Users : \/ cache'[v] = cache[v] /\ ttl'[v] = ttl[v]
                        \/ /\ cache'[v] # None <=> ttl'[v] > 0
                           /\ CacheOK(v)'
  BY <1>8 DEF IInv, TypeOK, StoreTypeOK, CacheOK
<1>11. deleted' \subseteq Users /\ \A v \in deleted' : v \in deleted \/ Gone(v)'
  <2>1. deleted' = IF p.del THEN deleted \cup {u} ELSE deleted
    BY <1>2, <1>3 DEF Invalidate
  <2>2. p.del => Gone(u)'
    BY <1>2, <1>3, <1>7 DEF ReqOK, Kept
  <2>3. deleted \subseteq Users
    BY DEF IInv, TypeOK, StoreTypeOK
  <2> QED
    BY <2>1, <2>2, <2>3
<1>12. /\ row' = row /\ writes' = writes /\ granted' = granted
       /\ tokens' = tokens /\ sessions' = sessions
  BY <1>6
<1> QED
  BY <1>1, <1>4, <1>5, <1>7, <1>9, <1>10, <1>11, <1>12, StepOf DEF IInv, TypeOK, StoreTypeOK

\* An access token carries the role of the copy.
LEMMA IssueInv ==
  ASSUME IInv, Remember(0), NEW r \in Requests, IssueAccessToken(r)
  PROVE  IInv'
<1>1. PICK a \in Nat : a = age[r] /\ a <= Latency
  BY Facts1
<1>2. PICK p \in Request : p = req[r] /\ ReqOK(p, a) /\ p.pc = "issue"
  BY <1>1, Facts1 DEF IssueAccessToken
<1>3. PICK u \in Users, y \in Row : u = p.user /\ y = p.copy
  BY <1>2 DEF ReqOK
<1>4. PICK q \in Request : q = Idle /\ ReqOK(q, a) /\ q.pc # "write"
  BY IdleOK
<1>5. req' = [req EXCEPT ![r] = q]
  BY <1>4 DEF IssueAccessToken, Answer
<1>6. UNCHANGED <<row, cache, ttl, writes, granted, deleted>>
  BY DEF IssueAccessToken
<1>7. Kept /\ \A v \in Users : RowOK(v)'
  BY <1>4, <1>5, <1>6, TableUnchanged
<1>8. PICK t : t = [user |-> u, role |-> y.role,
                    via |-> IF p.then = "issue" THEN "refresh" ELSE "login", ttl |-> AccessTTL]
  OBVIOUS
<1>9. t \in Token
  BY <1>8, Times DEF Token, Row
<1>10. \/ tokens' = tokens /\ sessions' = sessions
       \/ tokens' = tokens \cup {t} /\ sessions' = sessions \cup {u}
  BY <1>2, <1>3, <1>8 DEF IssueAccessToken, KeepsTokens
<1>11. TokenOK(t)'
  <2>1. a + CacheLag \in Nat /\ a + CacheLag <= MaxLag /\ MaxLag + 0 = MaxLag
    BY <1>1, Times
  <2>2. Fresh(u, y, MaxLag) /\ (p.then = "issue" => Active(u, MaxLag))
    BY <1>2, <1>3, <2>1, HadMore, RoleFacts, Times DEF ReqOK, Fresh, Active
  <2>3. Had(u, y.role, MaxLag + 0)' /\ (p.then = "issue" => Had(u, "active", MaxLag + 0)')
    BY <2>2, HadStep, RoleFacts, Times DEF Fresh, Active
  <2>4. TokenAge(t) + MaxLag = MaxLag
    BY <1>8, Times DEF TokenAge
  <2>5. Granted(u, y)'
    BY <1>2, <1>3, <1>7 DEF ReqOK, Granted, Kept
  <2>6. t.user = u /\ t.role = y.role /\ (t.via = "refresh" => p.then = "issue")
    BY <1>8
  <2>7. TokenAge(t)' = TokenAge(t)
    BY DEF TokenAge
  <2> QED
    BY <2>1, <2>3, <2>4, <2>5, <2>6, <2>7 DEF TokenOK, Granted, Fresh, Active
<1>12. /\ tokens' \subseteq Token /\ sessions' \subseteq Users
       /\ \A k \in tokens' : k \in tokens \/ TokenOK(k)'
  BY <1>9, <1>10, <1>11 DEF IInv, TypeOK
<1>13. /\ row' = row /\ cache' = cache /\ ttl' = ttl /\ writes' = writes /\ granted' = granted
       /\ deleted' = deleted
  BY <1>6
<1> QED
  BY <1>1, <1>4, <1>5, <1>7, <1>12, <1>13, StepOf DEF IInv, TypeOK, StoreTypeOK

\* A statement that writes the row of u.
LEMMA TableWritten ==
  ASSUME IInv, NEW r \in Requests, NEW q, req' = [req EXCEPT ![r] = q], q.pc # "write",
         NEW u \in Users, NEW x \in Row, row' = [row EXCEPT ![u] = x],
         NEW G \in SUBSET Roles, granted' = [granted EXCEPT ![u] = G],
         x.role \in G, row[u] # None => granted[u] \subseteq G, Gone(u) => ~x.active
  PROVE  /\ Kept /\ \A v \in Users : RowOK(v)'
         /\ row' \in [Users -> Row \cup {None}] /\ granted' \in [Users -> SUBSET Roles]
         /\ row'[u] = x /\ x # None
<1>1. \A p \in Requests : req'[p] = IF p = r THEN q ELSE req[p]
  BY DEF IInv, TypeOK, StoreTypeOK
<1>2. /\ row' \in [Users -> Row \cup {None}] /\ granted' \in [Users -> SUBSET Roles]
      /\ row'[u] = x /\ granted'[u] = G
      /\ \A v \in Users \ {u} : row'[v] = row[v] /\ granted'[v] = granted[v]
  BY DEF IInv, TypeOK, StoreTypeOK
<1>3. x # None
  BY NoneAssumption
<1>4. \A v \in Users : RowOK(v)'
  BY <1>2, <1>3 DEF IInv, RowOK, Granted
<1>5. \A v \in Users : row[v] # None => row'[v] # None /\ granted[v] \subseteq granted'[v]
  BY <1>2, <1>3
<1>6. ASSUME NEW v \in Users, Gone(v) PROVE Gone(v)'
  BY <1>1, <1>2, <1>3, <1>6 DEF Gone
<1>7. IsFiniteSet(Rows)' /\ Cardinality(Rows) <= Cardinality(Rows)'
  <2>1. PICK S : S = Rows
    OBVIOUS
  <2>2. Rows' = S \cup {u}
    BY <1>2, <1>3, <2>1 DEF Rows
  <2>3. IsFiniteSet(S) /\ Cardinality(S) \in Nat
    BY <2>1, FS_CardinalityType DEF IInv
  <2>4. /\ IsFiniteSet(S \cup {u})
        /\ Cardinality(S \cup {u}) = IF u \in S THEN Cardinality(S) ELSE Cardinality(S) + 1
    BY <2>3, FS_AddElement
  <2>5. Cardinality(S) <= Cardinality(S \cup {u})
    BY <2>3, <2>4
  <2> QED
    BY <2>1, <2>2, <2>4, <2>5
<1> QED
  BY <1>2, <1>3, <1>4, <1>5, <1>6, <1>7 DEF Kept

\* A new row: its role is granted with it.
LEMMA CreateInv ==
  ASSUME IInv, Remember(0), NEW r \in Requests, NEW u \in Users, NEW e \in Emails,
         NEW role \in Roles, Create(r, u, e, role), KeepsTokens
  PROVE  IInv'
<1>1. PICK a \in Nat : a = age[r]
  BY Facts1
<1>2. PICK q \in Request : q = req[r] /\ ReqOK(q, a) /\ q.pc = "idle"
  BY <1>1, Facts1 DEF Create
<1>3. req' = [req EXCEPT ![r] = q]
  BY <1>2, Facts1 DEF Create
<1>4. PICK x \in Row : x = [email |-> e, role |-> role, active |-> TRUE]
  BY DEF Row
<1>5. PICK G \in SUBSET Roles : G = {role}
  OBVIOUS
<1>6. row[u] = None /\ row' = [row EXCEPT ![u] = x] /\ granted' = [granted EXCEPT ![u] = G]
  BY <1>4, <1>5 DEF Create
<1>7. x.role \in G /\ ~Gone(u) /\ q.pc # "write"
  BY <1>2, <1>4, <1>5, <1>6 DEF Gone
<1>8. /\ Kept /\ \A v \in Users : RowOK(v)'
      /\ row' \in [Users -> Row \cup {None}] /\ granted' \in [Users -> SUBSET Roles]
  BY <1>3, <1>6, <1>7, TableWritten
<1>9. /\ cache' = cache /\ ttl' = ttl /\ writes' = writes /\ deleted' = deleted
      /\ tokens' = tokens /\ sessions' = sessions
  BY DEF Create, KeepsTokens
<1> QED
  BY <1>1, <1>2, <1>3, <1>8, <1>9, StepOf DEF IInv, TypeOK, StoreTypeOK

\* A password is written: no column that the table shows here changes.
LEMMA UpdatePasswordInv ==
  ASSUME IInv, Remember(0), NEW r \in Requests, NEW u \in Users, UpdatePassword(r, u),
         KeepsTokens
  PROVE  IInv'
<1>1. PICK a \in Nat : a = age[r]
  BY Facts1
<1>2. PICK q : q = [Idle EXCEPT !.pc = "inval", !.user = u]
  OBVIOUS
<1>3. q = [pc |-> "inval", user |-> u, copy |-> None, caller |-> "user", then |-> "idle",
           total |-> 0, limit |-> 0, offset |-> 0, del |-> FALSE]
  BY <1>2 DEF Idle
<1>4. q \in Request
  BY <1>3 DEF Request, Pcs, Roles
<1>5. ReqOK(q, a) /\ q.pc # "write"
  BY <1>3 DEF ReqOK
<1>6. req' = [req EXCEPT ![r] = q]
  BY <1>2 DEF UpdatePassword
<1>7. /\ row' = row /\ cache' = cache /\ ttl' = ttl /\ granted' = granted /\ deleted' = deleted
      /\ tokens' = tokens /\ sessions' = sessions
  BY DEF UpdatePassword, KeepsTokens
<1>8. Kept /\ \A v \in Users : RowOK(v)'
  BY <1>5, <1>6, <1>7, TableUnchanged
<1>9. writes' \in 0 .. MaxWrites
  BY MaxWritesAssumption DEF UpdatePassword, CountWrite, IInv, TypeOK, StoreTypeOK
<1> QED
  BY <1>1, <1>4, <1>5, <1>6, <1>7, <1>8, <1>9, StepOf DEF IInv, TypeOK, StoreTypeOK

\* An update writes its copy back: an admin's grants the role in it, and any
\* other copy has a role that was granted before.
LEMMA UpdateWriteInv ==
  ASSUME IInv, Remember(0), NEW r \in Requests, UpdateWrite(r), KeepsTokens
  PROVE  IInv'
<1>1. PICK a \in Nat : a = age[r]
  BY Facts1
<1>2. PICK p \in Request : p = req[r] /\ ReqOK(p, a) /\ p.pc = "write"
  BY <1>1, Facts1 DEF UpdateWrite
<1>3. PICK u \in Users, x \in Row : u = p.user /\ x = p.copy /\ row[u] # None
  BY <1>2 DEF ReqOK
<1>4. ~Gone(u) /\ ~p.del
  BY <1>2, <1>3 DEF Gone, ReqOK
<1>5. PICK q \in Request : /\ req' = [req EXCEPT ![r] = q] /\ ReqOK(q, a) /\ q.pc # "write"
  <2>1. CASE Answer(r)
    <3>1. Idle.pc # "write"
      BY DEF Idle
    <3> QED
      BY <2>1, <3>1, IdleOK DEF Answer
  <2>2. CASE Goto(r, "inval")
    <3>1. PICK q : q = [p EXCEPT !.pc = "inval"]
      OBVIOUS
    <3>2. q \in Request /\ q.pc = "inval" /\ q.user = u /\ ~q.del
      BY <1>3, <1>4, <3>1 DEF Request, Pcs
    <3>3. req' = [req EXCEPT ![r] = q]
      BY <1>2, <2>2, <3>1, Facts1 DEF Goto
    <3>4. ReqOK(q, a)
      BY <3>2 DEF ReqOK
    <3> QED
      BY <3>2, <3>3, <3>4
  <2> QED
    BY <2>1, <2>2 DEF UpdateWrite
<1>6. PICK G \in SUBSET Roles :
        G = IF p.caller = "admin" THEN granted[u] \cup {x.role} ELSE granted[u]
  BY UserFacts DEF Row
<1>7. granted' = [granted EXCEPT ![u] = G]
  <2>1. granted' = IF p.caller = "admin" THEN [granted EXCEPT ![u] = @ \cup {x.role}] ELSE granted
    BY <1>2, <1>3 DEF UpdateWrite
  <2> QED
    BY <1>6, <2>1 DEF IInv, TypeOK, StoreTypeOK
<1>8. x.role \in G /\ granted[u] \subseteq G
  BY <1>2, <1>3, <1>6 DEF ReqOK, Granted
<1>9. row' = [row EXCEPT ![u] = x]
  BY <1>2, <1>3 DEF UpdateWrite
<1>10. /\ Kept /\ \A v \in Users : RowOK(v)'
       /\ row' \in [Users -> Row \cup {None}] /\ granted' \in [Users -> SUBSET Roles]
  BY <1>4, <1>5, <1>7, <1>8, <1>9, TableWritten
<1>11. /\ cache' = cache /\ ttl' = ttl /\ deleted' = deleted
       /\ tokens' = tokens /\ sessions' = sessions
  BY DEF UpdateWrite, KeepsTokens
<1>12. writes' \in 0 .. MaxWrites
  BY MaxWritesAssumption DEF UpdateWrite, CountWrite, IInv, TypeOK, StoreTypeOK
<1> QED
  BY <1>1, <1>5, <1>10, <1>11, <1>12, StepOf DEF IInv, TypeOK, StoreTypeOK

\* A deletion clears is_active; when no update of the user was on its way, the
\* user is gone.
LEMMA DeleteWriteInv ==
  ASSUME IInv, Remember(0), NEW r \in Requests, DeleteWrite(r), KeepsTokens
  PROVE  IInv'
<1>1. PICK a \in Nat : a = age[r]
  BY Facts1
<1>2. PICK p \in Request : p = req[r] /\ ReqOK(p, a) /\ p.pc = "remove"
  BY <1>1, Facts1 DEF DeleteWrite
<1>3. PICK u \in Users, y \in Row : u = p.user /\ y = row[u] /\ row[u] # None
  BY <1>2, UserFacts DEF ReqOK
<1>4. PICK x : x = [y EXCEPT !.active = FALSE]
  OBVIOUS
<1>5. x \in Row /\ ~x.active /\ x.role = y.role
  BY <1>4 DEF Row
<1>6. row' = [row EXCEPT ![u] = x]
  BY <1>2, <1>3, <1>4 DEF DeleteWrite, IInv, TypeOK, StoreTypeOK
<1>7. PICK overlapped \in BOOLEAN :
        overlapped = \E s \in Requests : req[s].pc = "write" /\ req[s].user = u
  OBVIOUS
<1>8. PICK q \in Request :
        /\ req' = [req EXCEPT ![r] = q]
        /\ q = Idle \/ (q.pc = "inval" /\ q.user = u /\ q.del = ~overlapped)
  <2>1. CASE Answer(r)
    BY <2>1, IdleOK DEF Answer
  <2>2. CASE req' = [req EXCEPT ![r].pc = "inval", ![r].del = ~overlapped]
    <3>1. PICK q : q = [p EXCEPT !.pc = "inval", !.del = ~overlapped]
      OBVIOUS
    <3>2. q \in Request /\ q.pc = "inval" /\ q.user = u /\ q.del = ~overlapped
      BY <1>3, <3>1 DEF Request, Pcs
    <3>3. req' = [req EXCEPT ![r] = q]
      BY <1>2, <2>2, <3>1, Facts1
    <3> QED
      BY <3>2, <3>3
  <2> QED
    BY <1>2, <1>3, <1>7, <2>1, <2>2 DEF DeleteWrite
<1>9. q.pc # "write"
  BY <1>8 DEF Idle
<1>10. PICK G \in SUBSET Roles : G = granted[u]
  BY UserFacts
<1>11. granted' = [granted EXCEPT ![u] = G]
  BY <1>10 DEF DeleteWrite, IInv, TypeOK, StoreTypeOK
<1>12. x.role \in G
  BY <1>3, <1>5, <1>10, UserFacts DEF RowOK, Granted
<1>13. /\ Kept /\ \A v \in Users : RowOK(v)'
       /\ row' \in [Users -> Row \cup {None}] /\ granted' \in [Users -> SUBSET Roles]
       /\ row'[u] = x /\ x # None
  BY <1>5, <1>6, <1>8, <1>9, <1>10, <1>11, <1>12, TableWritten
<1>14. ~overlapped => Gone(u)'
  <2>1. \A s \in Requests : req'[s] = IF s = r THEN q ELSE req[s]
    BY <1>8 DEF IInv, TypeOK, StoreTypeOK
  <2> QED
    BY <1>5, <1>7, <1>9, <1>13, <2>1 DEF Gone
<1>15. ReqOK(q, a)'
  <2>1. CASE q = Idle
    BY <2>1 DEF ReqOK, Idle
  <2>2. CASE q.pc = "inval" /\ q.user = u /\ q.del = ~overlapped
    BY <1>14, <2>2 DEF ReqOK
  <2> QED
    BY <1>8, <2>1, <2>2
<1>16. /\ cache' = cache /\ ttl' = ttl /\ deleted' = deleted
       /\ tokens' = tokens /\ sessions' = sessions
  BY DEF DeleteWrite, KeepsTokens
<1>17. writes' \in 0 .. MaxWrites
  BY MaxWritesAssumption DEF DeleteWrite, CountWrite, IInv, TypeOK, StoreTypeOK
<1> QED
  BY <1>1, <1>8, <1>13, <1>15, <1>16, <1>17, StepOf DEF IInv, TypeOK, StoreTypeOK

\* A request that is refused changes nothing.
LEMMA RefusedInv ==
  ASSUME IInv, Remember(0), NEW r \in Requests, Refused(r)
  PROVE  IInv'
<1>1. PICK a \in Nat : a = age[r]
  BY Facts1
<1>2. PICK q \in Request : q = req[r] /\ ReqOK(q, a) /\ q.pc # "write"
  BY <1>1, Facts1 DEF Refused
<1>3. req' = [req EXCEPT ![r] = q]
  BY <1>2, Facts1 DEF Refused, storeVars
<1>4. UNCHANGED <<row, cache, ttl, writes, granted, deleted>> /\ KeepsTokens
  BY DEF Refused, storeVars
<1> QED
  BY <1>1, <1>2, <1>3, <1>4, LookStep

\* A tick ages cache entries, tokens and requests, and history with them.
LEMMA TickInv ==
  ASSUME IInv, Tick
  PROVE  IInv'
<1>1. Remember(1) /\ 1 \in {0, 1}
  BY DEF Tick
<1>2. /\ row' = row /\ req' = req /\ writes' = writes /\ granted' = granted
      /\ deleted' = deleted /\ sessions' = sessions
  BY DEF Tick
<1>3. Kept
  <2>1. Rows' = Rows
    BY <1>2 DEF Rows
  <2>2. Cardinality(Rows) \in Nat /\ IsFiniteSet(Rows)
    BY FS_CardinalityType DEF IInv
  <2>3. \A u \in Users : Gone(u) => Gone(u)'
    BY <1>2 DEF Gone
  <2> QED
    BY <1>2, <2>1, <2>2, <2>3 DEF Kept
<1>4. /\ cache' = [u \in Users |-> IF ttl[u] > 1 THEN cache[u] ELSE None]
      /\ ttl' = [u \in Users |-> IF ttl[u] > 1 THEN ttl[u] - 1 ELSE 0]
  BY DEF Tick, Expire
<1>5. ASSUME NEW u \in Users
      PROVE  /\ cache'[u] \in Row \cup {None} /\ ttl'[u] \in 0 .. CacheTTL
             /\ cache'[u] # None <=> ttl'[u] > 0
             /\ CacheOK(u)'
  <2>1. ttl[u] \in Nat /\ ttl[u] <= CacheTTL
    BY Ages
  <2>2. cache[u] \in Row \cup {None} /\ (cache[u] # None <=> ttl[u] > 0)
    BY DEF IInv, TypeOK, StoreTypeOK
  <2>3. CASE ttl[u] > 1
    <3>1. cache'[u] = cache[u] /\ ttl'[u] = ttl[u] - 1 /\ ttl'[u] \in Int
      BY <1>4, <2>1, <2>3
    <3>2. CacheOK(u)'
      BY <1>1, <1>3, <3>1, CacheKept
    <3> QED
      BY <2>1, <2>2, <2>3, <3>1, <3>2, Times
  <2>4. CASE ~(ttl[u] > 1)
    <3>1. cache'[u] = None /\ ttl'[u] = 0
      BY <1>4, <2>4
    <3> QED
      BY <3>1, Times DEF CacheOK
  <2> QED
    BY <2>3, <2>4
<1>6. cache' \in [Users -> Row \cup {None}] /\ ttl' \in [Users -> 0 .. CacheTTL]
  BY <1>4, <1>5
<1>7. ASSUME NEW k \in tokens' PROVE k \in Token /\ TokenOK(k)'
  <2>1. PICK t \in tokens : t.ttl > 1 /\ k = [t EXCEPT !.ttl = @ - 1]
    BY DEF Tick
  <2>2. t \in Token /\ t.ttl \in Nat /\ t.ttl <= AccessTTL
    BY Ages
  <2>3. k.user = t.user /\ k.role = t.role /\ k.via = t.via /\ k.ttl = t.ttl - 1
    BY <2>1, <2>2 DEF Token
  <2>4. k \in Token
    BY <2>1, <2>2, Times DEF Token
  <2>5. TokenOK(k)'
    BY <1>1, <1>3, <2>3, TokenKept
  <2> QED
    BY <2>4, <2>5
<1>8. ReqsOK'
  <2> SUFFICES ASSUME NEW p \in Requests PROVE ReqOK(req[p], age[p])'
    BY DEF ReqsOK
  <2>1. PICK s \in Request : s = req[p]
    BY Facts1
  <2>2. PICK b \in Nat : b = age[p]
    BY Ages
  <2>3. ReqOK(s, b)
    BY <2>1, <2>2, Facts1
  <2>4. ReqOK(s, b + 1)'
    BY <1>1, <1>3, <2>3, ReqKept
  <2>5. age'[p] = IF s.pc = "idle" THEN 0 ELSE b + 1
    BY <1>1, <1>2, <2>1, <2>2 DEF Remember
  <2>6. PICK c, d : c = b + 1 /\ d = age'[p]
    OBVIOUS
  <2>7. ReqOK(s, c)'
    BY <2>4, <2>6
  <2>8. ReqOK(s, d)'
    <3>1. CASE s.pc = "idle"
      BY <2>7, <3>1, IdleKept
    <3>2. CASE s.pc # "idle"
      BY <2>5, <2>6, <2>7, <3>2
    <3> QED
      BY <3>1, <3>2
  <2> QED
    BY <1>2, <2>1, <2>6, <2>8
<1>9. \A r \in Requests : age[r] < Latency
  BY DEF Tick
<1>10. TypeOK'
  <2>1. StoreTypeOK'
    BY <1>2, <1>5, <1>6 DEF IInv, TypeOK, StoreTypeOK
  <2>2. age' \in [Requests -> 0 .. Latency] /\ was' \in [Users -> [Facts -> 0 .. LongAgo]]
    BY <1>1, <1>9, RememberTypes
  <2>3. tokens' \subseteq Token /\ sessions' \subseteq Users
    BY <1>2, <1>7 DEF IInv, TypeOK
  <2> QED
    BY <2>1, <2>2, <2>3 DEF TypeOK
<1>11. \A u \in Users : RowOK(u)'
  BY <1>2 DEF IInv, RowOK, Granted
<1>12. \A u \in deleted' : Gone(u)'
  BY <1>2, <1>3 DEF IInv, Kept, TypeOK, StoreTypeOK
<1> QED
  BY <1>3, <1>5, <1>7, <1>8, <1>10, <1>11, <1>12 DEF IInv, Kept

-----------------------------------------------------------------------------
(***************************************************************************)
(* The invariant and what follows from it.                                 *)
(***************************************************************************)
\* It holds of an empty table.
LEMMA InitInv == Init => IInv
<1> SUFFICES ASSUME Init PROVE IInv
  OBVIOUS
<1>1. Rows = {} /\ IsFiniteSet(Rows)
  BY FS_EmptySet DEF Init, StoreInit, Rows
<1>2. StoreTypeOK
  BY IdleOK, CacheTTLAssumption, MaxWritesAssumption, NoneAssumption
  DEF Init, StoreInit, StoreTypeOK
<1>3. TypeOK
  BY <1>2, Times DEF Init, TypeOK
<1>4. ReqsOK
  BY IdleOK DEF Init, StoreInit, ReqsOK
<1>5. \A u \in Users : RowOK(u) /\ CacheOK(u)
  BY DEF Init, StoreInit, RowOK, CacheOK
<1>6. tokens = {} /\ deleted = {}
  BY DEF Init, StoreInit
<1> QED
  BY <1>1, <1>3, <1>4, <1>5, <1>6 DEF IInv

\* Every request that arrives keeps it.
LEMMA ArriveInv ==
  ASSUME IInv, NEW r \in Requests, Arrive(r), Remember(0)
  PROVE  IInv'
<1>1. ASSUME NEW u \in Users, NEW e \in Emails, Register(r, u, e) PROVE IInv'
  <2>1. "user" \in Roles
    BY DEF Roles
  <2> QED
    BY <1>1, <2>1, CreateInv DEF Register
<1>2. ASSUME NEW u \in Users, Seed(r, u) PROVE IInv'
  <2>1. "admin" \in Roles /\ SeedEmail \in Emails
    BY SeedAssumption DEF Roles
  <2> QED
    BY <1>2, <2>1, CreateInv DEF Seed
<1>3. ASSUME NEW u \in Users, ResetPassword(r, u) PROVE IInv'
  BY <1>3, UpdatePasswordInv DEF ResetPassword
<1>4. ASSUME NEW e \in Emails, LoginFind(r, e) PROVE IInv'
  BY <1>4, LoginFindInv
<1>5. ASSUME NEW u \in Users, RefreshFind(r, u) PROVE IInv'
  BY <1>5, GetHitInv, GetMissInv DEF RefreshFind
<1>6. ASSUME NEW t \in tokens, NEW u \in Users, GetUser(r, t, u) PROVE IInv'
  BY <1>6, GetHitInv, GetMissInv DEF GetUser
<1>7. ASSUME NEW t \in tokens, NEW u \in Users, NEW e \in Emails \cup {None},
             NEW role \in Roles \cup {None}, NEW active \in BOOLEAN \cup {None},
             UpdateUser(r, t, u, e, role, active)
      PROVE  IInv'
  <2>1. t.role \in Roles
    BY Ages
  <2> QED
    BY <1>7, <2>1, UpdateFindInv DEF UpdateUser
<1>8. ASSUME NEW t \in tokens, NEW u \in Users, DeleteUser(r, t, u) \/ UserDelete(r, t, u)
      PROVE  IInv'
  BY <1>8, DeleteFindInv DEF DeleteUser, UserDelete
<1>9. ASSUME NEW t \in tokens, NEW q \in Queries, ListUsers(r, t, q[1], q[2]) PROVE IInv'
  <2>1. PICK page \in Int, perPage \in Int : page = q[1] /\ perPage = q[2]
    BY QueriesAssumption
  <2>2. PICK limit, offset : /\ limit = Clamp(perPage, 1, MaxPerPage)
                             /\ offset = (IF page < 1 THEN 0 ELSE page - 1) * limit
    OBVIOUS
  <2>3. limit \in Nat /\ offset \in Nat
    BY <2>2, QueryTypes
  <2>4. ListCount(r, limit, offset) /\ KeepsTokens
    BY <1>9, <2>1, <2>2 DEF ListUsers
  <2> QED
    BY <2>3, <2>4, ListCountInv
<1>10. ASSUME NEW t \in tokens, UserList(r, t) PROVE IInv'
  <2>1. MaxPerPage \in Nat /\ 0 \in Nat
    BY QueryTypes
  <2> QED
    BY <1>10, <2>1, ListCountInv DEF UserList
<1>11. CASE Refused(r)
  BY <1>11, RefusedInv
<1> QED
  BY <1>1, <1>2, <1>3, <1>4, <1>5, <1>6, <1>7, <1>8, <1>9, <1>10, <1>11 DEF Arrive

\* Every step of a request in flight keeps it.
LEMMA ContinueInv ==
  ASSUME IInv, NEW r \in Requests, Continue(r), Remember(0)
  PROVE  IInv'
<1>1. CASE Proceed(r) /\ KeepsTokens
  <2>1. CASE GetRead(r)
    BY <1>1, <2>1, GetReadInv
  <2>2. CASE GetFill(r)
    BY <1>1, <2>2, GetFillInv
  <2>3. CASE UpdateWrite(r)
    BY <1>1, <2>3, UpdateWriteInv
  <2>4. CASE DeleteWrite(r)
    BY <1>1, <2>4, DeleteWriteInv
  <2>5. CASE WriteFails(r)
    BY <1>1, <2>5, AnswerInv DEF WriteFails
  <2>6. CASE Invalidate(r)
    BY <1>1, <2>6, InvalidateInv
  <2>7. CASE ListSelect(r)
    BY <1>1, <2>7, AnswerInv DEF ListSelect
  <2> QED
    BY <1>1, <2>1, <2>2, <2>3, <2>4, <2>5, <2>6, <2>7 DEF Proceed
<1>2. CASE IssueAccessToken(r)
  BY <1>2, IssueInv
<1> QED
  BY <1>1, <1>2 DEF Continue

\* A step of Next, or one that changes nothing, keeps the invariant.
LEMMA NextInv == IInv /\ [Next]_vars => IInv'
<1> SUFFICES ASSUME IInv, [Next]_vars PROVE IInv'
  OBVIOUS
<1>1. ASSUME NEW r \in Requests, Arrive(r), Remember(0) PROVE IInv'
  BY <1>1, ArriveInv
<1>2. ASSUME NEW r \in Requests, Continue(r), Remember(0) PROVE IInv'
  BY <1>2, ContinueInv
<1>3. CASE Tick
  BY <1>3, TickInv
<1>4. CASE UNCHANGED vars
  BY <1>4 DEF vars, storeVars, IInv, TypeOK, StoreTypeOK, ReqsOK, ReqOK, RowOK, CacheOK, TokenOK,
     TokenAge, Granted, Fresh, Active, Had, Has, Gone, Rows
<1> QED
  BY <1>1, <1>2, <1>3, <1>4 DEF Next

\* The invariant holds throughout.
THEOREM Invariance == Spec => []IInv
<1> QED
  BY InitInv, NextInv, PTL DEF Spec

\* Every variable keeps its shape, and a cache key has a TTL exactly when it
\* exists.
THEOREM TypeCorrect == Spec => []TypeOK
<1>1. IInv => TypeOK
  BY DEF IInv
<1> QED
  BY <1>1, Invariance, PTL

\* No privilege comes out of thin air: a user's role, in the table, the cache or
\* an access token, is one that the user was created with or an admin's update
\* wrote, whatever reads, updates and deletions of the user overlap.
THEOREM NoPrivilegeFromNowhere == Spec => []RolesGranted
<1>1. IInv => RolesGranted
  <2> SUFFICES ASSUME IInv PROVE RolesGranted
    OBVIOUS
  <2>1. \A u \in Users : (row[u] # None => row[u].role \in granted[u])
                         /\ (cache[u] # None => cache[u].role \in granted[u])
    BY DEF IInv, RowOK, CacheOK, Granted
  <2>2. \A t \in tokens : t.role \in granted[t.user]
    BY DEF IInv, TokenOK, Granted
  <2> QED
    BY <2>1, <2>2 DEF RolesGranted
<1> QED
  BY <1>1, Invariance, PTL

\* A demotion takes effect: the table had the role in a token when the token
\* was issued, or no longer before than the cache and two requests delay it.
THEOREM DemotionTakesEffect == Spec => []RoleLagBounded
<1>1. IInv => RoleLagBounded
  BY DEF IInv, TokenOK, Fresh, RoleLagBounded
<1> QED
  BY <1>1, Invariance, PTL

\* A deactivation reaches Refresh within the same time: no token is refreshed
\* for a user who was inactive for longer.
THEOREM DeactivationTakesEffect == Spec => []RefreshNeedsActive
<1>1. IInv => RefreshNeedsActive
  BY DEF IInv, TokenOK, Active, RefreshNeedsActive
<1> QED
  BY <1>1, Invariance, PTL

\* A user whose deletion was answered with success, and overlapped no update of
\* the user, never becomes active again: Update finds only active rows.
THEOREM DeletionLasts == Spec => []DeletedStaysDeleted
<1>1. IInv => DeletedStaysDeleted
  BY DEF IInv, Gone, DeletedStaysDeleted
<1> QED
  BY <1>1, Invariance, PTL

\* LIMIT and OFFSET leave no fewer of more rows.
LEMMA SelectedMore ==
  \A n, m, limit, offset \in Nat :
    n <= m => Selected(m, limit, offset) >= Selected(n, limit, offset)
BY DEF Selected

\* A page has the rows that the total counted before it promises, even when
\* rows are inserted, updated or deleted between the two statements.
THEOREM PageHasItsRows == Spec => PageNotShort
<1>1. ASSUME IInv, NEW r \in Requests, req[r].pc = "select"
      PROVE  Selected(Cardinality(Rows), req[r].limit, req[r].offset)
               >= Selected(req[r].total, req[r].limit, req[r].offset)
  <2>1. PICK p \in Request : p = req[r]
    BY <1>1, Facts1
  <2>2. p.total \in Nat /\ p.limit \in Nat /\ p.offset \in Nat
    BY DEF Request
  <2>3. PICK n \in Nat : n = Cardinality(Rows)
    BY <1>1, FS_CardinalityType DEF IInv
  <2>4. p.total <= n
    BY <1>1, <2>1, <2>3 DEF IInv, ReqsOK, ReqOK
  <2>5. Selected(n, p.limit, p.offset) >= Selected(p.total, p.limit, p.offset)
    BY <2>2, <2>3, <2>4, SelectedMore
  <2> QED
    BY <2>1, <2>3, <2>5
<1>2. IInv => [\A r \in Requests :
                 req[r].pc = "select" /\ req'[r].pc = "idle" =>
                   Selected(Cardinality(Rows), req[r].limit, req[r].offset)
                     >= Selected(req[r].total, req[r].limit, req[r].offset)]_vars
  BY <1>1
<1> QED
  BY <1>2, Invariance, PTL DEF PageNotShort

=============================================================================
