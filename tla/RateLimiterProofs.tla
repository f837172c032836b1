------------------------- MODULE RateLimiterProofs -------------------------
(***************************************************************************)
(* Proofs about RateLimiter, for any number of requests and keys, any      *)
(* limit and any window longer than a pipeline takes, however pipelines    *)
(* interleave and fail.                                                    *)
(*                                                                         *)
(* What a call is told depends on what the key holds at its ZCARD.  That   *)
(* no member is too old (WindowOK) makes a refusal just (CountOK); that    *)
(* few recent members are missing (LostOK) makes the limit hold            *)
(* (PassedOK).  Members go missing when their key expires before their own *)
(* EXPIRE, and DeadlineOK says that only these do: an EXPIRE keeps every   *)
(* member before it for a window.                                          *)
(***************************************************************************)
EXTENDS RateLimiter, FiniteSetTheorems, TLAPS

\* Members that are, or were, in the key of k; those whose count lets them
\* pass; those whose EXPIRE is done.  Calls that failed open do not count.
Added(k) == {m \in Members : \/ m \in admitted[k]
                             \/ \E r \in Requests : /\ req[r].pc \in {"zcard", "expire", "verdict"}
                                                    /\ req[r].key = k /\ req[r].now = m}

Passed(k) == {m \in Members : \/ m \in admitted[k]
                              \/ \E r \in Requests : /\ req[r].pc \in {"expire", "verdict"}
                                                     /\ req[r].count <= Limit
                                                     /\ req[r].key = k /\ req[r].now = m}

Done(k) == {m \in Members : \/ m \in admitted[k]
                            \/ \E r \in Requests : /\ req[r].pc = "verdict"
                                                   /\ req[r].key = k /\ req[r].now = m}

\* The members of S in the window that ends at s, less what a pipeline can be
\* late.
Recent(S, s) == Between(S, s - (Window - Latency), s)

Around(S, m) == Between(S, Score(m) - Window, Score(m) + Latency)

\* Of one request.
CallOK(r) ==
  InPipeline(r) =>
    /\ req[r].now \in called[req[r].key]
    /\ Score(req[r].now) <= clock /\ clock <= Score(req[r].now) + Latency

WindowOK(r) ==
  req[r].pc \in {"zadd", "zcard"} =>
    \A m \in zset[req[r].key] : Score(req[r].now) - Window < Score(m)

CountOK(r) ==
  req[r].pc \in {"expire", "verdict"} /\ req[r].count > Limit =>
    Cardinality(Around(called[req[r].key], req[r].now)) > Limit

\* Of one key.
MembersOK(k) ==
  /\ zset[k] \subseteq called[k] /\ admitted[k] \subseteq called[k]
  /\ rejected[k] \subseteq called[k]
  /\ \A m \in called[k] : Score(m) <= clock

ExpiryOK(k) ==
  zset[k] # {} /\ deadline[k] = 0 =>
    faults > 0 \/ \E r \in Requests : req[r].pc \in {"zcard", "expire"} /\ req[r].key = k

DeadlineOK(k) ==
  deadline[k] # 0 => \A m \in Done(k) : Score(m) + Window <= deadline[k]

LostOK(k) ==
  \A s \in 0 .. MaxClock :
    clock <= s + Latency =>
      Cardinality(Recent(Added(k), s) \ zset[k]) <= Cardinality(Requests)

PassedOK(k) ==
  \A s \in 0 .. MaxClock :
    Cardinality(Recent(Passed(k), s)) <= Limit + Cardinality(Requests)

RejectedOK(k) ==
  \A m \in rejected[k] : Cardinality(Around(called[k], m)) > Limit

IInv ==
  /\ TypeOK
  /\ \A r \in Requests : CallOK(r) /\ WindowOK(r) /\ CountOK(r)
  /\ \A k \in Keys : /\ MembersOK(k) /\ ExpiryOK(k) /\ DeadlineOK(k)
                     /\ LostOK(k) /\ PassedOK(k) /\ RejectedOK(k)

-----------------------------------------------------------------------------
(***************************************************************************)
(* Numbers and sizes.                                                      *)
(***************************************************************************)
\* The constants are numbers.
LEMMA Consts ==
  /\ Limit \in Nat /\ Window \in Nat /\ Latency \in Nat /\ Latency < Window /\ 0 < Window
  /\ MaxClock \in Nat /\ MaxFaults \in Nat /\ Cardinality(Requests) \in Nat
BY RequestsAssumption, LimitAssumption, TimeAssumption, BoundAssumption, FS_CardinalityType

\* A score is a time.
LEMMA Scores ==
  /\ \A m \in Members : Score(m) \in 0 .. MaxClock /\ Score(m) \in Int
  /\ \A c, n : Score(<<c, n>>) = c
  /\ NoCall \in Members
BY BoundAssumption DEF Members, Score, NoCall

\* Sets of members are finite, and a subset is no larger.
LEMMA Sizes ==
  ASSUME NEW S \in SUBSET Members, NEW T \in SUBSET S
  PROVE  /\ IsFiniteSet(S) /\ Cardinality(S) \in Nat /\ Cardinality(T) \in Nat
         /\ Cardinality(T) <= Cardinality(S)
<1>1. IsFiniteSet(0 .. MaxClock) /\ IsFiniteSet(1 .. MaxCalls)
  BY FS_Interval, BoundAssumption
<1>2. IsFiniteSet(Members)
  BY <1>1, FS_Product DEF Members
<1>3. IsFiniteSet(S)
  BY <1>2, FS_Subset
<1>4. IsFiniteSet(T) /\ Cardinality(T) <= Cardinality(S)
  BY <1>3, FS_Subset
<1> QED
  BY <1>3, <1>4, FS_CardinalityType

\* The state of one request and of one key, with their types.
LEMMA RequestFacts ==
  ASSUME IInv, NEW r \in Requests
  PROVE  /\ req[r] \in Request /\ req[r].key \in Keys /\ req[r].now \in Members
         /\ req[r].count \in Nat /\ Score(req[r].now) \in Int
         /\ CallOK(r) /\ WindowOK(r) /\ CountOK(r)
BY Scores DEF IInv, TypeOK, Request

LEMMA KeyFacts ==
  ASSUME IInv, NEW k \in Keys
  PROVE  /\ zset[k] \subseteq Members /\ called[k] \subseteq Members
         /\ admitted[k] \subseteq Members /\ rejected[k] \subseteq Members
         /\ deadline[k] \in Nat /\ (zset[k] = {} => deadline[k] = 0)
         /\ MembersOK(k) /\ ExpiryOK(k) /\ DeadlineOK(k)
         /\ LostOK(k) /\ PassedOK(k) /\ RejectedOK(k)
BY Consts DEF IInv, TypeOK

\* The clock is a time.
LEMMA ClockFacts == IInv => clock \in 0 .. MaxClock /\ clock \in Int
BY Consts DEF IInv, TypeOK

-----------------------------------------------------------------------------
(***************************************************************************)
(* What a step of request r, from local state p to q, leaves to be shown.  *)
(***************************************************************************)
\* Requests other than r.
LEMMA OthersKept ==
  ASSUME IInv, clock' = clock, NEW r \in Requests, NEW q \in Request,
         req' = [req EXCEPT ![r] = q],
         \A k \in Keys : called[k] \subseteq called'[k] /\ called'[k] \subseteq Members,
         \A k \in Keys : \A m \in zset'[k] : m \in zset[k] \/ clock <= Score(m) + Latency,
         \A k \in Keys : zset'[k] \subseteq Members
  PROVE  \A o \in Requests \ {r} : CallOK(o)' /\ WindowOK(o)' /\ CountOK(o)'
<1> SUFFICES ASSUME NEW o \in Requests, o # r PROVE CallOK(o)' /\ WindowOK(o)' /\ CountOK(o)'
  OBVIOUS
<1>1. PICK s \in Request : s = req[o] /\ s = req'[o]
  BY DEF IInv, TypeOK
<1>2. s.key \in Keys /\ s.now \in Members /\ s.count \in Nat /\ Score(s.now) \in Int
  BY Scores DEF Request
<1>3. CallOK(o) /\ WindowOK(o) /\ CountOK(o)
  BY RequestFacts
<1>4. CallOK(o)'
  BY <1>1, <1>2, <1>3 DEF CallOK, InPipeline
<1>5. WindowOK(o)'
  <2> SUFFICES ASSUME s.pc \in {"zadd", "zcard"}, NEW m \in zset'[s.key]
               PROVE  Score(s.now) - Window < Score(m)
    BY <1>1 DEF WindowOK
  <2>1. CASE m \in zset[s.key]
    BY <1>1, <1>3, <2>1 DEF WindowOK
  <2>2. CASE clock <= Score(m) + Latency
    <3>1. Score(s.now) <= clock
      BY <1>1, <1>3 DEF CallOK, InPipeline
    <3>2. Score(m) \in Int /\ clock \in Int
      BY <1>2, Scores, ClockFacts
    <3> QED
      BY <1>2, <2>2, <3>1, <3>2, Consts
  <2> QED
    BY <1>2, <2>1, <2>2
<1>6. CountOK(o)'
  <2> SUFFICES ASSUME s.pc \in {"expire", "verdict"}, s.count > Limit
               PROVE  Cardinality(Around(called'[s.key], s.now)) > Limit
    BY <1>1 DEF CountOK, Around, Between
  <2>1. Cardinality(Around(called[s.key], s.now)) > Limit
    BY <1>1, <1>3 DEF CountOK
  <2>2. /\ Around(called[s.key], s.now) \subseteq Around(called'[s.key], s.now)
        /\ Around(called'[s.key], s.now) \subseteq Members
    BY <1>2 DEF Around, Between
  <2> QED
    BY <2>1, <2>2, Sizes, Consts
<1> QED
  BY <1>4, <1>5, <1>6

\* The step admits no call but one that was told to pass.
Admits(p, k) ==
  \A m \in admitted'[k] :
    m \in admitted[k] \/ (p.pc = "verdict" /\ p.count <= Limit /\ p.key = k /\ p.now = m)

\* The members in Added, Passed and Done after the step were in it before, or
\* are the request's own.
OnlyOwn(q, k) ==
  /\ \A m \in Added(k)' :
       m \in Added(k) \/ (q.pc \in {"zcard", "expire", "verdict"} /\ q.key = k /\ q.now = m)
  /\ \A m \in Passed(k)' :
       \/ m \in Passed(k)
       \/ q.pc \in {"expire", "verdict"} /\ q.count <= Limit /\ q.key = k /\ q.now = m
  /\ \A m \in Done(k)' :
       m \in Done(k) \/ (q.pc = "verdict" /\ q.key = k /\ q.now = m)

\* Who is in Added, Passed and Done after the step.
LEMMA SetsStep ==
  ASSUME IInv, NEW r \in Requests, NEW p \in Request, p = req[r], NEW q \in Request,
         req' = [req EXCEPT ![r] = q], NEW k \in Keys,
         Admits(p, k)
  PROVE  OnlyOwn(q, k)
<1>1. \A o \in Requests : req'[o] = IF o = r THEN q ELSE req[o]
  BY DEF IInv, TypeOK
<1>2. ASSUME NEW m \in Added(k)' PROVE m \in Added(k) \/
        (q.pc \in {"zcard", "expire", "verdict"} /\ q.key = k /\ q.now = m)
  BY <1>1, <1>2 DEF Added, Admits
<1>3. ASSUME NEW m \in Passed(k)' PROVE m \in Passed(k) \/
        (q.pc \in {"expire", "verdict"} /\ q.count <= Limit /\ q.key = k /\ q.now = m)
  BY <1>1, <1>3 DEF Passed, Admits
<1>4. ASSUME NEW m \in Done(k)' PROVE m \in Done(k) \/
        (q.pc = "verdict" /\ q.key = k /\ q.now = m)
  BY <1>1, <1>4 DEF Done, Admits
<1> QED
  BY <1>2, <1>3, <1>4 DEF OnlyOwn

\* None joins them when q is at rest or before its ZADD.
LEMMA SetsKept ==
  ASSUME IInv, NEW r \in Requests, NEW p \in Request, p = req[r], NEW q \in Request,
         req' = [req EXCEPT ![r] = q], NEW k \in Keys, q.pc \in {"idle", "zrem", "zadd"},
         Admits(p, k)
  PROVE  /\ \A m \in Added(k)' : m \in Added(k)
         /\ \A m \in Passed(k)' : m \in Passed(k)
         /\ \A m \in Done(k)' : m \in Done(k)
<1>1. OnlyOwn(q, k)
  BY SetsStep
<1> QED
  BY <1>1 DEF OnlyOwn

\* No more recent members are missing when none leaves the key, and those that
\* come are in it.
LEMMA LostKept ==
  ASSUME IInv, clock' = clock, NEW k \in Keys, zset'[k] \subseteq Members,
         \A m \in Added(k)' : m \in Added(k) \/ m \in zset'[k],
         \A m \in zset[k] : m \in zset'[k] \/ Score(m) + Window <= clock
  PROVE  LostOK(k)'
<1> SUFFICES ASSUME NEW s \in 0 .. MaxClock, clock <= s + Latency
             PROVE  Cardinality(Recent(Added(k)', s) \ zset'[k]) <= Cardinality(Requests)
  BY DEF LostOK, Recent, Between
<1>1. PICK A \in SUBSET Members, B \in SUBSET Members :
        A = Recent(Added(k), s) \ zset[k] /\ B = Recent(Added(k)', s) \ zset'[k]
  BY DEF Recent, Between, Added
<1>2. Cardinality(A) <= Cardinality(Requests)
  BY <1>1, KeyFacts DEF LostOK
<1>3. ASSUME NEW m \in B PROVE m \in A
  <2>1. /\ m \in Members /\ m \in Added(k)' /\ m \notin zset'[k]
        /\ s - (Window - Latency) < Score(m) /\ Score(m) <= s
    BY <1>1, <1>3 DEF Recent, Between
  <2>2. m \in Added(k)
    BY <2>1
  <2>3. ~(Score(m) + Window <= clock)
    BY <2>1, Consts, Scores, ClockFacts
  <2>4. m \notin zset[k]
    BY <2>1, <2>3
  <2> QED
    BY <1>1, <2>1, <2>2, <2>4 DEF Recent, Between
<1>4. Cardinality(B) <= Cardinality(A) /\ Cardinality(A) \in Nat /\ Cardinality(B) \in Nat
  BY <1>3, Sizes
<1> QED
  BY <1>1, <1>2, <1>4, Consts

\* No more members pass when none joins those who do.
LEMMA PassedKept ==
  ASSUME IInv, NEW k \in Keys, \A m \in Passed(k)' : m \in Passed(k)
  PROVE  PassedOK(k)'
<1> SUFFICES ASSUME NEW s \in 0 .. MaxClock
             PROVE  Cardinality(Recent(Passed(k)', s)) <= Limit + Cardinality(Requests)
  BY DEF PassedOK, Recent, Between
<1>1. PICK A \in SUBSET Members, B \in SUBSET Members :
        A = Recent(Passed(k), s) /\ B = Recent(Passed(k)', s)
  BY DEF Recent, Between, Passed
<1>2. Cardinality(A) <= Limit + Cardinality(Requests)
  BY <1>1, KeyFacts DEF PassedOK
<1>3. B \subseteq A
  BY <1>1 DEF Recent, Between
<1>4. Cardinality(B) <= Cardinality(A) /\ Cardinality(A) \in Nat /\ Cardinality(B) \in Nat
  BY <1>3, Sizes
<1> QED
  BY <1>1, <1>2, <1>4, Consts

\* A refusal stays justified as more calls are made.
LEMMA RejectedKept ==
  ASSUME IInv, NEW k \in Keys, called[k] \subseteq called'[k], called'[k] \subseteq Members,
         NEW m \in Members, Cardinality(Around(called[k], m)) > Limit
  PROVE  Cardinality(Around(called'[k], m)) > Limit
<1>1. /\ Around(called[k], m) \subseteq Around(called'[k], m)
      /\ Around(called'[k], m) \subseteq Members
  BY DEF Around, Between
<1> QED
  BY <1>1, Sizes, Consts

\* A key that keeps its TTL, or loses it, and whose members pass no EXPIRE.
LEMMA DeadlineKept ==
  ASSUME IInv, NEW k \in Keys, deadline'[k] \in {0, deadline[k]},
         \A m \in Done(k)' : m \in Done(k)
  PROVE  DeadlineOK(k)'
BY KeyFacts DEF DeadlineOK

-----------------------------------------------------------------------------
(***************************************************************************)
(* The steps of a request.                                                 *)
(***************************************************************************)
\* A call reads the clock and begins its pipeline.
LEMMA CallInv ==
  ASSUME IInv, NEW r \in Requests, NEW k \in Keys, Call(r, k)
  PROVE  IInv'
<1>1. PICK m \in Members : /\ Score(m) = clock
                           /\ req' = [req EXCEPT ![r] = [pc |-> "zrem", key |-> k, now |-> m,
                                                         count |-> 0]]
                           /\ called' = [called EXCEPT ![k] = @ \cup {m}]
  BY Scores DEF Call
<1>2. PICK p \in Request : p = req[r]
  BY RequestFacts
<1>3. PICK q \in Request : q = [pc |-> "zrem", key |-> k, now |-> m, count |-> 0]
  BY DEF Request, Pcs
<1>4. req' = [req EXCEPT ![r] = q] /\ req' \in [Requests -> Request] /\ req'[r] = q
  BY <1>1, <1>3 DEF IInv, TypeOK
<1>5. /\ clock' = clock /\ zset' = zset /\ deadline' = deadline /\ faults' = faults
      /\ admitted' = admitted /\ rejected' = rejected
  BY DEF Call
<1>6. /\ called' \in [Keys -> SUBSET Members] /\ m \in called'[k]
      /\ \A l \in Keys : \A c \in called'[l] : c \in called[l] \/ c = m
      /\ \A l \in Keys : called[l] \subseteq called'[l] /\ called'[l] \subseteq Members
  BY <1>1 DEF IInv, TypeOK
<1>7. TypeOK'
  BY <1>4, <1>5, <1>6 DEF IInv, TypeOK
<1>8. \A o \in Requests : CallOK(o)' /\ WindowOK(o)' /\ CountOK(o)'
  <2>1. CallOK(r)' /\ WindowOK(r)' /\ CountOK(r)'
    BY <1>1, <1>3, <1>4, <1>5, <1>6, ClockFacts, Consts DEF CallOK, WindowOK, CountOK, InPipeline
  <2>2. \A l \in Keys : zset'[l] \subseteq Members
    BY <1>7 DEF TypeOK
  <2> QED
    BY <1>4, <1>5, <1>6, <2>1, <2>2, OthersKept
<1>9. ASSUME NEW l \in Keys
      PROVE  /\ MembersOK(l)' /\ ExpiryOK(l)' /\ DeadlineOK(l)'
             /\ LostOK(l)' /\ PassedOK(l)' /\ RejectedOK(l)'
  <2>1. MembersOK(l)'
    BY <1>1, <1>5, <1>6, KeyFacts, ClockFacts DEF MembersOK
  <2>2. /\ \A c \in Added(l)' : c \in Added(l)
        /\ \A c \in Passed(l)' : c \in Passed(l)
        /\ \A c \in Done(l)' : c \in Done(l)
    <3>1. Admits(p, l)
      BY <1>5 DEF Admits
    <3>2. q.pc = "zrem"
      BY <1>3
    <3> QED
      BY <1>2, <1>4, <3>1, <3>2, SetsKept
  <2>3. ExpiryOK(l)'
    <3>1. \A o \in Requests : req[o].pc \in {"zcard", "expire"} => req'[o] = req[o]
      BY <1>4 DEF Call, IInv, TypeOK
    <3> QED
      BY <1>5, <3>1, KeyFacts DEF ExpiryOK
  <2>4. DeadlineOK(l)'
    BY <1>5, <2>2, DeadlineKept
  <2>5. LostOK(l)'
    BY <1>5, <2>2, LostKept, KeyFacts
  <2>6. PassedOK(l)'
    BY <2>2, PassedKept
  <2>7. RejectedOK(l)'
    <3>1. ASSUME NEW c \in rejected[l] PROVE Cardinality(Around(called'[l], c)) > Limit
      BY <1>6, KeyFacts, RejectedKept DEF RejectedOK
    <3> QED
      BY <1>5, <3>1 DEF RejectedOK, Around, Between
  <2> QED
    BY <2>1, <2>3, <2>4, <2>5, <2>6, <2>7
<1> QED
  BY <1>7, <1>8, <1>9 DEF IInv

\* ZREMRANGEBYSCORE removes none that is recent for any request in flight.
LEMMA ZRemInv ==
  ASSUME IInv, NEW r \in Requests, ZRemRangeByScore(r)
  PROVE  IInv'
<1>1. PICK p \in Request : p = req[r] /\ p.pc = "zrem" /\ p.key \in Keys /\ p.now \in Members
  BY RequestFacts DEF ZRemRangeByScore
<1>2. PICK k \in Keys : k = p.key
  BY <1>1
<1>3. PICK left \in SUBSET Members : left = {m \in zset[k] : ~Expired(m, p.now)}
  BY KeyFacts
<1>4. /\ zset' = [zset EXCEPT ![k] = left]
      /\ deadline' = IF left = {} THEN [deadline EXCEPT ![k] = 0] ELSE deadline
      /\ req' = [req EXCEPT ![r].pc = "zadd"]
  BY <1>1, <1>2, <1>3 DEF ZRemRangeByScore, Goto
<1>5. PICK q : q = [p EXCEPT !.pc = "zadd"]
  OBVIOUS
<1>6. /\ q \in Request /\ q.pc = "zadd" /\ q.key = k /\ q.now = p.now /\ q.count = p.count
  BY <1>1, <1>2, <1>5 DEF Request, Pcs
<1>7. req' = [req EXCEPT ![r] = q] /\ req' \in [Requests -> Request] /\ req'[r] = q
  BY <1>1, <1>4, <1>5, <1>6 DEF IInv, TypeOK
<1>8. /\ clock' = clock /\ faults' = faults /\ called' = called
      /\ admitted' = admitted /\ rejected' = rejected
  BY DEF ZRemRangeByScore
<1>9. /\ zset' \in [Keys -> SUBSET Members] /\ zset'[k] = left /\ left \subseteq zset[k]
      /\ \A l \in Keys : zset'[l] \subseteq zset[l] /\ (l # k => zset'[l] = zset[l])
  BY <1>3, <1>4 DEF IInv, TypeOK
<1>10. \A l \in Keys : deadline'[l] = IF l = k /\ left = {} THEN 0 ELSE deadline[l]
  BY <1>4 DEF IInv, TypeOK
<1>11. deadline' \in [Keys -> 0 .. MaxClock + Window]
  BY <1>4, Consts DEF IInv, TypeOK
<1>12. TypeOK'
  <2>1. \A l \in Keys : zset'[l] = {} => deadline'[l] = 0
    BY <1>9, <1>10, KeyFacts
  <2> QED
    BY <1>7, <1>8, <1>9, <1>11, <2>1 DEF IInv, TypeOK
<1>13. Score(p.now) <= clock /\ p.now \in called[k] /\ clock <= Score(p.now) + Latency
  BY <1>1, <1>2, RequestFacts DEF CallOK, InPipeline
<1>14. \A o \in Requests : CallOK(o)' /\ WindowOK(o)' /\ CountOK(o)'
  <2>1. CallOK(r)' /\ CountOK(r)'
    BY <1>6, <1>7, <1>8, <1>13 DEF CallOK, CountOK
  <2>2. WindowOK(r)'
    <3> SUFFICES ASSUME NEW m \in left PROVE Score(q.now) - Window < Score(m)
      BY <1>6, <1>7, <1>9 DEF WindowOK
    <3>1. ~Expired(m, p.now) /\ m \in Members
      BY <1>3
    <3> QED
      BY <1>1, <1>6, <3>1, Scores, Consts DEF Expired
  <2>3. \A l \in Keys : called[l] \subseteq called'[l] /\ called'[l] \subseteq Members
    BY <1>8, KeyFacts
  <2>4. \A l \in Keys : \A m \in zset'[l] : m \in zset[l] \/ clock <= Score(m) + Latency
    BY <1>9
  <2>5. \A l \in Keys : zset'[l] \subseteq Members
    BY <1>9
  <2> QED
    BY <1>6, <1>7, <1>8, <2>1, <2>2, <2>3, <2>4, <2>5, OthersKept
<1>15. ASSUME NEW l \in Keys
       PROVE  /\ MembersOK(l)' /\ ExpiryOK(l)' /\ DeadlineOK(l)'
              /\ LostOK(l)' /\ PassedOK(l)' /\ RejectedOK(l)'
  <2>1. MembersOK(l)'
    BY <1>8, <1>9, KeyFacts DEF MembersOK
  <2>2. /\ \A m \in Added(l)' : m \in Added(l)
        /\ \A m \in Passed(l)' : m \in Passed(l)
        /\ \A m \in Done(l)' : m \in Done(l)
    <3>1. Admits(p, l)
      BY <1>8 DEF Admits
    <3> QED
      BY <1>1, <1>6, <1>7, <3>1, SetsKept
  <2>3. ExpiryOK(l)'
    <3>1. \A o \in Requests : req[o].pc \in {"zcard", "expire"} => req'[o] = req[o]
      BY <1>1, <1>7 DEF IInv, TypeOK
    <3>2. zset'[l] # {} => zset[l] # {} /\ deadline'[l] = deadline[l]
      BY <1>9, <1>10
    <3> QED
      BY <1>8, <3>1, <3>2, KeyFacts DEF ExpiryOK
  <2>4. DeadlineOK(l)'
    BY <1>10, <2>2, DeadlineKept
  <2>5. \A m \in zset[l] : m \in zset'[l] \/ Score(m) + Window <= clock
    <3> SUFFICES ASSUME NEW m \in zset[l], m \notin zset'[l] PROVE Score(m) + Window <= clock
      OBVIOUS
    <3>1. l = k /\ m \in Members /\ Expired(m, p.now)
      BY <1>3, <1>9, KeyFacts
    <3> QED
      BY <1>1, <1>13, <3>1, Scores, Consts, ClockFacts DEF Expired
  <2>6. LostOK(l)'
    BY <1>8, <1>9, <2>2, <2>5, LostKept
  <2>7. PassedOK(l)'
    BY <2>2, PassedKept
  <2>8. RejectedOK(l)'
    BY <1>8, KeyFacts DEF RejectedOK, Around, Between
  <2> QED
    BY <2>1, <2>3, <2>4, <2>6, <2>7, <2>8
<1> QED
  BY <1>12, <1>14, <1>15 DEF IInv

\* ZADD adds a member that is recent.
LEMMA ZAddInv ==
  ASSUME IInv, NEW r \in Requests, ZAdd(r)
  PROVE  IInv'
<1>1. PICK p \in Request : p = req[r] /\ p.pc = "zadd" /\ p.key \in Keys /\ p.now \in Members
  BY RequestFacts DEF ZAdd
<1>2. PICK k \in Keys, n \in Members : k = p.key /\ n = p.now
  BY <1>1
<1>3. zset' = [zset EXCEPT ![k] = @ \cup {n}] /\ req' = [req EXCEPT ![r].pc = "zcard"]
  BY <1>1, <1>2 DEF ZAdd, Goto
<1>4. PICK q : q = [p EXCEPT !.pc = "zcard"]
  OBVIOUS
<1>5. q \in Request /\ q.pc = "zcard" /\ q.key = k /\ q.now = n
  BY <1>1, <1>2, <1>4 DEF Request, Pcs
<1>6. req' = [req EXCEPT ![r] = q] /\ req' \in [Requests -> Request] /\ req'[r] = q
  BY <1>1, <1>3, <1>4, <1>5 DEF IInv, TypeOK
<1>7. /\ clock' = clock /\ deadline' = deadline /\ faults' = faults /\ called' = called
      /\ admitted' = admitted /\ rejected' = rejected
  BY DEF ZAdd
<1>8. /\ zset' \in [Keys -> SUBSET Members]
      /\ \A l \in Keys : zset'[l] = IF l = k THEN zset[l] \cup {n} ELSE zset[l]
  BY <1>3 DEF IInv, TypeOK
<1>9. TypeOK'
  <2>1. \A l \in Keys : zset'[l] = {} => deadline'[l] = 0
    BY <1>7, <1>8, KeyFacts
  <2> QED
    BY <1>6, <1>7, <1>8, <2>1 DEF IInv, TypeOK
<1>10. Score(n) <= clock /\ n \in called[k] /\ clock <= Score(n) + Latency
  BY <1>1, <1>2, RequestFacts DEF CallOK, InPipeline
<1>11. \A o \in Requests : CallOK(o)' /\ WindowOK(o)' /\ CountOK(o)'
  <2>1. CallOK(r)' /\ CountOK(r)'
    BY <1>5, <1>6, <1>7, <1>10 DEF CallOK, CountOK
  <2>2. WindowOK(r)'
    <3> SUFFICES ASSUME NEW m \in zset'[k] PROVE Score(n) - Window < Score(m)
      BY <1>5, <1>6 DEF WindowOK
    <3>1. CASE m \in zset[k]
      BY <1>1, <1>2, <3>1, RequestFacts DEF WindowOK
    <3>2. CASE m = n
      BY <3>2, Scores, Consts
    <3> QED
      BY <1>8, <3>1, <3>2
  <2>3. \A l \in Keys : called[l] \subseteq called'[l] /\ called'[l] \subseteq Members
    BY <1>7, KeyFacts
  <2>4. \A l \in Keys : \A m \in zset'[l] : m \in zset[l] \/ clock <= Score(m) + Latency
    BY <1>8, <1>10
  <2>5. \A l \in Keys : zset'[l] \subseteq Members
    BY <1>8
  <2> QED
    BY <1>5, <1>6, <1>7, <2>1, <2>2, <2>3, <2>4, <2>5, OthersKept
<1>12. ASSUME NEW l \in Keys
       PROVE  /\ MembersOK(l)' /\ ExpiryOK(l)' /\ DeadlineOK(l)'
              /\ LostOK(l)' /\ PassedOK(l)' /\ RejectedOK(l)'
  <2>1. MembersOK(l)'
    BY <1>7, <1>8, <1>10, KeyFacts DEF MembersOK
  <2>2. Admits(p, l)
    BY <1>7 DEF Admits
  <2>3. OnlyOwn(q, l)
    BY <1>1, <1>5, <1>6, <2>2, SetsStep
  <2>4. /\ \A m \in Added(l)' : m \in Added(l) \/ m \in zset'[l]
        /\ \A m \in Passed(l)' : m \in Passed(l)
        /\ \A m \in Done(l)' : m \in Done(l)
    BY <1>5, <1>8, <2>3 DEF OnlyOwn
  <2>5. ExpiryOK(l)'
    <3>1. CASE l = k
      BY <1>5, <1>6, <3>1 DEF ExpiryOK
    <3>2. CASE l # k
      <4>1. \A o \in Requests : req[o].pc \in {"zcard", "expire"} => req'[o] = req[o]
        BY <1>1, <1>6 DEF IInv, TypeOK
      <4> QED
        BY <1>7, <1>8, <3>2, <4>1, KeyFacts DEF ExpiryOK
    <3> QED
      BY <3>1, <3>2
  <2>6. DeadlineOK(l)'
    BY <1>7, <2>4, DeadlineKept
  <2>7. LostOK(l)'
    <3>1. \A m \in zset[l] : m \in zset'[l] \/ Score(m) + Window <= clock
      BY <1>8
    <3> QED
      BY <1>7, <1>8, <2>4, <3>1, LostKept
  <2>8. PassedOK(l)'
    BY <2>4, PassedKept
  <2>9. RejectedOK(l)'
    BY <1>7, KeyFacts DEF RejectedOK, Around, Between
  <2> QED
    BY <2>1, <2>5, <2>6, <2>7, <2>8, <2>9
<1> QED
  BY <1>9, <1>11, <1>12 DEF IInv

\* The size of a union.
LEMMA UnionSize ==
  ASSUME NEW S \in SUBSET Members, NEW T \in SUBSET Members
  PROVE  Cardinality(S \cup T) <= Cardinality(S) + Cardinality(T)
<1>1. IsFiniteSet(S) /\ IsFiniteSet(T) /\ Cardinality(S) \in Nat /\ Cardinality(T) \in Nat
  BY Sizes
<1>2. Cardinality(S \cup T) = Cardinality(S) + Cardinality(T) - Cardinality(S \cap T)
  BY <1>1, FS_Union
<1>3. Cardinality(S \cap T) \in Nat
  <2>1. S \cap T \in SUBSET S
    OBVIOUS
  <2> QED
    BY <2>1, Sizes
<1> QED
  BY <1>1, <1>2, <1>3

\* Few pass in a window: when a call's count is at most Limit, so is the number
\* of members in the key, and few recent ones are missing there.
LEMMA PassedStep ==
  ASSUME IInv, NEW k \in Keys, NEW n \in Members, clock <= Score(n) + Latency, n \in Added(k),
         Cardinality(zset[k]) <= Limit,
         \A m \in Passed(k)' : m \in Passed(k) \/ m = n
  PROVE  PassedOK(k)'
<1> SUFFICES ASSUME NEW s \in 0 .. MaxClock
             PROVE  Cardinality(Recent(Passed(k)', s)) <= Limit + Cardinality(Requests)
  BY DEF PassedOK, Recent, Between
<1>1. PICK B \in SUBSET Members : B = Recent(Passed(k)', s)
  BY DEF Recent, Between, Passed
<1>2. CASE n \notin B
  <2>1. PICK A \in SUBSET Members : A = Recent(Passed(k), s)
    BY DEF Recent, Between, Passed
  <2>2. Cardinality(A) <= Limit + Cardinality(Requests)
    BY <2>1, KeyFacts DEF PassedOK
  <2>3. B \subseteq A
    BY <1>1, <1>2, <2>1 DEF Recent, Between
  <2>4. Cardinality(B) <= Cardinality(A) /\ Cardinality(A) \in Nat /\ Cardinality(B) \in Nat
    BY <2>3, Sizes
  <2> QED
    BY <1>1, <2>2, <2>4, Consts
<1>3. CASE n \in B
  <2>1. Score(n) <= s
    BY <1>1, <1>3 DEF Recent, Between
  <2>2. clock <= s + Latency
    BY <2>1, Scores, Consts, ClockFacts
  <2>3. PICK A \in SUBSET Members : A = Recent(Added(k), s) \ zset[k]
    BY DEF Recent, Between, Added
  <2>4. Cardinality(A) <= Cardinality(Requests)
    BY <2>2, <2>3, KeyFacts DEF LostOK
  <2>5. PICK Z \in SUBSET Members : Z = zset[k] /\ Cardinality(Z) <= Limit
    BY KeyFacts
  <2>6. B \subseteq A \cup Z
    <3>1. Passed(k) \subseteq Added(k)
      BY DEF Passed, Added
    <3>2. \A m \in B : m \in Added(k)
      BY <1>1, <3>1 DEF Recent, Between
    <3> QED
      BY <1>1, <2>3, <2>5, <3>2 DEF Recent, Between
  <2>7. Cardinality(A \cup Z) <= Cardinality(A) + Cardinality(Z)
    BY UnionSize
  <2>8. /\ Cardinality(B) <= Cardinality(A \cup Z) /\ Cardinality(B) \in Nat
        /\ Cardinality(A \cup Z) \in Nat
    BY <2>6, Sizes
  <2>9. Cardinality(A) \in Nat /\ Cardinality(Z) \in Nat
    BY Sizes
  <2> QED
    BY <1>1, <2>4, <2>5, <2>7, <2>8, <2>9, Consts
<1> QED
  BY <1>2, <1>3

\* ZCARD counts the members in the key: no old ones, and few recent ones are
\* missing.
LEMMA ZCardInv ==
  ASSUME IInv, NEW r \in Requests, ZCard(r)
  PROVE  IInv'
<1>1. PICK p \in Request : p = req[r] /\ p.pc = "zcard" /\ p.key \in Keys /\ p.now \in Members
  BY RequestFacts DEF ZCard
<1>2. PICK k \in Keys, n \in Members : k = p.key /\ n = p.now
  BY <1>1
<1>3. PICK c \in Nat : c = Cardinality(zset[k])
  BY KeyFacts, Sizes
<1>4. req' = [req EXCEPT ![r].pc = "expire", ![r].count = c]
  BY <1>1, <1>2, <1>3 DEF ZCard
<1>5. PICK q : q = [p EXCEPT !.pc = "expire", !.count = c]
  OBVIOUS
<1>6. q \in Request /\ q.pc = "expire" /\ q.key = k /\ q.now = n /\ q.count = c
  BY <1>1, <1>2, <1>5 DEF Request, Pcs
<1>7. req' = [req EXCEPT ![r] = q] /\ req' \in [Requests -> Request] /\ req'[r] = q
  BY <1>1, <1>4, <1>5, <1>6 DEF IInv, TypeOK
<1>8. /\ clock' = clock /\ zset' = zset /\ deadline' = deadline /\ faults' = faults
      /\ called' = called /\ admitted' = admitted /\ rejected' = rejected
  BY DEF ZCard
<1>9. TypeOK'
  BY <1>7, <1>8 DEF IInv, TypeOK
<1>10. Score(n) <= clock /\ n \in called[k] /\ clock <= Score(n) + Latency
  BY <1>1, <1>2, RequestFacts DEF CallOK, InPipeline
<1>11. \A o \in Requests : CallOK(o)' /\ WindowOK(o)' /\ CountOK(o)'
  <2>1. CallOK(r)' /\ WindowOK(r)'
    BY <1>6, <1>7, <1>8, <1>10 DEF CallOK, WindowOK
  <2>2. CountOK(r)'
    <3> SUFFICES ASSUME c > Limit PROVE Cardinality(Around(called[k], n)) > Limit
      BY <1>6, <1>7, <1>8 DEF CountOK, Around, Between
    <3>1. \A m \in zset[k] : Score(n) - Window < Score(m)
      BY <1>1, <1>2, RequestFacts DEF WindowOK
    <3>2. \A m \in zset[k] : m \in called[k] /\ Score(m) <= clock /\ m \in Members
      BY KeyFacts DEF MembersOK
    <3>3. zset[k] \subseteq Around(called[k], n)
      <4> SUFFICES ASSUME NEW m \in zset[k] PROVE m \in Around(called[k], n)
        OBVIOUS
      <4>1. Score(m) <= Score(n) + Latency
        BY <1>10, <3>2, Scores, Consts, ClockFacts
      <4> QED
        BY <3>1, <3>2, <4>1 DEF Around, Between
    <3>4. Around(called[k], n) \subseteq Members
      BY KeyFacts DEF Around, Between
    <3> QED
      BY <1>3, <3>3, <3>4, Sizes, Consts
  <2>3. \A l \in Keys : called[l] \subseteq called'[l] /\ called'[l] \subseteq Members
    BY <1>8, KeyFacts
  <2>4. \A l \in Keys : \A m \in zset'[l] : m \in zset[l] \/ clock <= Score(m) + Latency
    BY <1>8
  <2>5. \A l \in Keys : zset'[l] \subseteq Members
    BY <1>8, KeyFacts
  <2> QED
    BY <1>6, <1>7, <1>8, <2>1, <2>2, <2>3, <2>4, <2>5, OthersKept
<1>12. n \in Added(k)
  BY <1>1, <1>2 DEF Added
<1>13. ASSUME NEW l \in Keys
       PROVE  /\ MembersOK(l)' /\ ExpiryOK(l)' /\ DeadlineOK(l)'
              /\ LostOK(l)' /\ PassedOK(l)' /\ RejectedOK(l)'
  <2>1. MembersOK(l)'
    BY <1>8, KeyFacts DEF MembersOK
  <2>2. Admits(p, l)
    BY <1>8 DEF Admits
  <2>3. OnlyOwn(q, l)
    BY <1>1, <1>6, <1>7, <2>2, SetsStep
  <2>4. /\ \A m \in Added(l)' : m \in Added(l) \/ m \in zset'[l]
        /\ \A m \in Passed(l)' : m \in Passed(l) \/ (c <= Limit /\ l = k /\ m = n)
        /\ \A m \in Done(l)' : m \in Done(l)
    BY <1>6, <1>12, <2>3 DEF OnlyOwn
  <2>5. ExpiryOK(l)'
    <3>1. \A o \in Requests : req'[o] = IF o = r THEN q ELSE req[o]
      BY <1>7 DEF IInv, TypeOK
    <3> QED
      BY <1>1, <1>2, <1>6, <1>8, <3>1, KeyFacts DEF ExpiryOK
  <2>6. DeadlineOK(l)'
    BY <1>8, <2>4, DeadlineKept
  <2>7. LostOK(l)'
    BY <1>8, <2>4, LostKept, KeyFacts
  <2>8. PassedOK(l)'
    <3>1. CASE c <= Limit /\ l = k
      BY <1>3, <1>10, <1>12, <2>4, <3>1, PassedStep
    <3>2. CASE ~(c <= Limit /\ l = k)
      BY <2>4, <3>2, PassedKept
    <3> QED
      BY <3>1, <3>2
  <2>9. RejectedOK(l)'
    BY <1>8, KeyFacts DEF RejectedOK, Around, Between
  <2> QED
    BY <2>1, <2>5, <2>6, <2>7, <2>8, <2>9
<1> QED
  BY <1>9, <1>11, <1>13 DEF IInv

\* EXPIRE keeps every member there is for a window.
LEMMA ExpireInv ==
  ASSUME IInv, NEW r \in Requests, Expire(r)
  PROVE  IInv'
<1>1. PICK p \in Request : p = req[r] /\ p.pc = "expire" /\ p.key \in Keys /\ p.now \in Members
  BY RequestFacts DEF Expire
<1>2. PICK k \in Keys, n \in Members : k = p.key /\ n = p.now
  BY <1>1
<1>3. /\ req' = [req EXCEPT ![r].pc = "verdict"]
      /\ deadline' = IF zset[k] = {} THEN deadline ELSE [deadline EXCEPT ![k] = clock + Window]
  BY <1>1, <1>2 DEF Expire, Goto
<1>4. PICK q : q = [p EXCEPT !.pc = "verdict"]
  OBVIOUS
<1>5. q \in Request /\ q.pc = "verdict" /\ q.key = k /\ q.now = n /\ q.count = p.count
  BY <1>1, <1>2, <1>4 DEF Request, Pcs
<1>6. req' = [req EXCEPT ![r] = q] /\ req' \in [Requests -> Request] /\ req'[r] = q
  BY <1>1, <1>3, <1>4, <1>5 DEF IInv, TypeOK
<1>7. \A o \in Requests : req'[o] = IF o = r THEN q ELSE req[o]
  BY <1>6 DEF IInv, TypeOK
<1>8. /\ clock' = clock /\ zset' = zset /\ faults' = faults
      /\ called' = called /\ admitted' = admitted /\ rejected' = rejected
  BY DEF Expire
<1>9. \A l \in Keys : deadline'[l] = IF l = k /\ zset[k] # {} THEN clock + Window ELSE deadline[l]
  BY <1>3 DEF IInv, TypeOK
<1>10. clock + Window \in 1 .. MaxClock + Window
  BY Consts, ClockFacts
<1>11. deadline' \in [Keys -> 0 .. MaxClock + Window]
  BY <1>3, <1>10 DEF IInv, TypeOK
<1>12. TypeOK'
  <2>1. \A l \in Keys : zset'[l] = {} => deadline'[l] = 0
    BY <1>8, <1>9, KeyFacts
  <2> QED
    BY <1>6, <1>8, <1>11, <2>1 DEF IInv, TypeOK
<1>13. Score(n) <= clock /\ n \in called[k] /\ clock <= Score(n) + Latency
  BY <1>1, <1>2, RequestFacts DEF CallOK, InPipeline
<1>14. \A o \in Requests : CallOK(o)' /\ WindowOK(o)' /\ CountOK(o)'
  <2>1. CallOK(r)' /\ WindowOK(r)'
    BY <1>5, <1>6, <1>8, <1>13 DEF CallOK, WindowOK
  <2>2. CountOK(r)'
    <3>1. CountOK(r)
      BY RequestFacts
    <3> QED
      BY <1>1, <1>2, <1>5, <1>6, <1>8, <3>1 DEF CountOK, Around, Between
  <2>3. \A l \in Keys : called[l] \subseteq called'[l] /\ called'[l] \subseteq Members
    BY <1>8, KeyFacts
  <2>4. \A l \in Keys : \A m \in zset'[l] : m \in zset[l] \/ clock <= Score(m) + Latency
    BY <1>8
  <2>5. \A l \in Keys : zset'[l] \subseteq Members
    BY <1>8, KeyFacts
  <2> QED
    BY <1>5, <1>6, <1>8, <2>1, <2>2, <2>3, <2>4, <2>5, OthersKept
<1>15. n \in Added(k) /\ (p.count <= Limit => n \in Passed(k))
  BY <1>1, <1>2 DEF Added, Passed
<1>16. ASSUME NEW l \in Keys
       PROVE  /\ MembersOK(l)' /\ ExpiryOK(l)' /\ DeadlineOK(l)'
              /\ LostOK(l)' /\ PassedOK(l)' /\ RejectedOK(l)'
  <2>1. MembersOK(l)'
    BY <1>8, KeyFacts DEF MembersOK
  <2>2. Admits(p, l)
    BY <1>8 DEF Admits
  <2>3. OnlyOwn(q, l)
    BY <1>1, <1>5, <1>6, <2>2, SetsStep
  <2>4. /\ \A m \in Added(l)' : m \in Added(l) \/ m \in zset'[l]
        /\ \A m \in Passed(l)' : m \in Passed(l)
        /\ \A m \in Done(l)' : m \in Done(l) \/ (l = k /\ m = n)
    BY <1>5, <1>15, <2>3 DEF OnlyOwn
  <2>5. ExpiryOK(l)'
    <3>1. CASE l = k
      BY <1>8, <1>9, <1>10, <3>1 DEF ExpiryOK
    <3>2. CASE l # k
      BY <1>1, <1>2, <1>7, <1>8, <1>9, <3>2, KeyFacts DEF ExpiryOK
    <3> QED
      BY <3>1, <3>2
  <2>6. DeadlineOK(l)'
    <3>1. CASE l = k /\ zset[k] # {}
      <4>1. \A m \in Done(k) : m \in Members /\ Score(m) <= clock
        <5> SUFFICES ASSUME NEW m \in Done(k) PROVE m \in Members /\ Score(m) <= clock
          OBVIOUS
        <5>1. CASE m \in admitted[k]
          BY <5>1, KeyFacts DEF MembersOK
        <5>2. CASE m \notin admitted[k]
          <6>1. PICK o \in Requests : req[o].pc = "verdict" /\ req[o].now = m /\ m \in Members
            BY <5>2 DEF Done
          <6> QED
            BY <6>1, RequestFacts DEF CallOK, InPipeline
        <5> QED
          BY <5>1, <5>2
      <4>2. \A m \in Done(k)' : Score(m) + Window <= clock + Window
        BY <1>13, <2>4, <3>1, <4>1, Scores, Consts, ClockFacts
      <4> QED
        BY <1>9, <3>1, <4>2 DEF DeadlineOK
    <3>2. CASE l = k /\ zset[k] = {}
      BY <1>9, <3>2, KeyFacts DEF DeadlineOK
    <3>3. CASE l # k
      BY <1>9, <2>4, <3>3, DeadlineKept
    <3> QED
      BY <3>1, <3>2, <3>3
  <2>7. LostOK(l)'
    BY <1>8, <2>4, LostKept, KeyFacts
  <2>8. PassedOK(l)'
    BY <2>4, PassedKept
  <2>9. RejectedOK(l)'
    BY <1>8, KeyFacts DEF RejectedOK, Around, Between
  <2> QED
    BY <2>1, <2>5, <2>6, <2>7, <2>8, <2>9
<1> QED
  BY <1>12, <1>14, <1>16 DEF IInv

\* A call ends: it was told its verdict, or fails open.
LEMMA LeaveInv ==
  ASSUME IInv, NEW r \in Requests, Verdict(r) \/ FailOpen(r)
  PROVE  IInv'
<1>1. PICK p \in Request : p = req[r] /\ p.pc # "idle" /\ p.key \in Keys /\ p.now \in Members
                           /\ p.count \in Nat
  BY RequestFacts DEF Verdict, FailOpen
<1>2. PICK k \in Keys, n \in Members : k = p.key /\ n = p.now
  BY <1>1
<1>3. req' = [req EXCEPT ![r].pc = "idle", ![r].now = NoCall, ![r].count = 0]
  BY DEF Verdict, FailOpen, Leave
<1>4. PICK q : q = [p EXCEPT !.pc = "idle", !.now = NoCall, !.count = 0]
  OBVIOUS
<1>5. q \in Request /\ q.pc = "idle"
  BY <1>1, <1>4, Scores DEF Request, Pcs
<1>6. req' = [req EXCEPT ![r] = q] /\ req' \in [Requests -> Request] /\ req'[r] = q
  BY <1>1, <1>3, <1>4, <1>5 DEF IInv, TypeOK
<1>7. /\ clock' = clock /\ zset' = zset /\ deadline' = deadline /\ called' = called
      /\ faults' \in 0 .. MaxFaults /\ faults <= faults'
  BY Consts DEF Verdict, FailOpen, IInv, TypeOK
<1>8. Score(n) <= clock /\ n \in called[k] /\ clock <= Score(n) + Latency
  BY <1>1, <1>2, RequestFacts DEF CallOK, InPipeline
<1>9. \/ admitted' = admitted /\ rejected' = rejected
      \/ /\ p.pc = "verdict" /\ p.count <= Limit
         /\ admitted' = [admitted EXCEPT ![k] = @ \cup {n}] /\ rejected' = rejected
      \/ /\ p.pc = "verdict" /\ p.count > Limit
         /\ rejected' = [rejected EXCEPT ![k] = @ \cup {n}] /\ admitted' = admitted
  <2>1. CASE FailOpen(r)
    BY <2>1 DEF FailOpen
  <2>2. CASE Verdict(r) /\ p.count > Limit
    BY <1>1, <1>2, <2>2 DEF Verdict
  <2>3. CASE Verdict(r) /\ ~(p.count > Limit)
    <3>1. p.count <= Limit
      BY <1>1, <2>3, Consts
    <3> QED
      BY <1>1, <1>2, <2>3, <3>1 DEF Verdict
  <2> QED
    BY <2>1, <2>2, <2>3
<1>10. admitted' \in [Keys -> SUBSET Members] /\ rejected' \in [Keys -> SUBSET Members]
  BY <1>9 DEF IInv, TypeOK
<1>11. TypeOK'
  BY <1>6, <1>7, <1>10 DEF IInv, TypeOK
<1>12. \A o \in Requests : CallOK(o)' /\ WindowOK(o)' /\ CountOK(o)'
  <2>1. CallOK(r)' /\ WindowOK(r)' /\ CountOK(r)'
    BY <1>5, <1>6 DEF CallOK, WindowOK, CountOK, InPipeline
  <2>2. \A l \in Keys : called[l] \subseteq called'[l] /\ called'[l] \subseteq Members
    BY <1>7, KeyFacts
  <2>3. \A l \in Keys : \A m \in zset'[l] : m \in zset[l] \/ clock <= Score(m) + Latency
    BY <1>7
  <2>4. \A l \in Keys : zset'[l] \subseteq Members
    BY <1>7, KeyFacts
  <2> QED
    BY <1>5, <1>6, <1>7, <2>1, <2>2, <2>3, <2>4, OthersKept
<1>13. ASSUME NEW l \in Keys
       PROVE  /\ MembersOK(l)' /\ ExpiryOK(l)' /\ DeadlineOK(l)'
              /\ LostOK(l)' /\ PassedOK(l)' /\ RejectedOK(l)'
  <2>1. /\ \A m \in admitted'[l] : m \in admitted[l] \/ (l = k /\ m = n)
        /\ \A m \in rejected'[l] : m \in rejected[l] \/ (l = k /\ m = n /\ p.pc = "verdict"
                                                         /\ p.count > Limit)
    BY <1>9 DEF IInv, TypeOK
  <2>2. MembersOK(l)'
    BY <1>7, <1>8, <2>1, KeyFacts DEF MembersOK
  <2>3. Admits(p, l)
    BY <1>2, <1>9 DEF Admits, IInv, TypeOK
  <2>4. /\ \A m \in Added(l)' : m \in Added(l)
        /\ \A m \in Passed(l)' : m \in Passed(l)
        /\ \A m \in Done(l)' : m \in Done(l)
    BY <1>1, <1>5, <1>6, <2>3, SetsKept
  <2>5. ExpiryOK(l)'
    <3>1. CASE FailOpen(r)
      <4>1. faults' > 0
        BY <3>1 DEF FailOpen, IInv, TypeOK
      <4> QED
        BY <4>1 DEF ExpiryOK
    <3>2. CASE Verdict(r)
      <4>1. \A o \in Requests : req[o].pc \in {"zcard", "expire"} => req'[o] = req[o]
        BY <1>6, <3>2 DEF Verdict, IInv, TypeOK
      <4>2. faults' = faults
        BY <3>2 DEF Verdict
      <4> QED
        BY <1>7, <4>1, <4>2, KeyFacts DEF ExpiryOK
    <3> QED
      BY <3>1, <3>2
  <2>6. DeadlineOK(l)'
    BY <1>7, <2>4, DeadlineKept
  <2>7. LostOK(l)'
    BY <1>7, <2>4, LostKept, KeyFacts
  <2>8. PassedOK(l)'
    BY <2>4, PassedKept
  <2>9. RejectedOK(l)'
    <3>1. p.pc = "verdict" /\ p.count > Limit => Cardinality(Around(called[k], n)) > Limit
      BY <1>1, <1>2, RequestFacts DEF CountOK
    <3>2. \A m \in rejected'[l] : Cardinality(Around(called[l], m)) > Limit
      BY <2>1, <3>1, KeyFacts DEF RejectedOK
    <3> QED
      BY <1>7, <3>2 DEF RejectedOK, Around, Between
  <2> QED
    BY <2>2, <2>5, <2>6, <2>7, <2>8, <2>9
<1> QED
  BY <1>11, <1>12, <1>13 DEF IInv

-----------------------------------------------------------------------------
(***************************************************************************)
(* Time.                                                                   *)
(***************************************************************************)
\* There are no more members of requests than requests.
LEMMA OwnMembers ==
  ASSUME NEW B, \A m \in B : \E r \in Requests : req[r].now = m
  PROVE  Cardinality(B) <= Cardinality(Requests)
<1>1. PICK S \in SUBSET Requests : S = {r \in Requests : req[r].now \in B}
  OBVIOUS
<1>2. PICK f : f = [r \in S |-> req[r].now]
  OBVIOUS
<1>3. f \in Surjection(S, B)
  BY <1>1, <1>2 DEF Surjection
<1>4. IsFiniteSet(S) /\ Cardinality(S) <= Cardinality(Requests)
  BY RequestsAssumption, FS_Subset
<1>5. IsFiniteSet(B) /\ Cardinality(B) <= Cardinality(S)
  BY <1>3, <1>4, FS_Surjection
<1>6. Cardinality(B) \in Nat /\ Cardinality(S) \in Nat
  BY <1>4, <1>5, FS_CardinalityType
<1> QED
  BY <1>4, <1>5, <1>6, Consts

\* A key that expires had its last EXPIRE a window ago: the recent members that
\* go missing are those of requests between their ZADD and their EXPIRE.
LEMMA ExpiringKey ==
  ASSUME IInv, NEW k \in Keys, deadline[k] # 0, deadline[k] <= clock + 1,
         NEW s \in 0 .. MaxClock, clock + 1 <= s + Latency
  PROVE  Cardinality(Recent(Added(k), s)) <= Cardinality(Requests)
<1>1. ASSUME NEW m \in Recent(Added(k), s) PROVE \E r \in Requests : req[r].now = m
  <2>1. m \in Members /\ m \in Added(k) /\ s - (Window - Latency) < Score(m)
    BY <1>1 DEF Recent, Between, Added
  <2>2. ~(Score(m) + Window <= deadline[k])
    BY <2>1, Scores, Consts, ClockFacts, KeyFacts
  <2>3. m \notin Done(k)
    BY <2>2, KeyFacts DEF DeadlineOK
  <2>4. m \notin admitted[k]
    BY <2>1, <2>3 DEF Done
  <2> QED
    BY <2>1, <2>4 DEF Added
<1> QED
  BY <1>1, OwnMembers

\* A tick: requests in flight stay within Latency, and keys expire.
LEMMA TickInv ==
  ASSUME IInv, Tick
  PROVE  IInv'
<1>1. PICK gone \in SUBSET Keys : gone = {k \in Keys : deadline[k] # 0 /\ deadline[k] <= clock + 1}
  OBVIOUS
<1>2. /\ clock < MaxClock /\ clock' = clock + 1
      /\ \A r \in Requests : InPipeline(r) => clock - Score(req[r].now) < Latency
      /\ zset' = [k \in Keys |-> IF k \in gone THEN {} ELSE zset[k]]
      /\ deadline' = [k \in Keys |-> IF k \in gone THEN 0 ELSE deadline[k]]
      /\ req' = req /\ faults' = faults /\ called' = called /\ admitted' = admitted
      /\ rejected' = rejected
  BY <1>1 DEF Tick
<1>3. clock' \in 0 .. MaxClock
  BY <1>2, ClockFacts, Consts
<1>4. zset' \in [Keys -> SUBSET Members]
  BY <1>2, KeyFacts
<1>5. deadline' \in [Keys -> 0 .. MaxClock + Window]
  BY <1>2, Consts DEF IInv, TypeOK
<1>6. TypeOK'
  <2>1. \A k \in Keys : zset'[k] = {} => deadline'[k] = 0
    BY <1>2, KeyFacts
  <2> QED
    BY <1>2, <1>3, <1>4, <1>5, <2>1 DEF IInv, TypeOK
<1>7. ASSUME NEW r \in Requests PROVE CallOK(r)' /\ WindowOK(r)' /\ CountOK(r)'
  <2>1. PICK p \in Request : p = req[r] /\ p = req'[r]
    BY <1>2, RequestFacts
  <2>2. p.key \in Keys /\ p.now \in Members /\ Score(p.now) \in Int
    BY <2>1, RequestFacts
  <2>3. CallOK(r)'
    <3> SUFFICES ASSUME p.pc # "idle"
                 PROVE  /\ p.now \in called[p.key] /\ Score(p.now) <= clock + 1
                        /\ clock + 1 <= Score(p.now) + Latency
      BY <1>2, <2>1 DEF CallOK, InPipeline
    <3>1. p.now \in called[p.key] /\ Score(p.now) <= clock
      BY <2>1, RequestFacts DEF CallOK, InPipeline
    <3>2. clock - Score(p.now) < Latency
      BY <1>2, <2>1 DEF InPipeline
    <3> QED
      BY <2>2, <3>1, <3>2, ClockFacts, Consts
  <2>4. WindowOK(r)'
    BY <1>2, <2>1, <2>2, RequestFacts DEF WindowOK
  <2>5. CountOK(r)'
    BY <1>2, <2>1, RequestFacts DEF CountOK, Around, Between
  <2> QED
    BY <2>3, <2>4, <2>5
<1>8. ASSUME NEW k \in Keys
      PROVE  /\ MembersOK(k)' /\ ExpiryOK(k)' /\ DeadlineOK(k)'
             /\ LostOK(k)' /\ PassedOK(k)' /\ RejectedOK(k)'
  <2>1. MembersOK(k)'
    <3>1. \A m \in called[k] : Score(m) <= clock + 1
      BY KeyFacts, Scores, ClockFacts DEF MembersOK
    <3> QED
      BY <1>2, <3>1, KeyFacts DEF MembersOK
  <2>2. ExpiryOK(k)'
    BY <1>2, KeyFacts DEF ExpiryOK
  <2>3. Done(k)' = Done(k) /\ Added(k)' = Added(k) /\ Passed(k)' = Passed(k)
    BY <1>2 DEF Done, Added, Passed
  <2>4. DeadlineOK(k)'
    BY <1>2, <2>3, DeadlineKept
  <2>5. LostOK(k)'
    <3> SUFFICES ASSUME NEW s \in 0 .. MaxClock, clock + 1 <= s + Latency
                 PROVE  Cardinality(Recent(Added(k), s) \ zset'[k]) <= Cardinality(Requests)
      BY <1>2, <2>3 DEF LostOK, Recent, Between
    <3>1. CASE k \in gone
      <4>1. Cardinality(Recent(Added(k), s)) <= Cardinality(Requests)
        BY <1>1, <3>1, ExpiringKey
      <4>2. Recent(Added(k), s) \ zset'[k] = Recent(Added(k), s)
        BY <1>2, <3>1
      <4> QED
        BY <4>1, <4>2
    <3>2. CASE k \notin gone
      <4>1. clock <= s + Latency
        BY ClockFacts, Consts
      <4> QED
        BY <1>2, <3>2, <4>1, KeyFacts DEF LostOK
    <3> QED
      BY <3>1, <3>2
  <2>6. PassedOK(k)'
    BY <2>3, PassedKept
  <2>7. RejectedOK(k)'
    BY <1>2, KeyFacts DEF RejectedOK, Around, Between
  <2> QED
    BY <2>1, <2>2, <2>4, <2>5, <2>6, <2>7
<1> QED
  BY <1>6, <1>7, <1>8 DEF IInv

-----------------------------------------------------------------------------
(***************************************************************************)
(* The invariant and what follows from it.                                 *)
(***************************************************************************)
\* It holds before the first call.
LEMMA InitInv == Init => IInv
<1> SUFFICES ASSUME Init PROVE IInv
  OBVIOUS
<1>1. TypeOK
  BY Consts, Scores DEF Init, TypeOK, Request, Pcs
<1>2. \A r \in Requests : req[r].pc = "idle"
  BY DEF Init
<1>3. \A r \in Requests : CallOK(r) /\ WindowOK(r) /\ CountOK(r)
  BY <1>2 DEF CallOK, WindowOK, CountOK, InPipeline
<1>4. ASSUME NEW k \in Keys
      PROVE  /\ MembersOK(k) /\ ExpiryOK(k) /\ DeadlineOK(k)
             /\ LostOK(k) /\ PassedOK(k) /\ RejectedOK(k)
  <2>1. /\ zset[k] = {} /\ deadline[k] = 0 /\ called[k] = {} /\ admitted[k] = {}
        /\ rejected[k] = {}
    BY DEF Init
  <2>2. Added(k) = {} /\ Passed(k) = {}
    BY <1>2, <2>1 DEF Added, Passed
  <2>3. \A s : Recent({}, s) = {}
    BY DEF Recent, Between
  <2>4. LostOK(k) /\ PassedOK(k)
    BY <2>1, <2>2, <2>3, FS_EmptySet, Consts DEF LostOK, PassedOK
  <2> QED
    BY <2>1, <2>4 DEF MembersOK, ExpiryOK, DeadlineOK, RejectedOK
<1> QED
  BY <1>1, <1>3, <1>4 DEF IInv

\* Every step keeps it.
LEMMA NextInv == IInv /\ [Next]_vars => IInv'
<1> SUFFICES ASSUME IInv, [Next]_vars PROVE IInv'
  OBVIOUS
<1>1. ASSUME NEW r \in Requests, NEW k \in Keys, Call(r, k) PROVE IInv'
  BY <1>1, CallInv
<1>2. ASSUME NEW r \in Requests,
             ZRemRangeByScore(r) \/ ZAdd(r) \/ ZCard(r) \/ Expire(r) \/ Verdict(r) \/ FailOpen(r)
      PROVE  IInv'
  BY <1>2, ZRemInv, ZAddInv, ZCardInv, ExpireInv, LeaveInv
<1>3. CASE Tick
  BY <1>3, TickInv
<1>4. CASE UNCHANGED vars
  <2>1. /\ clock' = clock /\ zset' = zset /\ deadline' = deadline /\ req' = req
        /\ faults' = faults /\ called' = called /\ admitted' = admitted
        /\ rejected' = rejected
    BY <1>4 DEF vars
  <2>2. TypeOK'
    BY <2>1 DEF IInv, TypeOK
  <2>3. ASSUME NEW r \in Requests
        PROVE  CallOK(r)' /\ WindowOK(r)' /\ CountOK(r)'
    BY <2>1 DEF IInv, CallOK, WindowOK, CountOK, InPipeline
  <2>4. ASSUME NEW k \in Keys
        PROVE  /\ MembersOK(k)' /\ ExpiryOK(k)' /\ DeadlineOK(k)'
               /\ LostOK(k)' /\ PassedOK(k)' /\ RejectedOK(k)'
    <3>1. Done(k)' = Done(k) /\ Added(k)' = Added(k) /\ Passed(k)' = Passed(k)
      BY <2>1 DEF Done, Added, Passed
    <3>2. MembersOK(k)' /\ ExpiryOK(k)' /\ RejectedOK(k)'
      BY <2>1 DEF IInv, MembersOK, ExpiryOK, RejectedOK
    <3>3. DeadlineOK(k)' /\ LostOK(k)' /\ PassedOK(k)'
      BY <2>1, <3>1 DEF IInv, DeadlineOK, LostOK, PassedOK
    <3> QED
      BY <3>2, <3>3
  <2> QED
    BY <2>2, <2>3, <2>4 DEF IInv
<1> QED
  BY <1>1, <1>2, <1>3, <1>4 DEF Next

\* The invariant holds throughout.
THEOREM Invariance == Spec => []IInv
<1> QED
  BY InitInv, NextInv, PTL DEF Spec

\* Every variable keeps its shape, and only an existing key has a TTL.
THEOREM TypeCorrect == Spec => []TypeOK
<1>1. IInv => TypeOK
  BY DEF IInv
<1> QED
  BY <1>1, Invariance, PTL

\* The limiter limits: in any window, less what a pipeline can be late, no more
\* than Limit calls are admitted, and one more for each request whose member
\* was in a key that expired before its EXPIRE.
THEOREM LimitHolds == Spec => []AdmittedBounded
<1>1. IInv => AdmittedBounded
  <2> SUFFICES ASSUME IInv, NEW k \in Keys, NEW s \in 0 .. MaxClock
               PROVE  Cardinality(Between(admitted[k], s - (Window - Latency), s))
                        <= Limit + Cardinality(Requests)
    BY DEF AdmittedBounded
  <2>1. PICK A \in SUBSET Members, B \in SUBSET Members :
          A = Recent(Passed(k), s) /\ B = Between(admitted[k], s - (Window - Latency), s)
    BY KeyFacts DEF Recent, Between, Passed
  <2>2. B \subseteq A
    BY <2>1, KeyFacts DEF Recent, Between, Passed
  <2>3. Cardinality(A) <= Limit + Cardinality(Requests)
    BY <2>1, KeyFacts DEF PassedOK
  <2>4. Cardinality(B) <= Cardinality(A) /\ Cardinality(A) \in Nat /\ Cardinality(B) \in Nat
    BY <2>2, Sizes
  <2> QED
    BY <2>1, <2>3, <2>4, Consts
<1> QED
  BY <1>1, Invariance, PTL

\* A call is refused only if more than Limit calls were made in its window, the
\* refused ones included: who was silent for a window is served again.
THEOREM RefusalsJustified == Spec => []RejectedOnlyOverLimit
<1>1. IInv => RejectedOnlyOverLimit
  BY DEF IInv, RejectedOK, Around, RejectedOnlyOverLimit
<1> QED
  BY <1>1, Invariance, PTL

\* A key without a TTL is about to be given one, unless a pipeline failed.
THEOREM NoKeyForever == Spec => []KeysExpire
<1>1. IInv => KeysExpire
  BY DEF IInv, ExpiryOK, KeysExpire, InPipeline
<1> QED
  BY <1>1, Invariance, PTL

=============================================================================
