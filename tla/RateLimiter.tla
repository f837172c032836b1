---------------------------- MODULE RateLimiter ----------------------------
(***************************************************************************)
(* The sliding-window rate limiter: rateLimitByKey of                      *)
(* internal/repository/redis/session.go under the middlewares RateLimit    *)
(* (one key per client address) and RateLimitUser (one per user and route) *)
(* of internal/middleware/ratelimit.go.  A protected request calls it once *)
(* for each, on keys that have nothing to do with each other; here each    *)
(* call is a request of its own.                                           *)
(*                                                                         *)
(* A key is a sorted set with a TTL.  A call reads the clock and sends the *)
(* pipeline ZREMRANGEBYSCORE; ZADD; ZCARD; EXPIRE.  Each command is a step *)
(* of its own, so that pipelines interleave, are delayed, and may be cut.  *)
(* Time is in milliseconds, the scores, on one clock for all replicas and  *)
(* Redis.  A member, the call's nanoseconds, is its millisecond and its    *)
(* place among the calls on the key in it.                                 *)
(***************************************************************************)
EXTENDS Integers, FiniteSets

CONSTANTS
    Requests,   \* request goroutines
    Keys,       \* rate:limit:ip:<address> and rate:user:<id>:<route>
    Limit,      \* calls admitted per window
    Window,     \* window, in milliseconds
    Latency,    \* bound on the milliseconds a pipeline takes
    MaxClock,   \* bound on time
    MaxCalls,   \* bound on the calls on one key in one millisecond
    MaxFaults   \* bound on the pipelines that fail

ASSUME RequestsAssumption == IsFiniteSet(Requests)
ASSUME LimitAssumption == Limit \in Nat
ASSUME TimeAssumption == Window \in Nat /\ Latency \in Nat /\ Latency < Window
ASSUME BoundAssumption == MaxClock \in Nat /\ MaxCalls \in Nat \ {0} /\ MaxFaults \in Nat

VARIABLES
    clock,     \* the time
    zset,      \* Keys -> members of the sorted set; empty when there is no key
    deadline,  \* Keys -> when the key expires; 0 without a TTL
    req,       \* Requests -> local state of the goroutine
    faults,    \* pipelines that failed so far
    called,    \* history: Keys -> members of all calls
    admitted,  \* history: Keys -> those admitted by their count
    rejected   \* history: Keys -> those answered 429

vars == <<clock, zset, deadline, req, faults, called, admitted, rejected>>

Members == (0 .. MaxClock) \X (1 .. MaxCalls)

Score(m) == m[1]

Pcs == {"idle", "zrem", "zadd", "zcard", "expire", "verdict"}

\* now is the call's time and member, count the answer of ZCARD.
Request == [pc: Pcs, key: Keys, now: Members, count: Nat]

NoCall == <<0, 1>>

Init ==
    /\ clock = 0
    /\ zset = [k \in Keys |-> {}]
    /\ deadline = [k \in Keys |-> 0]
    /\ req \in [Requests -> [pc: {"idle"}, key: Keys, now: {NoCall}, count: {0}]]
    /\ faults = 0
    /\ called = [k \in Keys |-> {}]
    /\ admitted = [k \in Keys |-> {}]
    /\ rejected = [k \in Keys |-> {}]

Goto(r, l) == req' = [req EXCEPT ![r].pc = l]

\* On to the handler, or an answer 429.
Leave(r) == req' = [req EXCEPT ![r].pc = "idle", ![r].now = NoCall, ![r].count = 0]

-----------------------------------------------------------------------------
(***************************************************************************)
(* rateLimitByKey.                                                         *)
(***************************************************************************)
Call(r, k) ==
    LET m == <<clock, Cardinality({c \in called[k] : Score(c) = clock}) + 1>>
    IN  /\ req[r].pc = "idle"
        /\ m \in Members
        /\ req' = [req EXCEPT ![r] = [pc |-> "zrem", key |-> k, now |-> m, count |-> 0]]
        /\ called' = [called EXCEPT ![k] = @ \cup {m}]
        /\ UNCHANGED <<clock, zset, deadline, faults, admitted, rejected>>

\* Mutant: the window is too short.
ExpiredEarly(m, now) == Score(m) < Score(now)

\* Mutant: nothing leaves the window.
ExpiredNever(m, now) == FALSE

\* ZREMRANGEBYSCORE removes up to windowStart, included.
Expired(m, now) == Score(m) <= Score(now) - Window

\* A sorted set that becomes empty is a key that is gone, with its TTL.
ZRemRangeByScore(r) ==
    LET k == req[r].key
        left == {m \in zset[k] : ~Expired(m, req[r].now)}
    IN  /\ req[r].pc = "zrem"
        /\ zset' = [zset EXCEPT ![k] = left]
        /\ deadline' = IF left = {} THEN [deadline EXCEPT ![k] = 0] ELSE deadline
        /\ Goto(r, "zadd")
        /\ UNCHANGED <<clock, faults, called, admitted, rejected>>

ZAdd(r) ==
    /\ req[r].pc = "zadd"
    /\ zset' = [zset EXCEPT ![req[r].key] = @ \cup {req[r].now}]
    /\ Goto(r, "zcard")
    /\ UNCHANGED <<clock, deadline, faults, called, admitted, rejected>>

ZCard(r) ==
    /\ req[r].pc = "zcard"
    /\ req' = [req EXCEPT ![r].pc = "expire", ![r].count = Cardinality(zset[req[r].key])]
    /\ UNCHANGED <<clock, zset, deadline, faults, called, admitted, rejected>>

\* Mutant: the TTL is set only by a call that finds itself the first.
ExpireOnce(r) ==
    /\ req[r].pc = "expire"
    /\ deadline' = IF Cardinality(zset[req[r].key]) # 1 THEN deadline
                   ELSE [deadline EXCEPT ![req[r].key] = clock + Window]
    /\ Goto(r, "verdict")
    /\ UNCHANGED <<clock, zset, faults, called, admitted, rejected>>

\* Mutant: the key lives for two windows.
ExpireLong(r) ==
    /\ req[r].pc = "expire"
    /\ deadline' = IF zset[req[r].key] = {} THEN deadline
                   ELSE [deadline EXCEPT ![req[r].key] = clock + 2 * Window]
    /\ Goto(r, "verdict")
    /\ UNCHANGED <<clock, zset, faults, called, admitted, rejected>>

\* EXPIRE does nothing when the key is gone.
Expire(r) ==
    /\ req[r].pc = "expire"
    /\ deadline' = IF zset[req[r].key] = {} THEN deadline
                   ELSE [deadline EXCEPT ![req[r].key] = clock + Window]
    /\ Goto(r, "verdict")
    /\ UNCHANGED <<clock, zset, faults, called, admitted, rejected>>

\* The count includes this call.
Verdict(r) ==
    LET k == req[r].key
    IN  /\ req[r].pc = "verdict"
        /\ IF req[r].count > Limit
           THEN /\ rejected' = [rejected EXCEPT ![k] = @ \cup {req[r].now}]
                /\ UNCHANGED admitted
           ELSE /\ admitted' = [admitted EXCEPT ![k] = @ \cup {req[r].now}]
                /\ UNCHANGED rejected
        /\ Leave(r)
        /\ UNCHANGED <<clock, zset, deadline, faults, called>>

\* The pipeline is cut before its next command, or its answer is lost: the
\* call fails open.
FailOpen(r) ==
    /\ req[r].pc # "idle"
    /\ faults < MaxFaults
    /\ faults' = faults + 1
    /\ Leave(r)
    /\ UNCHANGED <<clock, zset, deadline, called, admitted, rejected>>

-----------------------------------------------------------------------------
InPipeline(r) == req[r].pc # "idle"

\* Time passes while no pipeline takes longer than Latency, and keys expire.
Tick ==
    LET gone == {k \in Keys : deadline[k] # 0 /\ deadline[k] <= clock + 1}
    IN  /\ clock < MaxClock
        /\ \A r \in Requests : InPipeline(r) => clock - Score(req[r].now) < Latency
        /\ clock' = clock + 1
        /\ zset' = [k \in Keys |-> IF k \in gone THEN {} ELSE zset[k]]
        /\ deadline' = [k \in Keys |-> IF k \in gone THEN 0 ELSE deadline[k]]
        /\ UNCHANGED <<req, faults, called, admitted, rejected>>

Next ==
    \/ \E r \in Requests :
        \/ \E k \in Keys : Call(r, k)
        \/ ZRemRangeByScore(r)
        \/ ZAdd(r)
        \/ ZCard(r)
        \/ Expire(r)
        \/ Verdict(r)
        \/ FailOpen(r)
    \/ Tick

Spec == Init /\ [][Next]_vars

-----------------------------------------------------------------------------
\* Every variable keeps its shape, and only an existing key has a TTL.
TypeOK ==
    /\ clock \in 0 .. MaxClock
    /\ zset \in [Keys -> SUBSET Members]
    /\ deadline \in [Keys -> 0 .. MaxClock + Window]
    /\ \A k \in Keys : zset[k] = {} => deadline[k] = 0
    /\ req \in [Requests -> Request]
    /\ faults \in 0 .. MaxFaults
    /\ called \in [Keys -> SUBSET Members]
    /\ admitted \in [Keys -> SUBSET Members]
    /\ rejected \in [Keys -> SUBSET Members]

Between(S, lo, hi) == {m \in S : lo < Score(m) /\ Score(m) <= hi}

\* The limiter limits: the calls that their count admitted within a window, less
\* what a pipeline can be late, are at most Limit, and one more for each request
\* whose member was in a key that expired before its EXPIRE.
AdmittedBounded ==
    \A k \in Keys, s \in 0 .. MaxClock :
        Cardinality(Between(admitted[k], s - (Window - Latency), s))
            <= Limit + Cardinality(Requests)

\* A call is refused only if more than Limit calls were made in its window: an
\* address that has been silent for a window is served again, although refused
\* calls count as well and pipelines may be late.
RejectedOnlyOverLimit ==
    \A k \in Keys : \A m \in rejected[k] :
        Cardinality(Between(called[k], Score(m) - Window, Score(m) + Latency)) > Limit

\* A key without a TTL is one a pipeline is about to give one to, or that a
\* failed pipeline left behind.
KeysExpire ==
    \A k \in Keys :
        zset[k] # {} /\ deadline[k] = 0 =>
            faults > 0 \/ \E r \in Requests : InPipeline(r) /\ req[r].key = k

=============================================================================
