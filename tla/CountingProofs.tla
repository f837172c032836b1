-------------------------- MODULE CountingProofs ---------------------------
(***************************************************************************)
(* Proofs about Lockout and HttpStack, which both depend on how many       *)
(* request goroutines are where: for any number of requests, and of        *)
(* addresses, failing commands, tenants, hosts and statements.             *)
(*                                                                         *)
(* Lockout: that guesses are bounded is not inductive: the check reads the *)
(* counter, and what it misses are the requests between their comparison   *)
(* and their INCR.  GuessesCounted counts those.                           *)
(*                                                                         *)
(* HttpStack: see HttpInv, below.                                          *)
(***************************************************************************)
EXTENDS Lockout, HttpStack, FiniteSetTheorems, TLAPS

\* The requests that have compared a wrong password for e and not counted it.
Pending(e) == {r \in Requests : pc[r] = "incr" /\ email[r] = e}

\* Every wrong password since the key was last absent is in the counter, about
\* to be, or lost with a command that failed.
GuessesCounted ==
  \A e \in Emails : guesses[e] <= count[e] + Cardinality(Pending(e)) + faults

IInv == TypeOK /\ GuessesCounted /\ GuessesBounded /\ CounterExpires

-----------------------------------------------------------------------------
(***************************************************************************)
(* Counting.                                                               *)
(***************************************************************************)
\* There is a number of requests.
LEMMA RequestsCounted == Cardinality(Requests) \in Nat
BY RequestsAssumption, FS_CardinalityType

\* No more requests are pending for an address than there are.
LEMMA PendingBounded ==
  ASSUME NEW e \in Emails
  PROVE  /\ IsFiniteSet(Pending(e))
         /\ Cardinality(Pending(e)) \in Nat
         /\ Cardinality(Pending(e)) <= Cardinality(Requests)
<1>1. Pending(e) \in SUBSET Requests
  BY DEF Pending
<1> QED
  BY <1>1, RequestsAssumption, FS_Subset, FS_CardinalityType

\* After a comparison one more request is pending for its address.
LEMMA PendingAdded ==
  ASSUME NEW r \in Requests, NEW e \in Emails, r \notin Pending(e),
         Pending(e)' = Pending(e) \cup {r}
  PROVE  Cardinality(Pending(e)') = Cardinality(Pending(e)) + 1
BY PendingBounded, FS_AddElement

\* After its INCR a request is no longer pending.
LEMMA PendingRemoved ==
  ASSUME NEW r \in Requests, NEW e \in Emails, r \in Pending(e),
         Pending(e)' = Pending(e) \ {r}
  PROVE  Cardinality(Pending(e)') = Cardinality(Pending(e)) - 1
BY PendingBounded, FS_RemoveElement

-----------------------------------------------------------------------------
(***************************************************************************)
(* Types.                                                                  *)
(***************************************************************************)
\* The initial state satisfies the invariant.
LEMMA InitInv == Init => IInv
<1> SUFFICES ASSUME Init PROVE IInv
  OBVIOUS
<1>1. TypeOK
  BY MaxFaultsAssumption DEF Init, TypeOK
<1>2. GuessesCounted
  BY PendingBounded DEF Init, GuessesCounted
<1>3. GuessesBounded
  BY RequestsCounted, PendingBounded, ThresholdAssumption DEF Init, GuessesBounded
<1>4. CounterExpires
  BY DEF Init, CounterExpires
<1> QED
  BY <1>1, <1>2, <1>3, <1>4 DEF IInv

\* Every step keeps the shape of every variable.
LEMMA NextType == TypeOK /\ [Next]_vars => TypeOK'
<1> SUFFICES ASSUME TypeOK, [Next]_vars PROVE TypeOK'
  OBVIOUS
<1> USE MaxFaultsAssumption, WindowAssumption, AccountsAssumption DEF TypeOK, Succeeds, Fails, Goto
<1>1. ASSUME NEW r \in Requests, Arrive(r) PROVE TypeOK'
  <2>1. PICK e \in Emails : \/ LoginLocked(r, e)
                            \/ LoginUnknown(r, e)
                            \/ \E right \in BOOLEAN : LoginCompare(r, e, right)
    BY <1>1 DEF Arrive
  <2>2. CASE LoginLocked(r, e)
    BY <2>2 DEF LoginLocked, vars
  <2>3. CASE LoginUnknown(r, e)
    BY <2>3 DEF LoginUnknown
  <2>4. ASSUME NEW right \in BOOLEAN, LoginCompare(r, e, right) PROVE TypeOK'
    BY <2>4 DEF LoginCompare
  <2> QED
    BY <2>1, <2>2, <2>3, <2>4
<1>2. ASSUME NEW r \in Requests, LoginIncr(r) PROVE TypeOK'
  BY <1>2 DEF LoginIncr
<1>3. ASSUME NEW r \in Requests, LoginExpire(r) PROVE TypeOK'
  BY <1>3 DEF LoginExpire
<1>4. ASSUME NEW r \in Requests, LoginClear(r) PROVE TypeOK'
  BY <1>4 DEF LoginClear, DropKey
<1>5. CASE Tick
  BY <1>5 DEF Tick, NoTTL
<1>6. CASE UNCHANGED vars
  BY <1>6 DEF vars
<1> QED
  BY <1>1, <1>2, <1>3, <1>4, <1>5, <1>6 DEF Next, Proceed

-----------------------------------------------------------------------------
(***************************************************************************)
(* The steps.                                                              *)
(***************************************************************************)
\* Steps that leave the requests, or no more than move one that is neither
\* pending before nor after, and add no guess and take nothing off a counter
\* without resetting the guesses as well.
LEMMA NothingGuessed ==
  ASSUME IInv, TypeOK',
         \A e \in Emails : Pending(e)' = Pending(e),
         faults' >= faults,
         \A e \in Emails : \/ guesses'[e] = guesses[e] /\ count'[e] >= count[e]
                           \/ guesses'[e] = 0
  PROVE  GuessesCounted' /\ GuessesBounded'
BY RequestsCounted, PendingBounded, ThresholdAssumption DEF IInv, TypeOK, GuessesCounted, GuessesBounded

\* The comparison of a password: a wrong one is a guess that only the check
\* guards, so the counter is below the threshold, or the check failed.
LEMMA CompareInv ==
  ASSUME IInv, TypeOK', NEW r \in Requests, NEW e \in Emails, NEW right \in BOOLEAN,
         LoginCompare(r, e, right)
  PROVE  GuessesCounted' /\ GuessesBounded' /\ CounterExpires'
<1> USE DEF IInv
<1>1. /\ pc[r] = "idle"
      /\ email' = [email EXCEPT ![r] = e]
      /\ pc' = [pc EXCEPT ![r] = IF right THEN "clear" ELSE "incr"]
      /\ guesses' = IF right THEN guesses ELSE [guesses EXCEPT ![e] = @ + 1]
      /\ UNCHANGED <<count, ttl>>
  BY DEF LoginCompare, Goto
<1>2. \/ ~IsLockedOut(e) /\ faults' = faults
      \/ faults' = faults + 1
  BY DEF LoginCompare, Succeeds, Fails
<1>3. CounterExpires'
  BY <1>1, <1>2 DEF CounterExpires, TypeOK
<1>4. CASE right
  <2>1. \A d \in Emails : Pending(d)' = Pending(d)
    BY <1>1, <1>4 DEF Pending, TypeOK
  <2> QED
    BY <1>1, <1>2, <1>3, <1>4, <2>1, NothingGuessed DEF TypeOK
<1>5. CASE ~right
  <2>1. \A d \in Emails : d # e => Pending(d)' = Pending(d)
    BY <1>1, <1>5 DEF Pending, TypeOK
  <2>2. Pending(e)' = Pending(e) \cup {r} /\ r \notin Pending(e)
    BY <1>1, <1>5 DEF Pending, TypeOK
  <2>3. Cardinality(Pending(e)') = Cardinality(Pending(e)) + 1
    BY <2>2, PendingAdded
  <2>4. /\ guesses'[e] = guesses[e] + 1
        /\ \A d \in Emails : d # e => guesses'[d] = guesses[d]
    BY <1>1, <1>5 DEF TypeOK
  <2>5. GuessesCounted'
    BY <1>1, <1>2, <2>1, <2>3, <2>4, PendingBounded DEF GuessesCounted, TypeOK
  <2>6. Cardinality(Pending(e)') <= Cardinality(Requests)
    <3>1. Pending(e)' \in SUBSET Requests
      BY DEF Pending
    <3> QED
      BY <3>1, RequestsAssumption, FS_Subset
  <2>7. guesses'[e] <= Threshold - 1 + Cardinality(Requests) + faults'
    <3>1. CASE ~IsLockedOut(e) /\ faults' = faults
      <4>1. count[e] <= Threshold - 1
        BY <3>1, ThresholdAssumption DEF IsLockedOut, TypeOK
      <4>2. guesses'[e] <= count[e] + Cardinality(Pending(e)') + faults'
        BY <1>1, <2>5 DEF GuessesCounted
      <4> QED
        BY <4>1, <4>2, <2>3, <2>6, RequestsCounted, PendingBounded, ThresholdAssumption DEF TypeOK
    <3>2. CASE faults' = faults + 1
      BY <3>2, <2>4, RequestsCounted, PendingBounded, ThresholdAssumption DEF GuessesBounded, TypeOK
    <3> QED
      BY <3>1, <3>2, <1>2
  <2>8. GuessesBounded'
    BY <2>4, <2>7, <1>2, RequestsCounted, PendingBounded, ThresholdAssumption DEF GuessesBounded, TypeOK
  <2> QED
    BY <1>3, <2>5, <2>8
<1> QED
  BY <1>4, <1>5

\* INCR counts a pending guess; a lost one costs a failure.
LEMMA IncrInv ==
  ASSUME IInv, TypeOK', NEW r \in Requests, LoginIncr(r)
  PROVE  GuessesCounted' /\ GuessesBounded' /\ CounterExpires'
<1> USE DEF IInv
<1>0. PICK e \in Emails : e = email[r]
  BY DEF TypeOK
<1>1. /\ pc[r] = "incr"
      /\ UNCHANGED <<ttl, email, guesses>>
      /\ \A q \in Requests : q # r => pc'[q] = pc[q]
      /\ pc'[r] # "incr"
  BY DEF LoginIncr, Goto, TypeOK
<1>2. \A d \in Emails : d # e => count'[d] = count[d]
  BY <1>0 DEF LoginIncr, TypeOK
<1>3. \/ count'[e] = count[e] + 1 /\ pc'[r] = "expire" /\ faults' = faults
      \/ count'[e] \in {count[e], count[e] + 1} /\ faults' = faults + 1
  BY <1>0, <1>1 DEF LoginIncr, Goto, Succeeds, Fails, TypeOK
<1>4. \A d \in Emails : d # e => Pending(d)' = Pending(d)
  BY <1>0, <1>1 DEF Pending
<1>5. Pending(e)' = Pending(e) \ {r} /\ r \in Pending(e)
  BY <1>0, <1>1 DEF Pending
<1>6. Cardinality(Pending(e)') = Cardinality(Pending(e)) - 1
  BY <1>5, PendingRemoved
<1>7. GuessesCounted'
  <2> SUFFICES ASSUME NEW d \in Emails
               PROVE  guesses'[d] <= count'[d] + Cardinality(Pending(d)') + faults'
    BY DEF GuessesCounted
  <2>1. guesses[d] <= count[d] + Cardinality(Pending(d)) + faults
    BY DEF GuessesCounted
  <2>2. CASE d = e
    BY <2>1, <2>2, <1>1, <1>3, <1>6, PendingBounded DEF TypeOK
  <2>3. CASE d # e
    BY <2>1, <2>3, <1>1, <1>2, <1>3, <1>4, PendingBounded DEF TypeOK
  <2> QED
    BY <2>2, <2>3
<1>8. GuessesBounded'
  BY <1>1, <1>3, RequestsCounted, PendingBounded, ThresholdAssumption DEF GuessesBounded, TypeOK
<1>9. CounterExpires'
  <2> SUFFICES ASSUME NEW d \in Emails, count'[d] > 0, faults' = 0
               PROVE  ttl'[d] # NoTTL \/ \E q \in Requests : pc'[q] = "expire" /\ email'[q] = d
    BY DEF CounterExpires, TypeOK
  <2>1. faults' = faults /\ pc'[r] = "expire"
    BY <1>3 DEF TypeOK
  <2>2. CASE d = e
    BY <2>1, <2>2, <1>0, <1>1
  <2>3. CASE d # e
    BY <2>1, <2>3, <1>1, <1>2 DEF CounterExpires
  <2> QED
    BY <2>2, <2>3
<1> QED
  BY <1>7, <1>8, <1>9

\* EXPIRE gives its key a TTL, if there is one.
LEMMA ExpireInv ==
  ASSUME IInv, TypeOK', NEW r \in Requests, LoginExpire(r)
  PROVE  GuessesCounted' /\ GuessesBounded' /\ CounterExpires'
<1> USE DEF IInv
<1>1. /\ pc[r] = "expire" /\ pc' = [pc EXCEPT ![r] = "idle"]
      /\ UNCHANGED <<count, email, guesses>>
  BY DEF LoginExpire, Goto
<1>2. \/ /\ faults' = faults
         /\ ttl' = IF count[email[r]] = 0 THEN ttl ELSE [ttl EXCEPT ![email[r]] = Window]
      \/ faults' = faults + 1
  BY DEF LoginExpire, Succeeds, Fails
<1>3. \A e \in Emails : Pending(e)' = Pending(e)
  BY <1>1 DEF Pending, TypeOK
<1>4. GuessesCounted' /\ GuessesBounded'
  BY <1>1, <1>2, <1>3, NothingGuessed DEF TypeOK
<1>5. CounterExpires'
  <2> SUFFICES ASSUME NEW d \in Emails, count[d] > 0, faults' = 0
               PROVE  ttl'[d] # NoTTL \/ \E q \in Requests : pc'[q] = "expire" /\ email'[q] = d
    BY <1>1 DEF CounterExpires, TypeOK
  <2>1. ttl' = IF count[email[r]] = 0 THEN ttl ELSE [ttl EXCEPT ![email[r]] = Window]
    BY <1>2 DEF TypeOK
  <2>2. CASE d = email[r]
    BY <2>1, <2>2, WindowAssumption DEF TypeOK, NoTTL
  <2>3. CASE d # email[r]
    <3>1. ttl'[d] = ttl[d]
      BY <2>1, <2>3 DEF TypeOK
    <3>2. faults = 0
      BY <1>2 DEF TypeOK
    <3> QED
      BY <2>3, <3>1, <3>2, <1>1 DEF CounterExpires, TypeOK
  <2> QED
    BY <2>2, <2>3
<1> QED
  BY <1>4, <1>5

\* DEL after a success resets the counter and the guesses together.
LEMMA ClearInv ==
  ASSUME IInv, TypeOK', NEW r \in Requests, LoginClear(r)
  PROVE  GuessesCounted' /\ GuessesBounded' /\ CounterExpires'
<1> USE DEF IInv
<1>1. pc[r] = "clear" /\ pc' = [pc EXCEPT ![r] = "idle"] /\ email' = email
  BY DEF LoginClear, Goto
<1>2. DropKey(email[r]) \/ UNCHANGED <<count, ttl, guesses>>
  BY DEF LoginClear
<1>3. faults' = faults \/ faults' = faults + 1
  BY DEF LoginClear, Succeeds, Fails
<1>4. \A e \in Emails : Pending(e)' = Pending(e)
  BY <1>1 DEF Pending, TypeOK
<1>5. \A e \in Emails : \/ guesses'[e] = guesses[e] /\ count'[e] = count[e] /\ ttl'[e] = ttl[e]
                        \/ guesses'[e] = 0 /\ count'[e] = 0
  BY <1>2 DEF DropKey, TypeOK
<1>6. GuessesCounted' /\ GuessesBounded'
  BY <1>3, <1>4, <1>5, NothingGuessed DEF TypeOK
<1>7. CounterExpires'
  BY <1>1, <1>3, <1>5 DEF CounterExpires, TypeOK
<1> QED
  BY <1>6, <1>7

\* A key that runs out takes its count and its guesses along.
LEMMA TickInv ==
  ASSUME IInv, TypeOK', Tick
  PROVE  GuessesCounted' /\ GuessesBounded' /\ CounterExpires'
<1> USE DEF IInv
<1>1. UNCHANGED <<pc, email, faults>>
  BY DEF Tick
<1>2. \A e \in Emails : Pending(e)' = Pending(e)
  BY <1>1 DEF Pending
<1>3. \A e \in Emails :
        \/ guesses'[e] = guesses[e] /\ count'[e] = count[e] /\ (ttl'[e] = NoTTL => ttl[e] = NoTTL)
        \/ guesses'[e] = 0 /\ count'[e] = 0
  BY DEF Tick, TypeOK, NoTTL
<1>4. GuessesCounted' /\ GuessesBounded'
  BY <1>1, <1>2, <1>3, NothingGuessed DEF TypeOK
<1>5. CounterExpires'
  BY <1>1, <1>3 DEF CounterExpires, TypeOK
<1> QED
  BY <1>4, <1>5

\* Every step preserves the invariant.
LEMMA NextInv == IInv /\ [Next]_vars => IInv'
<1> SUFFICES ASSUME IInv, [Next]_vars PROVE IInv'
  OBVIOUS
<1>1. TypeOK'
  BY NextType DEF IInv
<1>2. ASSUME NEW r \in Requests, Arrive(r) PROVE IInv'
  <2>1. PICK e \in Emails : \/ LoginLocked(r, e)
                            \/ LoginUnknown(r, e)
                            \/ \E right \in BOOLEAN : LoginCompare(r, e, right)
    BY <1>2 DEF Arrive
  <2>2. CASE LoginLocked(r, e)
    BY <2>2 DEF LoginLocked, vars, IInv, TypeOK, GuessesCounted, Pending, GuessesBounded,
                CounterExpires
  <2>3. CASE LoginUnknown(r, e)
    <3>1. /\ UNCHANGED <<count, ttl, pc, email, guesses>>
          /\ faults' = faults \/ faults' = faults + 1
      BY <2>3 DEF LoginUnknown, Succeeds, Fails
    <3>2. \A d \in Emails : Pending(d)' = Pending(d)
      BY <3>1 DEF Pending
    <3>3. GuessesCounted' /\ GuessesBounded'
      BY <1>1, <3>1, <3>2, NothingGuessed DEF TypeOK, IInv
    <3>4. CounterExpires'
      BY <3>1 DEF CounterExpires, TypeOK, IInv
    <3> QED
      BY <1>1, <3>3, <3>4 DEF IInv
  <2>4. ASSUME NEW right \in BOOLEAN, LoginCompare(r, e, right) PROVE IInv'
    BY <1>1, <2>4, CompareInv DEF IInv
  <2> QED
    BY <2>1, <2>2, <2>3, <2>4
<1>3. ASSUME NEW r \in Requests, Proceed(r) PROVE IInv'
  BY <1>1, <1>3, IncrInv, ExpireInv, ClearInv DEF Proceed, IInv
<1>4. CASE Tick
  BY <1>1, <1>4, TickInv DEF IInv
<1>5. CASE UNCHANGED vars
  BY <1>5 DEF vars, IInv, TypeOK, GuessesCounted, Pending, GuessesBounded, CounterExpires
<1> QED
  BY <1>2, <1>3, <1>4, <1>5 DEF Next

-----------------------------------------------------------------------------
\* The inductive invariant holds in every reachable state.
THEOREM Invariance == Spec => []IInv
BY InitInv, NextInv, PTL DEF Spec

\* Every variable keeps its shape.
THEOREM TypeCorrect == Spec => []TypeOK
<1>1. IInv => TypeOK
  BY DEF IInv
<1> QED
  BY <1>1, Invariance, PTL

\* Lockout in Login bounds guessing, however many requests pass IsLockedOut
\* before the first of them has run IncrLoginFailure, and whatever fails.
THEOREM LockoutBounds == Spec => []GuessesBounded
<1>1. IInv => GuessesBounded
  BY DEF IInv
<1> QED
  BY <1>1, Invariance, PTL

\* The pipeline of IncrLoginFailure leaves no counter without a TTL, whatever
\* runs between its INCR and its EXPIRE, unless a command failed.
THEOREM LockoutExpires == Spec => []CounterExpires
<1>1. IInv => CounterExpires
  BY DEF IInv
<1> QED
  BY <1>1, Invariance, PTL

-----------------------------------------------------------------------------
(***************************************************************************)
(* The HTTP stack.                                                         *)
(*                                                                         *)
(* Accounted relates gauges and counters to the number of requests at each *)
(* place and is inductive but for what it says of statuses, for which      *)
(* RecOK is needed: a request counted as unknown has no status, so its     *)
(* client has left, and it takes the place in the sum of one not counted   *)
(* yet.  That the errors of the database stay within                       *)
(* MaxRequests * MaxQueries needs Left, the statements that requests under *)
(* way may still run.                                                      *)
(***************************************************************************)
\* What holds of a request at its place in the stack.
RecOK(q) ==
  /\ q.pc \in {"log", "count", "dec", "end"} => q.status # 0 \/ q.gone
  /\ q.pc = "query" => q.queries >= 1
  /\ q.pc \in {"route", "handler", "query"} /\ q.tenantID # None =>
       q.tenantID = q.param \/ SlugOf[q.tenantID] = q.slug
  /\ q.pc \in {"handler", "query"} /\ q.route = "demo" => q.tenantID # None

\* A request may still run its i-th statement, or finish it.
Unused(q, i) == q.pc # "idle" /\ (q.queries < i \/ (q.pc = "query" /\ q.queries = i))

Left == {p \in Goroutines \X (1 .. MaxQueries) : Unused(req[p[1]], p[2])}

Counters ==
  /\ inflight \in Int /\ panics \in Nat /\ dbErrors \in Nat /\ spans \in Int
  /\ badSpans \in Nat /\ logged \in Nat
  /\ requests \in [Classes -> Nat]
  /\ req \in [Goroutines -> Request]
  /\ started \in 0 .. MaxRequests
  /\ departed \in Nat

ErrorsLeft == dbErrors + Cardinality(Left) <= started * MaxQueries

\* How many requests are at a place of S.
Num(S) == Cardinality(At(S))

\* Places where a request is not in the gauge, and where it is either not there
\* or has been counted.
Outside == {"idle", "recover", "end"}

Closed == {"idle", "dec", "end"}

\* Accounted, in numbers of requests, but for the statuses.
Balance ==
  /\ inflight = Cardinality(Goroutines) - Num(Outside)
  /\ started = Completed + panics + Cardinality(Goroutines) - Num(Closed)
  /\ logged = Completed + Num({"count"})
  /\ spans = Cardinality(Goroutines) - Num({"idle"}) + Num({"query"})
  /\ dbErrors = badSpans
  /\ requests["unknown"] + Cardinality(Deserted) <= departed

HttpInv ==
  /\ Counters
  /\ Balance
  /\ ErrorsLeft
  /\ \A r \in Goroutines : RecOK(req[r])

Becomes(r, q) == req' = [req EXCEPT ![r] = q]

Answers(r, l, a) == req' = [req EXCEPT ![r].pc = l, ![r].status = a]

In(q, S) == IF q.pc \in S THEN 1 ELSE 0

\* q is one of the requests of Deserted.
Fled(q) == IF q.gone /\ q.pc \notin Closed THEN 1 ELSE 0

-----------------------------------------------------------------------------
(***************************************************************************)
(* Counting requests and statements.                                       *)
(***************************************************************************)
\* There is a number of goroutines.
LEMMA GoroutinesCounted == Cardinality(Goroutines) \in Nat
BY ConstantsAssumption, FS_CardinalityType

\* There is a number of requests at every place.
LEMMA NumType ==
  ASSUME NEW S
  PROVE  /\ IsFiniteSet(At(S)) /\ Num(S) \in Nat /\ Num(S) <= Cardinality(Goroutines)
<1>1. At(S) \in SUBSET Goroutines
  BY DEF At
<1> QED
  BY <1>1, ConstantsAssumption, FS_Subset, FS_CardinalityType DEF Num

\* When one request moves, it is counted where it is and no longer where it was.
LEMMA NumMoves ==
  ASSUME req \in [Goroutines -> Request], NEW r \in Goroutines, NEW q, Becomes(r, q), NEW S
  PROVE  Num(S)' = Num(S) + In(q, S) - In(req[r], S)
<1>1. req' \in [Goroutines -> {req[x] : x \in Goroutines} \cup {q}]
  BY DEF Becomes
<1>2. req'[r] = q /\ \A x \in Goroutines : x # r => req'[x] = req[x]
  BY DEF Becomes
<1>3. CASE q.pc \in S /\ req[r].pc \notin S
  <2>1. At(S)' = At(S) \cup {r} /\ r \notin At(S)
    BY <1>2, <1>3 DEF At
  <2>2. IsFiniteSet(At(S)) /\ Cardinality(At(S)) \in Nat
    BY NumType DEF Num
  <2>3. Cardinality(At(S) \cup {r}) = Cardinality(At(S)) + 1
    BY <2>1, <2>2, FS_AddElement
  <2> QED
    BY <1>3, <2>1, <2>2, <2>3 DEF Num, In
<1>4. CASE q.pc \notin S /\ req[r].pc \in S
  <2>1. At(S)' = At(S) \ {r} /\ r \in At(S)
    BY <1>2, <1>4 DEF At
  <2>2. IsFiniteSet(At(S)) /\ Cardinality(At(S)) \in Nat
    BY NumType DEF Num
  <2>3. Cardinality(At(S) \ {r}) = Cardinality(At(S)) - 1
    BY <2>1, <2>2, FS_RemoveElement
  <2> QED
    BY <1>4, <2>1, <2>2, <2>3 DEF Num, In
<1>5. CASE q.pc \in S <=> req[r].pc \in S
  <2>1. At(S)' = At(S)
    BY <1>2, <1>5 DEF At
  <2> QED
    BY <1>5, <2>1, NumType DEF Num, In
<1> QED
  BY <1>3, <1>4, <1>5

\* So is a request whose client has left, until it is counted.
LEMMA DesertedMoves ==
  ASSUME req \in [Goroutines -> Request], NEW r \in Goroutines, NEW q, Becomes(r, q)
  PROVE  /\ Cardinality(Deserted)' = Cardinality(Deserted) + Fled(q) - Fled(req[r])
         /\ Cardinality(Deserted) \in Nat
<1> DEFINE Flees(x) == x.gone /\ x.pc \notin Closed
<1>1. /\ req'[r] = q /\ \A x \in Goroutines : x # r => req'[x] = req[x]
      /\ Deserted = {x \in Goroutines : Flees(req[x])}
      /\ Deserted' = {x \in Goroutines : Flees(req'[x])}
  BY DEF Becomes, Deserted, Closed
<1>2. /\ Fled(q) = IF Flees(q) THEN 1 ELSE 0
      /\ Fled(req[r]) = IF Flees(req[r]) THEN 1 ELSE 0
  BY DEF Fled
<1> HIDE DEF Flees
<1>3. IsFiniteSet(Deserted) /\ Cardinality(Deserted) \in Nat
  <2>1. Deserted \in SUBSET Goroutines
    BY <1>1
  <2> QED
    BY <2>1, ConstantsAssumption, FS_Subset, FS_CardinalityType
<1>4. CASE Flees(q) /\ ~Flees(req[r])
  <2>1. Deserted' = Deserted \cup {r} /\ r \notin Deserted
    BY <1>1, <1>4
  <2>2. Cardinality(Deserted \cup {r}) = Cardinality(Deserted) + 1
    BY <1>3, <2>1, FS_AddElement
  <2> QED
    BY <1>2, <1>3, <1>4, <2>1, <2>2
<1>5. CASE ~Flees(q) /\ Flees(req[r])
  <2>1. Deserted' = Deserted \ {r} /\ r \in Deserted
    BY <1>1, <1>5
  <2>2. Cardinality(Deserted \ {r}) = Cardinality(Deserted) - 1
    BY <1>3, <2>1, FS_RemoveElement
  <2> QED
    BY <1>2, <1>3, <1>5, <2>1, <2>2
<1>6. CASE Flees(q) <=> Flees(req[r])
  <2>1. Deserted' = Deserted
    BY <1>1, <1>6
  <2> QED
    BY <1>2, <1>3, <1>6, <2>1
<1> QED
  BY <1>3, <1>4, <1>5, <1>6

\* There is a number of statements left.
LEMMA LeftType ==
  /\ IsFiniteSet(Left) /\ Cardinality(Left) \in Nat
  /\ IsFiniteSet(Left') /\ Cardinality(Left') \in Nat
<1>1. IsFiniteSet(1 .. MaxQueries)
  BY FS_Interval, ConstantsAssumption
<1>2. IsFiniteSet(Goroutines \X (1 .. MaxQueries))
  BY <1>1, ConstantsAssumption, FS_Product
<1>3. /\ Left \in SUBSET (Goroutines \X (1 .. MaxQueries))
      /\ Left' \in SUBSET (Goroutines \X (1 .. MaxQueries))
  BY DEF Left
<1> QED
  BY <1>2, <1>3, FS_Subset, FS_CardinalityType

\* A request under way gets no new ones.
LEMMA LeftShrinks ==
  ASSUME req \in [Goroutines -> Request], NEW r \in Goroutines, NEW q,
         Becomes(r, q), \A i \in 1 .. MaxQueries : Unused(q, i) => Unused(req[r], i)
  PROVE  Cardinality(Left') <= Cardinality(Left)
<1>1. req'[r] = q /\ \A x \in Goroutines : x # r => req'[x] = req[x]
  BY DEF Becomes
<1>2. Left' \in SUBSET Left
  BY <1>1 DEF Left
<1> QED
  BY <1>2, LeftType, FS_Subset

\* One that is run is used up.
LEMMA LeftTaken ==
  ASSUME req \in [Goroutines -> Request], NEW r \in Goroutines, NEW q,
         Becomes(r, q), \A i \in 1 .. MaxQueries : Unused(q, i) => Unused(req[r], i),
         NEW j \in 1 .. MaxQueries, Unused(req[r], j), ~Unused(q, j)
  PROVE  Cardinality(Left') <= Cardinality(Left) - 1
<1>1. req'[r] = q /\ \A x \in Goroutines : x # r => req'[x] = req[x]
  BY DEF Becomes
<1>2. <<r, j>> \in Left
  BY DEF Left
<1>3. Left' \in SUBSET (Left \ {<<r, j>>})
  <2>1. Left' \subseteq Left
    BY <1>1 DEF Left
  <2>2. <<r, j>> \notin Left'
    BY <1>1 DEF Left
  <2> QED
    BY <2>1, <2>2
<1>4. /\ IsFiniteSet(Left \ {<<r, j>>})
      /\ Cardinality(Left \ {<<r, j>>}) = Cardinality(Left) - 1
  BY <1>2, LeftType, FS_RemoveElement
<1> QED
  BY <1>3, <1>4, FS_Subset

\* A new request brings no more than MaxQueries.
LEMMA LeftAdded ==
  ASSUME req \in [Goroutines -> Request], NEW r \in Goroutines, NEW q, Becomes(r, q)
  PROVE  Cardinality(Left') <= Cardinality(Left) + MaxQueries
<1> DEFINE New == {r} \X (1 .. MaxQueries)
<1>1. req'[r] = q /\ \A x \in Goroutines : x # r => req'[x] = req[x]
  BY DEF Becomes
<1>2. Left' \in SUBSET (Left \cup New)
  BY <1>1 DEF Left
<1>3. MaxQueries \in Nat
  BY ConstantsAssumption
<1>4. IsFiniteSet(New) /\ Cardinality(New) = MaxQueries
  <2>1. IsFiniteSet({r}) /\ Cardinality({r}) = 1
    BY FS_Singleton
  <2>2. IsFiniteSet(1 .. MaxQueries) /\ Cardinality(1 .. MaxQueries) = MaxQueries
    BY <1>3, FS_Interval
  <2>3. /\ IsFiniteSet(New)
        /\ Cardinality(New) = Cardinality({r}) * Cardinality(1 .. MaxQueries)
    BY <2>1, <2>2, FS_Product
  <2> QED
    BY <1>3, <2>1, <2>2, <2>3
<1>5. /\ IsFiniteSet(Left \cup New)
      /\ Cardinality(Left \cup New) <= Cardinality(Left) + MaxQueries
  <2> HIDE DEF New
  <2>1. IsFiniteSet(Left \cap New)
    <3>1. Left \cap New \in SUBSET Left
      OBVIOUS
    <3> QED
      BY <3>1, LeftType, FS_Subset
  <2>2. Cardinality(Left \cap New) \in Nat
    BY <2>1, FS_CardinalityType
  <2>3. /\ IsFiniteSet(Left \cup New)
        /\ Cardinality(Left \cup New)
             = Cardinality(Left) + Cardinality(New) - Cardinality(Left \cap New)
    BY <1>4, LeftType, FS_Union
  <2> QED
    BY <1>3, <1>4, <2>2, <2>3, LeftType
<1>6. Cardinality(Left') <= Cardinality(Left \cup New)
  <2> HIDE DEF New
  <2> QED
    BY <1>2, <1>5, FS_Subset
<1>7. Cardinality(Left \cup New) \in Nat
  <2> HIDE DEF New
  <2> QED
    BY <1>5, FS_CardinalityType
<1> QED
  <2> HIDE DEF New
  <2> QED
    BY <1>3, <1>5, <1>6, <1>7, LeftType

-----------------------------------------------------------------------------
(***************************************************************************)
(* The steps of one request, which becomes q.                              *)
(***************************************************************************)
\* Goroutines keep their shape, and what holds of each.
LEMMA RecordsStep ==
  ASSUME HttpInv, NEW r \in Goroutines, NEW q \in Request, Becomes(r, q), RecOK(q)
  PROVE  req' \in [Goroutines -> Request] /\ \A x \in Goroutines : RecOK(req[x])'
<1>1. req \in [Goroutines -> Request] /\ \A x \in Goroutines : RecOK(req[x])
  BY DEF HttpInv, Counters
<1>2. req' \in [Goroutines -> Request]
  BY <1>1 DEF Becomes
<1>3. req'[r] = q /\ \A x \in Goroutines : x # r => req'[x] = req[x]
  BY <1>1 DEF Becomes
<1>4. ASSUME NEW x \in Goroutines PROVE RecOK(req'[x])
  <2>1. CASE x = r
    BY <1>3, <2>1
  <2>2. CASE x # r
    BY <1>1, <1>3, <2>2
  <2> QED
    BY <2>1, <2>2
<1> QED
  BY <1>2, <1>4

\* The balance is kept when gauges and counters follow the request.
LEMMA BalanceStep ==
  ASSUME HttpInv, NEW r \in Goroutines, NEW q \in Request, Becomes(r, q),
         requests' \in [Classes -> Nat], panics' \in Nat, logged' \in Nat, started' \in Int,
         departed' \in Int,
         inflight' = inflight + In(req[r], Outside) - In(q, Outside),
         started' - Completed' - panics'
           = started - Completed - panics + In(req[r], Closed) - In(q, Closed),
         logged' - Completed' = logged - Completed + In(q, {"count"}) - In(req[r], {"count"}),
         spans' = spans + In(req[r], {"idle"}) - In(q, {"idle"})
                        + In(q, {"query"}) - In(req[r], {"query"}),
         dbErrors' = badSpans',
         departed' - requests'["unknown"]
           >= departed - requests["unknown"] + Fled(q) - Fled(req[r])
  PROVE  Balance'
<1>1. req \in [Goroutines -> Request] /\ Balance
  BY DEF HttpInv, Counters
<1>2. /\ Num(Outside)' = Num(Outside) + In(q, Outside) - In(req[r], Outside)
      /\ Num(Closed)' = Num(Closed) + In(q, Closed) - In(req[r], Closed)
      /\ Num({"count"})' = Num({"count"}) + In(q, {"count"}) - In(req[r], {"count"})
      /\ Num({"idle"})' = Num({"idle"}) + In(q, {"idle"}) - In(req[r], {"idle"})
      /\ Num({"query"})' = Num({"query"}) + In(q, {"query"}) - In(req[r], {"query"})
  BY <1>1, NumMoves DEF Outside, Closed
<1>3. /\ Num(Outside) \in Nat /\ Num(Closed) \in Nat /\ Num({"count"}) \in Nat
      /\ Num({"idle"}) \in Nat /\ Num({"query"}) \in Nat /\ Cardinality(Goroutines) \in Nat
  BY NumType, GoroutinesCounted
<1>4. Completed \in Nat /\ Completed' \in Nat
  BY DEF HttpInv, Counters, Completed, Classes
<1>5. \A S : In(q, S) \in Int /\ In(req[r], S) \in Int
  BY DEF In
<1>6. panics \in Nat /\ logged \in Nat /\ started \in Int /\ inflight \in Int /\ spans \in Int
  BY ConstantsAssumption DEF HttpInv, Counters
<1>7. inflight' = Cardinality(Goroutines) - Num(Outside)'
  BY <1>1, <1>2, <1>3, <1>5 DEF Balance
<1>8. started' = Completed' + panics' + Cardinality(Goroutines) - Num(Closed)'
  BY <1>1, <1>2, <1>3, <1>4, <1>5, <1>6 DEF Balance
<1>9. logged' = Completed' + Num({"count"})'
  BY <1>1, <1>2, <1>3, <1>4, <1>5, <1>6 DEF Balance
<1>10. spans' = Cardinality(Goroutines) - Num({"idle"})' + Num({"query"})'
  BY <1>1, <1>2, <1>3, <1>5 DEF Balance
<1>11. requests'["unknown"] + Cardinality(Deserted)' <= departed'
  <2>1. /\ Cardinality(Deserted)' = Cardinality(Deserted) + Fled(q) - Fled(req[r])
        /\ Cardinality(Deserted) \in Nat
    BY <1>1, DesertedMoves
  <2>2. Fled(q) \in Int /\ Fled(req[r]) \in Int
    BY DEF Fled
  <2>3. requests["unknown"] \in Nat /\ requests'["unknown"] \in Nat /\ departed \in Nat
    BY DEF HttpInv, Counters, Classes
  <2>4. requests["unknown"] + Cardinality(Deserted) <= departed
    BY <1>1 DEF Balance
  <2> QED
    BY <2>1, <2>2, <2>3, <2>4
<1> QED
  BY <1>7, <1>8, <1>9, <1>10, <1>11 DEF Balance

\* What holds of the request before its step.
LEMMA RecordFacts ==
  ASSUME HttpInv, NEW r \in Goroutines
  PROVE  /\ req[r] \in Request /\ RecOK(req[r])
         /\ req[r].pc \in Pcs /\ req[r].queries \in 0 .. MaxQueries
         /\ req[r].status \in Statuses \cup {0, 200, 400, 500}
         /\ req[r].tenantID \in Tenants \cup {None} /\ req[r].param \in Params
         /\ req[r].slug \in Range(SlugOf) \cup {None}
         /\ req[r].route \in Routes /\ req[r].gone \in BOOLEAN
         /\ Fled(req[r]) \in {0, 1}
         /\ inflight \in Int /\ panics \in Nat /\ dbErrors \in Nat /\ spans \in Int
         /\ badSpans \in Nat /\ logged \in Nat /\ requests \in [Classes -> Nat]
         /\ started \in Nat /\ started <= MaxRequests /\ departed \in Nat
         /\ Completed \in Nat /\ requests["unknown"] \in Nat
         /\ MaxRequests \in Nat /\ MaxQueries \in Nat /\ dbErrors = badSpans
<1>1. req[r] \in Request /\ RecOK(req[r])
  BY DEF HttpInv, Counters
<1>2. /\ req[r].pc \in Pcs /\ req[r].queries \in 0 .. MaxQueries
      /\ req[r].status \in Statuses \cup {0, 200, 400, 500}
      /\ req[r].tenantID \in Tenants \cup {None} /\ req[r].param \in Params
      /\ req[r].slug \in Range(SlugOf) \cup {None}
      /\ req[r].route \in Routes /\ req[r].gone \in BOOLEAN
  BY <1>1 DEF Request
<1>3. Completed \in Nat /\ requests["unknown"] \in Nat
  BY DEF HttpInv, Counters, Completed, Classes
<1>4. Fled(req[r]) \in {0, 1}
  BY DEF Fled
<1> QED
  BY <1>1, <1>2, <1>3, <1>4, ConstantsAssumption DEF HttpInv, Counters, Balance

\* Goto moves a request and leaves the rest of it alone.
LEMMA GotoIs ==
  ASSUME HttpInv, NEW r \in Goroutines, NEW l \in Pcs, MoveTo(r, l)
  PROVE  \E q \in Request :
           /\ Becomes(r, q)
           /\ q.pc = l /\ q.slug = req[r].slug /\ q.param = req[r].param
           /\ q.route = req[r].route /\ q.tenantID = req[r].tenantID
           /\ q.status = req[r].status /\ q.queries = req[r].queries
           /\ q.gone = req[r].gone
<1> DEFINE q == [req[r] EXCEPT !.pc = l]
<1>1. q \in Request
  BY RecordFacts DEF Request
<1>2. Becomes(r, q)
  BY DEF MoveTo, Becomes
<1>3. /\ q.pc = l /\ q.slug = req[r].slug /\ q.param = req[r].param
      /\ q.route = req[r].route /\ q.tenantID = req[r].tenantID
      /\ q.status = req[r].status /\ q.queries = req[r].queries
      /\ q.gone = req[r].gone
  BY RecordFacts DEF Request
<1> QED
  BY <1>1, <1>2, <1>3

\* What sets its status leaves the rest alone.
LEMMA StatusSet ==
  ASSUME NEW m \in Request, NEW a \in Statuses \cup {0, 200, 400, 500},
         NEW q, q = [m EXCEPT !.status = a]
  PROVE  /\ q \in Request
         /\ q.pc = m.pc /\ q.status = a /\ q.tenantID = m.tenantID /\ q.param = m.param
         /\ q.slug = m.slug /\ q.route = m.route /\ q.queries = m.queries
         /\ q.gone = m.gone
BY DEF Request

\* An answer that comes with a Goto.
LEMMA AnswerIs ==
  ASSUME req \in [Goroutines -> Request], NEW r \in Goroutines, NEW l \in Pcs,
         NEW a \in Statuses \cup {0, 200, 400, 500}, Answers(r, l, a)
  PROVE  \E q \in Request :
           /\ Becomes(r, q)
           /\ q.pc = l /\ q.status = a
           /\ q.tenantID = req[r].tenantID /\ q.param = req[r].param
           /\ q.slug = req[r].slug /\ q.route = req[r].route
           /\ q.queries = req[r].queries /\ q.gone = req[r].gone
<1>1. PICK p \in Request : p = req[r]
  OBVIOUS
<1>2. PICK m : m = [p EXCEPT !.pc = l]
  OBVIOUS
<1>3. PICK q : q = [m EXCEPT !.status = a]
  OBVIOUS
<1>4. m \in Request
  BY <1>2 DEF Request
<1>5. /\ m.pc = l /\ m.tenantID = p.tenantID /\ m.param = p.param /\ m.slug = p.slug
      /\ m.route = p.route /\ m.queries = p.queries /\ m.gone = p.gone
  BY <1>2 DEF Request
<1>6. /\ q \in Request
      /\ q.pc = m.pc /\ q.status = a /\ q.tenantID = m.tenantID /\ q.param = m.param
      /\ q.slug = m.slug /\ q.route = m.route /\ q.queries = m.queries
      /\ q.gone = m.gone
  BY <1>3, <1>4, StatusSet
<1>7. req' = [req EXCEPT ![r] = q]
  <2>1. q = [p EXCEPT !.pc = l, !.status = a]
    BY <1>2, <1>3
  <2>2. req' = [req EXCEPT ![r].pc = l, ![r].status = a]
    BY DEF Answers
  <2>3. DOMAIN req = Goroutines
    OBVIOUS
  <2>4. DOMAIN req' = Goroutines /\ req' = [x \in DOMAIN req' |-> req'[x]]
    BY <2>2, <2>3
  <2>5. req'[r] = q
    BY <1>1, <2>1, <2>2, <2>3
  <2>6. \A x \in Goroutines : x # r => req'[x] = req[x]
    BY <2>2, <2>3
  <2> QED
    BY <2>3, <2>4, <2>5, <2>6
<1>8. Becomes(r, q)
  BY <1>7 DEF Becomes
<1> QED
  BY <1>1, <1>5, <1>6, <1>8

\* A step that no gauge and no counter sees.
LEMMA Silent ==
  ASSUME HttpInv, NEW r \in Goroutines, NEW q \in Request,
         Becomes(r, q), RecOK(q), UNCHANGED <<telemetry, history>>,
         req[r].pc \in {"lookup", "route", "handler"},
         q.pc \in {"route", "handler", "log"}, q.queries = req[r].queries,
         q.gone = req[r].gone
  PROVE  HttpInv'
<1>1. /\ inflight' = inflight /\ requests' = requests /\ panics' = panics
      /\ dbErrors' = dbErrors /\ spans' = spans /\ badSpans' = badSpans /\ logged' = logged
      /\ started' = started /\ departed' = departed
  BY DEF telemetry, history
<1>2. Completed' = Completed
  BY <1>1 DEF Completed
<1>3. \A S \in {Outside, Closed, {"count"}, {"idle"}, {"query"}} : In(q, S) = 0 /\ In(req[r], S) = 0
  BY DEF In, Outside, Closed
<1>4. Balance'
  <2>1. Fled(q) = Fled(req[r])
    BY DEF Fled, Closed
  <2> QED
    BY <1>1, <1>2, <1>3, <2>1, BalanceStep, RecordFacts
<1>5. Cardinality(Left') <= Cardinality(Left)
  BY LeftShrinks DEF Unused, HttpInv, Counters
<1>6. ErrorsLeft'
  <2>1. dbErrors + Cardinality(Left) <= started * MaxQueries
    BY DEF HttpInv, ErrorsLeft
  <2>2. dbErrors + Cardinality(Left') <= started * MaxQueries
    BY <1>5, <2>1, LeftType, RecordFacts
  <2> QED
    BY <1>1, <2>2 DEF ErrorsLeft
<1> QED
  BY <1>1, <1>4, <1>6, RecordsStep DEF HttpInv, Counters

\* An accounted step: the statements left do not grow, no request is received
\* and no statement ends.
LEMMA Accounting ==
  ASSUME HttpInv, NEW r \in Goroutines, NEW q \in Request,
         Becomes(r, q), RecOK(q), Balance',
         \A i \in 1 .. MaxQueries : Unused(q, i) => Unused(req[r], i),
         UNCHANGED <<dbErrors, badSpans, history>>,
         inflight' \in Int, spans' \in Int, panics' \in Nat, logged' \in Nat,
         requests' \in [Classes -> Nat]
  PROVE  HttpInv'
<1>1. Cardinality(Left') <= Cardinality(Left)
  BY LeftShrinks DEF HttpInv, Counters
<1>2. dbErrors + Cardinality(Left) <= started * MaxQueries
  BY DEF HttpInv, ErrorsLeft
<1>3. dbErrors + Cardinality(Left') <= started * MaxQueries
  BY <1>1, <1>2, LeftType, RecordFacts
<1>4. started' = started /\ departed' = departed
  BY DEF history
<1>5. ErrorsLeft'
  BY <1>3, <1>4 DEF ErrorsLeft
<1> QED
  BY <1>4, <1>5, RecordsStep, RecordFacts DEF HttpInv, Counters

-----------------------------------------------------------------------------
(***************************************************************************)
(* The actions.                                                            *)
(***************************************************************************)
\* A request enters: one more in flight and started, with a span.
LEMMA ReceiveInv ==
  ASSUME HttpInv, NEW r \in Goroutines, NEW host \in Hosts, NEW param \in Params,
         NEW route \in Routes, Receive(r, host, param, route)
  PROVE  HttpInv'
<1> DEFINE slug == extractSubdomain(host)
<1>1. PICK new : new = [Idle EXCEPT !.param = param, !.route = route]
  OBVIOUS
<1>2. new = [pc |-> "idle", slug |-> None, param |-> param, route |-> route,
             tenantID |-> None, status |-> 0, queries |-> 0, gone |-> FALSE]
  BY <1>1 DEF Idle
<1>3. PICK q \in Request :
        /\ Becomes(r, q)
        /\ q.pc \in {"lookup", "route"} /\ q.status = 0 /\ q.queries = 0
        /\ ~q.gone
        /\ q.pc = "route" => q.tenantID = q.param
  <2>1. CASE slug \in Range(SlugOf)
    <3>1. PICK q : q = [new EXCEPT !.pc = "lookup", !.slug = slug]
      OBVIOUS
    <3>2. q = [pc |-> "lookup", slug |-> slug, param |-> param, route |-> route,
               tenantID |-> None, status |-> 0, queries |-> 0, gone |-> FALSE]
      BY <1>2, <3>1
    <3>3. q \in Request
      BY <2>1, <3>2, RecordFacts DEF Request, Pcs
    <3>4. req' = [req EXCEPT ![r] = q]
      BY <1>1, <2>1, <3>1 DEF Receive
    <3> QED
      BY <3>2, <3>3, <3>4 DEF Becomes
  <2>2. CASE slug \notin Range(SlugOf)
    <3>1. PICK q : q = [new EXCEPT !.pc = "route", !.tenantID = param]
      OBVIOUS
    <3>2. q = [pc |-> "route", slug |-> None, param |-> param, route |-> route,
               tenantID |-> param, status |-> 0, queries |-> 0, gone |-> FALSE]
      BY <1>2, <3>1
    <3>3. q \in Request
      BY <3>2, RecordFacts, ConstantsAssumption DEF Request, Pcs
    <3>4. req' = [req EXCEPT ![r] = q]
      BY <1>1, <2>2, <3>1 DEF Receive, Resolve
    <3> QED
      BY <3>2, <3>3, <3>4 DEF Becomes
  <2> QED
    BY <2>1, <2>2
<1>4. RecOK(q)
  BY <1>3 DEF RecOK
<1>5. /\ req[r].pc = "idle" /\ started < MaxRequests /\ started' = started + 1
      /\ spans' = spans + 1 /\ inflight' = inflight + 1
      /\ UNCHANGED <<requests, panics, dbErrors, badSpans, logged, departed>>
  BY DEF Receive
<1>6. /\ In(q, Outside) = 0 /\ In(q, Closed) = 0 /\ In(q, {"count"}) = 0
      /\ In(q, {"idle"}) = 0 /\ In(q, {"query"}) = 0
      /\ In(req[r], Outside) = 1 /\ In(req[r], Closed) = 1 /\ In(req[r], {"count"}) = 0
      /\ In(req[r], {"idle"}) = 1 /\ In(req[r], {"query"}) = 0
      /\ Fled(q) = 0
  BY <1>3, <1>5 DEF In, Outside, Closed, Fled
<1>7. Completed' = Completed
  BY <1>5 DEF Completed
<1>8. Balance'
  BY <1>3, <1>5, <1>6, <1>7, BalanceStep, RecordFacts
<1>9. ErrorsLeft'
  <2>1. Cardinality(Left') <= Cardinality(Left) + MaxQueries
    BY <1>3, LeftAdded DEF HttpInv, Counters
  <2>2. dbErrors + Cardinality(Left) <= started * MaxQueries
    BY DEF HttpInv, ErrorsLeft
  <2>3. (started + 1) * MaxQueries = started * MaxQueries + MaxQueries
    BY RecordFacts
  <2>4. started * MaxQueries \in Nat
    BY RecordFacts
  <2>5. dbErrors + Cardinality(Left') <= (started + 1) * MaxQueries
    BY <2>1, <2>2, <2>3, <2>4, LeftType, RecordFacts
  <2> QED
    BY <1>5, <2>5 DEF ErrorsLeft
<1>10. Counters'
  BY <1>3, <1>4, <1>5, RecordsStep, RecordFacts DEF Counters
<1> QED
  BY <1>3, <1>4, <1>8, <1>9, <1>10, RecordsStep DEF HttpInv

\* The tenant is the one the subdomain names, or the parameter's.
LEMMA GetBySlugInv ==
  ASSUME HttpInv, NEW r \in Goroutines, GetBySlug(r)
  PROVE  HttpInv'
<1>1. req[r].pc = "lookup" /\ UNCHANGED <<telemetry, history>>
  BY DEF GetBySlug
<1>2. PICK found \in {t \in Tenants : SlugOf[t] = req[r].slug} \cup {None} :
        req' = [req EXCEPT ![r].pc = "route",
                           ![r].tenantID = Resolve(found, req[r].param)]
  BY DEF GetBySlug
<1>3. PICK p \in Request : p = req[r]
  BY RecordFacts
<1>4. PICK t \in Tenants \cup {None} :
        /\ t = Resolve(found, p.param)
        /\ t # None => t = p.param \/ SlugOf[t] = p.slug
  BY <1>2, <1>3, RecordFacts, ConstantsAssumption DEF Resolve
<1>5. PICK q : q = [p EXCEPT !.pc = "route", !.tenantID = t]
  OBVIOUS
<1>6. /\ q \in Request
      /\ q.pc = "route" /\ q.tenantID = t /\ q.param = p.param /\ q.slug = p.slug
      /\ q.queries = p.queries /\ q.gone = p.gone
  <2>1. PICK m : m = [p EXCEPT !.pc = "route"]
    OBVIOUS
  <2>2. m \in Request
    BY <2>1 DEF Request, Pcs
  <2>3. q = [m EXCEPT !.tenantID = t]
    BY <1>5, <2>1
  <2>4. /\ m.pc = "route" /\ m.param = p.param /\ m.slug = p.slug /\ m.queries = p.queries
        /\ m.gone = p.gone
    BY <2>1 DEF Request
  <2>5. q \in Request
    BY <2>2, <2>3 DEF Request
  <2> QED
    BY <2>2, <2>3, <2>4, <2>5 DEF Request
<1>7. RecOK(q)
  BY <1>4, <1>6 DEF RecOK
<1>8. Becomes(r, q)
  BY <1>2, <1>3, <1>4, <1>5 DEF Becomes
<1> QED
  BY <1>1, <1>3, <1>6, <1>7, <1>8, Silent

\* cors and RequireTenantID answer, or the handler is next.
LEMMA RouteInv ==
  ASSUME HttpInv, NEW r \in Goroutines, Route(r)
  PROVE  HttpInv'
<1> DEFINE answer == CASE req[r].route = "preflight" -> 200
                       [] req[r].route = "demo" /\ req[r].tenantID = None -> 400
                       [] OTHER -> 0
           l == IF answer = 0 THEN "handler" ELSE "log"
<1>1. req' = [req EXCEPT ![r].pc = l, ![r].status = answer]
  BY DEF Route
<1>2. /\ answer \in {0, 200, 400}
      /\ answer = 0 => ~(req[r].route = "demo" /\ req[r].tenantID = None)
  OBVIOUS
<1> HIDE DEF answer
<1>3. (l = "handler" /\ answer = 0) \/ (l = "log" /\ answer # 0)
  OBVIOUS
<1> HIDE DEF l
<1>4. req[r].pc = "route" /\ UNCHANGED <<telemetry, history>>
  BY DEF Route
<1>5. PICK a \in {0, 200, 400}, k \in {"handler", "log"} : a = answer /\ k = l
  BY <1>2, <1>3
<1>6. k \in Pcs
  BY DEF Pcs
<1>7. Answers(r, k, a)
  BY <1>1, <1>5 DEF Answers
<1>8. PICK q \in Request :
        /\ Becomes(r, q)
        /\ q.pc = k /\ q.status = a
        /\ q.tenantID = req[r].tenantID /\ q.param = req[r].param
        /\ q.slug = req[r].slug /\ q.route = req[r].route
        /\ q.queries = req[r].queries /\ q.gone = req[r].gone
  BY <1>6, <1>7, AnswerIs DEF HttpInv, Counters
<1>9. RecOK(q)
  BY <1>2, <1>3, <1>4, <1>5, <1>8, RecordFacts DEF RecOK
<1> QED
  BY <1>4, <1>8, <1>9, Silent

\* A statement begins, with a span; it is left until it ends.
LEMMA QueryStartInv ==
  ASSUME HttpInv, NEW r \in Goroutines, QueryStart(r)
  PROVE  HttpInv'
<1>1. /\ req[r].pc = "handler" /\ req[r].queries < MaxQueries
      /\ req' = [req EXCEPT ![r].pc = "query", ![r].queries = @ + 1]
      /\ spans' = spans + 1
      /\ UNCHANGED <<inflight, requests, panics, dbErrors, badSpans, logged, started, departed>>
  BY DEF QueryStart, history
<1>2. PICK p \in Request : p = req[r]
  BY RecordFacts
<1>3. PICK n \in 0 .. MaxQueries : n = p.queries + 1
  BY <1>1, <1>2, RecordFacts
<1>4. PICK q : q = [p EXCEPT !.pc = "query", !.queries = n]
  OBVIOUS
<1>5. /\ q \in Request
      /\ q.pc = "query" /\ q.queries = req[r].queries + 1
      /\ q.tenantID = req[r].tenantID /\ q.param = req[r].param /\ q.slug = req[r].slug
      /\ q.route = req[r].route /\ q.gone = req[r].gone
  <2>1. PICK m : m = [p EXCEPT !.pc = "query"]
    OBVIOUS
  <2>2. m \in Request
    BY <2>1 DEF Request, Pcs
  <2>3. q = [m EXCEPT !.queries = n]
    BY <1>4, <2>1
  <2>4. /\ m.pc = "query" /\ m.tenantID = p.tenantID /\ m.param = p.param
        /\ m.slug = p.slug /\ m.route = p.route /\ m.gone = p.gone
    BY <2>1 DEF Request
  <2>5. q \in Request
    BY <2>2, <2>3 DEF Request
  <2>6. /\ q.pc = m.pc /\ q.queries = n /\ q.tenantID = m.tenantID /\ q.param = m.param
        /\ q.slug = m.slug /\ q.route = m.route /\ q.gone = m.gone
    BY <2>2, <2>3 DEF Request
  <2> QED
    BY <1>2, <1>3, <2>4, <2>5, <2>6
<1>6. RecOK(q)
  BY <1>1, <1>5, RecordFacts DEF RecOK
<1>7. \A i \in 1 .. MaxQueries : Unused(q, i) => Unused(req[r], i)
  BY <1>1, <1>5, RecordFacts DEF Unused
<1>8. /\ In(q, Outside) = 0 /\ In(q, Closed) = 0 /\ In(q, {"count"}) = 0
      /\ In(q, {"idle"}) = 0 /\ In(q, {"query"}) = 1
      /\ In(req[r], Outside) = 0 /\ In(req[r], Closed) = 0 /\ In(req[r], {"count"}) = 0
      /\ In(req[r], {"idle"}) = 0 /\ In(req[r], {"query"}) = 0
      /\ Fled(q) = Fled(req[r])
  BY <1>1, <1>5 DEF In, Outside, Closed, Fled
<1>9. Completed' = Completed
  BY <1>1 DEF Completed
<1>10. Becomes(r, q)
  BY <1>1, <1>2, <1>3, <1>4 DEF Becomes
<1>11. Balance'
  BY <1>1, <1>5, <1>8, <1>9, <1>10, BalanceStep, RecordFacts
<1> QED
  BY <1>1, <1>5, <1>6, <1>7, <1>10, <1>11, Accounting, RecordFacts DEF history

\* A statement ends; the metrics and the span agree on whether it failed.
LEMMA QueryInv ==
  ASSUME HttpInv, NEW r \in Goroutines, NEW op \in Ops,
         NEW result \in ResultsOf(op), Query(r, op, result)
  PROVE  HttpInv'
<1>1. /\ req[r].pc = "query" /\ spans' = spans - 1 /\ MoveTo(r, "handler")
      /\ UNCHANGED <<inflight, requests, panics, logged, started, departed>>
  BY DEF Query, history
<1>2. "handler" \in Pcs
  BY DEF Pcs
<1>3. PICK q \in Request :
        /\ Becomes(r, q)
        /\ q.pc = "handler" /\ q.slug = req[r].slug /\ q.param = req[r].param
        /\ q.route = req[r].route /\ q.tenantID = req[r].tenantID
        /\ q.status = req[r].status /\ q.queries = req[r].queries
        /\ q.gone = req[r].gone
  BY <1>1, <1>2, GotoIs
<1>4. RecOK(q)
  BY <1>1, <1>3, RecordFacts DEF RecOK
<1>5. \/ dbErrors' = dbErrors /\ badSpans' = badSpans
      \/ dbErrors' = dbErrors + 1 /\ badSpans' = badSpans + 1
  <2>1. CountsAsError(op, result) <=> MarksSpan(op, result)
    BY DEF CountsAsError, MarksSpan
  <2> QED
    BY <2>1 DEF Query
<1>6. /\ In(q, Outside) = 0 /\ In(q, Closed) = 0 /\ In(q, {"count"}) = 0
      /\ In(q, {"idle"}) = 0 /\ In(q, {"query"}) = 0
      /\ In(req[r], Outside) = 0 /\ In(req[r], Closed) = 0 /\ In(req[r], {"count"}) = 0
      /\ In(req[r], {"idle"}) = 0 /\ In(req[r], {"query"}) = 1
      /\ Fled(q) = Fled(req[r])
  BY <1>1, <1>3 DEF In, Outside, Closed, Fled
<1>7. Completed' = Completed
  BY <1>1 DEF Completed
<1>8. Balance'
  BY <1>1, <1>3, <1>5, <1>6, <1>7, BalanceStep, RecordFacts
<1>9. ErrorsLeft'
  <2>1. PICK j \in 1 .. MaxQueries : j = req[r].queries
    BY <1>1, RecordFacts DEF RecOK
  <2>2. Unused(req[r], j) /\ ~Unused(q, j)
    BY <1>1, <1>3, <2>1 DEF Unused
  <2>3. \A i \in 1 .. MaxQueries : Unused(q, i) => Unused(req[r], i)
    BY <1>1, <1>3 DEF Unused
  <2>4. Cardinality(Left') <= Cardinality(Left) - 1
    BY <1>3, <2>2, <2>3, LeftTaken DEF HttpInv, Counters
  <2>5. dbErrors + Cardinality(Left) <= started * MaxQueries
    BY DEF HttpInv, ErrorsLeft
  <2>6. dbErrors' + Cardinality(Left') <= started * MaxQueries
    BY <1>5, <2>4, <2>5, LeftType, RecordFacts
  <2> QED
    BY <1>1, <2>6 DEF ErrorsLeft
<1>10. Counters'
  BY <1>1, <1>3, <1>4, <1>5, RecordsStep, RecordFacts DEF HttpInv, Counters
<1> QED
  BY <1>3, <1>4, <1>8, <1>9, <1>10, RecordsStep DEF HttpInv

\* The handler starts its answer.
LEMMA WriteHeaderInv ==
  ASSUME HttpInv, NEW r \in Goroutines, NEW status \in Statuses,
         WriteHeader(r, status)
  PROVE  HttpInv'
<1>1. /\ req[r].pc = "handler" /\ UNCHANGED <<telemetry, history>>
      /\ req' = [req EXCEPT ![r].status = status]
  BY DEF WriteHeader
<1>2. PICK p \in Request : p = req[r]
  BY RecordFacts
<1>3. PICK q : q = [p EXCEPT !.status = status]
  OBVIOUS
<1>4. /\ q \in Request
      /\ q.pc = p.pc /\ q.tenantID = p.tenantID /\ q.param = p.param
      /\ q.slug = p.slug /\ q.route = p.route /\ q.queries = p.queries
      /\ q.gone = p.gone
  BY <1>3, StatusSet
<1>5. RecOK(q)
  BY <1>1, <1>2, <1>4, RecordFacts DEF RecOK
<1>6. Becomes(r, q)
  BY <1>1, <1>2, <1>3 DEF Becomes
<1> QED
  BY <1>1, <1>2, <1>4, <1>5, <1>6, Silent

\* It returns, having answered.
LEMMA HandlerReturnsInv ==
  ASSUME HttpInv, NEW r \in Goroutines, HandlerReturns(r)
  PROVE  HttpInv'
<1>1. /\ req[r].pc = "handler" /\ req[r].status # 0
      /\ MoveTo(r, "log") /\ UNCHANGED <<telemetry, history>>
  BY DEF HandlerReturns
<1>2. "log" \in Pcs
  BY DEF Pcs
<1>3. PICK q \in Request :
        /\ Becomes(r, q)
        /\ q.pc = "log" /\ q.slug = req[r].slug /\ q.param = req[r].param
        /\ q.route = req[r].route /\ q.tenantID = req[r].tenantID
        /\ q.status = req[r].status /\ q.queries = req[r].queries
        /\ q.gone = req[r].gone
  BY <1>1, <1>2, GotoIs
<1>4. RecOK(q)
  BY <1>1, <1>3 DEF RecOK
<1> QED
  BY <1>1, <1>3, <1>4, Silent

\* The page of a client that has left is not rendered.
LEMMA RenderFailsInv ==
  ASSUME HttpInv, NEW r \in Goroutines, RenderFails(r)
  PROVE  HttpInv'
<1>1. /\ req[r].pc = "handler" /\ req[r].gone
      /\ MoveTo(r, "log") /\ UNCHANGED <<telemetry, history>>
  BY DEF RenderFails
<1>2. "log" \in Pcs
  BY DEF Pcs
<1>3. PICK q \in Request :
        /\ Becomes(r, q)
        /\ q.pc = "log" /\ q.slug = req[r].slug /\ q.param = req[r].param
        /\ q.route = req[r].route /\ q.tenantID = req[r].tenantID
        /\ q.status = req[r].status /\ q.queries = req[r].queries
        /\ q.gone = req[r].gone
  BY <1>1, <1>2, GotoIs
<1>4. RecOK(q)
  BY <1>1, <1>3 DEF RecOK
<1> QED
  BY <1>1, <1>3, <1>4, Silent

\* A client leaves once.
LEMMA ClientLeavesInv ==
  ASSUME HttpInv, NEW r \in Goroutines, ClientLeaves(r)
  PROVE  HttpInv'
<1>1. /\ req[r].pc \in {"handler", "query"} /\ ~req[r].gone
      /\ req' = [req EXCEPT ![r].gone = TRUE] /\ departed' = departed + 1
      /\ UNCHANGED <<inflight, requests, panics, dbErrors, spans, badSpans, logged, started>>
  BY DEF ClientLeaves, telemetry
<1>2. PICK p \in Request : p = req[r]
  BY RecordFacts
<1>3. PICK b \in BOOLEAN : b = TRUE
  OBVIOUS
<1>4. PICK q : q = [p EXCEPT !.gone = b]
  OBVIOUS
<1>5. /\ q \in Request /\ q.gone
      /\ q.pc = p.pc /\ q.tenantID = p.tenantID /\ q.param = p.param
      /\ q.slug = p.slug /\ q.route = p.route /\ q.queries = p.queries
  <2>1. q \in Request
    BY <1>4 DEF Request
  <2>2. /\ q.pc = p.pc /\ q.tenantID = p.tenantID /\ q.param = p.param
        /\ q.slug = p.slug /\ q.route = p.route /\ q.queries = p.queries /\ q.gone = b
    BY <1>4 DEF Request
  <2> QED
    BY <1>3, <2>1, <2>2
<1>6. RecOK(q)
  BY <1>1, <1>2, <1>5, RecordFacts DEF RecOK
<1>7. Becomes(r, q)
  BY <1>1, <1>2, <1>3, <1>4 DEF Becomes
<1>8. /\ In(q, Outside) = In(req[r], Outside) /\ In(q, Closed) = In(req[r], Closed)
      /\ In(q, {"count"}) = In(req[r], {"count"}) /\ In(q, {"idle"}) = In(req[r], {"idle"})
      /\ In(q, {"query"}) = In(req[r], {"query"})
      /\ Fled(q) = 1 /\ Fled(req[r]) = 0
  BY <1>1, <1>2, <1>5 DEF In, Closed, Fled
<1>9. \A S : In(req[r], S) \in {0, 1}
  BY DEF In
<1>10. Completed' = Completed
  BY <1>1 DEF Completed
<1>11. Balance'
  BY <1>1, <1>5, <1>7, <1>8, <1>9, <1>10, BalanceStep, RecordFacts
<1>12. ErrorsLeft'
  <2>1. Cardinality(Left') <= Cardinality(Left)
    BY <1>2, <1>5, <1>7, LeftShrinks DEF Unused, HttpInv, Counters
  <2>2. dbErrors + Cardinality(Left) <= started * MaxQueries
    BY DEF HttpInv, ErrorsLeft
  <2>3. dbErrors + Cardinality(Left') <= started * MaxQueries
    BY <2>1, <2>2, LeftType, RecordFacts
  <2> QED
    BY <1>1, <2>3 DEF ErrorsLeft
<1>13. Counters'
  <2>1. req' \in [Goroutines -> Request]
    BY <1>5, <1>6, <1>7, RecordsStep
  <2>2. started \in 0 .. MaxRequests
    BY DEF HttpInv, Counters
  <2> QED
    BY <1>1, <2>1, <2>2, RecordFacts DEF Counters
<1> QED
  BY <1>5, <1>6, <1>7, <1>11, <1>12, <1>13, RecordsStep DEF HttpInv

\* It panics; the span of a statement ends all the same.
LEMMA HandlerPanicsInv ==
  ASSUME HttpInv, NEW r \in Goroutines, HandlerPanics(r)
  PROVE  HttpInv'
<1>1. /\ req[r].pc \in {"handler", "query"} /\ MoveTo(r, "unwind")
      /\ spans' = IF req[r].pc = "query" THEN spans - 1 ELSE spans
      /\ UNCHANGED <<inflight, requests, panics, dbErrors, badSpans, logged, started, departed>>
  BY DEF HandlerPanics, history
<1>2. "unwind" \in Pcs
  BY DEF Pcs
<1>3. PICK q \in Request :
        /\ Becomes(r, q)
        /\ q.pc = "unwind" /\ q.queries = req[r].queries /\ q.gone = req[r].gone
  BY <1>1, <1>2, GotoIs
<1>4. RecOK(q)
  BY <1>3 DEF RecOK
<1>5. \A i \in 1 .. MaxQueries : Unused(q, i) => Unused(req[r], i)
  BY <1>1, <1>3 DEF Unused
<1>6. /\ In(q, Outside) = 0 /\ In(q, Closed) = 0 /\ In(q, {"count"}) = 0
      /\ In(q, {"idle"}) = 0 /\ In(q, {"query"}) = 0
      /\ In(req[r], Outside) = 0 /\ In(req[r], Closed) = 0 /\ In(req[r], {"count"}) = 0
      /\ In(req[r], {"idle"}) = 0 /\ spans' = spans - In(req[r], {"query"})
      /\ Fled(q) = Fled(req[r])
  BY <1>1, <1>3, RecordFacts DEF In, Outside, Closed, Fled
<1>7. Completed' = Completed
  BY <1>1 DEF Completed
<1>8. In(req[r], {"query"}) \in {0, 1}
  BY DEF In
<1>9. Balance'
  BY <1>1, <1>3, <1>4, <1>6, <1>7, <1>8, BalanceStep, RecordFacts
<1> QED
  BY <1>1, <1>3, <1>4, <1>5, <1>6, <1>8, <1>9, Accounting, RecordFacts DEF history

\* A request whose handler has returned is logged.
LEMMA LogInv ==
  ASSUME HttpInv, NEW r \in Goroutines, Log(r)
  PROVE  HttpInv'
<1>1. /\ req[r].pc = "log" /\ logged' = logged + 1 /\ MoveTo(r, "count")
      /\ UNCHANGED <<inflight, requests, panics, dbErrors, spans, badSpans, started, departed>>
  BY DEF Log, history
<1>2. "count" \in Pcs
  BY DEF Pcs
<1>3. PICK q \in Request :
        /\ Becomes(r, q)
        /\ q.pc = "count" /\ q.status = req[r].status /\ q.queries = req[r].queries
        /\ q.gone = req[r].gone
  BY <1>1, <1>2, GotoIs
<1>4. RecOK(q)
  BY <1>1, <1>3, RecordFacts DEF RecOK
<1>5. \A i \in 1 .. MaxQueries : Unused(q, i) => Unused(req[r], i)
  BY <1>1, <1>3 DEF Unused
<1>6. /\ In(q, Outside) = 0 /\ In(q, Closed) = 0 /\ In(q, {"count"}) = 1
      /\ In(q, {"idle"}) = 0 /\ In(q, {"query"}) = 0
      /\ In(req[r], Outside) = 0 /\ In(req[r], Closed) = 0 /\ In(req[r], {"count"}) = 0
      /\ In(req[r], {"idle"}) = 0 /\ In(req[r], {"query"}) = 0
      /\ Fled(q) = Fled(req[r])
  BY <1>1, <1>3 DEF In, Outside, Closed, Fled
<1>7. Completed' = Completed
  BY <1>1 DEF Completed
<1>8. Balance'
  BY <1>1, <1>3, <1>4, <1>6, <1>7, BalanceStep, RecordFacts
<1> QED
  BY <1>1, <1>3, <1>4, <1>5, <1>8, Accounting, RecordFacts DEF history

\* It is counted, in the class of its status, or as unknown if its client left
\* it without one.
LEMMA CountInv ==
  ASSUME HttpInv, NEW r \in Goroutines, Count(r)
  PROVE  HttpInv'
<1> DEFINE class == statusClass(req[r].status)
<1>1. /\ req[r].pc = "count" /\ MoveTo(r, "dec")
      /\ requests' = [requests EXCEPT ![class] = @ + 1]
      /\ UNCHANGED <<inflight, panics, dbErrors, spans, badSpans, logged, started, departed>>
  BY DEF Count, history
<1>2. class \in Classes /\ (class = "unknown" => req[r].status = 0)
  <2>1. PICK code \in {0} \cup 200 .. 599 : code = req[r].status
    <3>1. PICK a \in Statuses \cup {0, 200, 400, 500} : a = req[r].status
      BY RecordFacts
    <3>2. CASE a \in Statuses
      BY <3>1, <3>2, ConstantsAssumption
    <3>3. CASE a \in {0, 200, 400, 500}
      BY <3>1, <3>3
    <3> QED
      BY <3>2, <3>3
  <2>2. statusClass(0) = "unknown"
    BY DEF statusClass
  <2>3. ASSUME code \in 200 .. 599 PROVE statusClass(code) \in {"2xx", "3xx", "4xx", "5xx"}
    <3>1. CASE code \in 200 .. 299
      BY <3>1 DEF statusClass
    <3>2. CASE code \in 300 .. 399
      <4>1. code \notin 200 .. 299
        BY <3>2
      <4> QED
        BY <3>2, <4>1 DEF statusClass
    <3>3. CASE code \in 400 .. 499
      <4>1. code \notin 200 .. 299 /\ code \notin 300 .. 399
        BY <3>3
      <4> QED
        BY <3>3, <4>1 DEF statusClass
    <3>4. CASE code \in 500 .. 599
      <4>1. /\ code \notin 200 .. 299 /\ code \notin 300 .. 399
            /\ code \notin 400 .. 499 /\ code >= 500
        BY <3>4
      <4> QED
        BY <4>1 DEF statusClass
    <3> QED
      BY <2>3, <3>1, <3>2, <3>3, <3>4
  <2>4. CASE code = 0
    BY <2>1, <2>2, <2>4 DEF Classes
  <2>5. CASE code \in 200 .. 599
    BY <2>1, <2>3, <2>5 DEF Classes
  <2> QED
    BY <2>1, <2>4, <2>5
<1> HIDE DEF class
<1>3. "dec" \in Pcs
  BY DEF Pcs
<1>4. PICK q \in Request :
        /\ Becomes(r, q)
        /\ q.pc = "dec" /\ q.status = req[r].status /\ q.queries = req[r].queries
        /\ q.gone = req[r].gone
  BY <1>1, <1>3, GotoIs
<1>5. RecOK(q)
  BY <1>1, <1>4, RecordFacts DEF RecOK
<1>6. \A i \in 1 .. MaxQueries : Unused(q, i) => Unused(req[r], i)
  BY <1>1, <1>4 DEF Unused
<1>7. /\ In(q, Outside) = 0 /\ In(q, Closed) = 1 /\ In(q, {"count"}) = 0
      /\ In(q, {"idle"}) = 0 /\ In(q, {"query"}) = 0
      /\ In(req[r], Outside) = 0 /\ In(req[r], Closed) = 0 /\ In(req[r], {"count"}) = 1
      /\ In(req[r], {"idle"}) = 0 /\ In(req[r], {"query"}) = 0
      /\ Fled(q) = 0
  BY <1>1, <1>4 DEF In, Outside, Closed, Fled
<1>8. requests \in [Classes -> Nat]
  BY RecordFacts
<1>9. /\ requests' \in [Classes -> Nat] /\ Completed' = Completed + 1
      /\ requests'["unknown"] = requests["unknown"] + IF class = "unknown" THEN 1 ELSE 0
  <2>1. /\ requests["2xx"] \in Nat /\ requests["3xx"] \in Nat /\ requests["4xx"] \in Nat
        /\ requests["5xx"] \in Nat /\ requests["unknown"] \in Nat
    BY <1>8 DEF Classes
  <2>2. requests' \in [Classes -> Nat]
    <3>1. class \in Classes /\ requests[class] \in Nat
      BY <1>2, <1>8 DEF Classes
    <3> QED
      BY <1>1, <1>8, <3>1
  <2>3. \A c \in Classes : requests'[c] = IF c = class THEN requests[c] + 1 ELSE requests[c]
    BY <1>1, <1>8
  <2>4. /\ requests'["2xx"] = IF "2xx" = class THEN requests["2xx"] + 1 ELSE requests["2xx"]
        /\ requests'["3xx"] = IF "3xx" = class THEN requests["3xx"] + 1 ELSE requests["3xx"]
        /\ requests'["4xx"] = IF "4xx" = class THEN requests["4xx"] + 1 ELSE requests["4xx"]
        /\ requests'["5xx"] = IF "5xx" = class THEN requests["5xx"] + 1 ELSE requests["5xx"]
        /\ requests'["unknown"] = IF "unknown" = class THEN requests["unknown"] + 1
                                                        ELSE requests["unknown"]
    BY <2>3 DEF Classes
  <2>5. Completed' = requests'["2xx"] + requests'["3xx"] + requests'["4xx"]
                         + requests'["5xx"] + requests'["unknown"]
    BY DEF Completed
  <2>6. Completed = requests["2xx"] + requests["3xx"] + requests["4xx"]
                        + requests["5xx"] + requests["unknown"]
    BY DEF Completed
  <2>7. Completed' = Completed + 1
    <3>1. CASE class = "2xx"
      BY <2>1, <2>4, <2>5, <2>6, <3>1
    <3>2. CASE class = "3xx"
      BY <2>1, <2>4, <2>5, <2>6, <3>2
    <3>3. CASE class = "4xx"
      BY <2>1, <2>4, <2>5, <2>6, <3>3
    <3>4. CASE class = "5xx"
      BY <2>1, <2>4, <2>5, <2>6, <3>4
    <3>5. CASE class = "unknown"
      BY <2>1, <2>4, <2>5, <2>6, <3>5
    <3> QED
      BY <1>2, <3>1, <3>2, <3>3, <3>4, <3>5 DEF Classes
  <2>8. requests'["unknown"] = requests["unknown"] + IF class = "unknown" THEN 1 ELSE 0
    BY <2>1, <2>4
  <2> QED
    BY <2>2, <2>7, <2>8
<1>10. departed' - requests'["unknown"]
         >= departed - requests["unknown"] + Fled(q) - Fled(req[r])
  <2>1. class = "unknown" => Fled(req[r]) = 1
    BY <1>1, <1>2, RecordFacts DEF RecOK, Fled, Closed
  <2> QED
    BY <1>1, <1>7, <1>9, <2>1, RecordFacts
<1>11. Balance'
  BY <1>1, <1>4, <1>5, <1>7, <1>9, <1>10, BalanceStep, RecordFacts
<1> QED
  BY <1>1, <1>4, <1>5, <1>6, <1>9, <1>11, Accounting, RecordFacts DEF history

\* The gauge goes down, after a panic too.
LEMMA DecInv ==
  ASSUME HttpInv, NEW r \in Goroutines, Dec(r)
  PROVE  HttpInv'
<1> DEFINE l == IF req[r].pc = "dec" THEN "end" ELSE "recover"
<1>1. /\ req[r].pc \in {"dec", "unwind"} /\ inflight' = inflight - 1 /\ MoveTo(r, l)
      /\ UNCHANGED <<requests, panics, dbErrors, spans, badSpans, logged, started, departed>>
  BY DEF Dec, history
<1>2. PICK k \in Pcs : k = l
  BY DEF Pcs
<1>3. MoveTo(r, k)
  BY <1>1, <1>2 DEF MoveTo
<1>4. PICK q \in Request :
        /\ Becomes(r, q)
        /\ q.pc = k /\ q.status = req[r].status /\ q.queries = req[r].queries
        /\ q.gone = req[r].gone
  BY <1>3, GotoIs
<1>5. \/ req[r].pc = "dec" /\ q.pc = "end"
      \/ req[r].pc = "unwind" /\ q.pc = "recover"
  BY <1>1, <1>2, <1>4
<1>6. RecOK(q)
  BY <1>4, <1>5, RecordFacts DEF RecOK
<1>7. \A i \in 1 .. MaxQueries : Unused(q, i) => Unused(req[r], i)
  BY <1>4, <1>5 DEF Unused
<1>8. /\ In(q, Outside) = 1 /\ In(q, Closed) = In(req[r], Closed) /\ In(q, {"count"}) = 0
      /\ In(q, {"idle"}) = 0 /\ In(q, {"query"}) = 0
      /\ In(req[r], Outside) = 0 /\ In(req[r], {"count"}) = 0
      /\ In(req[r], {"idle"}) = 0 /\ In(req[r], {"query"}) = 0
      /\ Fled(q) = Fled(req[r])
  BY <1>4, <1>5 DEF In, Outside, Closed, Fled
<1>9. Completed' = Completed /\ In(req[r], Closed) \in {0, 1}
  BY <1>1 DEF Completed, In
<1>10. Balance'
  BY <1>1, <1>4, <1>6, <1>8, <1>9, BalanceStep, RecordFacts
<1> QED
  BY <1>1, <1>4, <1>6, <1>7, <1>10, Accounting, RecordFacts DEF history

\* A panic is counted, and answered unless the handler had.
LEMMA RecoverInv ==
  ASSUME HttpInv, NEW r \in Goroutines, Recover(r)
  PROVE  HttpInv'
<1>1. /\ req[r].pc = "recover" /\ panics' = panics + 1
      /\ UNCHANGED <<inflight, requests, dbErrors, spans, badSpans, logged, started, departed>>
  BY DEF Recover, history
<1>2. PICK a \in Statuses \cup {0, 200, 400, 500} :
        a # 0 /\ a = IF req[r].status = 0 THEN 500 ELSE req[r].status
  BY RecordFacts
<1>3. Answers(r, "end", a)
  BY <1>2 DEF Answers, Recover
<1>4. "end" \in Pcs
  BY DEF Pcs
<1>5. PICK q \in Request :
        Becomes(r, q) /\ q.pc = "end" /\ q.status = a /\ q.queries = req[r].queries
  BY <1>3, <1>4, AnswerIs DEF HttpInv, Counters
<1>6. RecOK(q)
  BY <1>2, <1>5 DEF RecOK
<1>7. \A i \in 1 .. MaxQueries : Unused(q, i) => Unused(req[r], i)
  BY <1>1, <1>5 DEF Unused
<1>8. /\ In(q, Outside) = 1 /\ In(q, Closed) = 1 /\ In(q, {"count"}) = 0
      /\ In(q, {"idle"}) = 0 /\ In(q, {"query"}) = 0
      /\ In(req[r], Outside) = 1 /\ In(req[r], Closed) = 0 /\ In(req[r], {"count"}) = 0
      /\ In(req[r], {"idle"}) = 0 /\ In(req[r], {"query"}) = 0
      /\ Fled(q) = 0
  BY <1>1, <1>5 DEF In, Outside, Closed, Fled
<1>9. Completed' = Completed
  BY <1>1 DEF Completed
<1>10. Balance'
  BY <1>1, <1>5, <1>6, <1>8, <1>9, BalanceStep, RecordFacts
<1> QED
  BY <1>1, <1>5, <1>6, <1>7, <1>10, Accounting, RecordFacts DEF history

\* The span of the request ends, and with it the request.
LEMMA EndSpanInv ==
  ASSUME HttpInv, NEW r \in Goroutines, EndSpan(r)
  PROVE  HttpInv'
<1>1. /\ req[r].pc = "end" /\ spans' = spans - 1 /\ req' = [req EXCEPT ![r] = Idle]
      /\ UNCHANGED <<inflight, requests, panics, dbErrors, badSpans, logged, started, departed>>
  BY DEF EndSpan, history
<1>2. PICK q : q = Idle
  OBVIOUS
<1>3. None \in Params
  BY ConstantsAssumption
<1>4. q \in Request /\ q.pc = "idle"
  BY <1>2, <1>3, RecordFacts DEF Idle, Request, Pcs, Routes
<1>5. Becomes(r, q)
  BY <1>1, <1>2 DEF Becomes
<1>6. RecOK(q)
  BY <1>4 DEF RecOK
<1>7. \A i \in 1 .. MaxQueries : Unused(q, i) => Unused(req[r], i)
  BY <1>4 DEF Unused
<1>8. /\ In(q, Outside) = 1 /\ In(q, Closed) = 1 /\ In(q, {"count"}) = 0
      /\ In(q, {"idle"}) = 1 /\ In(q, {"query"}) = 0
      /\ In(req[r], Outside) = 1 /\ In(req[r], Closed) = 1 /\ In(req[r], {"count"}) = 0
      /\ In(req[r], {"idle"}) = 0 /\ In(req[r], {"query"}) = 0
      /\ Fled(q) = 0
  BY <1>1, <1>4 DEF In, Outside, Closed, Fled
<1>9. Completed' = Completed
  BY <1>1 DEF Completed
<1>10. Balance'
  BY <1>1, <1>4, <1>5, <1>6, <1>8, <1>9, BalanceStep, RecordFacts
<1> QED
  BY <1>1, <1>4, <1>5, <1>6, <1>7, <1>10, Accounting, RecordFacts DEF history

-----------------------------------------------------------------------------
(***************************************************************************)
(* The invariant, and the properties of the runs.                          *)
(***************************************************************************)
\* At first everyone is outside and nothing is counted.
LEMMA HttpInitInv == ASSUME HSInit PROVE HttpInv
<1>1. PICK q : q = Idle
  OBVIOUS
<1>2. None \in Params /\ MaxRequests \in Nat /\ MaxQueries \in Nat
  BY ConstantsAssumption
<1>3. q \in Request /\ q.pc = "idle"
  BY <1>1, <1>2 DEF Idle, Request, Pcs, Routes
<1>4. req = [r \in Goroutines |-> q]
  BY <1>1 DEF HSInit
<1>5. /\ inflight = 0 /\ panics = 0 /\ dbErrors = 0 /\ spans = 0 /\ badSpans = 0
      /\ logged = 0 /\ started = 0 /\ departed = 0 /\ requests = [c \in Classes |-> 0]
  BY DEF HSInit
<1>6. Counters
  BY <1>2, <1>3, <1>4, <1>5 DEF Counters
<1>7. Balance
  <2>1. Completed = 0 /\ requests["unknown"] = 0
    BY <1>5 DEF Completed, Classes
  <2>2. /\ At(Outside) = Goroutines /\ At(Closed) = Goroutines /\ At({"idle"}) = Goroutines
        /\ At({"count"}) = {} /\ At({"query"}) = {} /\ Deserted = {}
    BY <1>3, <1>4 DEF At, Outside, Closed, Deserted
  <2>3. /\ Num(Outside) = Cardinality(Goroutines) /\ Num(Closed) = Cardinality(Goroutines)
        /\ Num({"idle"}) = Cardinality(Goroutines)
        /\ Num({"count"}) = 0 /\ Num({"query"}) = 0 /\ Cardinality(Deserted) = 0
    BY <2>2, FS_EmptySet DEF Num
  <2>4. inflight = Cardinality(Goroutines) - Num(Outside)
    BY <1>5, <2>3, GoroutinesCounted
  <2>5. started = Completed + panics + Cardinality(Goroutines) - Num(Closed)
    BY <1>5, <2>1, <2>3, GoroutinesCounted
  <2>6. logged = Completed + Num({"count"})
    BY <1>5, <2>1, <2>3
  <2>7. spans = Cardinality(Goroutines) - Num({"idle"}) + Num({"query"})
    BY <1>5, <2>3, GoroutinesCounted
  <2> QED
    BY <1>5, <2>1, <2>3, <2>4, <2>5, <2>6, <2>7 DEF Balance
<1>8. ErrorsLeft
  <2>1. Left = {}
    BY <1>3, <1>4 DEF Left, Unused
  <2>2. Cardinality(Left) = 0
    BY <2>1, FS_EmptySet
  <2> QED
    BY <1>2, <1>5, <2>2 DEF ErrorsLeft
<1>9. \A r \in Goroutines : RecOK(req[r])
  BY <1>3, <1>4 DEF RecOK
<1> QED
  BY <1>6, <1>7, <1>8, <1>9 DEF HttpInv

\* Nothing changes when nothing happens.
LEMMA HttpStutter == ASSUME HttpInv, UNCHANGED hsvars PROVE HttpInv'
<1>1. /\ inflight' = inflight /\ requests' = requests /\ panics' = panics
      /\ dbErrors' = dbErrors /\ spans' = spans /\ badSpans' = badSpans /\ logged' = logged
      /\ req' = req /\ started' = started /\ departed' = departed
  BY DEF hsvars
<1>2. Counters' /\ ErrorsLeft' /\ \A r \in Goroutines : RecOK(req[r])'
  BY <1>1 DEF HttpInv, Counters, ErrorsLeft, Left
<1>3. Completed' = Completed /\ Deserted' = Deserted /\ \A S : Num(S)' = Num(S)
  BY <1>1 DEF Completed, Deserted, Num, At
<1>4. Balance'
  BY <1>1, <1>3 DEF HttpInv, Balance
<1> QED
  BY <1>2, <1>4 DEF HttpInv

\* No step breaks the invariant.
LEMMA HttpNextInv == ASSUME HttpInv, [HSNext]_hsvars PROVE HttpInv'
<1>1. CASE UNCHANGED hsvars
  BY <1>1, HttpStutter
<1>2. ASSUME NEW r \in Goroutines, NEW host \in Hosts, NEW param \in Params,
             NEW route \in Routes, Receive(r, host, param, route)
      PROVE  HttpInv'
  BY <1>2, ReceiveInv
<1>3. ASSUME NEW r \in Goroutines, GetBySlug(r) PROVE HttpInv'
  BY <1>3, GetBySlugInv
<1>4. ASSUME NEW r \in Goroutines, Route(r) PROVE HttpInv'
  BY <1>4, RouteInv
<1>5. ASSUME NEW r \in Goroutines, QueryStart(r) PROVE HttpInv'
  BY <1>5, QueryStartInv
<1>6. ASSUME NEW r \in Goroutines, NEW op \in Ops, NEW result \in ResultsOf(op),
             Query(r, op, result)
      PROVE  HttpInv'
  BY <1>6, QueryInv
<1>7. ASSUME NEW r \in Goroutines, NEW status \in Statuses, WriteHeader(r, status)
      PROVE  HttpInv'
  BY <1>7, WriteHeaderInv
<1>8. ASSUME NEW r \in Goroutines, HandlerReturns(r) PROVE HttpInv'
  BY <1>8, HandlerReturnsInv
<1>9. ASSUME NEW r \in Goroutines, ClientLeaves(r) PROVE HttpInv'
  BY <1>9, ClientLeavesInv
<1>10. ASSUME NEW r \in Goroutines, RenderFails(r) PROVE HttpInv'
  BY <1>10, RenderFailsInv
<1>11. ASSUME NEW r \in Goroutines, HandlerPanics(r) PROVE HttpInv'
  BY <1>11, HandlerPanicsInv
<1>12. ASSUME NEW r \in Goroutines, Log(r) PROVE HttpInv'
  BY <1>12, LogInv
<1>13. ASSUME NEW r \in Goroutines, Count(r) PROVE HttpInv'
  BY <1>13, CountInv
<1>14. ASSUME NEW r \in Goroutines, Dec(r) PROVE HttpInv'
  BY <1>14, DecInv
<1>15. ASSUME NEW r \in Goroutines, Recover(r) PROVE HttpInv'
  BY <1>15, RecoverInv
<1>16. ASSUME NEW r \in Goroutines, EndSpan(r) PROVE HttpInv'
  BY <1>16, EndSpanInv
<1> QED
  BY <1>1, <1>2, <1>3, <1>4, <1>5, <1>6, <1>7, <1>8, <1>9, <1>10, <1>11, <1>12, <1>13, <1>14,
     <1>15, <1>16
     DEF HSNext

\* HttpInv implies what the runs check: no gauge and no counter leaves its range.
LEMMA HttpInvType == ASSUME HttpInv PROVE HSTypeOK
<1>1. /\ Num(Outside) \in Nat /\ Num(Outside) <= Cardinality(Goroutines)
      /\ Num(Closed) \in Nat /\ Num(Closed) <= Cardinality(Goroutines)
      /\ Num({"idle"}) \in Nat /\ Num({"idle"}) <= Cardinality(Goroutines)
      /\ Num({"query"}) \in Nat /\ Num({"query"}) <= Cardinality(Goroutines)
      /\ Num({"count"}) \in Nat /\ Cardinality(Goroutines) \in Nat
  BY NumType, GoroutinesCounted
<1>2. /\ started \in Nat /\ started <= MaxRequests /\ panics \in Nat /\ dbErrors \in Nat
      /\ logged \in Nat /\ MaxRequests \in Nat /\ MaxQueries \in Nat
      /\ requests \in [Classes -> Nat] /\ req \in [Goroutines -> Request]
      /\ departed \in Nat
  BY ConstantsAssumption DEF HttpInv, Counters
<1>3. Completed \in Nat
  BY <1>2 DEF Completed, Classes
<1>4. inflight \in 0 .. Cardinality(Goroutines)
  BY <1>1 DEF HttpInv, Balance
<1>5. spans \in 0 .. 2 * Cardinality(Goroutines)
  BY <1>1 DEF HttpInv, Balance
<1>6. Completed <= MaxRequests /\ panics <= MaxRequests
  BY <1>1, <1>2, <1>3 DEF HttpInv, Balance
<1>7. requests \in [Classes -> 0 .. MaxRequests]
  <2>1. /\ requests["2xx"] \in Nat /\ requests["3xx"] \in Nat /\ requests["4xx"] \in Nat
        /\ requests["5xx"] \in Nat /\ requests["unknown"] \in Nat
    BY <1>2 DEF Classes
  <2>2. Completed = requests["2xx"] + requests["3xx"] + requests["4xx"]
                        + requests["5xx"] + requests["unknown"]
    BY DEF Completed
  <2>3. /\ requests["2xx"] \in 0 .. MaxRequests /\ requests["3xx"] \in 0 .. MaxRequests
        /\ requests["4xx"] \in 0 .. MaxRequests /\ requests["5xx"] \in 0 .. MaxRequests
        /\ requests["unknown"] \in 0 .. MaxRequests
    BY <1>2, <1>6, <2>1, <2>2
  <2>4. \A c \in Classes : requests[c] \in 0 .. MaxRequests
    BY <2>3 DEF Classes
  <2> QED
    BY <1>2, <2>4
<1>8. dbErrors \in 0 .. MaxRequests * MaxQueries /\ badSpans \in 0 .. MaxRequests * MaxQueries
  <2>1. dbErrors + Cardinality(Left) <= started * MaxQueries /\ dbErrors = badSpans
    BY DEF HttpInv, ErrorsLeft, Balance
  <2>2. /\ started * MaxQueries \in Nat /\ MaxRequests * MaxQueries \in Nat
        /\ started * MaxQueries <= MaxRequests * MaxQueries
    <3>1. PICK d \in Nat : MaxRequests = started + d
      <4>1. MaxRequests - started \in Nat /\ MaxRequests = started + (MaxRequests - started)
        BY <1>2
      <4> QED
        BY <4>1
    <3>2. (started + d) * MaxQueries = started * MaxQueries + d * MaxQueries
      BY <1>2
    <3>3. started * MaxQueries \in Nat /\ d * MaxQueries \in Nat
      BY <1>2
    <3> QED
      BY <3>1, <3>2, <3>3
  <2> QED
    BY <1>2, <2>1, <2>2, LeftType
<1>9. logged \in 0 .. MaxRequests
  <2>1. At({"count"}) \cap At(Closed) = {}
    BY DEF At, Closed
  <2>2. Num({"count"}) + Num(Closed) <= Cardinality(Goroutines)
    <3>1. /\ IsFiniteSet(At({"count"})) /\ IsFiniteSet(At(Closed))
          /\ Cardinality(At({"count"})) = Num({"count"})
          /\ Cardinality(At(Closed)) = Num(Closed)
      BY NumType DEF Num
    <3>2. Cardinality(At({"count"}) \cup At(Closed)) = Num({"count"}) + Num(Closed)
      <4>1. Cardinality(At({"count"}) \cup At(Closed))
              = Cardinality(At({"count"})) + Cardinality(At(Closed))
                  - Cardinality(At({"count"}) \cap At(Closed))
        BY <3>1, FS_Union
      <4>2. Cardinality(At({"count"}) \cap At(Closed)) = 0
        BY <2>1, FS_EmptySet
      <4> QED
        BY <1>1, <3>1, <4>1, <4>2
    <3>3. At({"count"}) \cup At(Closed) \in SUBSET Goroutines
      BY DEF At
    <3>4. Cardinality(At({"count"}) \cup At(Closed)) <= Cardinality(Goroutines)
      BY <3>3, ConstantsAssumption, FS_Subset
    <3> QED
      BY <3>2, <3>4
  <2> QED
    BY <1>1, <1>2, <1>3, <2>2 DEF HttpInv, Balance
<1>10. started \in 0 .. MaxRequests /\ panics \in 0 .. MaxRequests
  BY <1>2, <1>6
<1> QED
  BY <1>2, <1>4, <1>5, <1>7, <1>8, <1>9, <1>10 DEF HSTypeOK

\* The invariant HttpInv holds, of the stack's gauges, counters and requests.
THEOREM HttpInvariance == HSSpec => []HttpInv
<1>1. HSInit => HttpInv
  BY HttpInitInv
<1>2. HttpInv /\ [HSNext]_hsvars => HttpInv'
  BY HttpNextInv
<1> QED
  BY <1>1, <1>2, PTL DEF HSSpec

\* Every variable of the stack keeps its shape and its range, however many
\* requests there are: RequestLogger, HTTPMetrics, Tracing and the repository.
THEOREM HttpTypeCorrect == HSSpec => []HSTypeOK
<1>1. HttpInv => HSTypeOK
  BY HttpInvType
<1> QED
  BY <1>1, HttpInvariance, PTL

\* The gauge and counters of HTTPMetrics and RecoveringPanicCounter, the log,
\* the spans and the statements' errors account for every request, whatever
\* panics; requests that go without a status, and are counted as unknown, are
\* ones whose client has left.
THEOREM RequestsAccounted == HSSpec => []Accounted
<1>1. ASSUME HttpInv PROVE Accounted
  <2>1. \A r \in At({"log", "count", "dec", "end"}) : req[r].status # 0 \/ req[r].gone
    BY <1>1 DEF HttpInv, RecOK, At
  <2>2. /\ inflight = Cardinality(Goroutines) - Cardinality(At({"idle", "recover", "end"}))
        /\ started = Completed + panics + Cardinality(Goroutines)
                        - Cardinality(At({"idle", "dec", "end"}))
        /\ logged = Completed + Cardinality(At({"count"}))
        /\ spans = Cardinality(Goroutines) - Cardinality(At({"idle"}))
                      + Cardinality(At({"query"}))
    BY <1>1 DEF HttpInv, Balance, Num, Outside, Closed
  <2>3. dbErrors = badSpans /\ requests["unknown"] + Cardinality(Deserted) <= departed
    BY <1>1 DEF HttpInv, Balance
  <2> QED
    BY <2>1, <2>2, <2>3 DEF Accounted
<1> QED
  BY <1>1, HttpInvariance, PTL

\* TenantMiddleware gives a request no tenant but one it names itself, and
\* RequireTenantID lets none without one through.
THEOREM TenantOfRequest == HSSpec => []TenantFromOwnRequest
<1>1. HttpInv => TenantFromOwnRequest
  BY DEF HttpInv, RecOK, At, TenantFromOwnRequest
<1> QED
  BY <1>1, HttpInvariance, PTL

=============================================================================
