------------------------------ MODULE Lockout ------------------------------
(***************************************************************************)
(* Brute-force lockout: POST /auth/login up to the verdict on the          *)
(* password, as concurrent requests run it (internal/service/auth.go,      *)
(* Login) over the counter auth:lockout:<sha256 of email> of               *)
(* internal/repository/redis/session.go.                                   *)
(*                                                                         *)
(* The check, the comparison, INCR, EXPIRE and the DEL after a success are *)
(* separate steps of a request.  Time is the countdown of each key's TTL,  *)
(* as the TTL command reports it, so that it never runs out.  A request    *)
(* that dies with the process does to the counter what a failed command    *)
(* does, so the process itself is not modelled.                            *)
(***************************************************************************)
EXTENDS Integers, FiniteSets

CONSTANTS
    Requests,   \* request goroutines
    Emails,     \* addresses clients try
    Accounts,   \* those a user row exists for
    Threshold,  \* loginLockoutThreshold (10 in the code)
    Window,     \* loginLockoutWindow, in ticks
    MaxFaults   \* bound on the Redis commands that fail

ASSUME AccountsAssumption == Accounts \subseteq Emails
ASSUME RequestsAssumption == IsFiniteSet(Requests)
ASSUME ThresholdAssumption == Threshold \in Nat \ {0}
ASSUME WindowAssumption == Window \in Nat \ {0}
ASSUME MaxFaultsAssumption == MaxFaults \in Nat

NoTTL == -1   \* what TTL answers for a key without expiry

VARIABLES
    count,    \* value of the counter key; 0 when there is no key
    ttl,      \* its time to live; NoTTL for a key without one
    pc,       \* Requests -> where the request stands
    email,    \* Requests -> the address it tries, meaningless while idle
    faults,   \* Redis commands that failed so far
    guesses   \* history: wrong passwords compared since the key was last absent

vars == <<count, ttl, pc, email, faults, guesses>>

Init ==
    /\ count = [e \in Emails |-> 0]
    /\ ttl = [e \in Emails |-> NoTTL]
    /\ pc = [r \in Requests |-> "idle"]
    /\ email \in [Requests -> Emails]
    /\ faults = 0
    /\ guesses = [e \in Emails |-> 0]

-----------------------------------------------------------------------------
(***************************************************************************)
(* Redis.  A command is answered, or uses up one of MaxFaults.             *)
(***************************************************************************)
Succeeds == UNCHANGED faults

Fails == faults < MaxFaults /\ faults' = faults + 1

DropKey(e) ==
    /\ count' = [count EXCEPT ![e] = 0]
    /\ ttl' = [ttl EXCEPT ![e] = NoTTL]
    /\ guesses' = [guesses EXCEPT ![e] = 0]

\* Mutant: one failure too many.
IsLockedOutLate(e) == count[e] > Threshold

IsLockedOut(e) == count[e] >= Threshold

Goto(r, l) == pc' = [pc EXCEPT ![r] = l]

-----------------------------------------------------------------------------
(***************************************************************************)
(* Login.                                                                  *)
(***************************************************************************)
\* Mutant: a refused attempt counts as a failure and renews the window.
LoginLockedRenews(r, e) ==
    /\ pc[r] = "idle"
    /\ IsLockedOut(e)
    /\ ttl' = [ttl EXCEPT ![e] = Window]
    /\ UNCHANGED <<count, pc, email, faults, guesses>>

\* The check says locked: 429, nothing else happens.
LoginLocked(r, e) ==
    /\ pc[r] = "idle"
    /\ IsLockedOut(e)
    /\ UNCHANGED vars

\* The check says not locked, or fails and is only logged; then the user is
\* fetched and the password compared.  Without a row (no such address, or the
\* database fails) the answer is 401 at once and no counter is touched.
LoginUnknown(r, e) ==
    /\ pc[r] = "idle"
    /\ \/ ~IsLockedOut(e) /\ Succeeds
       \/ Fails
    /\ UNCHANGED <<count, ttl, pc, email, guesses>>

LoginCompare(r, e, right) ==
    /\ pc[r] = "idle"
    /\ \/ ~IsLockedOut(e) /\ Succeeds
       \/ Fails
    /\ e \in Accounts
    /\ email' = [email EXCEPT ![r] = e]
    /\ Goto(r, IF right THEN "clear" ELSE "incr")
    /\ guesses' = IF right THEN guesses ELSE [guesses EXCEPT ![e] = @ + 1]
    /\ UNCHANGED <<count, ttl>>

\* IncrLoginFailure, a pipeline: INCR, which keeps a TTL the key has.  A cut
\* before INCR counts nothing, a cut after it leaves EXPIRE out; the caller
\* logs the error and answers 401 either way.
LoginIncr(r) ==
    /\ pc[r] = "incr"
    /\ \/ /\ Succeeds
          /\ count' = [count EXCEPT ![email[r]] = @ + 1]
          /\ Goto(r, "expire")
       \/ /\ Fails
          /\ count' \in {count, [count EXCEPT ![email[r]] = @ + 1]}
          /\ Goto(r, "idle")
    /\ UNCHANGED <<ttl, email, guesses>>

\* Mutant: the window in the wrong unit.
LoginExpireUnit(r) ==
    /\ pc[r] = "expire"
    /\ Succeeds
    /\ ttl' = [ttl EXCEPT ![email[r]] = 1000 * Window]
    /\ Goto(r, "idle")
    /\ UNCHANGED <<count, email, guesses>>

\* Mutant: EXPIRE only for the first failure the pipeline counted.
LoginExpireFirst(r) ==
    /\ pc[r] = "expire"
    /\ Succeeds
    /\ ttl' = IF count[email[r]] = 1 THEN [ttl EXCEPT ![email[r]] = Window] ELSE ttl
    /\ Goto(r, "idle")
    /\ UNCHANGED <<count, email, guesses>>

\* ... then EXPIRE, which does nothing when the key is gone by now.
LoginExpire(r) ==
    /\ pc[r] = "expire"
    /\ \/ /\ Succeeds
          /\ ttl' = IF count[email[r]] = 0 THEN ttl ELSE [ttl EXCEPT ![email[r]] = Window]
       \/ Fails /\ UNCHANGED ttl
    /\ Goto(r, "idle")
    /\ UNCHANGED <<count, email, guesses>>

\* ClearLoginFailures: DEL; an error is only logged and the login goes on.
LoginClear(r) ==
    /\ pc[r] = "clear"
    /\ \/ Succeeds /\ DropKey(email[r])
       \/ Fails /\ (DropKey(email[r]) \/ UNCHANGED <<count, ttl, guesses>>)
    /\ Goto(r, "idle")
    /\ UNCHANGED email

-----------------------------------------------------------------------------
\* Time passes: a key whose TTL runs out is gone.
Tick ==
    LET gone == {e \in Emails : ttl[e] = 1}
    IN  /\ \E e \in Emails : ttl[e] > 0
        /\ count' = [e \in Emails |-> IF e \in gone THEN 0 ELSE count[e]]
        /\ ttl' = [e \in Emails |-> IF e \in gone THEN NoTTL
                                    ELSE IF ttl[e] > 0 THEN ttl[e] - 1 ELSE ttl[e]]
        /\ guesses' = [e \in Emails |-> IF e \in gone THEN 0 ELSE guesses[e]]
        /\ UNCHANGED <<pc, email, faults>>

Arrive(r) ==
    \E e \in Emails :
        \/ LoginLocked(r, e)
        \/ LoginUnknown(r, e)
        \/ \E right \in BOOLEAN : LoginCompare(r, e, right)

Proceed(r) == LoginIncr(r) \/ LoginExpire(r) \/ LoginClear(r)

Next ==
    \/ \E r \in Requests : Arrive(r) \/ Proceed(r)
    \/ Tick

Spec == Init /\ [][Next]_vars

(***************************************************************************)
(* Goroutines are scheduled, commands return, and time passes.             *)
(***************************************************************************)
FairSpec == Spec /\ WF_vars(Tick) /\ \A r \in Requests : WF_vars(Proceed(r))

-----------------------------------------------------------------------------
\* Every variable keeps its shape.
TypeOK ==
    /\ count \in [Emails -> Nat]
    /\ ttl \in [Emails -> {NoTTL} \cup (1 .. Window)]
    /\ pc \in [Requests -> {"idle", "incr", "expire", "clear"}]
    /\ email \in [Requests -> Emails]
    /\ faults \in 0 .. MaxFaults
    /\ guesses \in [Emails -> Nat]

\* Lockout bounds guessing: since its counter was last absent, an address has
\* had at most Threshold - 1 wrong passwords compared, plus one for each
\* request that can be in flight at once (the check and INCR are not atomic),
\* plus one for each Redis command that failed (the check fails open, INCR may
\* be lost).
GuessesBounded ==
    \A e \in Emails : guesses[e] <= Threshold - 1 + Cardinality(Requests) + faults

\* The counter expires automatically as long as no command fails: whatever
\* DELs and expiries fall between the INCR and the EXPIRE of a pipeline, a key
\* that exists has a TTL or a request that is about to give it one.
CounterExpires ==
    \A e \in Emails :
        count[e] > 0 =>
            \/ ttl[e] # NoTTL
            \/ \E r \in Requests : pc[r] = "expire" /\ email[r] = e
            \/ faults > 0

\* A locked account is not locked for ever: however INCR, EXPIRE and DEL of
\* other requests interleave, its counter has a TTL, and as clients keep
\* trying the window still runs out, because refused attempts do not extend
\* it.  (Unless a Redis command fails: then EXPIRE may never have been run.)
LockLifts == \A e \in Emails : IsLockedOut(e) ~> (~IsLockedOut(e) \/ faults > 0)

=============================================================================
