--------------------------- MODULE PasswordReset ---------------------------
(***************************************************************************)
(* Password reset: POST /auth/forgot-password and /auth/reset-password     *)
(* (internal/service/auth.go) over the keys auth:reset:<sha256 of token>   *)
(* of internal/repository/redis/session.go and the password column of the  *)
(* users table.                                                            *)
(*                                                                         *)
(* Consuming a token is the pipeline GET; DEL, two steps here, before the  *)
(* password is updated.  Redis commands may fail or lose their answer, the *)
(* mail may not arrive, the update may fail, the process may die.          *)
(***************************************************************************)
EXTENDS Redis, FiniteSets

CONSTANTS
    Requests,   \* request goroutines
    Users,      \* rows of the users table
    Tokens,     \* reset tokens that can be generated
    ResetTTL,   \* passwordResetTTL
    MaxClock,   \* bound on time
    Faults      \* how Redis commands may fail: a subset of {"lost", "failed"}

ASSUME NoneAssumption == None \notin Users /\ None \notin Tokens
ASSUME RequestsAssumption == IsFiniteSet(Requests)
ASSUME ResetTTLAssumption == ResetTTL \in Nat \ {0}
ASSUME ClockAssumption == MaxClock \in Nat
ASSUME FaultAssumption == Faults \subseteq {"lost", "failed"}

VARIABLES
    clock,     \* the time
    owner,     \* Tokens -> the user it was generated for
    mailed,    \* tokens that reached their user by mail
    reset,     \* auth:reset:<sha256 of token> -> user
    password,  \* Users -> the token whose reset set it; None before any
    req,       \* Requests -> local state of the goroutine
    spent,     \* history: tokens deleted from Redis
    uses       \* history: Tokens -> how many resets have updated a password with it

vars == <<clock, owner, mailed, reset, password, req, spent, uses>>

RedisOutcomes == {"ok"} \cup Faults

Pcs == {"idle", "store", "mail", "del", "update"}

Idle == [pc |-> "idle", user |-> None, tok |-> None]

Request == [pc: Pcs \ {"idle"}, user: Users, tok: Tokens] \cup {Idle}

Init ==
    /\ clock = 0
    /\ owner = [t \in Tokens |-> None]
    /\ mailed = {}
    /\ reset = [t \in Tokens |-> NoKey]
    /\ password = [u \in Users |-> None]
    /\ req = [r \in Requests |-> Idle]
    /\ spent = {}
    /\ uses = [t \in Tokens |-> 0]

Answer(r) == req' = [req EXCEPT ![r] = Idle]

Goto(r, l) == req' = [req EXCEPT ![r].pc = l]

-----------------------------------------------------------------------------
(***************************************************************************)
(* ForgotPassword.  An address without a row is answered 200 and changes   *)
(* nothing.                                                                *)
(***************************************************************************)
ForgotPassword(r, u) ==
    /\ req[r].pc = "idle"
    /\ \E t \in Tokens :
        /\ owner[t] = None
        /\ owner' = [owner EXCEPT ![t] = u]
        /\ req' = [req EXCEPT ![r] = [pc |-> "store", user |-> u, tok |-> t]]
    /\ UNCHANGED <<clock, mailed, reset, password, spent, uses>>

\* Mutant: the mail is sent even if the token could not be stored.
StoreUnchecked(r) ==
    /\ req[r].pc = "store"
    /\ \E o \in RedisOutcomes :
        reset' = IF Executed(o)
                 THEN [reset EXCEPT ![req[r].tok] = SetKey(req[r].user, clock, ResetTTL)]
                 ELSE reset
    /\ Goto(r, "mail")
    /\ UNCHANGED <<clock, owner, mailed, password, spent, uses>>

StorePasswordResetToken(r) ==
    /\ req[r].pc = "store"
    /\ \E o \in RedisOutcomes :
        /\ reset' = IF Executed(o)
                    THEN [reset EXCEPT ![req[r].tok] = SetKey(req[r].user, clock, ResetTTL)]
                    ELSE reset
        /\ IF o = "ok" THEN Goto(r, "mail") ELSE Answer(r)
    /\ UNCHANGED <<clock, owner, mailed, password, spent, uses>>

\* A mail that cannot be sent is only logged; the answer is 200 regardless.
SendPasswordReset(r) ==
    /\ req[r].pc = "mail"
    /\ mailed' \in {mailed, mailed \cup {req[r].tok}}
    /\ Answer(r)
    /\ UNCHANGED <<clock, owner, reset, password, spent, uses>>

-----------------------------------------------------------------------------
(***************************************************************************)
(* ResetPassword.  A password that is too short, a token that is unknown,  *)
(* expired or used, and a failing GET are answered 400 with nothing        *)
(* changed.                                                                *)
(***************************************************************************)
ResetRefused(r) ==
    /\ req[r].pc = "idle"
    /\ UNCHANGED vars

\* Mutant: redis.Nil is not taken for an error.
ConsumeGetAny(r, t) ==
    /\ req[r].pc = "idle"
    /\ t \in mailed
    /\ req' = [req EXCEPT ![r] = [pc |-> "del", user |-> reset[t].val, tok |-> t]]
    /\ UNCHANGED <<clock, owner, mailed, reset, password, spent, uses>>

\* The GET of ConsumePasswordResetToken.
ConsumeGet(r, t) ==
    /\ req[r].pc = "idle"
    /\ t \in mailed
    /\ LiveKey(reset[t], clock)
    /\ req' = [req EXCEPT ![r] = [pc |-> "del", user |-> reset[t].val, tok |-> t]]
    /\ UNCHANGED <<clock, owner, mailed, reset, password, spent, uses>>

\* Mutant: the error of the pipeline is not looked at.
ConsumeDelUnchecked(r) ==
    /\ req[r].pc = "del"
    /\ reset' \in {reset, [reset EXCEPT ![req[r].tok] = NoKey]}
    /\ Goto(r, "update")
    /\ UNCHANGED <<clock, owner, mailed, password, spent, uses>>

\* Mutant: the token is only read.
ConsumeDelOmitted(r) ==
    /\ req[r].pc = "del"
    /\ Goto(r, "update")
    /\ UNCHANGED <<clock, owner, mailed, reset, password, spent, uses>>

\* The DEL of ConsumePasswordResetToken; an error of the pipeline is a 400.
ConsumeDel(r) ==
    /\ req[r].pc = "del"
    /\ \E o \in RedisOutcomes :
        /\ IF Executed(o)
           THEN /\ reset' = [reset EXCEPT ![req[r].tok] = NoKey]
                /\ spent' = spent \cup {req[r].tok}
           ELSE UNCHANGED <<reset, spent>>
        /\ IF o = "ok" THEN Goto(r, "update") ELSE Answer(r)
    /\ UNCHANGED <<clock, owner, mailed, password, uses>>

\* UpdatePassword of the user the token named, or the 500 of a failing update.
ResetUpdate(r) ==
    /\ req[r].pc = "update"
    /\ \/ /\ password' = [password EXCEPT ![req[r].user] = req[r].tok]
          /\ uses' = [uses EXCEPT ![req[r].tok] = @ + 1]
       \/ UNCHANGED <<password, uses>>
    /\ Answer(r)
    /\ UNCHANGED <<clock, owner, mailed, reset, spent>>

-----------------------------------------------------------------------------
Tick ==
    /\ clock < MaxClock
    /\ clock' = clock + 1
    /\ UNCHANGED <<owner, mailed, reset, password, req, spent, uses>>

Crash ==
    /\ \E r \in Requests : req[r].pc # "idle"
    /\ req' = [r \in Requests |-> Idle]
    /\ UNCHANGED <<clock, owner, mailed, reset, password, spent, uses>>

Next ==
    \/ \E r \in Requests :
        \/ \E u \in Users : ForgotPassword(r, u)
        \/ StorePasswordResetToken(r)
        \/ SendPasswordReset(r)
        \/ ResetRefused(r)
        \/ \E t \in Tokens : ConsumeGet(r, t)
        \/ ConsumeDel(r)
        \/ ResetUpdate(r)
    \/ Tick
    \/ Crash

Spec == Init /\ [][Next]_vars

-----------------------------------------------------------------------------
\* Every variable keeps its shape.
TypeOK ==
    /\ clock \in Nat
    /\ owner \in [Tokens -> Users \cup {None}]
    /\ mailed \subseteq Tokens
    /\ reset \in [Tokens -> [val: Users \cup {None}, exp: Nat]]
    /\ password \in [Users -> Tokens \cup {None}]
    /\ req \in [Requests -> Request]
    /\ spent \subseteq Tokens
    /\ uses \in [Tokens -> Nat]

\* The token is consumed before the update: when a password is about to be or
\* has been changed with a token, the token is gone from Redis for good, so it
\* cannot be used again even if the update fails or the process dies.
ConsumedBeforeUpdate ==
    \A t \in Tokens :
        (\/ t \in spent
         \/ uses[t] > 0
         \/ \E r \in Requests : req[r].pc = "update" /\ req[r].tok = t)
            => reset[t] = NoKey

\* The link in the mail works: until a reset deletes it, a mailed token is
\* stored for its user, however many other requests fail in between.
MailedTokenUsable == \A t \in mailed \ spent : reset[t].val = owner[t]

\* Two requests that both GET the token before either deletes it both update
\* the password, but never more of them than can be in flight at once.
UsesBounded == \A t \in Tokens : uses[t] <= Cardinality(Requests)

=============================================================================
