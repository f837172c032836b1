----------------------------- MODULE Sessions ------------------------------
(***************************************************************************)
(* Session tokens: POST /auth/login, /auth/refresh, /auth/logout and the   *)
(* JWT check of every protected route, as served by concurrent request     *)
(* goroutines of internal/handler, internal/service/auth.go and            *)
(* internal/middleware/jwt.go over the Redis keys of                       *)
(* internal/repository/redis/session.go.                                   *)
(*                                                                         *)
(* One action is the code between two accesses to Redis, Postgres or the   *)
(* signing keys; any command on Redis may fail or lose its answer, and the *)
(* API process may die at any point.  A TokenPair is one identifier of     *)
(* Ids: it stands both for the jti of the access token and for the refresh *)
(* token generated with it, each fresh and unguessable.  Checking the      *)
(* password belongs to Lockout.tla; here a login starts once it is right.  *)
(***************************************************************************)
EXTENDS Redis, FiniteSets

CONSTANTS
    Requests,     \* request goroutines
    Users,        \* rows of the users table
    Ids,          \* token pairs that can be generated
    AccessTTL,    \* JWT_ACCESS_TOKEN_TTL_MINUTES
    RefreshTTL,   \* JWT_REFRESH_TOKEN_TTL_DAYS; 0 stores keys without expiry
    MaxClock,     \* bound on time
    Routes,       \* what clients ask for: a subset of Operations
    Faults        \* how Redis commands may fail: a subset of {"lost", "failed"}

ASSUME NoneAssumption == None \notin Users \cup Ids \cup {"1"}
ASSUME TTLAssumption == AccessTTL \in Nat \ {0} /\ RefreshTTL \in Nat
ASSUME ClockAssumption == MaxClock \in Nat
Operations == {"login", "refresh", "call", "logout"}

ASSUME RouteAssumption == Routes \subseteq Operations
ASSUME FaultAssumption == Faults \subseteq {"lost", "failed"}

(***************************************************************************)
(* The configuration does not check it, but a revoked access token stays   *)
(* revoked only if its blocklist key, stored with RefreshTTL, outlives it. *)
(***************************************************************************)
ASSUME BlocklistTTLAssumption == RefreshTTL = 0 \/ RefreshTTL >= AccessTTL

VARIABLES
    clock,      \* the time
    issued,     \* Ids -> the claims of the pair and the refresh it came from
    sent,       \* pairs returned to a client with status 200
    refresh,    \* auth:refresh:<sha256 of token> -> user
    blocklist,  \* auth:blocklist:<jti>
    req,        \* Requests -> local state of the goroutine
    revoked,    \* history: jtis whose BlocklistJTI returned no error
    spent,      \* history: refresh tokens deleted by a rotation or a logout
    ended       \* history: sessions a logout returned 204 for that held their
                \* only token and overlapped no refresh of it

vars == <<clock, issued, sent, refresh, blocklist, req, revoked, spent, ended>>

RedisOutcomes == {"ok"} \cup Faults

-----------------------------------------------------------------------------
(***************************************************************************)
(* Types and initial state.                                                *)
(***************************************************************************)
Pcs == {"idle", "store", "lookup", "del", "set", "check", "serve", "block", "revoke"}

Pair == [user: Users \cup {None}, exp: Nat, parent: Ids \cup {None}, root: Ids \cup {None}]

NotIssued == [user |-> None, exp |-> 0, parent |-> None, root |-> None]

Key == [val: Users \cup {None}, exp: Nat]

BlockKey == [val: {"1", None}, exp: Nat]

(***************************************************************************)
(* Local state of a request: user is who it acts for, id the pair it has   *)
(* generated, tok the refresh_token cookie, jti the access token's claim,  *)
(* open whether the blocklist check failed open.  sess only records, for   *)
(* the properties, the session whose current token a logout presented.     *)
(***************************************************************************)
Request == [pc: Pcs, op: Operations \cup {"none"},
            user: Users \cup {None}, id: Ids \cup {None}, tok: Ids \cup {None},
            jti: Ids \cup {None}, open: BOOLEAN, sess: Ids \cup {None}]

Idle == [pc |-> "idle", op |-> "none", user |-> None, id |-> None, tok |-> None,
         jti |-> None, open |-> FALSE, sess |-> None]

Init ==
    /\ clock = 0
    /\ issued = [i \in Ids |-> NotIssued]
    /\ sent = {}
    /\ refresh = [i \in Ids |-> NoKey]
    /\ blocklist = [i \in Ids |-> NoKey]
    /\ req = [r \in Requests |-> Idle]
    /\ revoked = {}
    /\ spent = {}
    /\ ended = {}

-----------------------------------------------------------------------------
(***************************************************************************)
(* internal/auth/jwt.go.                                                   *)
(***************************************************************************)
\* jti := uuid.New(), exp := now + accessTTL; parent is the refresh token that
\* was exchanged for the pair, None for a login.
IssueAccessToken(i, u, p) ==
    issued' = [issued EXCEPT ![i] =
        [user |-> u, exp |-> clock + AccessTTL, parent |-> p,
         root |-> IF p = None THEN i ELSE issued[p].root]]

\* Mutant: only tokens stored at the moment are avoided.
IssueRefreshTokenReused(i) == refresh[i] = NoKey

\* 32 random bytes: a token never seen before.
IssueRefreshToken(i) == issued[i].user = None

\* An unexpired token signed here is accepted; a client holds only sent ones.
Verify(j) == j \in sent /\ clock < issued[j].exp

-----------------------------------------------------------------------------
(***************************************************************************)
(* internal/repository/redis/session.go.  Each operator is one command, o  *)
(* its outcome.                                                            *)
(***************************************************************************)
StoreRefreshToken(t, u, o) ==
    refresh' = IF Executed(o) THEN [refresh EXCEPT ![t] = SetKey(u, clock, RefreshTTL)]
                              ELSE refresh

\* GET: only an answered read of a live key finds the user.
ValidateRefreshToken(t, o) == o = "ok" /\ LiveKey(refresh[t], clock)

\* Mutant: a missing cookie is taken for a token.
RevokeRefreshTokenAny(t, o) ==
    /\ refresh' = IF Executed(o) THEN [refresh EXCEPT ![t] = NoKey] ELSE refresh
    /\ spent' = IF Executed(o) THEN spent \cup {t} ELSE spent

\* DEL; sha256("") names no key, so a missing cookie deletes nothing.
RevokeRefreshToken(t, o) ==
    IF Executed(o) /\ t # None
    THEN /\ refresh' = [refresh EXCEPT ![t] = NoKey]
         /\ spent' = spent \cup {t}
    ELSE UNCHANGED <<refresh, spent>>

\* Mutant: the TTL in the wrong unit, over before the next tick.
BlocklistJTIShort(j, o) ==
    /\ blocklist' = IF Executed(o) THEN [blocklist EXCEPT ![j] = [val |-> "1", exp |-> clock]]
                                   ELSE blocklist
    /\ revoked' = IF o = "ok" THEN revoked \cup {j} ELSE revoked

BlocklistJTI(j, o) ==
    /\ blocklist' = IF Executed(o)
                    THEN [blocklist EXCEPT ![j] = SetKey("1", clock, RefreshTTL)]
                    ELSE blocklist
    /\ revoked' = IF o = "ok" THEN revoked \cup {j} ELSE revoked

IsBlocklisted(j) == LiveKey(blocklist[j], clock)

-----------------------------------------------------------------------------
(***************************************************************************)
(* Answers.  SendPair is the 200 with the access token in the body and the *)
(* refresh token in the cookie.                                            *)
(***************************************************************************)
Answer(r) == req' = [req EXCEPT ![r] = Idle]

SendPair(r) == Answer(r) /\ sent' = sent \cup {req[r].id}

-----------------------------------------------------------------------------
(***************************************************************************)
(* POST /auth/login.                                                       *)
(***************************************************************************)
Login(r, u) ==
    /\ req[r].pc = "idle"
    /\ \E i \in Ids :
        /\ IssueRefreshToken(i)
        /\ IssueAccessToken(i, u, None)
        /\ req' = [req EXCEPT ![r] = [Idle EXCEPT !.pc = "store", !.op = "login",
                                                 !.user = u, !.id = i]]
    /\ UNCHANGED <<clock, sent, refresh, blocklist, revoked, spent, ended>>

\* Mutant: the error of the store is not looked at.
LoginStoreUnchecked(r) ==
    /\ req[r].pc = "store"
    /\ \E o \in RedisOutcomes : StoreRefreshToken(req[r].id, req[r].user, o)
    /\ SendPair(r)
    /\ UNCHANGED <<clock, issued, blocklist, revoked, spent, ended>>

LoginStore(r) ==
    /\ req[r].pc = "store"
    /\ \E o \in RedisOutcomes :
        /\ StoreRefreshToken(req[r].id, req[r].user, o)
        /\ IF o = "ok" THEN SendPair(r) ELSE Answer(r) /\ UNCHANGED sent
    /\ UNCHANGED <<clock, issued, blocklist, revoked, spent, ended>>

(***************************************************************************)
(* POST /auth/refresh: validate, look the user up, generate a pair, rotate.*)
(* A request whose cookie is missing, unknown or expired is answered 401   *)
(* with nothing changed; so is one whose user lookup finds no user or      *)
(* whose new tokens cannot be generated (500).                             *)
(***************************************************************************)
RefreshRefused(r) ==
    /\ req[r].pc = "idle"
    /\ \E t \in sent \cup {None}, o \in RedisOutcomes :
        ~(t # None /\ ValidateRefreshToken(t, o))
    /\ UNCHANGED vars

RefreshValidate(r, t) ==
    /\ req[r].pc = "idle"
    /\ t \in sent
    /\ ValidateRefreshToken(t, "ok")
    /\ req' = [req EXCEPT ![r] = [Idle EXCEPT !.pc = "lookup", !.op = "refresh",
                                             !.user = refresh[t].val, !.tok = t]]
    /\ UNCHANGED <<clock, issued, sent, refresh, blocklist, revoked, spent, ended>>

RefreshUserGone(r) ==
    /\ req[r].pc = "lookup"
    /\ Answer(r)
    /\ UNCHANGED <<clock, issued, sent, refresh, blocklist, revoked, spent, ended>>

RefreshIssue(r) ==
    /\ req[r].pc = "lookup"
    /\ \E i \in Ids :
        /\ IssueRefreshToken(i)
        /\ IssueAccessToken(i, req[r].user, req[r].tok)
        /\ req' = [req EXCEPT ![r].pc = "del", ![r].id = i]
    /\ UNCHANGED <<clock, sent, refresh, blocklist, revoked, spent, ended>>

(***************************************************************************)
(* RotateRefreshToken: the pipeline DEL old; SET new.  A pipeline cut after *)
(* DEL, or an answer lost, is the error that becomes status 500.           *)
(***************************************************************************)
RotateDel(r) ==
    /\ req[r].pc = "del"
    /\ \E o \in RedisOutcomes :
        /\ RevokeRefreshToken(req[r].tok, o)
        /\ IF o = "ok" THEN req' = [req EXCEPT ![r].pc = "set"] ELSE Answer(r)
    /\ UNCHANGED <<clock, issued, sent, blocklist, revoked, ended>>

RotateSet(r) ==
    /\ req[r].pc = "set"
    /\ \E o \in RedisOutcomes :
        /\ StoreRefreshToken(req[r].id, req[r].user, o)
        /\ IF o = "ok" THEN SendPair(r) ELSE Answer(r) /\ UNCHANGED sent
    /\ UNCHANGED <<clock, issued, blocklist, revoked, spent, ended>>

-----------------------------------------------------------------------------
(***************************************************************************)
(* The JWT middleware in front of every protected route, and the handlers  *)
(* behind it: POST /auth/logout, and any other ("call").  A logout may     *)
(* carry any refresh_token cookie, or none.                                *)
(***************************************************************************)
JWTRefused(r) ==
    /\ req[r].pc = "idle"
    /\ \E j \in Ids : ~Verify(j)
    /\ UNCHANGED vars

JWTVerify(r, j, op, t) ==
    /\ req[r].pc = "idle"
    /\ Verify(j)
    /\ req' = [req EXCEPT ![r] =
        [Idle EXCEPT !.pc = "check", !.op = op, !.user = issued[j].user, !.jti = j, !.tok = t,
                     !.sess = IF t # None /\ LiveKey(refresh[t], clock) THEN issued[t].root
                                                                       ELSE None]]
    /\ UNCHANGED <<clock, issued, sent, refresh, blocklist, revoked, spent, ended>>

\* A failed check lets the request through.
JWTCheck(r) ==
    /\ req[r].pc = "check"
    /\ \E o \in RedisOutcomes :
        IF o = "ok" /\ IsBlocklisted(req[r].jti)
        THEN Answer(r)
        ELSE req' = [req EXCEPT ![r].pc = IF req[r].op = "logout" THEN "block" ELSE "serve",
                                ![r].open = (o # "ok")]
    /\ UNCHANGED <<clock, issued, sent, refresh, blocklist, revoked, spent, ended>>

\* RateLimit or RateLimitUser, behind the JWT check, answers 429.
RateLimited(r) ==
    /\ req[r].pc \in {"serve", "block"}
    /\ Answer(r)
    /\ UNCHANGED <<clock, issued, sent, refresh, blocklist, revoked, spent, ended>>

Serve(r) ==
    /\ req[r].pc = "serve"
    /\ Answer(r)
    /\ UNCHANGED <<clock, issued, sent, refresh, blocklist, revoked, spent, ended>>

LogoutBlocklist(r) ==
    /\ req[r].pc = "block"
    /\ \E o \in RedisOutcomes :
        /\ BlocklistJTI(req[r].jti, o)
        /\ IF o = "ok" THEN req' = [req EXCEPT ![r].pc = "revoke"] ELSE Answer(r)
    /\ UNCHANGED <<clock, issued, sent, refresh, spent, ended>>

\* Token t is the only one its session s has stored, and no refresh of the
\* session is in flight.
SoleToken(t, s) ==
    /\ \A i \in Ids \ {t} : issued[i].root = s => refresh[i] = NoKey
    /\ \A q \in Requests : req[q].op = "refresh" => issued[req[q].tok].root # s

\* Mutant: only the access token is revoked.
LogoutRevokeOmitted(r) ==
    /\ req[r].pc = "revoke"
    /\ ended' = IF SoleToken(req[r].tok, req[r].sess) THEN ended \cup ({req[r].sess} \ {None})
                                                    ELSE ended
    /\ Answer(r)
    /\ UNCHANGED <<clock, issued, sent, refresh, blocklist, revoked, spent>>

LogoutRevoke(r) ==
    /\ req[r].pc = "revoke"
    /\ \E o \in RedisOutcomes :
        /\ RevokeRefreshToken(req[r].tok, o)
        /\ ended' = IF o = "ok" /\ SoleToken(req[r].tok, req[r].sess)
                    THEN ended \cup ({req[r].sess} \ {None}) ELSE ended
    /\ Answer(r)
    /\ UNCHANGED <<clock, issued, sent, blocklist, revoked>>

-----------------------------------------------------------------------------
(***************************************************************************)
(* Time, and the death of the API process: requests in flight are gone,    *)
(* Redis keeps its keys.                                                   *)
(***************************************************************************)
Tick ==
    /\ clock < MaxClock
    /\ clock' = clock + 1
    /\ UNCHANGED <<issued, sent, refresh, blocklist, req, revoked, spent, ended>>

Crash ==
    /\ \E r \in Requests : req[r].pc # "idle"
    /\ req' = [r \in Requests |-> Idle]
    /\ UNCHANGED <<clock, issued, sent, refresh, blocklist, revoked, spent, ended>>

\* A request arrives, or is refused at once.
Arrive(r) ==
    \/ "login" \in Routes /\ \E u \in Users : Login(r, u)
    \/ "refresh" \in Routes /\ RefreshRefused(r)
    \/ "refresh" \in Routes /\ \E t \in Ids : RefreshValidate(r, t)
    \/ JWTRefused(r)
    \/ "call" \in Routes /\ \E j \in Ids : JWTVerify(r, j, "call", None)
    \/ "logout" \in Routes /\ \E j \in Ids, t \in sent \cup {None} : JWTVerify(r, j, "logout", t)

\* A request in flight goes on.
Proceed(r) ==
    \/ LoginStore(r)
    \/ RefreshUserGone(r)
    \/ RefreshIssue(r)
    \/ RotateDel(r)
    \/ RotateSet(r)
    \/ JWTCheck(r)
    \/ RateLimited(r)
    \/ Serve(r)
    \/ LogoutBlocklist(r)
    \/ LogoutRevoke(r)

Next ==
    \/ \E r \in Requests : Arrive(r) \/ Proceed(r)
    \/ Tick
    \/ Crash

Spec == Init /\ [][Next]_vars

-----------------------------------------------------------------------------
(***************************************************************************)
(* Properties.                                                             *)
(***************************************************************************)
\* Every variable keeps its shape.
TypeOK ==
    /\ clock \in Nat
    /\ issued \in [Ids -> Pair]
    /\ sent \subseteq Ids
    /\ refresh \in [Ids -> Key]
    /\ blocklist \in [Ids -> BlockKey]
    /\ req \in [Requests -> Request]
    /\ revoked \subseteq Ids
    /\ spent \subseteq Ids
    /\ ended \subseteq Ids

\* Logout really ends an access token: once BlocklistJTI has succeeded for a
\* jti, the JWT middleware lets no request through with it for as long as the
\* token is unexpired, unless Redis fails to answer the check (fail open).
RevokedTokenRefused ==
    [][\A r \in Requests :
         /\ req[r].pc = "check"
         /\ req'[r].pc \in {"serve", "block"}
         /\ ~req'[r].open
         => ~(req[r].jti \in revoked /\ clock < issued[req[r].jti].exp)]_vars

\* A refresh token deleted by a rotation or by a logout is never readable
\* again, whatever requests were in flight with it and however they failed.
SpentTokenStaysDead == \A t \in spent : refresh[t] = NoKey

\* RotateRefreshToken leaves no stale token alive: from the moment the new
\* token is stored, and in particular when a client has it, the token it was
\* exchanged for is gone.
NewTokenOnlyAfterOldDeleted ==
    \A i \in Ids :
        issued[i].parent # None /\ (refresh[i] # NoKey \/ i \in sent)
            => refresh[issued[i].parent] = NoKey

\* A client is never left with a dead cookie: a token sent with status 200 and
\* neither rotated nor logged out since is stored for the user it was issued
\* to, for no less than RefreshTTL from when it was generated.
SentTokenHonoured ==
    \A t \in sent \ spent :
        /\ refresh[t].val = issued[t].user
        /\ \/ RefreshTTL = 0 /\ refresh[t].exp = 0
           \/ refresh[t].exp + AccessTTL >= issued[t].exp + RefreshTTL

\* Rotation never moves a session to another user: every pair of a session,
\* and every refresh key stored for one, belongs to the user who logged in.
SessionKeepsItsUser ==
    \A i \in Ids :
        /\ issued[i].user # None => issued[issued[i].root].user = issued[i].user
        /\ refresh[i] # NoKey => refresh[i].val = issued[i].user

\* The pairs sent in exchange for refresh token t.
Exchanges(t) == {i \in sent : issued[i].parent = t}

\* What the documentation says of concurrent refreshes: the second of two
\* receives 401, so that a token is exchanged at most once.
ExchangedOnce == \A t \in Ids : Cardinality(Exchanges(t)) <= 1

\* Logout ends the session: once a logout that presented the session's only
\* token has returned 204, no token of the session is valid again.  (A refresh
\* that overlaps the logout may still store a successor; SoleToken excludes
\* it.)
LogoutEndsSession ==
    \A s \in ended, i \in Ids : issued[i].root = s => ~LiveKey(refresh[i], clock)

(***************************************************************************)
(* Refinement: the life of a token, read off Redis and the histories.      *)
(***************************************************************************)
LifeOf(i) ==
    CASE i \in spent -> "dead"
      [] i \notin spent /\ refresh[i] # NoKey -> "live"
      [] i \notin spent /\ refresh[i] = NoKey /\ issued[i].user # None -> "held"
      [] OTHER -> "new"

TL == INSTANCE TokenLife WITH
          life <- [i \in Ids |-> LifeOf(i)],
          owner <- [i \in Ids |-> issued[i].user],
          parent <- [i \in Ids |-> issued[i].parent]

\* The requests, with their failing commands, crashes and races, do to the
\* tokens only what TokenLife allows: a token becomes valid once, after the
\* one it replaces is deleted, stays deleted, and keeps its user.
ImplementsTokenLife == TL!Spec

=============================================================================
