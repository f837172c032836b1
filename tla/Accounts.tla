------------------------------ MODULE Accounts ------------------------------
(***************************************************************************)
(* Who may do what to user accounts: the user and admin handlers           *)
(* (internal/handler/user.go, admin.go) and RequireRole                    *)
(* (internal/middleware/jwt.go) over the operations of UserStore.tla, with *)
(* the access tokens that Login and Refresh (internal/service/auth.go)     *)
(* issue from a user's row.                                                *)
(*                                                                         *)
(* The role checks read the role in the token, Refresh copies it from the  *)
(* cache and Login from the table, so a role is acted upon long after the  *)
(* table lost it: this module bounds how long.  Passwords, refresh tokens  *)
(* and revocation are Lockout's, PasswordReset's and Sessions' matter; a   *)
(* user who has logged in can refresh from then on.                        *)
(***************************************************************************)
EXTENDS UserStore

CONSTANTS
    SeedEmail,  \* SEED_ADMIN_EMAIL
    AccessTTL,  \* life of an access token, in ticks
    Latency,    \* bound on the ticks a request is in flight
    MaxTokens,  \* bound on the access tokens alive at once
    Queries     \* pairs <<page, per_page>> that listings ask for

ASSUME SeedAssumption == SeedEmail \in Emails
ASSUME TimeAssumption == AccessTTL \in Nat \ {0} /\ Latency \in Nat \ {0}
ASSUME MaxTokensAssumption == MaxTokens \in Nat
ASSUME QueriesAssumption == Queries \subseteq Int \X Int

VARIABLES
    tokens,    \* unexpired access tokens
    sessions,  \* users who hold a refresh token
    age,       \* Requests -> ticks in flight
    was        \* history: Users -> ticks since the row last had each of Facts

vars == <<storeVars, tokens, sessions, age, was>>

Token == [user: Users, role: Roles, via: {"login", "refresh"}, ttl: 1 .. AccessTTL]

\* What history remembers of a row: its role, and that it was active.
Facts == Roles \cup {"active"}

Has(u, f) == row[u] # None /\ (row[u].role = f \/ (f = "active" /\ row[u].active))

\* A row is read, cached within Latency, hit until the TTL ends and issued
\* from within Latency; the first tick after a fill already counts.
MaxLag == Latency + (CacheTTL - 1) + Latency

LongAgo == MaxLag + AccessTTL   \* ages are not counted beyond

Init ==
    /\ StoreInit
    /\ tokens = {}
    /\ sessions = {}
    /\ age = [r \in Requests |-> 0]
    /\ was = [u \in Users |-> [f \in Facts |-> LongAgo]]

-----------------------------------------------------------------------------
(***************************************************************************)
(* Bookkeeping of every step: dt ticks pass, what rows have now is         *)
(* remembered, and a request that is idle afterwards has no age.           *)
(***************************************************************************)
Remember(dt) ==
    /\ was' = [u \in Users |-> [f \in Facts |->
                  IF Has(u, f) THEN dt
                  ELSE IF was[u][f] + dt < LongAgo THEN was[u][f] + dt ELSE LongAgo]]
    /\ age' = [r \in Requests |-> IF req'[r].pc = "idle" THEN 0 ELSE age[r] + dt]

KeepsTokens == UNCHANGED <<tokens, sessions>>

-----------------------------------------------------------------------------
(***************************************************************************)
(* Without a token: POST /auth/register, the seeding of the admin at start *)
(* and the steps of AuthService that read the users table.                 *)
(***************************************************************************)
Register(r, u, e) == Create(r, u, e, "user") /\ KeepsTokens

Seed(r, u) == Create(r, u, SeedEmail, "admin") /\ KeepsTokens

ResetPassword(r, u) == UpdatePassword(r, u) /\ KeepsTokens

\* Login finds the row by e-mail and, once the password is right, goes on to
\* issue tokens from it.  It does not look at is_active.
LoginFind(r, e) ==
    /\ req[r].pc = "idle"
    /\ \E u \in FindByEmail(e) :
        req' = [req EXCEPT ![r] = [Idle EXCEPT !.pc = "issue", !.user = u, !.copy = row[u]]]
    /\ UNCHANGED <<row, cache, ttl, writes, granted, deleted>>
    /\ KeepsTokens

\* Mutant: Refresh looks the user up as Login does.
RefreshFindByEmail(r, u) ==
    /\ req[r].pc = "idle"
    /\ u \in sessions
    /\ req' = [req EXCEPT ![r] = [Idle EXCEPT !.pc = "issue", !.user = u, !.copy = row[u],
                                              !.then = "issue"]]
    /\ UNCHANGED <<row, cache, ttl, writes, granted, deleted>>
    /\ KeepsTokens

RefreshFind(r, u) ==
    /\ u \in sessions
    /\ GetHit(r, u, "issue") \/ GetMiss(r, u, "issue")
    /\ KeepsTokens

\* IssueAccessToken(user.ID, user.Role), sent with status 200; or an error of
\* Redis or of the signing keys and status 500.
IssueAccessToken(r) ==
    /\ req[r].pc = "issue"
    /\ \/ /\ Cardinality(tokens) < MaxTokens
          /\ tokens' = tokens \cup {[user |-> req[r].user, role |-> req[r].copy.role,
                                     via |-> IF req[r].then = "issue" THEN "refresh"
                                                                      ELSE "login",
                                     ttl |-> AccessTTL]}
          /\ sessions' = sessions \cup {req[r].user}
       \/ KeepsTokens
    /\ Answer(r)
    /\ UNCHANGED <<row, cache, ttl, writes, granted, deleted>>

-----------------------------------------------------------------------------
(***************************************************************************)
(* Routes behind the JWT middleware; t is the token of the caller.         *)
(***************************************************************************)
\* The check of GetUser and UpdateUser: an admin, or the user itself.
MayActOn(t, u) == t.role = "admin" \/ t.user = u

RequireRole(t, role) == t.role = role

\* GET /users/me and GET /users/{id}.
GetUser(r, t, u) ==
    /\ MayActOn(t, u)
    /\ GetHit(r, u, "idle") \/ GetMiss(r, u, "idle")
    /\ KeepsTokens

\* PUT /users/{id}.
UpdateUser(r, t, u, email, role, active) ==
    /\ MayActOn(t, u)
    /\ UpdateFind(r, u, t.role, email, role, active)
    /\ KeepsTokens

\* DELETE /users/{id}.
DeleteUser(r, t, u) ==
    /\ RequireRole(t, "admin")
    /\ DeleteFind(r, u)
    /\ KeepsTokens

Clamp(n, lo, hi) == IF n < lo THEN lo ELSE IF n > hi THEN hi ELSE n

MaxPerPage == 100

\* GET /users.
ListUsers(r, t, page, perPage) ==
    LET limit == Clamp(perPage, 1, MaxPerPage)
    IN  /\ RequireRole(t, "admin")
        /\ ListCount(r, limit, (IF page < 1 THEN 0 ELSE page - 1) * limit)
        /\ KeepsTokens

(***************************************************************************)
(* The admin pages, GET /admin/users and DELETE /admin/users/{id}.         *)
(***************************************************************************)
UserList(r, t) == RequireRole(t, "admin") /\ ListCount(r, MaxPerPage, 0) /\ KeepsTokens

UserDelete(r, t, u) == RequireRole(t, "admin") /\ DeleteFind(r, u) /\ KeepsTokens

\* 403, or a target that FindByID does not find: nothing changes.
Refused(r) ==
    /\ req[r].pc = "idle"
    /\ \E t \in tokens, u \in Users :
        ~MayActOn(t, u) \/ ~RequireRole(t, "admin") \/ FindByID(u) = None
    /\ UNCHANGED storeVars
    /\ KeepsTokens

-----------------------------------------------------------------------------
(***************************************************************************)
(* Time passes while no request is older than Latency.                     *)
(***************************************************************************)
Tick ==
    /\ \A r \in Requests : age[r] < Latency
    /\ Expire
    /\ tokens' = {[t EXCEPT !.ttl = @ - 1] : t \in {t \in tokens : t.ttl > 1}}
    /\ UNCHANGED <<row, req, writes, granted, deleted, sessions>>
    /\ Remember(1)

Arrive(r) ==
    \/ \E u \in Users, e \in Emails : Register(r, u, e)
    \/ \E u \in Users : Seed(r, u)
    \/ \E u \in Users : ResetPassword(r, u)
    \/ \E e \in Emails : LoginFind(r, e)
    \/ \E u \in Users : RefreshFind(r, u)
    \/ \E t \in tokens, u \in Users : GetUser(r, t, u)
    \/ \E t \in tokens, u \in Users, e \in Emails \cup {None}, role \in Roles \cup {None},
          active \in BOOLEAN \cup {None} : UpdateUser(r, t, u, e, role, active)
    \/ \E t \in tokens, u \in Users : DeleteUser(r, t, u)
    \/ \E t \in tokens, q \in Queries : ListUsers(r, t, q[1], q[2])
    \/ \E t \in tokens : UserList(r, t)
    \/ \E t \in tokens, u \in Users : UserDelete(r, t, u)
    \/ Refused(r)

Continue(r) == (Proceed(r) /\ KeepsTokens) \/ IssueAccessToken(r)

Next ==
    \/ \E r \in Requests : (Arrive(r) \/ Continue(r)) /\ Remember(0)
    \/ Tick

Spec == Init /\ [][Next]_vars

(***************************************************************************)
(* Requests in flight are scheduled and time passes; nothing is assumed of *)
(* clients.                                                                *)
(***************************************************************************)
FairSpec ==
    /\ Spec
    /\ WF_vars(Tick)
    /\ \A r \in Requests : WF_vars(Continue(r) /\ Remember(0))

-----------------------------------------------------------------------------
\* Every variable keeps its shape, and a cache key has a TTL exactly when it
\* exists.
TypeOK ==
    /\ StoreTypeOK
    /\ tokens \subseteq Token
    /\ sessions \subseteq Users
    /\ age \in [Requests -> 0 .. Latency]
    /\ was \in [Users -> [Facts -> 0 .. LongAgo]]

\* No privilege comes out of thin air: whatever updates overlap, a user's role,
\* in the table, in the cache or in an access token, is one it was created
\* with or an update by an admin wrote.
RolesGranted ==
    \A u \in Users :
        /\ row[u] # None => row[u].role \in granted[u]
        /\ cache[u] # None => cache[u].role \in granted[u]
        /\ \A t \in tokens : t.user = u => t.role \in granted[u]

\* The row of u has f, or had it no more than n ticks ago.
Had(u, f, n) == Has(u, f) \/ was[u][f] <= n

\* How long ago token t was issued.
TokenAge(t) == AccessTTL - t.ttl

\* A demotion takes effect: the role in a token that the role checks rely on
\* was the user's in the table when the token was issued, or no longer before
\* than the cache and two requests can delay it.
RoleLagBounded == \A t \in tokens : Had(t.user, t.role, TokenAge(t) + MaxLag)

\* A deactivation reaches Refresh, through cache and races, within the same
\* time: no token is refreshed for a user who was inactive for longer.
RefreshNeedsActive ==
    \A t \in tokens : t.via = "refresh" => Had(t.user, "active", TokenAge(t) + MaxLag)

\* What FindByEmail's comment asks of its caller in login flows, to inspect
\* is_active: no token, refreshed or not, is issued to an inactive user.
TokensNeedActive == \A t \in tokens : Had(t.user, "active", TokenAge(t) + MaxLag)

\* What Delete promises: a user it answered success for is inactive, and as
\* Update finds only active rows nothing makes it active again.  (Only when no
\* update of the user was in flight: such an update writes is_active back.)
DeletedStaysDeleted == \A u \in deleted : ~row[u].active

\* The total that List counts first never promises rows the page then lacks:
\* rows are only ever added.
PageNotShort ==
    [][\A r \in Requests :
         req[r].pc = "select" /\ req'[r].pc = "idle" =>
             Selected(Cardinality(Rows), req[r].limit, req[r].offset)
                 >= Selected(req[r].total, req[r].limit, req[r].offset)]_vars

\* What the cache holds for u is what the table would answer.
Agrees(u) == cache[u] # None => cache[u] = FindByID(u)

\* The TTL makes up for every lost or late invalidation: once writes stop, the
\* cache comes to agree with the table and stays so.
CacheConverges == <>[](\A u \in Users : Agrees(u))

=============================================================================
