# Verification of kleido

TLA+ models of kleido, a Go API server (`cmd/api`, `internal/`) over Postgres
and Redis with a web client (`web/`) and a command line client (`cmd/cli`). TLC
checks the models on small instances; TLAPS proves the most important
properties for every instance. Paths below are relative to the repository;
`service/auth.go` stands for `internal/service/auth.go` and so on.

## 1. The system

Every HTTP request runs in its own goroutine, in possibly several API
processes. There is no lock and no database transaction anywhere: all shared
state is in Redis and Postgres, each command is atomic, and everything longer
than one command interleaves. Redis pipelines (`rdb.Pipeline()`) are sent
together but are not transactions. A command can fail, or be executed and its
answer lost; a process can die between any two commands.

| Component | State | Operations | Hard about it | What makes it correct |
|---|---|---|---|---|
| Sessions (`service/auth.go`, `repository/redis/session.go`, `auth/jwt.go`, `middleware/jwt.go`, `handler/auth.go`) | `auth:refresh:*`, `auth:blocklist:*`; the tokens clients hold | Login, Refresh, Logout, the JWT check | validate / rotate and blocklist / revoke are separate commands; cut pipelines; expiry | a token lives once, sent tokens work, revoked ones are refused, logout ends the session |
| Lockout (`service/auth.go`, `session.go`) | `auth:lockout:*` counters | IsLockedOut, IncrLoginFailure, ClearLoginFailures | check-then-increment, INCR without EXPIRE, failing open | guesses are bounded, locks lift |
| Password reset (`service/auth.go`, `session.go`) | `auth:reset:*`, password column | ForgotPassword, ResetPassword | GET; DEL is not atomic; failure after the token is consumed | consumed before use, mailed tokens work, uses bounded |
| User accounts, cache, role checks (`service/user.go`, `postgres/user.go`, `redis/cache.go`, `handler/user.go`, `middleware/jwt.go`) | `users`, `cache:user:*`, the role in each token | Create, GetByID, Update, Delete, UpdatePassword, List; RequireRole | read-modify-write, cache filled after invalidation, roles as old as their token | roles only as granted, demotion and deactivation in bounded time, cache converges |
| Rate limiting (`session.go`, `middleware/ratelimit.go`) | `rate:*` sorted sets | rateLimitByKey | four pipelined commands, rejected calls counted | calls per window bounded, no refusal without cause, keys expire |
| Start, seeding, shutdown, configuration (`cmd/api`, `config/config.go`) | schema, seeded rows, processes, connections | run, migrations, seed, serve, shut down | replicas starting together, requests in flight at shutdown | served only when migrated and seeded, requests drained, stops |
| HTTP stack and tenants (`cmd/api/routes.go`, `middleware/*`, `postgres/instrumented_user.go`, `traced_user.go`) | gauges, counters, spans, request context | wrap every request | panics, clients that leave | telemetry adds up, a request keeps its own tenant |
| Command line client (`internal/cli`, `internal/client`, `pkg/configstore`) | configuration file | login, logout, users | several processes on one file, crashes while writing | tokens go to their issuer, logout holds, the file loads |
| Web client (`web/src`) | access token and user of each tab, the cookie jar | silent restore, login, logout | tabs racing with one cookie, late answers, reloads | no browser logs itself out, the user shown is the one acted for, logout sticks |
| Health probes, security headers, admin pages, generated code | none | | | not modelled |

Sessions reads user accounts in Refresh; Login passes Lockout first; the JWT
check and the rate limiter stand before every protected handler; the handlers
of accounts act on the role in the token.

## 2. Modules

| Module | Models | State |
|---|---|---|
| `Redis` | external: what the code uses of a Redis server | none; keys with TTLs, outcomes of a command |
| `Sessions` | login tokens, rotation, logout, JWT check | `clock`, `issued`, `sent`, `refresh`, `blocklist`, `req`; history `revoked`, `spent`, `ended` |
| `TokenLife` | what a store of refresh or reset tokens promises | `life`, `owner`, `parent` |
| `Lockout` | Login up to the verdict on the password | `count`, `ttl`, `pc`, `email`, `faults`; history `guesses` |
| `PasswordReset` | forgot / reset password | `clock`, `owner`, `mailed`, `reset`, `password`, `req`; history `spent`, `uses` |
| `UserStore` | users table, cache, `service/user.go` | `row`, `cache`, `ttl`, `req`, `writes`; history `granted`, `deleted` |
| `Accounts` | composes `UserStore` with handlers, role checks and access tokens | adds `tokens`, `sessions`, `age`; history `was` |
| `RateLimiter` | the sliding window | `clock`, `zset`, `deadline`, `req`, `faults`; history `called`, `admitted`, `rejected` |
| `Server` | replicas from configuration to exit, over one database | `schema`, `lock`, `admin`, `tenant`, `main`, `server`; history `moved` |
| `HttpStack` | middleware stack, tenant resolution, telemetry of the user repository | gauges and counters, `req`; history `started`, `departed` |
| `Cli` | commands on one configuration file, and its API client | `file`, `cmd`, `server`; history `issuer`, `out`, `warned`, `overlap` |
| `Browser` | tabs of the web client over one cookie jar | `cookie`, `live`, `owner`, `tab`, `call`; history `lost`, `again`, `signedOut` |
| `SessionsProofs`, `PasswordResetProofs`, `AccountsProofs`, `RateLimiterProofs`, `ServerProofs`, `CliProofs`, `BrowserProofs` | an inductive invariant of the module each is named for, and theorems about it | |
| `CountingProofs` | the same for `Lockout` and `HttpStack`, whose invariants count the requests at a place | |
| `MC*` | TLC instances: a symmetry set or a few inputs | |

In every module `req` (`pc`, `cmd`, `main`) holds the local variables of each
goroutine or process and **one action is the code between two accesses to
shared state**. A request that is refused without changing anything is a
stuttering action (`RefreshRefused`, `JWTRefused`, `ResetRefused`,
`LoginLocked`, `StartRefused`, `Refused`). Variables marked history are written
and never guard an action; they exist for the properties. (`called` also numbers
the calls of one millisecond, and `started` bounds the requests.)
`PROJECT.json` maps every definition to the lines it models.

**Sessions.** A pair of tokens is one element of `Ids`: `uuid.New()` and 32
random bytes are values never seen before, so `IssueRefreshToken` picks an
unused one. `Login` is step 5 of `service/auth.go` `Login`; `LoginStore` the
SET, after which the handler returns the pair (`SendPair`) or 500.
`RefreshValidate` is the GET, `RefreshUserGone` / `RefreshIssue` the lookup and
the generation, `RotateDel` and `RotateSet` the two commands of the pipeline.
`JWTVerify` and `JWTCheck` are the middleware; then `RateLimited`, `Serve` (any
other handler) or `LogoutBlocklist` and `LogoutRevoke`. A logout may carry any
cookie or none. A failing blocklist check fails open, as in the code. A cut
pipeline is an outcome other than `"ok"` of one of its commands: `"failed"` was
not executed, `"lost"` was executed but not answered. `Crash` empties `req` and
nothing else. `ImplementsTokenLife` is the refinement: a token is held from its
generation, live while its key exists and dead once deleted; Redis' own expiry
of a key is not a deletion, so an expired key is live to the mapping until the
next DEL.

**UserStore and Accounts.** An update reads the row, patches the copy and
writes every column back; a read that misses fills the cache in a later step.
`Accounts` adds the checks of the handlers on the role of a token, the steps of
Login and Refresh that put the role there (`LoginFind`, `RefreshFind`,
`IssueAccessToken`), and the admin pages. Passwords, refresh keys and
revocation are left to the other modules. Time passes (`Tick`) only while no
request is older than `Latency`. This is an assumption: nothing in the code
bounds how long a handler runs, so the bounds on time in the properties are
stated in terms of `Latency`, and mean as much as it does in a deployment.

**RateLimiter.** A call reads the clock, then ZREMRANGEBYSCORE, ZADD, ZCARD and
EXPIRE are four steps, each of which may be the last one executed
(`FailOpen`). All replicas and Redis share one clock. The two middlewares use
disjoint keys, so a protected request is two independent calls.

**Server.** One action per step of `run` that can fail; a failing one unwinds
the deferred calls in their order. golang-migrate is external: an advisory
lock, a version that may be dirty, and all pending migrations as one step. The
goroutine of `ListenAndServe` is separate, so a signal can arrive before the
listener opens, and it may fail with requests open (`ServeFails`): what is
connected is served until main calls Shutdown. Of the data only what seeding
looks at is kept: whether there is a row with the seed's address, whatever its
role, and the default tenant. Requests change the first (`Statement`): an update
may give that user another address, and a registration or an update may bring
the address back. `moved` remembers which replicas had found the row when it
went.

**HttpStack.** The order of the layers in `buildRouter`, with what each does on
the way in, on the way out, and when a panic passes. A host is a sequence of
labels; `extractSubdomain` and `Resolve` are the code's precedence. A handler
returns once it has answered, with one exception: `UserList` of the admin pages
ignores the error of `Render`, which writes nothing when the context is
cancelled, so that it returns without a status if its client has left
(`ClientLeaves`, `RenderFails`) and is counted as "unknown".

**Cli.** `os.WriteFile` is truncate, then write at offset 0, so a file may be
absent, empty, a configuration or a mix of two. The server is what it does to
access tokens.

**Browser.** A call is a promise chain of `App`, `LoginPage` or `handleLogout`:
request sent with the cookie its path allows, served (a refresh in two steps, as
in `Sessions`), answer received, then `/users/me`. `Load` is opening or
reloading a tab; its calls in flight are served all the same. Whether an access
token is accepted is left open. Whoever logs in is another user, named by the
pair of the login, which is the worst case. The effect of
`App` runs once, as in a production build; React's StrictMode in development
runs it twice. The registration page is one with the login page except for its
timer, which shows the login page 1.5 seconds later, whoever is logged in.

Abstracted everywhere: wording, hashing of keys, logging text, password
hashing (right or wrong), pagination arithmetic beyond clamp, LIMIT and OFFSET.

## 3. What the runs check

Passing runs; TLC explores every reachable state of the instance.

* `sessions` — two requests of all four kinds, both faults, crashes, time past
  the access TTL; AccessTTL equals RefreshTTL, the boundary of
  `BlocklistTTLAssumption`. `SentTokenHonoured`, `RevokedTokenRefused`;
  `LogoutEndsSession`: a logout answered 204 that
  carried the refresh token and overlapped no refresh leaves nothing of the
  session; `ImplementsTokenLife`.
* `lockout` — three requests, threshold 3, two failing commands, fairness.
  `GuessesBounded` is the exact slack: threshold - 1, plus requests in flight,
  plus failures. `CounterExpires`: only a failing command leaves a counter
  without a TTL. `LockLifts`: as long as no command failed.
* `reset` — two requests, two tokens, both faults, crashes, expiry.
  `ConsumedBeforeUpdate`, `MailedTokenUsable`, `UsesBounded`.
* `accounts` — two requests on one user, failing cache commands, lost answers.
  `RolesGranted`; `RoleLagBounded` and `RefreshNeedsActive`: a role in a token
  was the user's, and a refreshed user active, at most `MaxLag` = cache TTL - 1
  + 2 latencies before the token was issued (the cache TTL is 5 minutes in
  the code; the access TTL comes on top); `DeletedStaysDeleted`; `PageNotShort`;
  `CacheConverges` under fairness.
* `ratelimit` — two interleaved callers on one key, one failure, a latency of
  a third of the window. `AdmittedBounded`: Limit plus the number of requests in
  flight, since a key can expire between another call's ZADD and its EXPIRE;
  `RejectedOnlyOverLimit`; `KeysExpire`.
* `server` — two replicas, every initial database, five environments, crashes;
  one request at a time in each, with or without a connection of the pool (the
  proofs have any number). `SeededWhenServing`: with the exception of replicas
  that found the seed's user before it was given another address; `SchemaReady`,
  `RequestsDrained`, and `Stops` under fairness.
* `http` — two requests, two tenants, five kinds of host, panics anywhere,
  clients that leave. `Accounted`: only requests that lost their client may go
  without a status or be counted as "unknown"; `TenantFromOwnRequest`.
* `cli` — three commands, two servers, two tokens, lost answers, crashes.
  `TokenSentToIssuer`, `LoggedOut`, `ConfigLoads`.
* `browser` — two tabs, two calls in flight, three pairs, so that both tabs can
  exchange one cookie. `CookieLive`, `LogoutSticks`, and `UserMatchesToken` with
  the exception it states: a login submitted while another is under way (by way
  of the registration page) or while a user is shown (RegisterPage's timer) sets
  its token first and, if `/users/me` fails, leaves the tab showing one user and
  acting for another.

Runs whose property the code does not have; each states what the documentation
or a comment says:

* `refresh_race` — `mkdocs/content/auth-users.md:184` promises that the second
  of two racing refreshes gets 401. Both validate before either deletes, and
  DEL of a missing key is no error: both get 200. What holds is that the old
  token is gone before either new one is valid (`ImplementsTokenLife`).
* `inactive_login` — `postgres/user.go:74`: callers of FindByEmail need to
  inspect IsActive in login flows. Login does not: an inactive user is given
  tokens. (Refresh then refuses, `RefreshNeedsActive`.)
* `browser_logout` — `mkdocs/content/auth-users.md:123`: the cookie is sent to
  `/auth/logout`; `README.md:184`: logout revokes the refresh token. The
  cookie's path is `/api/v1/auth/refresh`, so it is not sent, and the token stays
  valid; `LogoutSticks` is what holds.

**Bounds.** Races here need two requests, and a third only for the lockout
threshold and for overlapping writers of the CLI's file next to a reader.
`Ids`, `Tokens`, `MaxTokens`, `MaxCalls`, `MaxRequests` bound how many things
are generated; `MaxClock` lets every TTL run out; `MaxFaults` and `MaxWrites`
bound failures and writes. In `accounts` one user is enough: users meet only in
the unique e-mail address, where the loser's statement fails as any statement
may (`WriteFails`), and in the caller, whose token of the same user covers own
and admin access. `Lockout` and `Accounts` count TTLs down instead of having a
clock, so that time never runs out and liveness is meaningful. The mutants in
`PROJECT.json` show that each property can fail within these bounds.

**Fairness.** Weak fairness of each request in flight (goroutines are
scheduled; `http.Server` and go-redis time commands out, an outcome of their
own) and of time, in `Lockout` and `Accounts`. In `Server`: of main, whose
15-second timer fires, of the goroutine of ListenAndServe, and of statements
giving their connection back. A request is not assumed to end, nobody has to
send a signal, and nothing is assumed about clients.

**Deadlock** is checked except in `ratelimit`, `http` and `cli`, which end when
the bounded clock, requests or tokens are used up.

## 4. What is proved

TLAPS proves every safety invariant of the passing runs, the two safety action
properties, and two refinements, for any sets of requests, users, tokens,
tenants, replicas, commands or tabs, any TTLs, windows and limits, any faults,
and any value of the bounds that keep TLC's runs finite.
What is assumed of the constants are the named ASSUMEs of the modules: durations
and limits are numbers (positive where the code needs it), `None` is no other
value, and where a property counts requests there are finitely many. Four say more:

* `BlocklistTTLAssumption` (`Sessions`): RefreshTTL is 0 (no expiry) or at least
  AccessTTL, because Logout stores the blocklist key with the refresh TTL.
  `config.go` does not validate this; its defaults (15 minutes, 7 days) satisfy
  it.
* `Latency < Window` (`RateLimiter`): a pipeline is done within its window,
  which is a minute in the code.
* `SeedAssumption` (`Accounts`) names the address of `seed.go`.
* `ConstantsAssumption` (`HttpStack`): no two tenants have the same slug (a
  unique column), handlers answer with statuses from 200 to 599, and a request
  may come without `?tenant_id`.
Each proof module has `IInv`, `InitInv`, a lemma per action, `NextInv` (or the
same within `Invariance`), and the theorems that follow from it. Hardly any
property is inductive by itself: what a step does depends on what the goroutine
read in an earlier one, so the invariants say what is still true of that.

**Sessions** (`TypeCorrect`, `RefreshTokensSafe`, `SessionUser`,
`RevocationHolds`, `LogoutEnds`, `Refinement`). `RequestInv`: a pair a request
holds is not stored and not sent, belongs to its user, and came from the token
it presented; before SET the old token is already deleted; tokens presented were
sent. `OwnPair`: no two requests hold the same pair (otherwise one could store
what another has sent and a client has spent). `KeyInv`: exactly the sent
and unspent tokens, and tokens whose answer was lost, are stored, for their user
and long enough; the parent of a stored or sent pair is spent. `PairInv`: a
pair's session belongs to its user, and no token expires later than AccessTTL
from now. `BlockInv`: a revoked jti has a key that outlives its token.
`SessionInv` follows sessions through requests: an ended one has no key and no
request that could store one. The refinement takes `IInv` and shows per command
what it does to the life of a token: `RequestInv` and `OwnPair` make a SET
`TokenLife`'s `Store` of a held token whose parent is dead, a DEL its `Delete`,
and every other step leaves all lives alone.

**Lockout** (`TypeCorrect`, `LockoutBounds`, `LockoutExpires`). `GuessesBounded`
is not inductive because the check reads the counter, and the counter lacks the
requests between their comparison and their INCR. `GuessesCounted` counts these:
the guesses are at most the counter, plus the pending requests, plus the faults.
A request that passes the check finds the counter below the threshold.

**HttpStack** (`HttpInvariance`, `HttpTypeCorrect`, `RequestsAccounted`,
`TenantOfRequest`). The invariant `HttpInv` has three parts. `Balance` is
`Accounted` in numbers of requests; `NumMoves` says how the number of requests at
a set of places changes when one of them moves, and `BalanceStep` reduces each
step of the stack to which of five sets of places the request leaves and enters,
and whether it joins or leaves `Deserted`, the requests that lost their client
and are not counted yet (`DesertedMoves`).
`RecOK` is what a request knows at its place: from the log on it has a status or
has lost its client, so that one counted as "unknown" leaves `Deserted` when it
joins the count; from routing on its tenant is one it named. That `dbErrors` and `badSpans` stay within MaxRequests * MaxQueries follows
from neither: `ErrorsLeft` adds the statements that requests under way may still
run or finish (`Left`, as pairs of a request and a number), so that a step may
take from the one only what it gives to the other.

**PasswordReset** (`TypeCorrect`, `ConsumedFirst`, `MailedUsable`, `UsesLimited`,
`OwnPassword`, `ResetRefinement`). `RequestInv` and `KeyInv` as in Sessions; `OwnToken`: one token is
mailed by one request. `UsesCounted`: uses and requests that have read the token
together never exceed the requests there are, since a token that is spent has no
key and so gets no new readers. `OwnPassword` goes beyond the runs: a reset
changes the password of the user its token was generated for, and
`ResetRefinement` shows that a reset token lives as `TokenLife` says, like a
refresh token that is never exchanged. The second of two DELs of one token is a
stutter there: what is wrong with two resets at once is what they do between
their GET and their DEL, not what becomes of the token.

**Accounts** (`TypeCorrect`, `NoPrivilegeFromNowhere`, `DemotionTakesEffect`,
`DeactivationTakesEffect`, `DeletionLasts`, `PageHasItsRows`). The invariant
follows a row's data along its way, into a request's copy (`ReqOK`), the cache
(`CacheOK`) and a token (`TokenOK`), and says at each place that its role was
granted and how long ago at most the table had it: the age of the request; one
latency plus the time the entry has spent in the cache; both and the age of the
token. These add up to `MaxLag`. The step that carries the proof is `HadStep`:
whatever happens to the row, what it had n ticks ago at one state it had n ticks
ago, or one more after `Tick`, at the next. `Gone`: a deleted user is inactive
and no update of it is in flight. `PageHasItsRows` needs that rows are only ever
added and that `Selected` is monotonic.

**RateLimiter** (`TypeCorrect`, `LimitHolds`, `RefusalsJustified`,
`NoKeyForever`). `WindowOK`: from its ZREMRANGEBYSCORE to its ZCARD a call's key
holds no member as old as a window, whoever adds members meanwhile; this makes a
refusal just (`CountOK`). `LostOK`: of the recent members that were added, no
more are missing from the key than there are requests; the count a call is told
therefore misses no more than that, and `PassedOK` bounds those it lets pass.
Members go missing when the key expires before their own EXPIRE: `DeadlineOK`
says that an EXPIRE keeps all members before it for a window, so only members of
pipelines still under way are lost, at most one each.

**Server** (`TypeCorrect`, `SeededFirst`, `MigratedFirst`, `Graceful`).
`ReplicaOK` says for each place in `run` what holds of the database, the
connections and the requests from there on. It survives the steps of other
replicas because of what these do to the database (`DbKept`): the schema and the
tenant are only ever added, and the seed's row goes only by an update, which
puts every replica that relies on it into `moved`. This is what makes seeding
without a transaction safe; that no two migrate at once needs the advisory lock
(`LockOK`).

**Cli** (`TypeCorrect`, `TokensGoHome`, `LogoutHolds`, `FileLoads`). `CommandInv`
says what each process in flight has in memory, `FileInv` that a token in the
file goes with the URL of its issuer. A token could come back after its logout
only through a login that has yet to write it; `NewToken`: nobody else knows
that one. `SaveInv`: unless Saves overlapped, one process at most is between
truncating the file and writing it.

**Browser** (`TypeCorrect`, `JarHoldsLiveToken`, `ShowsItsUser`, `LogoutHolds`).
`CallsOK` says of each call how far it can have come, `FreshOK` that a pair on
its way to a tab is accepted and used by nobody else, `CookieOK` that a cookie
the server has rotated is about to be replaced, `TabsOK` which calls may still
change a tab (a restore excludes all else, a login any other login), and
`SignedOutOK` that after a logout no call is under way that could bring a
cookie back.

The invariants and `ResetRefinement` were checked with TLC on the instances of
the runs before they were proved.

Only model-checked:

* Liveness: `LockLifts`, `CacheConverges` and `Stops`. TLAPS has no rules here
  for fairness (ENABLED).
* The violation runs.

## 5. Seen while modelling

What the code does beside what a reader might expect; none of it is assumed
away in the models unless said so.

* `SECURITY.md:119` calls reset tokens single-use. GET; DEL pipelines of two
  requests interleave, and both change the password; `UsesBounded` is what holds.
* The comment at `session.go:113` ("Either both succeed or neither persists")
  is not what a pipeline gives; the code gives the order,
  `NewTokenOnlyAfterOldDeleted`.
* A refresh in flight during a logout stores a successor afterwards, and the
  session lives on: hence the condition in `LogoutEndsSession`.
* If the connection fails between INCR and EXPIRE the lockout counter never
  expires, though `repository/interfaces.go:60` says it does. The next failure
  would give it a TTL again, but if it was the one that reached the threshold no
  login gets that far, and the account stays locked.
* A reader that fetched the row before an invalidation puts it back; the TTL is
  what bounds this. An update that overlaps a deletion writes `is_active` back,
  and a non-admin's update can revert a role changed meanwhile.
* A user's own update may set `is_active`, which `mkdocs/content/auth-users.md`
  reserves for admins; a duplicate e-mail in Update is a 500, where the
  annotations say 409.
* Create does not set CreatedAt, so that the order of pages has ties;
  `PageNotShort` speaks of how many rows a page has, not which.
* Without a proxy header the address in the rate limit's key includes the port
  and so is one per connection. The documentation has 100 calls per minute per
  user; the code has 100 per address and 200 per user and route.
* "Ensures at least one admin account exists" (`seed.go`) holds of any row with
  the seed's e-mail, whatever its role, and only at start: `PUT /users/{id}` may
  give that user another address, and the next start then inserts another admin
  with the seed's address and password. An inactive tenant "default" makes its
  insertion fail at every start; errors of seeding are logged only.
* A failing listener ends the process with status 0; `/readyz` answers 200
  until the listener closes; `pool.Close` waits without a bound for connections
  in use.
* An admin page whose client left before it was rendered is logged with status 0
  and counted as "unknown" (`handler/admin.go:45`, `:50`).
* A request that panics is in neither the request counter nor the request log,
  and `http.ErrAbortHandler` is recovered like any other panic. `?tenant_id` is
  accepted without a lookup.
* `kleido auth logout` with an expired token or an unreadable file prints "Not
  logged in." and leaves the file, where the comment at `cli/auth.go:91` speaks
  of clearing; a logout that overlaps a login can overwrite the newer token.

## 6. Not modelled

* The lists of the web client's admin page, and everything it renders.
* Health probes (two pings, no state), security headers and log redaction
  (constants), what the admin pages render, the embedded UI, and generated
  code (`docs`, `*_templ.go`): no state that a property would be about.
* `TenantFromPath`, which no route uses; the tenant listings, which only read.
* Cache hit counters, histograms, and the spans of handlers and services.
* Clock skew between replicas (`RateLimiter` has one clock) and a Redis that
  loses its data.

## 7. Plan

Every component with state of its own is modelled and its safety proved. What is
left:

* Properties beyond the runs that the invariants already imply, as `OwnPassword`
  and `ResetRefinement` are.
