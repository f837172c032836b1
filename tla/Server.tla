------------------------------- MODULE Server -------------------------------
(***************************************************************************)
(* Start, seeding and shutdown of the replicas of the API server: run of   *)
(* cmd/api/main.go, seed.go, internal/config/config.go and what opens the  *)
(* connections (internal/repository/postgres/db.go, redis/client.go,       *)
(* internal/auth/keys.go, internal/telemetry/otel.go), over one database.  *)
(*                                                                         *)
(* Replicas start at the same time, fail at any step, are signalled and    *)
(* crash.  A step of run that returns an error unwinds the deferred calls, *)
(* last first.  Of the data only what start-up asks for is kept: the state *)
(* of the schema, and whether there is a row with the seed's e-mail        *)
(* address, the same for all replicas, and a tenant with the slug          *)
(* "default".                                                              *)
(***************************************************************************)
EXTENDS Integers, FiniteSets

CONSTANTS
    None,          \* no replica
    Replicas,      \* API processes
    Environments,  \* what the environment and .env may set: functions from
                   \* settings to values
    MaxInFlight    \* bound on the requests of a replica at once

ASSUME NoneAssumption == None \notin Replicas
ASSUME MaxInFlightAssumption == MaxInFlight \in Nat

(***************************************************************************)
(* config.Load.  The other settings are copied without being looked at.    *)
(***************************************************************************)
Defaults == [APP_ENV |-> "development", DATABASE_URL |-> "",
             JWT_PRIVATE_KEY_PATH |-> "./keys/private.pem",
             JWT_PUBLIC_KEY_PATH |-> "./keys/public.pem", OTEL_ENABLED |-> "true"]

Setting(e, s) == IF s \in DOMAIN e THEN e[s] ELSE Defaults[s]

ValidEnvs == {"development", "staging", "production"}

LoadOK(e) ==
    /\ Setting(e, "APP_ENV") \in ValidEnvs
    /\ \A s \in {"DATABASE_URL", "JWT_PRIVATE_KEY_PATH", "JWT_PUBLIC_KEY_PATH"} :
        Setting(e, s) # ""

VARIABLES
    schema,  \* "old", "dirty" while or after a migration was cut, "current"
    lock,    \* the replica that holds golang-migrate's advisory lock
    admin,   \* the row with SEED_ADMIN_EMAIL, whatever its role, active or not
    tenant,  \* the tenant "default": "absent", "active", "inactive"
    main,    \* Replicas -> the goroutine of main
    server,  \* Replicas -> the goroutines of http.Server
    moved    \* history, while the row is absent: replicas that had found or
             \* inserted it before an update gave that user another address

vars == <<schema, lock, admin, tenant, main, server, moved>>

db == <<schema, lock, admin, tenant, moved>>

Pcs == {"off", "otel", "migrate", "version", "up", "pool", "redis", "keys", "checkAdmin",
        "createAdmin", "checkTenant", "createTenant", "listen", "notify", "wait", "drain",
        "defer"}

\* held: what a deferred call will close; seedErr: seeding met an error of the
\* database; late: Shutdown gave up.
MainState == [pc: Pcs, held: SUBSET {"otel", "pool", "redis"}, seedErr: BOOLEAN, late: BOOLEAN]

\* The listener, the requests being served, and those that have a connection
\* of the pool.
\* failed: Listen failed; broken: Serve did, with connections still open.
ServerState == [lis: {"none", "pending", "open", "failed", "broken", "closed"},
                inflight: 0 .. MaxInFlight, busy: 0 .. MaxInFlight]

MainOff == [pc |-> "off", held |-> {}, seedErr |-> FALSE, late |-> FALSE]

ServerOff == [lis |-> "none", inflight |-> 0, busy |-> 0]

\* A new database, one to be migrated, or one that is up to date.
Init ==
    /\ schema \in {"old", "current"}
    /\ lock = None
    /\ admin \in {"absent", "present"}
    /\ tenant \in {"absent", "active", "inactive"}
    /\ moved = {}
    /\ main = [r \in Replicas |-> MainOff]
    /\ server = [r \in Replicas |-> ServerOff]

Goto(r, l) == main' = [main EXCEPT ![r].pc = l]

Opens(r, x, l) == main' = [main EXCEPT ![r].pc = l, ![r].held = @ \cup {x}]

\* run returns; main exits with status 1 if it was an error.
Return(r) == Goto(r, "defer")

-----------------------------------------------------------------------------
(***************************************************************************)
(* run, up to the seeding.                                                 *)
(***************************************************************************)
Start(r, e) ==
    /\ main[r].pc = "off"
    /\ LoadOK(e)
    /\ IF Setting(e, "OTEL_ENABLED") = "true" THEN Goto(r, "otel") ELSE Goto(r, "migrate")
    /\ UNCHANGED <<db, server>>

\* The configuration is refused before anything is opened.
StartRefused(r, e) ==
    /\ main[r].pc = "off"
    /\ ~LoadOK(e)
    /\ UNCHANGED vars

SetupOTel(r) ==
    /\ main[r].pc = "otel"
    /\ Opens(r, "otel", "migrate") \/ Return(r)
    /\ UNCHANGED <<db, server>>

(***************************************************************************)
(* RunMigrations: golang-migrate takes a lock, reads the version, refuses  *)
(* a dirty one, and marks the schema dirty while it changes it.  All       *)
(* pending files are one step.                                             *)
(***************************************************************************)
MigrateLock(r) ==
    /\ main[r].pc = "migrate"
    /\ \/ lock = None /\ lock' = r /\ Goto(r, "version")
       \/ Return(r) /\ UNCHANGED lock    \* no connection, or the lock timed out
    /\ UNCHANGED <<schema, admin, tenant, server, moved>>

MigrateVersion(r) ==
    /\ main[r].pc = "version"
    /\ \/ schema = "old" /\ schema' = "dirty" /\ Goto(r, "up") /\ UNCHANGED lock
       \/ /\ schema = "current"          \* ErrNoChange
          /\ Goto(r, "pool")
          /\ lock' = None
          /\ UNCHANGED schema
       \/ Return(r) /\ lock' = None /\ UNCHANGED schema
    /\ UNCHANGED <<admin, tenant, server, moved>>

\* Mutant: an error of Up is only logged.
MigrateUpLogged(r) ==
    /\ main[r].pc = "up"
    /\ schema' \in {"current", "dirty"}
    /\ Goto(r, "pool")
    /\ lock' = None
    /\ UNCHANGED <<admin, tenant, server, moved>>

MigrateUp(r) ==
    /\ main[r].pc = "up"
    /\ \/ schema' = "current" /\ Goto(r, "pool")
       \/ schema' = schema /\ Return(r)
    /\ lock' = None
    /\ UNCHANGED <<admin, tenant, server, moved>>

NewPool(r) ==
    /\ main[r].pc = "pool"
    /\ Opens(r, "pool", "redis") \/ Return(r)
    /\ UNCHANGED <<db, server>>

NewClient(r) ==
    /\ main[r].pc = "redis"
    /\ Opens(r, "redis", "keys") \/ Return(r)
    /\ UNCHANGED <<db, server>>

LoadKeys(r) ==
    /\ main[r].pc = "keys"
    /\ Goto(r, "checkAdmin") \/ Return(r)
    /\ UNCHANGED <<db, server>>

(***************************************************************************)
(* seedAdminUser and seedDefaultTenant: look, then insert.  Every error is *)
(* logged and start-up goes on.                                            *)
(***************************************************************************)
\* r has found the seed's user or inserted it, and does not stop yet.
FoundAdmin(r) ==
    ~main[r].seedErr /\ main[r].pc \in {"checkTenant", "createTenant", "listen", "notify", "wait"}

SeedError(r, l) == main' = [main EXCEPT ![r].pc = l, ![r].seedErr = TRUE]

\* Mutant: any error of the look-up, not found too, ends the seeding.
CheckAdminBails(r) ==
    /\ main[r].pc = "checkAdmin"
    /\ Goto(r, "checkTenant")
    /\ UNCHANGED <<db, server>>

\* GetByEmail finds the row whatever its role, active or not.
CheckAdmin(r) ==
    /\ main[r].pc = "checkAdmin"
    /\ \/ admin = "present" /\ Goto(r, "checkTenant")
       \/ admin = "absent" /\ Goto(r, "createAdmin")
       \/ SeedError(r, "checkTenant")
    /\ UNCHANGED <<db, server>>

\* The row is inserted, or the unique e-mail refuses a second one.
CreateAdmin(r) ==
    /\ main[r].pc = "createAdmin"
    /\ \/ admin' = "present" /\ moved' = {} /\ Goto(r, "checkTenant")
       \/ UNCHANGED <<admin, moved>> /\ SeedError(r, "checkTenant")
    /\ UNCHANGED <<schema, lock, tenant, server>>

\* GetBySlug finds active tenants only.
CheckTenant(r) ==
    /\ main[r].pc = "checkTenant"
    /\ \/ tenant = "active" /\ Goto(r, "listen")
       \/ tenant # "active" /\ Goto(r, "createTenant")
       \/ SeedError(r, "listen")
    /\ UNCHANGED <<db, server>>

\* The unique slug refuses a second row, of an inactive tenant too.
CreateTenant(r) ==
    /\ main[r].pc = "createTenant"
    /\ \/ tenant = "absent" /\ tenant' = "active" /\ Goto(r, "listen")
       \/ tenant # "absent" /\ UNCHANGED tenant /\ Goto(r, "listen")
       \/ UNCHANGED tenant /\ SeedError(r, "listen")
    /\ UNCHANGED <<schema, lock, admin, server, moved>>

-----------------------------------------------------------------------------
(***************************************************************************)
(* Serving: the goroutine of ListenAndServe, and main that waits.          *)
(***************************************************************************)
GoListen(r) ==
    /\ main[r].pc = "listen"
    /\ Goto(r, "notify")
    /\ server' = [server EXCEPT ![r].lis = "pending"]
    /\ UNCHANGED db

Notify(r) ==
    /\ main[r].pc = "notify"
    /\ Goto(r, "wait")
    /\ UNCHANGED <<db, server>>

\* After Shutdown, ListenAndServe returns ErrServerClosed.
ListenAndServe(r) ==
    /\ server[r].lis = "pending"
    /\ \E l \in IF main[r].pc \in {"notify", "wait"} THEN {"open", "failed"} ELSE {"closed"} :
        server' = [server EXCEPT ![r].lis = l]
    /\ UNCHANGED <<db, main>>

\* Accept fails for good: Serve closes the listener and returns, while the
\* goroutines of the connections go on.
ServeFails(r) ==
    /\ server[r].lis = "open"
    /\ server' = [server EXCEPT ![r].lis = "broken"]
    /\ UNCHANGED <<db, main>>

\* The error of ListenAndServe, which serverErr buffers until main selects.
ServerError(r) ==
    /\ main[r].pc = "wait"
    /\ server[r].lis \in {"failed", "broken"}
    /\ Goto(r, "drain")
    /\ UNCHANGED <<db, server>>

\* SIGINT or SIGTERM; then Shutdown, which closes the listener first.
Quit(r) ==
    /\ main[r].pc = "wait"
    /\ Goto(r, "drain")
    /\ server' = [server EXCEPT ![r].lis = IF @ = "open" THEN "closed" ELSE @]
    /\ UNCHANGED db

\* Mutant: srv.Close.
DrainedAtOnce(r) ==
    /\ main[r].pc = "drain"
    /\ Return(r)
    /\ UNCHANGED <<db, server>>

Drained(r) ==
    /\ main[r].pc = "drain"
    /\ server[r].inflight = 0
    /\ Return(r)
    /\ UNCHANGED <<db, server>>

\* Mutant: Shutdown without a deadline.
GraceOverNever(r) == FALSE /\ UNCHANGED vars

\* 15 seconds have passed.
GraceOver(r) ==
    /\ main[r].pc = "drain"
    /\ main' = [main EXCEPT ![r].pc = "defer", ![r].late = TRUE]
    /\ UNCHANGED <<db, server>>

(***************************************************************************)
(* The deferred calls.  pool.Close rejects requests for a connection and   *)
(* waits until every connection is returned.                               *)
(***************************************************************************)
Closes(r, x) == main' = [main EXCEPT ![r].held = @ \ {x}]

PoolClosed(r) == main[r].pc = "defer" /\ "redis" \notin main[r].held

CloseRedis(r) ==
    /\ main[r].pc = "defer"
    /\ "redis" \in main[r].held
    /\ Closes(r, "redis")
    /\ UNCHANGED <<db, server>>

ClosePool(r) ==
    /\ PoolClosed(r)
    /\ "pool" \in main[r].held
    /\ server[r].busy = 0
    /\ Closes(r, "pool")
    /\ UNCHANGED <<db, server>>

ShutdownOTel(r) ==
    /\ main[r].pc = "defer"
    /\ main[r].held = {"otel"}
    /\ Closes(r, "otel")
    /\ UNCHANGED <<db, server>>

\* The process ends, with whatever requests are left.
Exit(r) ==
    /\ main[r].pc = "defer"
    /\ main[r].held = {}
    /\ main' = [main EXCEPT ![r] = MainOff]
    /\ server' = [server EXCEPT ![r] = ServerOff]
    /\ moved' = moved \ {r}
    /\ UNCHANGED <<schema, lock, admin, tenant>>

\* A crash, or a signal before Notify; Postgres frees the lock.
Crash(r) ==
    /\ main[r].pc # "off"
    /\ main' = [main EXCEPT ![r] = MainOff]
    /\ server' = [server EXCEPT ![r] = ServerOff]
    /\ lock' = IF lock = r THEN None ELSE lock
    /\ moved' = moved \ {r}
    /\ UNCHANGED <<schema, admin, tenant>>

-----------------------------------------------------------------------------
(***************************************************************************)
(* The requests of a replica.                                              *)
(***************************************************************************)
\* A broken server still reads requests from the connections it has, until
\* Shutdown closes them.
Serves(r) ==
    \/ server[r].lis = "open"
    \/ server[r].lis = "broken" /\ main[r].pc \in {"notify", "wait"}

Accept(r) ==
    /\ Serves(r)
    /\ server[r].inflight < MaxInFlight
    /\ server' = [server EXCEPT ![r].inflight = @ + 1]
    /\ UNCHANGED <<db, main>>

Acquire(r) ==
    /\ server[r].busy < server[r].inflight
    /\ ~PoolClosed(r)
    /\ server' = [server EXCEPT ![r].busy = @ + 1]
    /\ UNCHANGED <<db, main>>

\* Statements that matter here: Update writes the e-mail, so that the seed's
\* user may get another address, or another user, or a new one, the seed's.
Statement(r) ==
    /\ server[r].busy > 0
    /\ \/ /\ admin = "present"
          /\ admin' = "absent"
          /\ moved' = {q \in Replicas : FoundAdmin(q)}
       \/ admin = "absent" /\ admin' = "present" /\ moved' = {}
    /\ UNCHANGED <<schema, lock, tenant, main, server>>

Release(r) ==
    /\ server[r].busy > 0
    /\ server' = [server EXCEPT ![r].busy = @ - 1]
    /\ UNCHANGED <<db, main>>

\* Mutant: a handler that returns without giving its connection back.
FinishLeaks(r) ==
    /\ server[r].inflight > 0
    /\ server' = [server EXCEPT ![r].inflight = @ - 1]
    /\ UNCHANGED <<db, main>>

Finish(r) ==
    /\ server[r].busy < server[r].inflight
    /\ server' = [server EXCEPT ![r].inflight = @ - 1]
    /\ UNCHANGED <<db, main>>

-----------------------------------------------------------------------------
\* The steps that main takes by itself once started.
Run(r) ==
    \/ SetupOTel(r)
    \/ MigrateLock(r)
    \/ MigrateVersion(r)
    \/ MigrateUp(r)
    \/ NewPool(r)
    \/ NewClient(r)
    \/ LoadKeys(r)
    \/ CheckAdmin(r)
    \/ CreateAdmin(r)
    \/ CheckTenant(r)
    \/ CreateTenant(r)
    \/ GoListen(r)
    \/ Notify(r)
    \/ ServerError(r)
    \/ Drained(r)
    \/ GraceOver(r)
    \/ CloseRedis(r)
    \/ ClosePool(r)
    \/ ShutdownOTel(r)
    \/ Exit(r)

Next ==
    \E r \in Replicas :
        \/ \E e \in Environments : Start(r, e) \/ StartRefused(r, e)
        \/ Run(r)
        \/ ListenAndServe(r)
        \/ ServeFails(r)
        \/ Quit(r)
        \/ Crash(r)
        \/ Accept(r)
        \/ Acquire(r)
        \/ Statement(r)
        \/ Release(r)
        \/ Finish(r)

Spec == Init /\ [][Next]_vars

(***************************************************************************)
(* main is scheduled, the 15 seconds pass, and statements end; a request   *)
(* need not, nor does anyone have to send a signal.                        *)
(***************************************************************************)
FairSpec ==
    /\ Spec
    /\ \A r \in Replicas : WF_vars(Run(r)) /\ WF_vars(ListenAndServe(r)) /\ WF_vars(Release(r))

-----------------------------------------------------------------------------
\* Every variable keeps its shape, and no more requests hold a connection than
\* there are.
TypeOK ==
    /\ schema \in {"old", "dirty", "current"}
    /\ lock \in Replicas \cup {None}
    /\ admin \in {"absent", "present"}
    /\ tenant \in {"absent", "active", "inactive"}
    /\ moved \in SUBSET Replicas
    /\ main \in [Replicas -> MainState]
    /\ server \in [Replicas -> ServerState]
    /\ \A r \in Replicas : server[r].busy <= server[r].inflight

\* What seeding ensures, whichever replica inserted what: a replica serves only
\* when the default tenant exists, and the seed's user too unless a request has
\* given it another address since this replica found or inserted it; or else
\* the database failed its seeding.
SeededWhenServing ==
    \A r \in Replicas : Serves(r) /\ ~main[r].seedErr =>
        /\ admin = "present" \/ r \in moved
        /\ tenant # "absent"

\* A replica serves only on a migrated schema, and no two migrate at once.
SchemaReady ==
    /\ \A r \in Replicas : Serves(r) => schema = "current"
    /\ \A r, q \in Replicas : main[r].pc = "up" /\ main[q].pc = "up" => r = q

\* Shutdown is graceful: connections are closed under a request only when the
\* 15 seconds are over, and those of the pool never while in use.
RequestsDrained ==
    \A r \in Replicas : main[r].pc = "defer" =>
        /\ server[r].inflight > 0 => main[r].late
        /\ server[r].busy > 0 => "pool" \in main[r].held

\* A replica that was told to stop does, even if a request never ends, and so
\* does one that cannot listen or no longer accept, whether main waits already
\* when that fails or not.
Stops ==
    \A r \in Replicas :
        main[r].pc = "drain" \/ server[r].lis \in {"failed", "broken"} ~> main[r].pc = "off"

=============================================================================
