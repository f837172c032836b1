---------------------------- MODULE ServerProofs ----------------------------
(***************************************************************************)
(* Proofs about Server, for any number of replicas, requests and settings, *)
(* any state of the database at the start, errors at every step, signals   *)
(* and crashes at any time.                                                *)
(*                                                                         *)
(* What a replica may rely on is what its main goroutine has passed:       *)
(* ReplicaOK says, for each place in run, what holds of the database, of   *)
(* the connections and of the requests from there on.  It survives the     *)
(* steps of other replicas because what they do to the database only adds  *)
(* to it, or is recorded where it does not (DbKept).                       *)
(***************************************************************************)
EXTENDS Server, TLAPS

\* Where main stands: past the start, past NewClient, past NewPool, past the
\* migration.
Serving == {"notify", "wait", "drain"}

Connected == {"keys", "checkAdmin", "createAdmin", "checkTenant", "createTenant", "listen"}
               \cup Serving

Pooled == Connected \cup {"redis"}

Migrated == Pooled \cup {"pool"}

\* Past the seeding of the admin and not stopping, and past that of the tenant.
AdminSeeded == {"checkTenant", "createTenant", "listen", "notify", "wait"}

TenantSeeded == {"listen"} \cup Serving

Listening(r) == server[r].lis # "none"

LockOK(r) == main[r].pc \in {"version", "up"} => lock = r

SchemaOK(r) == main[r].pc \in Migrated \/ Listening(r) => schema = "current"

\* The seed's user is there, or an update has taken it from r.
AdminKnown(r) == admin = "present" \/ r \in moved

SeedOK(r) ==
  ~main[r].seedErr =>
    /\ main[r].pc \in AdminSeeded => AdminKnown(r)
    /\ main[r].pc \in TenantSeeded \/ Listening(r) => tenant # "absent"

\* Before it serves a replica has no requests; from Shutdown on it takes none.
RequestsOK(r) ==
  /\ main[r].pc \notin Serving \cup {"defer"} => server[r] = ServerOff
  /\ main[r].pc \in {"drain", "defer"} => server[r].lis # "open"
  /\ server[r].busy <= server[r].inflight

HeldOK(r) ==
  /\ main[r].pc \in Pooled => "pool" \in main[r].held
  /\ main[r].pc \in Connected => "redis" \in main[r].held
  /\ "redis" \in main[r].held => "pool" \in main[r].held

DrainOK(r) ==
  main[r].pc = "defer" =>
    /\ server[r].inflight > 0 => main[r].late
    /\ server[r].busy > 0 => "pool" \in main[r].held

ReplicaOK(r) == LockOK(r) /\ SchemaOK(r) /\ SeedOK(r) /\ RequestsOK(r) /\ HeldOK(r) /\ DrainOK(r)

IInv == TypeOK /\ \A r \in Replicas : ReplicaOK(r)

\* What a step of replica r does to the database as the others see it.
DbKept(r) ==
  /\ schema = "current" => schema' = "current"
  /\ tenant # "absent" => tenant' # "absent"
  /\ \A q \in Replicas \ {r} : FoundAdmin(q) /\ AdminKnown(q) => AdminKnown(q)'
  /\ \A q \in Replicas : q # r /\ lock = q => lock' = q

\* The types of the database.
DbType ==
  /\ schema \in {"old", "dirty", "current"}
  /\ lock \in Replicas \cup {None}
  /\ admin \in {"absent", "present"}
  /\ tenant \in {"absent", "active", "inactive"}
  /\ moved \in SUBSET Replicas

-----------------------------------------------------------------------------
(***************************************************************************)
(* Steps of one replica.                                                   *)
(***************************************************************************)
\* Processes that are not running have their types.
LEMMA ValueTypes == MainOff \in MainState /\ ServerOff \in ServerState
BY MaxInFlightAssumption DEF MainOff, MainState, Pcs, ServerOff, ServerState

\* A step that leaves another replica alone, and what it relies on in the
\* database, preserves what holds of it.
LEMMA OtherReplicas ==
  ASSUME IInv, NEW r \in Replicas, DbKept(r), NEW q \in Replicas, q # r,
         main'[q] = main[q], server'[q] = server[q]
  PROVE  ReplicaOK(q)'
<1>1. ReplicaOK(q)
  BY DEF IInv
<1>2. LockOK(q)' /\ SchemaOK(q)' /\ SeedOK(q)'
  BY <1>1 DEF ReplicaOK, LockOK, SchemaOK, SeedOK, Listening, DbKept, FoundAdmin, AdminSeeded
<1>3. RequestsOK(q)' /\ HeldOK(q)' /\ DrainOK(q)'
  BY <1>1 DEF ReplicaOK, RequestsOK, HeldOK, DrainOK
<1> QED
  BY <1>2, <1>3 DEF ReplicaOK

\* So a step of r has to be looked at for r only.
LEMMA StepOf ==
  ASSUME IInv, NEW r \in Replicas, DbKept(r), DbType',
         NEW m \in MainState, NEW s \in ServerState,
         main' = [main EXCEPT ![r] = m], server' = [server EXCEPT ![r] = s],
         ReplicaOK(r)'
  PROVE  IInv'
<1>1. \A q \in Replicas : q # r => main'[q] = main[q] /\ server'[q] = server[q]
  BY DEF IInv, TypeOK
<1>2. \A q \in Replicas : ReplicaOK(q)'
  BY <1>1, OtherReplicas
<1>3. main' \in [Replicas -> MainState] /\ server' \in [Replicas -> ServerState]
  BY DEF IInv, TypeOK
<1>4. \A q \in Replicas : server'[q].busy <= server'[q].inflight
  BY <1>2 DEF ReplicaOK, RequestsOK
<1> QED
  BY <1>2, <1>3, <1>4 DEF IInv, TypeOK, DbType

\* What the ways in which main goes on do to it.
LEMMA MainSteps ==
  ASSUME IInv, NEW r \in Replicas
  PROVE  /\ \A l \in Pcs : Goto(r, l) =>
              main' = [main EXCEPT ![r] = [pc |-> l, held |-> main[r].held,
                                           seedErr |-> main[r].seedErr, late |-> main[r].late]]
         /\ \A x : \A l \in Pcs : Opens(r, x, l) =>
              main' = [main EXCEPT ![r] = [pc |-> l, held |-> main[r].held \cup {x},
                                           seedErr |-> main[r].seedErr, late |-> main[r].late]]
         /\ \A l \in Pcs : SeedError(r, l) =>
              main' = [main EXCEPT ![r] = [pc |-> l, held |-> main[r].held,
                                           seedErr |-> TRUE, late |-> main[r].late]]
         /\ \A x : Closes(r, x) =>
              main' = [main EXCEPT ![r] = [pc |-> main[r].pc, held |-> main[r].held \ {x},
                                           seedErr |-> main[r].seedErr, late |-> main[r].late]]
         /\ GraceOver(r) =>
              main' = [main EXCEPT ![r] = [pc |-> "defer", held |-> main[r].held,
                                           seedErr |-> main[r].seedErr, late |-> TRUE]]
BY DEF IInv, TypeOK, MainState, Goto, Opens, SeedError, Closes, GraceOver

\* What the steps of the server do to it.
LEMMA ServerSteps ==
  ASSUME IInv, NEW r \in Replicas
  PROVE  /\ \A l : server' = [server EXCEPT ![r].lis = l] =>
              server' = [server EXCEPT ![r] = [lis |-> l, inflight |-> server[r].inflight,
                                               busy |-> server[r].busy]]
         /\ \A n : server' = [server EXCEPT ![r].inflight = n] =>
              server' = [server EXCEPT ![r] = [lis |-> server[r].lis, inflight |-> n,
                                               busy |-> server[r].busy]]
         /\ \A n : server' = [server EXCEPT ![r].busy = n] =>
              server' = [server EXCEPT ![r] = [lis |-> server[r].lis,
                                               inflight |-> server[r].inflight, busy |-> n]]
         /\ UNCHANGED server => server' = [server EXCEPT ![r] = server[r]]
         /\ UNCHANGED main => main' = [main EXCEPT ![r] = main[r]]
BY DEF IInv, TypeOK, ServerState

\* What run relies on at m, except for requests.
Founded(r, m) ==
  /\ m.pc \in {"version", "up"} => lock = r
  /\ m.pc \in Migrated => schema = "current"
  /\ ~m.seedErr => /\ m.pc \in AdminSeeded => AdminKnown(r)
                   /\ m.pc \in TenantSeeded => tenant # "absent"
  /\ m.pc \in Pooled => "pool" \in m.held
  /\ m.pc \in Connected => "redis" \in m.held
  /\ "redis" \in m.held => "pool" \in m.held

\* A replica is founded where it stands.
LEMMA IsFounded ==
  ASSUME IInv, NEW r \in Replicas
  PROVE  Founded(r, main[r]) /\ main[r] \in MainState /\ server[r] \in ServerState
<1>1. ReplicaOK(r)
  BY DEF IInv
<1> QED
  BY <1>1 DEF IInv, TypeOK, ReplicaOK, LockOK, SchemaOK, SeedOK, HeldOK, Founded

\* A step of run before there is a server.
LEMMA StartStep ==
  ASSUME IInv, NEW r \in Replicas, DbKept(r), DbType', UNCHANGED server,
         main[r].pc \notin Serving \cup {"defer"},
         NEW m \in MainState, main' = [main EXCEPT ![r] = m],
         m.pc \notin Serving, Founded(r, m)'
  PROVE  IInv'
<1>1. main'[r] = m /\ server'[r] = ServerOff
  BY DEF IInv, TypeOK, ReplicaOK, RequestsOK
<1>2. server' = [server EXCEPT ![r] = server[r]] /\ server[r] \in ServerState
  BY ServerSteps, IsFounded
<1>3. LockOK(r)' /\ SchemaOK(r)' /\ SeedOK(r)' /\ HeldOK(r)'
  BY <1>1 DEF LockOK, SchemaOK, SeedOK, HeldOK, Listening, ServerOff, Founded
<1>4. RequestsOK(r)' /\ DrainOK(r)'
  BY <1>1 DEF RequestsOK, DrainOK, ServerOff
<1> QED
  BY <1>2, <1>3, <1>4, StepOf DEF ReplicaOK

\* A database that does not change is kept.
LEMMA DbUnchanged ==
  ASSUME IInv, NEW r \in Replicas, UNCHANGED db
  PROVE  DbKept(r) /\ DbType'
BY DEF IInv, TypeOK, DbKept, DbType, db, AdminKnown

\* The places of run are places.
LEMMA PlaceTypes ==
  /\ Serving \subseteq Pcs /\ Connected \subseteq Pcs /\ Pooled \subseteq Pcs /\ Migrated \subseteq Pcs
  /\ \A l \in Pcs, h \in SUBSET {"otel", "pool", "redis"}, e, f \in BOOLEAN :
       [pc |-> l, held |-> h, seedErr |-> e, late |-> f] \in MainState
BY DEF Serving, Connected, Pooled, Migrated, Pcs, MainState

\* The ways in which run goes on before it serves.
LEMMA MovesTo ==
  ASSUME IInv, NEW r \in Replicas, DbKept(r), DbType', UNCHANGED server,
         main[r].pc \notin Serving \cup {"defer"},
         NEW l \in Pcs \ Serving, NEW h, NEW e,
         \/ Goto(r, l) /\ h = main[r].held /\ e = main[r].seedErr
         \/ SeedError(r, l) /\ h = main[r].held /\ e = TRUE
         \/ \E x \in {"otel", "pool", "redis"} :
              Opens(r, x, l) /\ h = main[r].held \cup {x} /\ e = main[r].seedErr,
         \A f : Founded(r, [pc |-> l, held |-> h, seedErr |-> e, late |-> f])'
  PROVE  IInv'
<1>1. main[r] \in MainState
  BY IsFounded
<1>2. PICK f \in BOOLEAN : f = main[r].late
  BY <1>1 DEF MainState
<1>3. h \in SUBSET {"otel", "pool", "redis"} /\ e \in BOOLEAN
  BY <1>1 DEF MainState
<1>4. PICK m : m = [pc |-> l, held |-> h, seedErr |-> e, late |-> f]
  OBVIOUS
<1>5. m \in MainState /\ m.pc = l
  BY <1>3, <1>4, PlaceTypes
<1>6. main' = [main EXCEPT ![r] = m]
  <2>1. CASE Goto(r, l) /\ h = main[r].held /\ e = main[r].seedErr
    BY <1>2, <1>4, <2>1, MainSteps
  <2>2. CASE SeedError(r, l) /\ h = main[r].held /\ e = TRUE
    BY <1>2, <1>4, <2>2, MainSteps
  <2>3. ASSUME NEW x \in {"otel", "pool", "redis"},
               Opens(r, x, l) /\ h = main[r].held \cup {x} /\ e = main[r].seedErr
        PROVE  main' = [main EXCEPT ![r] = m]
    BY <1>2, <1>4, <2>3, MainSteps
  <2> QED
    BY <2>1, <2>2, <2>3
<1>7. Founded(r, m)'
  BY <1>4
<1> QED
  BY <1>5, <1>6, <1>7, StartStep

\* run up to the seeding.
LEMMA StartInv ==
  ASSUME IInv, NEW r \in Replicas,
         \/ \E e \in Environments : Start(r, e)
         \/ SetupOTel(r) \/ MigrateLock(r) \/ MigrateVersion(r) \/ MigrateUp(r)
         \/ NewPool(r) \/ NewClient(r) \/ LoadKeys(r)
  PROVE  IInv'
<1>1. Founded(r, main[r]) /\ main[r] \in MainState
  BY IsFounded
<1>2. PICK h, e : h = main[r].held /\ e = main[r].seedErr
  OBVIOUS
<1>3. {"off", "otel", "migrate", "version", "up", "pool", "redis", "keys"} \cap Serving = {}
  BY DEF Serving
<1>4. {"otel", "migrate", "version", "up", "pool", "redis", "keys", "checkAdmin", "defer"}
        \subseteq Pcs \ Serving
  BY DEF Serving, Pcs
<1>5. "redis" \in h => "pool" \in h
  BY <1>1, <1>2 DEF Founded
<1>6. UNCHANGED db => DbKept(r) /\ DbType'
  BY DbUnchanged
<1>7. \A f : \A l \in {"otel", "migrate", "defer"} :
         Founded(r, [pc |-> l, held |-> h, seedErr |-> e, late |-> f])'
  BY <1>5 DEF Founded, Migrated, Pooled, Connected, AdminSeeded, TenantSeeded, Serving
<1>8. ASSUME DbKept(r), DbType', UNCHANGED server, Return(r),
             main[r].pc \in {"off", "otel", "migrate", "version", "up", "pool", "redis", "keys"}
      PROVE  IInv'
  BY <1>2, <1>3, <1>4, <1>7, <1>8, MovesTo DEF Return
<1>9. ASSUME NEW s \in Environments, Start(r, s) PROVE IInv'
  BY <1>2, <1>3, <1>4, <1>6, <1>7, <1>9, MovesTo DEF Start
<1>10. CASE SetupOTel(r)
  <2>1. \A f : Founded(r, [pc |-> "migrate", held |-> h \cup {"otel"}, seedErr |-> e, late |-> f])'
    BY <1>5 DEF Founded, Migrated, Pooled, Connected, AdminSeeded, TenantSeeded, Serving
  <2> QED
    BY <1>2, <1>3, <1>4, <1>6, <1>8, <1>10, <2>1, MovesTo DEF SetupOTel
<1>11. CASE MigrateLock(r)
  <2>1. DbKept(r) /\ DbType'
    BY <1>11, NoneAssumption DEF MigrateLock, DbKept, DbType, AdminKnown, IInv, TypeOK
  <2>2. ASSUME lock' = r, Goto(r, "version") PROVE IInv'
    <3>1. \A f : Founded(r, [pc |-> "version", held |-> h, seedErr |-> e, late |-> f])'
      BY <1>5, <2>2 DEF Founded, Migrated, Pooled, Connected, AdminSeeded, TenantSeeded, Serving
    <3> QED
      BY <1>2, <1>3, <1>4, <1>11, <2>1, <2>2, <3>1, MovesTo DEF MigrateLock
  <2> QED
    BY <1>8, <1>11, <2>1, <2>2 DEF MigrateLock
<1>12. CASE MigrateVersion(r)
  <2>1. lock = r
    BY <1>1, <1>12 DEF MigrateVersion, Founded
  <2>2. DbKept(r) /\ DbType'
    BY <1>12, <2>1 DEF MigrateVersion, DbKept, DbType, AdminKnown, IInv, TypeOK
  <2>3. ASSUME lock' = lock, Goto(r, "up") PROVE IInv'
    <3>1. \A f : Founded(r, [pc |-> "up", held |-> h, seedErr |-> e, late |-> f])'
      BY <1>5, <2>1, <2>3 DEF Founded, Migrated, Pooled, Connected, AdminSeeded, TenantSeeded,
                              Serving
    <3> QED
      BY <1>2, <1>3, <1>4, <1>12, <2>2, <2>3, <3>1, MovesTo DEF MigrateVersion
  <2>4. ASSUME schema' = "current", Goto(r, "pool") PROVE IInv'
    <3>1. \A f : Founded(r, [pc |-> "pool", held |-> h, seedErr |-> e, late |-> f])'
      BY <1>5, <2>4 DEF Founded, Migrated, Pooled, Connected, AdminSeeded, TenantSeeded, Serving
    <3> QED
      BY <1>2, <1>3, <1>4, <1>12, <2>2, <2>4, <3>1, MovesTo DEF MigrateVersion
  <2> QED
    BY <1>8, <1>12, <2>2, <2>3, <2>4 DEF MigrateVersion
<1>13. CASE MigrateUp(r)
  <2>1. lock = r
    BY <1>1, <1>13 DEF MigrateUp, Founded
  <2>2. DbKept(r) /\ DbType'
    BY <1>13, <2>1 DEF MigrateUp, DbKept, DbType, AdminKnown, IInv, TypeOK
  <2>3. ASSUME schema' = "current", Goto(r, "pool") PROVE IInv'
    <3>1. \A f : Founded(r, [pc |-> "pool", held |-> h, seedErr |-> e, late |-> f])'
      BY <1>5, <2>3 DEF Founded, Migrated, Pooled, Connected, AdminSeeded, TenantSeeded, Serving
    <3> QED
      BY <1>2, <1>3, <1>4, <1>13, <2>2, <2>3, <3>1, MovesTo DEF MigrateUp
  <2> QED
    BY <1>8, <1>13, <2>2, <2>3 DEF MigrateUp
<1>14. CASE NewPool(r)
  <2>1. schema' = "current"
    BY <1>1, <1>14 DEF NewPool, Founded, Migrated, db
  <2>2. \A f : Founded(r, [pc |-> "redis", held |-> h \cup {"pool"}, seedErr |-> e, late |-> f])'
    BY <2>1 DEF Founded, Migrated, Pooled, Connected, AdminSeeded, TenantSeeded, Serving
  <2> QED
    BY <1>2, <1>3, <1>4, <1>6, <1>8, <1>14, <2>2, MovesTo DEF NewPool
<1>15. CASE NewClient(r)
  <2>1. schema' = "current" /\ "pool" \in h
    BY <1>1, <1>2, <1>15 DEF NewClient, Founded, Migrated, Pooled, db
  <2>2. \A f : Founded(r, [pc |-> "keys", held |-> h \cup {"redis"}, seedErr |-> e, late |-> f])'
    BY <2>1 DEF Founded, Migrated, Pooled, Connected, AdminSeeded, TenantSeeded, Serving
  <2> QED
    BY <1>2, <1>3, <1>4, <1>6, <1>8, <1>15, <2>2, MovesTo DEF NewClient
<1>16. CASE LoadKeys(r)
  <2>1. schema' = "current" /\ "pool" \in h /\ "redis" \in h
    BY <1>1, <1>2, <1>16 DEF LoadKeys, Founded, Migrated, Pooled, Connected, db
  <2>2. \A f : Founded(r, [pc |-> "checkAdmin", held |-> h, seedErr |-> e, late |-> f])'
    BY <2>1 DEF Founded, Migrated, Pooled, Connected, AdminSeeded, TenantSeeded, Serving
  <2> QED
    BY <1>2, <1>3, <1>4, <1>6, <1>8, <1>16, <2>2, MovesTo DEF LoadKeys
<1> QED
  BY <1>9, <1>10, <1>11, <1>12, <1>13, <1>14, <1>15, <1>16

\* seedAdminUser and seedDefaultTenant.
LEMMA SeedInv ==
  ASSUME IInv, NEW r \in Replicas,
         CheckAdmin(r) \/ CreateAdmin(r) \/ CheckTenant(r) \/ CreateTenant(r)
  PROVE  IInv'
<1>1. Founded(r, main[r]) /\ main[r] \in MainState
  BY IsFounded
<1>2. PICK h, e : h = main[r].held /\ e = main[r].seedErr
  OBVIOUS
<1>3. main[r].pc \in {"checkAdmin", "createAdmin", "checkTenant", "createTenant"}
  BY DEF CheckAdmin, CreateAdmin, CheckTenant, CreateTenant
<1>4. main[r].pc \notin Serving \cup {"defer"}
  BY <1>3 DEF Serving
<1>5. {"createAdmin", "checkTenant", "createTenant", "listen"} \subseteq Pcs \ Serving
  BY DEF Serving, Pcs
<1>6. schema = "current" /\ "pool" \in h /\ "redis" \in h
  BY <1>1, <1>2, <1>3 DEF Founded, Migrated, Pooled, Connected
<1>7. DbKept(r) /\ DbType' /\ UNCHANGED <<schema, lock, server>>
  BY DEF CheckAdmin, CreateAdmin, CheckTenant, CreateTenant, db, DbKept, DbType, AdminKnown, IInv,
         TypeOK
<1>8. ASSUME NEW l \in {"createAdmin", "checkTenant", "createTenant", "listen"}, NEW s, NEW f,
             ~s /\ l # "createAdmin" => AdminKnown(r)',
             ~s /\ l = "listen" => tenant' # "absent"
      PROVE  Founded(r, [pc |-> l, held |-> h, seedErr |-> s, late |-> f])'
  BY <1>6, <1>7, <1>8 DEF Founded, Migrated, Pooled, Connected, AdminSeeded, TenantSeeded, Serving
<1>9. ASSUME NEW l \in {"createAdmin", "checkTenant", "createTenant", "listen"}, Goto(r, l),
             ~e /\ l # "createAdmin" => AdminKnown(r)',
             ~e /\ l = "listen" => tenant' # "absent"
      PROVE  IInv'
  BY <1>2, <1>4, <1>5, <1>7, <1>8, <1>9, MovesTo
<1>10. ASSUME NEW l \in {"createAdmin", "checkTenant", "createTenant", "listen"},
              SeedError(r, l)
       PROVE  IInv'
  <2>1. \A f : Founded(r, [pc |-> l, held |-> h, seedErr |-> TRUE, late |-> f])'
    BY <1>8
  <2> QED
    BY <1>2, <1>4, <1>5, <1>7, <1>10, <2>1, MovesTo
<1>11. CASE CheckAdmin(r)
  BY <1>9, <1>10, <1>11 DEF CheckAdmin, db, AdminKnown
<1>12. CASE CreateAdmin(r)
  BY <1>9, <1>10, <1>12 DEF CreateAdmin, AdminKnown
<1>13. ~e /\ main[r].pc \in {"checkTenant", "createTenant"} => AdminKnown(r)
  BY <1>1, <1>2 DEF Founded, AdminSeeded
<1>14. CASE CheckTenant(r)
  BY <1>9, <1>10, <1>13, <1>14 DEF CheckTenant, db, AdminKnown
<1>15. CASE CreateTenant(r)
  BY <1>9, <1>10, <1>13, <1>15 DEF CreateTenant, AdminKnown
<1> QED
  BY <1>11, <1>12, <1>14, <1>15

-----------------------------------------------------------------------------
(***************************************************************************)
(* Serving and shutting down.                                              *)
(***************************************************************************)
\* What holds of a replica whose main is at m and whose server is in s.
Placed(r, m, s) ==
  /\ Founded(r, m)
  /\ s.lis # "none" => /\ schema = "current"
                       /\ ~m.seedErr => tenant # "absent"
  /\ m.pc \notin Serving \cup {"defer"} => s = ServerOff
  /\ m.pc \in {"drain", "defer"} => s.lis # "open"
  /\ s.busy <= s.inflight
  /\ m.pc = "defer" => /\ s.inflight > 0 => m.late
                       /\ s.busy > 0 => "pool" \in m.held

\* It holds where a replica stands.
LEMMA IsPlaced ==
  ASSUME IInv, NEW r \in Replicas
  PROVE  /\ Placed(r, main[r], server[r])
         /\ main[r] \in MainState /\ server[r] \in ServerState
<1>1. ReplicaOK(r)
  BY DEF IInv
<1>2. Founded(r, main[r]) /\ main[r] \in MainState /\ server[r] \in ServerState
  BY IsFounded
<1>3. server[r].lis # "none" =>
         /\ schema = "current"
         /\ ~main[r].seedErr => tenant # "absent"
  BY <1>1 DEF ReplicaOK, SchemaOK, SeedOK, Listening
<1> QED
  BY <1>1, <1>2, <1>3 DEF Placed, ReplicaOK, RequestsOK, DrainOK

\* And is all there is to show of a step of one replica.
LEMMA PlacedStep ==
  ASSUME IInv, NEW r \in Replicas, DbKept(r), DbType',
         NEW m \in MainState, NEW s \in ServerState,
         main' = [main EXCEPT ![r] = m], server' = [server EXCEPT ![r] = s],
         Placed(r, m, s)'
  PROVE  IInv'
<1>1. main'[r] = m /\ server'[r] = s
  BY DEF IInv, TypeOK
<1>2. LockOK(r)' /\ SchemaOK(r)' /\ SeedOK(r)' /\ HeldOK(r)'
  BY <1>1 DEF LockOK, SchemaOK, SeedOK, HeldOK, Listening, Founded, Placed
<1>3. RequestsOK(r)' /\ DrainOK(r)'
  BY <1>1 DEF RequestsOK, DrainOK, Placed
<1> QED
  BY <1>2, <1>3, StepOf DEF ReplicaOK

\* Without a change of the database, before the step is as good as after it.
LEMMA QuietStep ==
  ASSUME IInv, NEW r \in Replicas, UNCHANGED db,
         NEW m \in MainState, NEW s \in ServerState,
         main' = [main EXCEPT ![r] = m], server' = [server EXCEPT ![r] = s],
         Placed(r, m, s)
  PROVE  IInv'
<1>1. DbKept(r) /\ DbType'
  BY DbUnchanged
<1>2. Placed(r, m, s)'
  BY DEF Placed, Founded, db, AdminKnown
<1> QED
  BY <1>1, <1>2, PlacedStep

\* Main goes on and the server does not, or only its listener changes.
LEMMA MainInv ==
  ASSUME IInv, NEW r \in Replicas,
         \/ GoListen(r) \/ Notify(r) \/ ServerError(r) \/ Quit(r) \/ Drained(r) \/ GraceOver(r)
         \/ CloseRedis(r) \/ ClosePool(r) \/ ShutdownOTel(r)
  PROVE  IInv'
<1>1. PICK m0 \in MainState, s0 \in ServerState : m0 = main[r] /\ s0 = server[r]
  BY IsFounded
<1>2. Placed(r, m0, s0)
  BY <1>1, IsPlaced
<1>3. PICK l, h, e, f : l = m0.pc /\ h = m0.held /\ e = m0.seedErr /\ f = m0.late
  OBVIOUS
<1>4. m0 = [pc |-> l, held |-> h, seedErr |-> e, late |-> f]
  BY <1>3 DEF MainState
<1>5. l \in Pcs /\ h \in SUBSET {"otel", "pool", "redis"} /\ e \in BOOLEAN /\ f \in BOOLEAN
  BY <1>3 DEF MainState
<1>6. PICK n, b \in 0 .. MaxInFlight : n = s0.inflight /\ b = s0.busy
  BY DEF ServerState
<1>7. s0 = [lis |-> s0.lis, inflight |-> n, busy |-> b]
  BY <1>6 DEF ServerState
<1>8. {"notify", "wait", "drain", "defer"} \subseteq Pcs
  BY DEF Pcs
<1>9. UNCHANGED server => server' = [server EXCEPT ![r] = s0]
  BY <1>1, ServerSteps
<1>10. \A k \in Pcs : Goto(r, k) =>
         main' = [main EXCEPT ![r] = [pc |-> k, held |-> h, seedErr |-> e, late |-> f]]
  BY <1>1, <1>3, MainSteps
<1>11. \A k \in Pcs, g \in SUBSET {"otel", "pool", "redis"}, z \in BOOLEAN :
         [pc |-> k, held |-> g, seedErr |-> e, late |-> z] \in MainState
  BY <1>5, PlaceTypes
<1>12. ASSUME NEW k \in {"wait", "drain"}, l \in {"notify", "wait"}, Goto(r, k),
              UNCHANGED <<db, server>>, k = "drain" => s0.lis # "open"
       PROVE  IInv'
  <2>1. PICK m : m = [pc |-> k, held |-> h, seedErr |-> e, late |-> f]
    OBVIOUS
  <2>2. Placed(r, m, s0)
    BY <1>2, <1>3, <1>12, <2>1
       DEF Placed, Founded, Migrated, Pooled, Connected, AdminSeeded, TenantSeeded, Serving
  <2> QED
    BY <1>8, <1>9, <1>10, <1>11, <1>5, <1>12, <2>1, <2>2, QuietStep
<1>13. CASE GoListen(r)
  <2>1. PICK m : m = [pc |-> "notify", held |-> h, seedErr |-> e, late |-> f]
    OBVIOUS
  <2>2. PICK s : s = [lis |-> "pending", inflight |-> n, busy |-> b]
    OBVIOUS
  <2>3. s \in ServerState
    BY <2>2 DEF ServerState
  <2>4. l = "listen"
    BY <1>1, <1>3, <1>13 DEF GoListen
  <2>5. Placed(r, m, s)
    BY <1>2, <1>3, <1>6, <2>1, <2>2, <2>4
       DEF Placed, Founded, Migrated, Pooled, Connected, AdminSeeded, TenantSeeded, Serving
  <2>6. server' = [server EXCEPT ![r] = s]
    BY <1>1, <1>6, <1>13, <2>2, ServerSteps DEF GoListen
  <2> QED
    BY <1>8, <1>10, <1>11, <1>5, <1>13, <2>1, <2>3, <2>5, <2>6, QuietStep DEF GoListen
<1>14. CASE Notify(r)
  BY <1>1, <1>3, <1>12, <1>14 DEF Notify
<1>15. CASE ServerError(r)
  BY <1>1, <1>3, <1>12, <1>15 DEF ServerError
<1>16. CASE Quit(r)
  <2>1. PICK m : m = [pc |-> "drain", held |-> h, seedErr |-> e, late |-> f]
    OBVIOUS
  <2>2. PICK s : s = [lis |-> IF s0.lis = "open" THEN "closed" ELSE s0.lis,
                      inflight |-> n, busy |-> b]
    OBVIOUS
  <2>3. s \in ServerState
    BY <2>2 DEF ServerState
  <2>4. l = "wait"
    BY <1>1, <1>3, <1>16 DEF Quit
  <2>5. s.lis # "open" /\ s.inflight = s0.inflight /\ s.busy = s0.busy
        /\ (s.lis # "none" => s0.lis # "none")
    BY <1>6, <2>2
  <2>6. Placed(r, m, s)
    BY <1>2, <1>3, <2>1, <2>4, <2>5
       DEF Placed, Founded, Migrated, Pooled, Connected, AdminSeeded, TenantSeeded, Serving
  <2>7. server' = [server EXCEPT ![r].lis = s.lis]
    BY <1>1, <1>16, <2>2 DEF Quit, IInv, TypeOK
  <2>8. server' = [server EXCEPT ![r] = s]
    <3>1. server' = [server EXCEPT ![r] = [lis |-> s.lis, inflight |-> server[r].inflight,
                                           busy |-> server[r].busy]]
      BY <2>7, ServerSteps
    <3>2. s = [lis |-> s.lis, inflight |-> server[r].inflight, busy |-> server[r].busy]
      BY <1>1, <1>6, <2>2
    <3> QED
      BY <3>1, <3>2
  <2> QED
    BY <1>8, <1>10, <1>11, <1>5, <1>16, <2>1, <2>3, <2>6, <2>8, QuietStep DEF Quit
<1>17. CASE Drained(r)
  <2>1. PICK m : m = [pc |-> "defer", held |-> h, seedErr |-> e, late |-> f]
    OBVIOUS
  <2>2. l = "drain" /\ n = 0
    BY <1>1, <1>3, <1>6, <1>17 DEF Drained
  <2>3. b = 0
    BY <1>2, <1>6, <2>2 DEF Placed
  <2>4. Placed(r, m, s0)
    BY <1>2, <1>3, <1>6, <2>1, <2>2, <2>3
       DEF Placed, Founded, Migrated, Pooled, Connected, AdminSeeded, TenantSeeded, Serving
  <2> QED
    BY <1>8, <1>9, <1>10, <1>11, <1>5, <1>17, <2>1, <2>4, QuietStep DEF Drained, Return
<1>18. CASE GraceOver(r)
  <2>1. PICK m : m = [pc |-> "defer", held |-> h, seedErr |-> e, late |-> TRUE]
    OBVIOUS
  <2>2. l = "drain"
    BY <1>1, <1>3, <1>18 DEF GraceOver
  <2>3. Placed(r, m, s0)
    BY <1>2, <1>3, <2>1, <2>2
       DEF Placed, Founded, Migrated, Pooled, Connected, AdminSeeded, TenantSeeded, Serving
  <2>4. main' = [main EXCEPT ![r] = m]
    <3>1. main' = [main EXCEPT ![r] = [pc |-> "defer", held |-> main[r].held,
                                       seedErr |-> main[r].seedErr, late |-> TRUE]]
      BY <1>18, MainSteps
    <3> QED
      BY <1>1, <1>3, <2>1, <3>1
  <2> QED
    BY <1>8, <1>9, <1>11, <1>5, <1>18, <2>1, <2>3, <2>4, QuietStep DEF GraceOver
<1>19. ASSUME NEW x \in {"otel", "pool", "redis"}, Closes(r, x), l = "defer",
              UNCHANGED <<db, server>>,
              x = "pool" => s0.busy = 0 /\ "redis" \notin h
       PROVE  IInv'
  <2>1. PICK m : m = [pc |-> l, held |-> h \ {x}, seedErr |-> e, late |-> f]
    OBVIOUS
  <2>2. ~(s0.busy > 0) \/ x # "pool"
    BY <1>6, <1>19
  <2>3. Placed(r, m, s0)
    BY <1>2, <1>3, <1>19, <2>1, <2>2
       DEF Placed, Founded, Migrated, Pooled, Connected, AdminSeeded, TenantSeeded, Serving
  <2>4. main' = [main EXCEPT ![r] = m]
    <3>1. main' = [main EXCEPT ![r] = [pc |-> main[r].pc, held |-> main[r].held \ {x},
                                       seedErr |-> main[r].seedErr, late |-> main[r].late]]
      BY <1>19, MainSteps
    <3> QED
      BY <1>1, <1>3, <2>1, <3>1
  <2>5. m \in MainState
    BY <1>5, <1>11, <2>1
  <2> QED
    BY <1>9, <1>19, <2>3, <2>4, <2>5, QuietStep
<1>20. CASE CloseRedis(r)
  BY <1>1, <1>3, <1>19, <1>20 DEF CloseRedis
<1>21. CASE ClosePool(r)
  BY <1>1, <1>3, <1>19, <1>21 DEF ClosePool, PoolClosed
<1>22. CASE ShutdownOTel(r)
  BY <1>1, <1>3, <1>19, <1>22 DEF ShutdownOTel
<1> QED
  BY <1>13, <1>14, <1>15, <1>16, <1>17, <1>18, <1>20, <1>21, <1>22

\* A process that ends leaves nothing behind but what it wrote.
LEMMA EndInv ==
  ASSUME IInv, NEW r \in Replicas, Exit(r) \/ Crash(r)
  PROVE  IInv'
<1>1. DbKept(r) /\ DbType'
  BY DEF Exit, Crash, DbKept, DbType, AdminKnown, IInv, TypeOK
<1>2. Placed(r, MainOff, ServerOff)'
  BY DEF Placed, Founded, MainOff, ServerOff, Migrated, Pooled, Connected, AdminSeeded,
         TenantSeeded, Serving
<1> QED
  BY <1>1, <1>2, ValueTypes, PlacedStep DEF Exit, Crash

\* The listener and the requests.
LEMMA ServerInv ==
  ASSUME IInv, NEW r \in Replicas,
         ListenAndServe(r) \/ ServeFails(r) \/ Accept(r) \/ Acquire(r) \/ Release(r) \/ Finish(r)
  PROVE  IInv'
<1>1. PICK m0 \in MainState, s0 \in ServerState : m0 = main[r] /\ s0 = server[r]
  BY IsFounded
<1>2. Placed(r, m0, s0)
  BY <1>1, IsPlaced
<1>3. PICK l \in {"none", "pending", "open", "failed", "broken", "closed"},
           n \in 0 .. MaxInFlight, b \in 0 .. MaxInFlight :
         l = s0.lis /\ n = s0.inflight /\ b = s0.busy
  BY DEF ServerState
<1>4. n \in Nat /\ b \in Nat /\ b <= n /\ n <= MaxInFlight
  BY <1>2, <1>3, MaxInFlightAssumption DEF Placed
<1>5. main' = [main EXCEPT ![r] = m0] /\ UNCHANGED db
  BY <1>1, ServerSteps DEF ListenAndServe, ServeFails, Accept, Acquire, Release, Finish
<1>6. ASSUME NEW s \in ServerState, server' = [server EXCEPT ![r] = s], Placed(r, m0, s)
      PROVE  IInv'
  BY <1>5, <1>6, QuietStep
<1>7. l # "none" \/ n > 0 => m0.pc \in Serving \cup {"defer"}
  BY <1>2, <1>3 DEF Placed, ServerOff
<1>8. CASE ListenAndServe(r)
  <2>1. PICK k \in {"open", "failed", "closed"} :
           /\ server' = [server EXCEPT ![r].lis = k]
           /\ k = "open" => m0.pc \in {"notify", "wait"}
    BY <1>1, <1>8 DEF ListenAndServe
  <2>2. PICK s : s = [lis |-> k, inflight |-> n, busy |-> b]
    OBVIOUS
  <2>3. s \in ServerState /\ server' = [server EXCEPT ![r] = s]
    BY <1>1, <1>3, <2>1, <2>2, ServerSteps DEF ServerState
  <2>4. l = "pending"
    BY <1>1, <1>3, <1>8 DEF ListenAndServe
  <2>5. Placed(r, m0, s)
    BY <1>2, <1>3, <1>7, <2>1, <2>2, <2>4 DEF Placed
  <2> QED
    BY <1>6, <2>3, <2>5
<1>9. CASE ServeFails(r)
  <2>1. PICK s : s = [lis |-> "broken", inflight |-> n, busy |-> b]
    OBVIOUS
  <2>2. s \in ServerState /\ server' = [server EXCEPT ![r] = s]
    BY <1>1, <1>3, <1>9, <2>1, ServerSteps DEF ServeFails, ServerState
  <2>3. l = "open"
    BY <1>1, <1>3, <1>9 DEF ServeFails
  <2>4. Placed(r, m0, s)
    BY <1>2, <1>3, <1>7, <2>1, <2>3 DEF Placed
  <2> QED
    BY <1>6, <2>2, <2>4
<1>10. CASE Accept(r)
  <2>1. PICK s : s = [lis |-> l, inflight |-> n + 1, busy |-> b]
    OBVIOUS
  <2>2. n < MaxInFlight /\ (l = "open" \/ (l = "broken" /\ m0.pc \in {"notify", "wait"}))
    BY <1>1, <1>3, <1>10 DEF Accept, Serves
  <2>3. server' = [server EXCEPT ![r].inflight = n + 1]
    BY <1>1, <1>3, <1>10 DEF Accept, IInv, TypeOK
  <2>4. n + 1 \in 0 .. MaxInFlight /\ b <= n + 1
    BY <1>4, <2>2, MaxInFlightAssumption
  <2>5. s \in ServerState /\ server' = [server EXCEPT ![r] = s]
    BY <1>1, <1>3, <2>1, <2>3, <2>4, ServerSteps DEF ServerState
  <2>6. Placed(r, m0, s)
    BY <1>2, <1>3, <1>7, <2>1, <2>2, <2>4 DEF Placed
  <2> QED
    BY <1>6, <2>5, <2>6
<1>11. CASE Acquire(r)
  <2>1. PICK s : s = [lis |-> l, inflight |-> n, busy |-> b + 1]
    OBVIOUS
  <2>2. b < n
    BY <1>1, <1>3, <1>11 DEF Acquire
  <2>3. server' = [server EXCEPT ![r].busy = b + 1]
    BY <1>1, <1>3, <1>11 DEF Acquire, IInv, TypeOK
  <2>4. b + 1 \in 0 .. MaxInFlight /\ b + 1 <= n /\ n > 0
    BY <1>4, <2>2, MaxInFlightAssumption
  <2>5. s \in ServerState /\ server' = [server EXCEPT ![r] = s]
    BY <1>1, <1>3, <2>1, <2>3, <2>4, ServerSteps DEF ServerState
  <2>6. m0.pc = "defer" => "redis" \in m0.held
    BY <1>1, <1>11 DEF Acquire, PoolClosed
  <2>7. "redis" \in m0.held => "pool" \in m0.held
    BY <1>2 DEF Placed, Founded
  <2>8. Placed(r, m0, s)
    BY <1>2, <1>3, <1>7, <2>1, <2>4, <2>6, <2>7 DEF Placed
  <2> QED
    BY <1>6, <2>5, <2>8
<1>12. CASE Release(r)
  <2>1. PICK s : s = [lis |-> l, inflight |-> n, busy |-> b - 1]
    OBVIOUS
  <2>2. b > 0
    BY <1>1, <1>3, <1>12 DEF Release
  <2>3. server' = [server EXCEPT ![r].busy = b - 1]
    BY <1>1, <1>3, <1>12 DEF Release, IInv, TypeOK
  <2>4. b - 1 \in 0 .. MaxInFlight /\ b - 1 <= n /\ n > 0
    BY <1>4, <2>2, MaxInFlightAssumption
  <2>5. s \in ServerState /\ server' = [server EXCEPT ![r] = s]
    BY <1>1, <1>3, <2>1, <2>3, <2>4, ServerSteps DEF ServerState
  <2>6. Placed(r, m0, s)
    BY <1>2, <1>3, <1>7, <2>1, <2>2, <2>4 DEF Placed
  <2> QED
    BY <1>6, <2>5, <2>6
<1>13. CASE Finish(r)
  <2>1. PICK s : s = [lis |-> l, inflight |-> n - 1, busy |-> b]
    OBVIOUS
  <2>2. b < n
    BY <1>1, <1>3, <1>13 DEF Finish
  <2>3. server' = [server EXCEPT ![r].inflight = n - 1]
    BY <1>1, <1>3, <1>13 DEF Finish, IInv, TypeOK
  <2>4. n - 1 \in 0 .. MaxInFlight /\ b <= n - 1 /\ n > 0
    BY <1>4, <2>2, MaxInFlightAssumption
  <2>5. s \in ServerState /\ server' = [server EXCEPT ![r] = s]
    BY <1>1, <1>3, <2>1, <2>3, <2>4, ServerSteps DEF ServerState
  <2>6. Placed(r, m0, s)
    BY <1>2, <1>3, <1>7, <2>1, <2>4 DEF Placed
  <2> QED
    BY <1>6, <2>5, <2>6
<1> QED
  BY <1>8, <1>9, <1>10, <1>11, <1>12, <1>13

\* What requests write takes the seed's user from nobody unnoticed.
LEMMA StatementInv ==
  ASSUME IInv, NEW r \in Replicas, Statement(r)
  PROVE  IInv'
<1>1. DbType' /\ \A q \in Replicas : FoundAdmin(q) => AdminKnown(q)'
  BY DEF Statement, DbType, AdminKnown, IInv, TypeOK
<1>2. DbKept(r)
  BY <1>1 DEF Statement, DbKept
<1>3. PICK m \in MainState, s \in ServerState : m = main[r] /\ s = server[r]
  BY IsFounded
<1>4. Placed(r, m, s)
  BY <1>3, IsPlaced
<1>5. Placed(r, m, s)'
  BY <1>1, <1>3, <1>4 DEF Statement, Placed, Founded, FoundAdmin, AdminSeeded
<1>6. main' = [main EXCEPT ![r] = m] /\ server' = [server EXCEPT ![r] = s]
  BY <1>3, ServerSteps DEF Statement
<1> QED
  BY <1>1, <1>2, <1>5, <1>6, PlacedStep

-----------------------------------------------------------------------------
\* The invariant holds when every replica is off and is kept by every step.
THEOREM Invariance == Spec => []IInv
<1>1. Init => IInv
  <2> SUFFICES ASSUME Init PROVE IInv
    OBVIOUS
  <2>1. TypeOK
    BY ValueTypes DEF Init, TypeOK, ServerOff
  <2>2. \A r \in Replicas : main[r] = MainOff /\ server[r] = ServerOff
    BY DEF Init
  <2>3. \A r \in Replicas : ReplicaOK(r)
    BY <2>2 DEF ReplicaOK, LockOK, SchemaOK, SeedOK, RequestsOK, HeldOK, DrainOK, Listening,
                MainOff, ServerOff, Migrated, Pooled, Connected, AdminSeeded, TenantSeeded,
                Serving
  <2> QED
    BY <2>1, <2>3 DEF IInv
<1>2. IInv /\ [Next]_vars => IInv'
  <2> SUFFICES ASSUME IInv, [Next]_vars PROVE IInv'
    OBVIOUS
  <2>1. CASE UNCHANGED vars
    BY <2>1 DEF vars, IInv, TypeOK, ReplicaOK, LockOK, SchemaOK, SeedOK, RequestsOK, HeldOK,
                DrainOK, Listening, AdminKnown
  <2>2. ASSUME NEW r \in Replicas, Run(r) PROVE IInv'
    BY <2>2, StartInv, SeedInv, MainInv, EndInv DEF Run
  <2>3. ASSUME NEW r \in Replicas, NEW e \in Environments, Start(r, e) \/ StartRefused(r, e)
        PROVE  IInv'
    BY <2>1, <2>3, StartInv DEF StartRefused
  <2> QED
    BY <2>1, <2>2, <2>3, MainInv, EndInv, ServerInv, StatementInv DEF Next
<1> QED
  BY <1>1, <1>2, PTL DEF Spec

\* Every variable keeps its shape: of a replica no more requests hold a
\* connection than are being served.
THEOREM TypeCorrect == Spec => []TypeOK
<1>1. IInv => TypeOK
  BY DEF IInv
<1> QED
  BY <1>1, Invariance, PTL

\* However replicas race to seed one database, one that serves and met no error
\* of the database while seeding has the default tenant, and the seed's user but
\* for an update that gave it another address after this replica had seeded.
THEOREM SeededFirst == Spec => []SeededWhenServing
<1>1. IInv => SeededWhenServing
  <2> SUFFICES ASSUME IInv, NEW r \in Replicas, Serves(r), ~main[r].seedErr
               PROVE  (admin = "present" \/ r \in moved) /\ tenant # "absent"
    BY DEF SeededWhenServing
  <2>1. SeedOK(r) /\ RequestsOK(r) /\ main[r].pc \in Pcs
    BY DEF IInv, ReplicaOK, TypeOK, MainState
  <2>2. main[r].pc \in {"notify", "wait"}
    BY <2>1 DEF RequestsOK, Serves, Serving, ServerOff
  <2> QED
    BY <2>1, <2>2 DEF SeedOK, AdminKnown, AdminSeeded, TenantSeeded, Serving
<1> QED
  BY <1>1, Invariance, PTL

\* A replica listens on a migrated schema only, and the advisory lock keeps two
\* from migrating at once, also when the one that holds it crashes.
THEOREM MigratedFirst == Spec => []SchemaReady
<1>1. IInv => SchemaReady
  BY DEF IInv, ReplicaOK, SchemaOK, LockOK, Listening, Serves, SchemaReady
<1> QED
  BY <1>1, Invariance, PTL

\* Shutdown waits for the requests or for its deadline, and the pool for the
\* connections in use.
THEOREM Graceful == Spec => []RequestsDrained
<1>1. IInv => RequestsDrained
  BY DEF IInv, ReplicaOK, DrainOK, RequestsDrained
<1> QED
  BY <1>1, Invariance, PTL

=============================================================================
