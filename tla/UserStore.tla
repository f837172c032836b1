----------------------------- MODULE UserStore -----------------------------
(***************************************************************************)
(* User accounts: the users table (internal/repository/postgres/user.go),  *)
(* the read-through cache cache:user:<id> in front of it                   *)
(* (internal/repository/redis/cache.go) and the operations of              *)
(* internal/service/user.go that concurrent requests run on both.          *)
(*                                                                         *)
(* Each access to Postgres or Redis is a step.  No operation runs in a     *)
(* transaction, so an Update is a read, a change of the copy, and a write  *)
(* of every column of the copy.  A cache command may fail; the code only   *)
(* logs it.  Time is the countdown of the cache TTLs.  Who may call these  *)
(* operations, and the specification, are in Accounts.tla.                 *)
(***************************************************************************)
EXTENDS Integers, FiniteSets

CONSTANTS
    None,       \* the absent value
    Requests,   \* request goroutines
    Users,      \* user ids
    Emails,     \* e-mail addresses
    CacheTTL,   \* userCacheTTL, in ticks
    MaxWrites,  \* bound on the updates of rows of the users table
    Faults      \* "failed": a cache command may fail; "lost": the answer of a
                \* write to the table may be lost, or the process die before DEL

\* moderator, the third role of the schema, is a user to all of the code.
Roles == {"user", "admin"}

Row == [email: Emails, role: Roles, active: BOOLEAN]

ASSUME NoneAssumption == None \notin Row /\ None \notin Users \cup Emails
ASSUME CacheTTLAssumption == CacheTTL \in Nat \ {0}
ASSUME MaxWritesAssumption == MaxWrites \in Nat
ASSUME FaultAssumption == Faults \subseteq {"failed", "lost"}

VARIABLES
    row,      \* Users -> the row; None before it is inserted
    cache,    \* Users -> the cached row; None when there is no key
    ttl,      \* Users -> ticks the key still has; 0 when there is none
    req,      \* Requests -> local state of the goroutine
    writes,   \* updates executed on the users table
    granted,  \* history: Users -> roles given by an admin or at creation
    deleted   \* history: users whose deletion has been answered with success
              \* and overlapped no update of the same user

storeVars == <<row, cache, ttl, req, writes, granted, deleted>>

CacheOutcomes == {"ok"} \cup (Faults \cap {"failed"})

Pcs == {"idle", "read", "fill", "write", "remove", "inval", "select", "issue"}

(***************************************************************************)
(* Local state of a request: the user it is about, its copy of the row,    *)
(* the caller's role, where GetByID returns to ("idle" for the handlers,   *)
(* "issue" for AuthService.Refresh), and what List has counted and is to   *)
(* select.  del records, for the properties, a deletion that no update of  *)
(* the same user overlapped.                                               *)
(***************************************************************************)
Request == [pc: Pcs, user: Users \cup {None}, copy: Row \cup {None}, caller: Roles,
            then: {"idle", "issue"}, total: Nat, limit: Nat, offset: Nat, del: BOOLEAN]

Idle == [pc |-> "idle", user |-> None, copy |-> None, caller |-> "user",
         then |-> "idle", total |-> 0, limit |-> 0, offset |-> 0, del |-> FALSE]

StoreInit ==
    /\ row = [u \in Users |-> None]
    /\ cache = [u \in Users |-> None]
    /\ ttl = [u \in Users |-> 0]
    /\ req = [r \in Requests |-> Idle]
    /\ writes = 0
    /\ granted = [u \in Users |-> {}]
    /\ deleted = {}

Answer(r) == req' = [req EXCEPT ![r] = Idle]

Goto(r, l) == req' = [req EXCEPT ![r].pc = l]

-----------------------------------------------------------------------------
(***************************************************************************)
(* internal/repository/postgres/user.go.  email is UNIQUE in the schema.   *)
(***************************************************************************)
\* Mutant: soft-deleted rows are found as well.
FindByIDAny(u) == row[u]

FindByID(u) == IF row[u] # None /\ row[u].active THEN row[u] ELSE None

\* FindByEmail returns the row whether it is active or not.
FindByEmail(e) == {u \in Users : row[u] # None /\ row[u].email = e}

EmailTaken(u, e) == \E v \in Users \ {u} : row[v] # None /\ row[v].email = e

CountWrite == writes < MaxWrites /\ writes' = writes + 1

-----------------------------------------------------------------------------
(***************************************************************************)
(* Create: Register and the admin seed.  A taken address inserts nothing.  *)
(***************************************************************************)
Create(r, u, e, role) ==
    /\ req[r].pc = "idle"
    /\ row[u] = None
    /\ ~EmailTaken(u, e)
    /\ row' = [row EXCEPT ![u] = [email |-> e, role |-> role, active |-> TRUE]]
    /\ granted' = [granted EXCEPT ![u] = {role}]
    /\ UNCHANGED <<cache, ttl, req, writes, deleted>>

(***************************************************************************)
(* GetByID: a hit is answered from the cache; a miss or a failing GET goes *)
(* to the table, and a row found there to the cache.                       *)
(***************************************************************************)
Return(r, u, found, then) ==
    req' = [req EXCEPT ![r] = IF then = "idle" THEN Idle
                              ELSE [Idle EXCEPT !.pc = then, !.user = u, !.copy = found,
                                                !.then = then]]

\* Mutant: a hit renews the TTL.
GetHitSliding(r, u, then) ==
    /\ req[r].pc = "idle"
    /\ cache[u] # None
    /\ Return(r, u, cache[u], then)
    /\ ttl' = [ttl EXCEPT ![u] = CacheTTL]
    /\ UNCHANGED <<row, cache, writes, granted, deleted>>

GetHit(r, u, then) ==
    /\ req[r].pc = "idle"
    /\ cache[u] # None
    /\ Return(r, u, cache[u], then)
    /\ UNCHANGED <<row, cache, ttl, writes, granted, deleted>>

GetMiss(r, u, then) ==
    /\ req[r].pc = "idle"
    /\ cache[u] = None \/ "failed" \in Faults
    /\ req' = [req EXCEPT ![r] = [Idle EXCEPT !.pc = "read", !.user = u, !.then = then]]
    /\ UNCHANGED <<row, cache, ttl, writes, granted, deleted>>

GetRead(r) ==
    /\ req[r].pc = "read"
    /\ LET found == FindByID(req[r].user)
       IN  \/ found = None /\ Answer(r)
           \/ /\ found # None
              /\ req' = [req EXCEPT ![r].pc = "fill", ![r].copy = found]
    /\ UNCHANGED <<row, cache, ttl, writes, granted, deleted>>

\* Mutant: cached without a TTL.
GetFillForever(r) ==
    /\ req[r].pc = "fill"
    /\ cache' = [cache EXCEPT ![req[r].user] = req[r].copy]
    /\ Return(r, req[r].user, req[r].copy, req[r].then)
    /\ UNCHANGED <<row, ttl, writes, granted, deleted>>

GetFill(r) ==
    /\ req[r].pc = "fill"
    /\ \E o \in CacheOutcomes :
        IF o = "ok"
        THEN /\ cache' = [cache EXCEPT ![req[r].user] = req[r].copy]
             /\ ttl' = [ttl EXCEPT ![req[r].user] = CacheTTL]
        ELSE UNCHANGED <<cache, ttl>>
    /\ Return(r, req[r].user, req[r].copy, req[r].then)
    /\ UNCHANGED <<row, writes, granted, deleted>>

-----------------------------------------------------------------------------
(***************************************************************************)
(* Update: find the active row, patch the copy, write it back whole.  Each *)
(* field of the patch is None when the request leaves it out.  A role is   *)
(* patched only for an admin caller.                                       *)
(***************************************************************************)
\* Mutant: any caller may patch the role.
PatchAnyRole(copy, email, role, active, caller) ==
    [email  |-> IF email # None THEN email ELSE copy.email,
     role   |-> IF role # None THEN role ELSE copy.role,
     active |-> IF active # None THEN active ELSE copy.active]

Patch(copy, email, role, active, caller) ==
    [email  |-> IF email # None THEN email ELSE copy.email,
     role   |-> IF role # None /\ caller = "admin" THEN role ELSE copy.role,
     active |-> IF active # None THEN active ELSE copy.active]

UpdateFind(r, u, caller, email, role, active) ==
    /\ req[r].pc = "idle"
    /\ FindByID(u) # None
    /\ req' = [req EXCEPT ![r] =
        [Idle EXCEPT !.pc = "write", !.user = u, !.caller = caller,
                     !.copy = Patch(FindByID(u), email, role, active, caller)]]
    /\ UNCHANGED <<row, cache, ttl, writes, granted, deleted>>

UpdateWrite(r) ==
    LET u == req[r].user
        copy == req[r].copy
    IN  /\ req[r].pc = "write"
        /\ ~EmailTaken(u, copy.email)
        /\ CountWrite
        /\ row' = [row EXCEPT ![u] = copy]
        /\ granted' = IF req[r].caller = "admin" THEN [granted EXCEPT ![u] = @ \cup {copy.role}]
                                                 ELSE granted
        /\ Goto(r, "inval") \/ ("lost" \in Faults /\ Answer(r))
        /\ UNCHANGED <<cache, ttl, deleted>>

\* The unique constraint or the database refuses the statement: 500.
WriteFails(r) ==
    /\ req[r].pc \in {"write", "remove"}
    /\ Answer(r)
    /\ UNCHANGED <<row, cache, ttl, writes, granted, deleted>>

(***************************************************************************)
(* Delete: find the active row, then clear its is_active.                  *)
(***************************************************************************)
DeleteFind(r, u) ==
    /\ req[r].pc = "idle"
    /\ FindByID(u) # None
    /\ req' = [req EXCEPT ![r] = [Idle EXCEPT !.pc = "remove", !.user = u, !.caller = "admin"]]
    /\ UNCHANGED <<row, cache, ttl, writes, granted, deleted>>

\* Mutant: the row is removed.
DeleteWriteHard(r) ==
    /\ req[r].pc = "remove"
    /\ CountWrite
    /\ row' = [row EXCEPT ![req[r].user] = None]
    /\ Goto(r, "inval")
    /\ UNCHANGED <<cache, ttl, granted, deleted>>

DeleteWrite(r) ==
    LET u == req[r].user
        overlapped == \E q \in Requests : req[q].pc = "write" /\ req[q].user = u
    IN  /\ req[r].pc = "remove"
        /\ CountWrite
        /\ row' = [row EXCEPT ![u].active = FALSE]
        /\ \/ req' = [req EXCEPT ![r].pc = "inval", ![r].del = ~overlapped]
           \/ "lost" \in Faults /\ Answer(r)
        /\ UNCHANGED <<cache, ttl, granted, deleted>>

(***************************************************************************)
(* UpdatePassword, of a row active or not, for ResetPassword.  The hash is *)
(* not part of the cached JSON, so no column modelled here changes.        *)
(***************************************************************************)
UpdatePassword(r, u) ==
    /\ req[r].pc = "idle"
    /\ row[u] # None
    /\ CountWrite
    /\ req' = [req EXCEPT ![r] = [Idle EXCEPT !.pc = "inval", !.user = u]]
    /\ UNCHANGED <<row, cache, ttl, granted, deleted>>

\* Update, Delete and UpdatePassword end by deleting the cache key, and
\* succeed even if that fails.
Invalidate(r) ==
    /\ req[r].pc = "inval"
    /\ \E o \in CacheOutcomes :
        IF o = "ok"
        THEN /\ cache' = [cache EXCEPT ![req[r].user] = None]
             /\ ttl' = [ttl EXCEPT ![req[r].user] = 0]
        ELSE UNCHANGED <<cache, ttl>>
    /\ deleted' = IF req[r].del THEN deleted \cup {req[r].user} ELSE deleted
    /\ Answer(r)
    /\ UNCHANGED <<row, writes, granted>>

(***************************************************************************)
(* List: COUNT, then a second statement for the page.  Every row is        *)
(* listed, inactive ones too.                                              *)
(***************************************************************************)
Rows == {u \in Users : row[u] # None}

ListCount(r, limit, offset) ==
    /\ req[r].pc = "idle"
    /\ req' = [req EXCEPT ![r] = [Idle EXCEPT !.pc = "select", !.total = Cardinality(Rows),
                                             !.limit = limit, !.offset = offset]]
    /\ UNCHANGED <<row, cache, ttl, writes, granted, deleted>>

\* How many rows LIMIT and OFFSET leave of n.
Selected(n, limit, offset) ==
    LET rest == IF offset < n THEN n - offset ELSE 0
    IN  IF rest < limit THEN rest ELSE limit

ListSelect(r) ==
    /\ req[r].pc = "select"
    /\ Answer(r)
    /\ UNCHANGED <<row, cache, ttl, writes, granted, deleted>>

-----------------------------------------------------------------------------
\* Keys whose TTL runs out are gone.
Expire ==
    /\ cache' = [u \in Users |-> IF ttl[u] > 1 THEN cache[u] ELSE None]
    /\ ttl' = [u \in Users |-> IF ttl[u] > 1 THEN ttl[u] - 1 ELSE 0]

\* A request in flight goes on.
Proceed(r) ==
    \/ GetRead(r)
    \/ GetFill(r)
    \/ UpdateWrite(r)
    \/ DeleteWrite(r)
    \/ WriteFails(r)
    \/ Invalidate(r)
    \/ ListSelect(r)

-----------------------------------------------------------------------------
\* Every variable keeps its shape, and a key has a TTL exactly when it exists.
StoreTypeOK ==
    /\ row \in [Users -> Row \cup {None}]
    /\ cache \in [Users -> Row \cup {None}]
    /\ ttl \in [Users -> 0 .. CacheTTL]
    /\ \A u \in Users : cache[u] # None <=> ttl[u] > 0
    /\ req \in [Requests -> Request]
    /\ writes \in 0 .. MaxWrites
    /\ granted \in [Users -> SUBSET Roles]
    /\ deleted \subseteq Users

=============================================================================
