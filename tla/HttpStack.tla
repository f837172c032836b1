----------------------------- MODULE HttpStack -----------------------------
(***************************************************************************)
(* The middleware stack every request passes (buildRouter of               *)
(* cmd/api/routes.go), with what it does around the handlers:              *)
(*                                                                         *)
(*   Tracing            a span around the request                          *)
(*   RecoveringPanicCounter, SecurityHeaders, HTTPMetrics, RequestLogger   *)
(*   TenantMiddleware   the tenant the request is for                      *)
(*   cors               answers preflight requests                         *)
(*                                                                         *)
(* and the decorators that count and trace the statements of the user      *)
(* repository.  A handler answers with a status, queries the database, or  *)
(* panics, before or after it has answered; that of an admin page answers  *)
(* nothing if its client has left.  A panic runs only the deferred calls   *)
(* of the layers it passes.  What handlers do is left to the other         *)
(* modules, and so are the JWT check and the rate limits.                  *)
(*                                                                         *)
(* HSInit, HSNext and the like have their prefix so that CountingProofs    *)
(* can extend this module beside Lockout.                                  *)
(***************************************************************************)
EXTENDS Integers, FiniteSets, Sequences, Functions

CONSTANTS
    None,         \* the absent value, uuid.Nil
    Goroutines,   \* those that net/http serves requests in
    Tenants,      \* tenant ids
    SlugOf,       \* Tenants -> the slug, a label of a host name
    Hosts,        \* Host headers, as sequences of labels
    Digits,       \* labels made of digits only
    Params,       \* values of ?tenant_id that parse; None without one
    Statuses,     \* statuses of the handlers' answers
    MaxRequests,  \* bound on the requests received
    MaxQueries    \* bound on the statements of a request

\* The constants' types; no two tenants have the same slug.
ASSUME ConstantsAssumption ==
    /\ IsFiniteSet(Goroutines)
    /\ None \notin Tenants
    /\ \A s, t \in Tenants : SlugOf[s] = SlugOf[t] => s = t
    /\ None \in Params /\ Params \subseteq Tenants \cup {None}
    /\ Statuses \subseteq 200 .. 599
    /\ MaxRequests \in Nat /\ MaxQueries \in Nat

VARIABLES
    inflight,  \* kleido_http_requests_inflight
    requests,  \* kleido_http_requests_total by status class
    panics,    \* kleido_http_panics_total
    dbErrors,  \* kleido_db_errors_total
    spans,     \* spans of Tracing and of the repository not yet ended
    badSpans,  \* spans of the repository with status Error
    logged,    \* lines of the request log
    req,       \* Goroutines -> local state of the goroutine
    started,   \* history: requests received
    departed   \* history: requests whose client left before it was answered

hsvars ==
    <<inflight, requests, panics, dbErrors, spans, badSpans, logged, req, started, departed>>

telemetry == <<inflight, requests, panics, dbErrors, spans, badSpans, logged>>

history == <<started, departed>>

Classes == {"2xx", "3xx", "4xx", "5xx", "unknown"}

statusClass(code) ==
    CASE code \in 200 .. 299 -> "2xx"
      [] code \in 300 .. 399 -> "3xx"
      [] code \in 400 .. 499 -> "4xx"
      [] code >= 500 -> "5xx"
      [] OTHER -> "unknown"

Pcs == {"idle", "lookup", "route", "handler", "query", "log", "count", "dec", "unwind",
        "recover", "end"}

Routes == {"api", "demo", "page", "preflight"}

\* slug: extracted from the host; param: ?tenant_id; route: under /tenant-demo,
\* /admin/users, another, or an OPTIONS request for cors; tenantID: what reqctx
\* carries; status: sent to the client, 0 before; gone: the client has left,
\* which cancels the context of the request.
Request == [pc: Pcs, slug: Range(SlugOf) \cup {None}, param: Params,
            route: Routes, tenantID: Tenants \cup {None},
            status: Statuses \cup {0, 200, 400, 500}, queries: 0 .. MaxQueries,
            gone: BOOLEAN]

Idle == [pc |-> "idle", slug |-> None, param |-> None, route |-> "api", tenantID |-> None,
         status |-> 0, queries |-> 0, gone |-> FALSE]

HSInit ==
    /\ inflight = 0
    /\ requests = [c \in Classes |-> 0]
    /\ panics = 0
    /\ dbErrors = 0
    /\ spans = 0
    /\ badSpans = 0
    /\ logged = 0
    /\ req = [r \in Goroutines |-> Idle]
    /\ started = 0
    /\ departed = 0

MoveTo(r, l) == req' = [req EXCEPT ![r].pc = l]

-----------------------------------------------------------------------------
(***************************************************************************)
(* TenantMiddleware: the first label of a host of three or more names the  *)
(* tenant, unless it is empty or a number; else the parameter does, which  *)
(* is not looked up.                                                       *)
(***************************************************************************)
extractSubdomain(host) ==
    IF Len(host) >= 3 /\ host[1] # "" /\ host[1] \notin Digits THEN host[1] ELSE None

\* Mutant: tenantID is declared outside the closure, and keeps its value.
ResolveShared(found, param) ==
    LET left == {req[q].tenantID : q \in Goroutines} \ {None}
    IN  IF found # None THEN found
        ELSE IF param # None \/ left = {} THEN param
        ELSE CHOOSE t \in left : TRUE

Resolve(found, param) == IF found # None THEN found ELSE param

\* Tracing, RequestID, RealIP, RecoveringPanicCounter, SecurityHeaders,
\* HTTPMetrics and RequestLogger on the way in.
Receive(r, host, param, route) ==
    LET slug == extractSubdomain(host)
        new  == [Idle EXCEPT !.param = param, !.route = route]
    IN  /\ req[r].pc = "idle"
        /\ started < MaxRequests
        /\ started' = started + 1
        /\ spans' = spans + 1
        /\ inflight' = inflight + 1
        /\ req' = [req EXCEPT ![r] =
             IF slug \in Range(SlugOf) THEN [new EXCEPT !.pc = "lookup", !.slug = slug]
             ELSE [new EXCEPT !.pc = "route", !.tenantID = Resolve(None, param)]]
        /\ UNCHANGED <<requests, panics, dbErrors, badSpans, logged, departed>>

\* GetBySlug finds an active tenant; an error counts as not found.
GetBySlug(r) ==
    /\ req[r].pc = "lookup"
    /\ \E found \in {t \in Tenants : SlugOf[t] = req[r].slug} \cup {None} :
        req' = [req EXCEPT ![r].pc = "route", ![r].tenantID = Resolve(found, req[r].param)]
    /\ UNCHANGED <<telemetry, history>>

\* cors answers a preflight request itself; RequireTenantID refuses a request
\* without a tenant.
Route(r) ==
    LET answer == CASE req[r].route = "preflight" -> 200
                    [] req[r].route = "demo" /\ req[r].tenantID = None -> 400
                    [] OTHER -> 0
    IN  /\ req[r].pc = "route"
        /\ req' = [req EXCEPT ![r].pc = IF answer = 0 THEN "handler" ELSE "log",
                              ![r].status = answer]
        /\ UNCHANGED <<telemetry, history>>

-----------------------------------------------------------------------------
(***************************************************************************)
(* The handler, and the statements it has the user repository run.         *)
(***************************************************************************)
Finds == {"find_by_id", "find_by_email"}

Ops == Finds \cup {"create", "update", "update_password", "delete", "list"}

\* NotFound comes of the finds, Conflict of the insertion.
ResultsOf(op) ==
    {"ok", "error"} \cup (IF op \in Finds THEN {"notfound"} ELSE {})
                    \cup (IF op = "create" THEN {"conflict"} ELSE {})

\* InstrumentedUserRepository.
CountsAsError(op, result) ==
    result # "ok" /\ ~(op \in Finds /\ result = "notfound")

\* TracedUserRepository.
MarksSpan(op, result) ==
    IF op \in Finds THEN result \notin {"ok", "notfound"} ELSE result # "ok"

QueryStart(r) ==
    /\ req[r].pc = "handler"
    /\ req[r].status = 0
    /\ req[r].queries < MaxQueries
    /\ req' = [req EXCEPT ![r].pc = "query", ![r].queries = @ + 1]
    /\ spans' = spans + 1
    /\ UNCHANGED <<inflight, requests, panics, dbErrors, badSpans, logged, history>>

Query(r, op, result) ==
    /\ req[r].pc = "query"
    /\ MoveTo(r, "handler")
    /\ dbErrors' = IF CountsAsError(op, result) THEN dbErrors + 1 ELSE dbErrors
    /\ badSpans' = IF MarksSpan(op, result) THEN badSpans + 1 ELSE badSpans
    /\ spans' = spans - 1
    /\ UNCHANGED <<inflight, requests, panics, logged, history>>

\* writeJSON, WriteError and the like: the first status is the one sent.
WriteHeader(r, status) ==
    /\ req[r].pc = "handler"
    /\ req[r].status = 0
    /\ req' = [req EXCEPT ![r].status = status]
    /\ UNCHANGED <<telemetry, history>>

HandlerReturns(r) ==
    /\ req[r].pc = "handler"
    /\ req[r].status # 0
    /\ MoveTo(r, "log")
    /\ UNCHANGED <<telemetry, history>>

\* net/http cancels the context of a request whose client disconnects.  Before
\* the handler that shows in nothing but a tenant that is not found.
ClientLeaves(r) ==
    /\ req[r].pc \in {"handler", "query"}
    /\ req[r].status = 0
    /\ ~req[r].gone
    /\ req' = [req EXCEPT ![r].gone = TRUE]
    /\ departed' = departed + 1
    /\ UNCHANGED <<telemetry, started>>

\* UserList has its rows, Render returns ctx.Err() before it writes, and
\* UserList ignores that.
RenderFails(r) ==
    /\ req[r].pc = "handler"
    /\ req[r].route = "page"
    /\ req[r].queries > 0
    /\ req[r].status = 0
    /\ req[r].gone
    /\ MoveTo(r, "log")
    /\ UNCHANGED <<telemetry, history>>

\* In the handler, or below the repository, whose span.End is deferred.
HandlerPanics(r) ==
    /\ req[r].pc \in {"handler", "query"}
    /\ spans' = IF req[r].pc = "query" THEN spans - 1 ELSE spans
    /\ MoveTo(r, "unwind")
    /\ UNCHANGED <<inflight, requests, panics, dbErrors, badSpans, logged, history>>

-----------------------------------------------------------------------------
(***************************************************************************)
(* The way out.                                                            *)
(***************************************************************************)
Log(r) ==
    /\ req[r].pc = "log"
    /\ logged' = logged + 1
    /\ MoveTo(r, "count")
    /\ UNCHANGED <<inflight, requests, panics, dbErrors, spans, badSpans, history>>

Count(r) ==
    /\ req[r].pc = "count"
    /\ requests' = [requests EXCEPT ![statusClass(req[r].status)] = @ + 1]
    /\ MoveTo(r, "dec")
    /\ UNCHANGED <<inflight, panics, dbErrors, spans, badSpans, logged, history>>

\* Mutant: called at the end of the handler and deferred as well.
DecTwice(r) ==
    /\ req[r].pc \in {"dec", "unwind"}
    /\ inflight' = inflight - (IF req[r].pc = "dec" THEN 2 ELSE 1)
    /\ MoveTo(r, IF req[r].pc = "dec" THEN "end" ELSE "recover")
    /\ UNCHANGED <<requests, panics, dbErrors, spans, badSpans, logged, history>>

\* Mutant: not deferred.
DecNotDeferred(r) ==
    /\ req[r].pc \in {"dec", "unwind"}
    /\ inflight' = IF req[r].pc = "dec" THEN inflight - 1 ELSE inflight
    /\ MoveTo(r, IF req[r].pc = "dec" THEN "end" ELSE "recover")
    /\ UNCHANGED <<requests, panics, dbErrors, spans, badSpans, logged, history>>

\* The deferred call of HTTPMetrics, after a panic too.
Dec(r) ==
    /\ req[r].pc \in {"dec", "unwind"}
    /\ inflight' = inflight - 1
    /\ MoveTo(r, IF req[r].pc = "dec" THEN "end" ELSE "recover")
    /\ UNCHANGED <<requests, panics, dbErrors, spans, badSpans, logged, history>>

\* RecoveringPanicCounter; http.Error comes too late for an answer that has
\* been started.
Recover(r) ==
    /\ req[r].pc = "recover"
    /\ panics' = panics + 1
    /\ req' = [req EXCEPT ![r].pc = "end", ![r].status = IF @ = 0 THEN 500 ELSE @]
    /\ UNCHANGED <<inflight, requests, dbErrors, spans, badSpans, logged, history>>

\* Tracing ends the span of the request.
EndSpan(r) ==
    /\ req[r].pc = "end"
    /\ spans' = spans - 1
    /\ req' = [req EXCEPT ![r] = Idle]
    /\ UNCHANGED <<inflight, requests, panics, dbErrors, badSpans, logged, history>>

HSNext ==
    \/ \E r \in Goroutines :
        \/ \E host \in Hosts, param \in Params, route \in Routes :
            Receive(r, host, param, route)
        \/ GetBySlug(r)
        \/ Route(r)
        \/ QueryStart(r)
        \/ \E op \in Ops : \E result \in ResultsOf(op) : Query(r, op, result)
        \/ \E status \in Statuses : WriteHeader(r, status)
        \/ HandlerReturns(r)
        \/ ClientLeaves(r)
        \/ RenderFails(r)
        \/ HandlerPanics(r)
        \/ Log(r)
        \/ Count(r)
        \/ Dec(r)
        \/ Recover(r)
        \/ EndSpan(r)

HSSpec == HSInit /\ [][HSNext]_hsvars

-----------------------------------------------------------------------------
At(pcs) == {r \in Goroutines : req[r].pc \in pcs}

\* Every variable keeps its shape; no gauge and no counter leaves its range.
HSTypeOK ==
    /\ inflight \in 0 .. Cardinality(Goroutines)
    /\ requests \in [Classes -> 0 .. MaxRequests]
    /\ panics \in 0 .. MaxRequests
    /\ dbErrors \in 0 .. MaxRequests * MaxQueries
    /\ spans \in 0 .. 2 * Cardinality(Goroutines)
    /\ badSpans \in 0 .. MaxRequests * MaxQueries
    /\ logged \in 0 .. MaxRequests
    /\ req \in [Goroutines -> Request]
    /\ started \in 0 .. MaxRequests
    /\ departed \in Nat

Completed ==
    requests["2xx"] + requests["3xx"] + requests["4xx"] + requests["5xx"] + requests["unknown"]

\* Requests whose client has left and that are not counted yet.
Deserted == {r \in Goroutines : req[r].gone /\ req[r].pc \notin {"idle", "dec", "end"}}

\* The metrics can be trusted, whatever panics: the gauge is the number of
\* requests inside, every request is counted once, as completed or as a panic,
\* and logged if completed; only requests whose client has left are let go
\* without an answer or counted under no class of statuses; no span is left
\* open, and metrics and traces agree on which statements failed.
Accounted ==
    /\ inflight = Cardinality(Goroutines) - Cardinality(At({"idle", "recover", "end"}))
    /\ started = Completed + panics
                 + Cardinality(Goroutines) - Cardinality(At({"idle", "dec", "end"}))
    /\ logged = Completed + Cardinality(At({"count"}))
    /\ spans = Cardinality(Goroutines) - Cardinality(At({"idle"})) + Cardinality(At({"query"}))
    /\ dbErrors = badSpans
    /\ \A r \in At({"log", "count", "dec", "end"}) : req[r].status # 0 \/ req[r].gone
    /\ requests["unknown"] + Cardinality(Deserted) <= departed

\* A request is served for a tenant that it names itself, by subdomain or by
\* parameter, never for one of another request; and /tenant-demo for some.
TenantFromOwnRequest ==
    \A r \in At({"handler", "query"}) :
        /\ req[r].tenantID # None =>
              req[r].tenantID = req[r].param \/ SlugOf[req[r].tenantID] = req[r].slug
        /\ req[r].route = "demo" => req[r].tenantID # None

=============================================================================
