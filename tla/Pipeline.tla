------------------------------ MODULE Pipeline ------------------------------
(***************************************************************************)
(* The life of requests in the HTTP API: the middleware stack of           *)
(* api/src/middleware, the routing table and the probes of                 *)
(* api/src/router/mod.rs, the error envelope of api/src/error.rs, and the  *)
(* PostgreSQL pool that concurrent requests and the cron jobs share.       *)
(*                                                                         *)
(* No layer awaits anything on the way down: a request reaches its handler *)
(* in one step, and what comes of it, a response, a panic or an elapsed    *)
(* budget, goes up through the layers in one.  The target "handler" stands *)
(* for a business handler: it answers, fails with any ApiError, panics or  *)
(* hangs.  Time is discrete; Elapse waits for every due timer.             *)
(***************************************************************************)
EXTENDS Integers, FiniteSets

CONSTANTS
    Requests,        \* requests to the server, each used once
    Inputs,          \* what a request may ask: records [target, client]
    Timeout,         \* server.timeout
    AcquireTimeout,  \* database.pool.acquire_timeout
    MaxConnections,  \* database.pool.max_connections
    Docs             \* whether the environment exposes the documentation

(* GET /docs, a page below it, GET /api-docs/openapi.json, and a method     *)
(* other than GET on any of their paths.                                   *)
DocsTargets == {"docs", "docs_page", "openapi", "docs_wrong_method"}

Targets ==
    {"livez", "healthz", "readyz", "handler", "unknown", "wrong_method"} \cup DocsTargets

ClientIds == {"none", "sane", "junk"}

ASSUME PipelineAssumption ==
    /\ IsFiniteSet(Requests)
    /\ Inputs \subseteq [target : Targets, client : ClientIds]
    /\ Timeout \in Nat \ {0} /\ AcquireTimeout \in Nat \ {0}
    /\ MaxConnections \in Nat
    /\ Docs \in BOOLEAN

VARIABLES
    ask,     \* what each request asks
    st,      \* how far it is
    id,      \* its x-request-id, as its tracing span reads it
    res,     \* its response
    left,    \* what remains of its budget
    wait,    \* what remains of its wait for a pool connection
    age,     \* time since it came in, cut off past Timeout
    db,      \* the database: up, down (it fails) or hung (it says nothing)
    others,  \* pool connections in the hands of jobs, handlers and the pool
    seen     \* states the database was in while the probe was served

timeVars == <<left, wait, age>>
vars     == <<ask, st, id, res, left, wait, age, db, others, seen>>

DbStates == {"up", "down", "hung"}
NoTimer  == -1

-----------------------------------------------------------------------------
(* The layers *)

Response(status, body) ==
    [kind |-> "response", status |-> status, body |-> body, id |-> "none"]
Failure(kind) == [kind |-> kind, status |-> 0, body |-> "none", id |-> "none"]

Panic   == Failure("panic")
Elapsed == Failure("elapsed")
Alright == Response(200, "ok")
Masked  == "internal server error"

(* request_id::sanitize: an id that is not short printable ASCII goes. *)
Sanitized(i) == IF i = "junk" THEN "none" ELSE i

(* request_id::set: a fresh UUID for a request that lacks an id. *)
Assigned(i) == IF i = "none" THEN "uuid" ELSE i

(* middleware::apply on the way down; trace::layer and propagate, further  *)
(* down, both read the id this leaves in the header.                       *)
Down(i) == Assigned(Sanitized(i))

(* trace::make_span: the id under which the log lines of a request go. *)
SpanId(i) == IF i = "none" THEN "unknown" ELSE i

(* timeout::on_error *)
Handled(x) == IF x.kind = "elapsed" THEN Response(503, "request timed out") ELSE x

(* catch_panic::handle_panic *)
Caught(x) == IF x.kind = "panic" THEN Response(500, Masked) ELSE x

(* request_id::propagate *)
Propagated(x, i) == IF x.kind = "response" THEN [x EXCEPT !.id = i] ELSE x

(* Bug variant: propagate below the timeout. *)
UpPropagateInner(x, i) == Handled(Propagated(Caught(x), i))

(* middleware::apply on the way up, from the innermost layer. *)
Up(x, i) == Propagated(Handled(Caught(x)), i)

(* Bug variant: the timeout layer is forgotten. *)
Unbounded == NoTimer

(* timeout::layer: the budget of what lies below it. *)
Budget == Timeout

-----------------------------------------------------------------------------
(* The error envelope *)

(* Bug variant: the text of the error whatever its status. *)
IntoResponseOpen(status) == Response(status, "own text")

(* ApiError::into_response: a server error is replaced by an opaque body. *)
IntoResponse(status) == Response(status, IF status >= 500 THEN Masked ELSE "own text")

(* ApiError::status_code; rejections carry their own status. *)
StatusCode ==
    [NotFound |-> {404}, MethodNotAllowed |-> {405}, BadRequest |-> {400}, Conflict |-> {409},
     JsonRejection |-> {400, 413, 415, 422}, PathRejection |-> {400, 500},
     Database |-> {500}, Internal |-> {500}]

(* What a handler may end with: a success, any ApiError, a panic. *)
HandlerOutcomes ==
    {Alright, Panic} \cup
    {IntoResponse(s) : s \in UNION {StatusCode[e] : e \in DOMAIN StatusCode}}

-----------------------------------------------------------------------------

Init ==
    /\ ask \in [Requests -> Inputs]
    /\ st = [r \in Requests |-> "absent"]
    /\ id = [r \in Requests |-> "none"]
    /\ res = [r \in Requests |-> Failure("none")]
    /\ left = [r \in Requests |-> NoTimer] /\ wait = [r \in Requests |-> NoTimer]
    /\ age = [r \in Requests |-> 0]
    /\ db = "up" /\ others = 0
    /\ seen = [r \in Requests |-> {}]

InProgress == {r \in Requests : st[r] \in {"handler", "acquiring", "pinging"}}
InUse      == others + Cardinality({r \in Requests : st[r] = "pinging"})

(* The request is dropped or done: its timers go. *)
Settle(r, s) ==
    /\ st' = [st EXCEPT ![r] = s]
    /\ left' = [left EXCEPT ![r] = NoTimer]
    /\ wait' = [wait EXCEPT ![r] = NoTimer]

(* What the router or a handler made of the request goes up; a panic that  *)
(* no layer caught takes the connection's task with it.                    *)
Yield(r, x, i) ==
    /\ Settle(r, IF Up(x, i).kind = "response" THEN "answered" ELSE "torn")
    /\ res' = [res EXCEPT ![r] = Up(x, i)]

(* The request waits in a handler, under its budget. *)
Await(r, s, w) ==
    /\ st' = [st EXCEPT ![r] = s]
    /\ left' = [left EXCEPT ![r] = Budget]
    /\ wait' = [wait EXCEPT ![r] = w]
    /\ UNCHANGED res

(* Bug variant: axum answers a known path with the wrong method itself. *)
OwnRoutesBare ==
    [livez |-> Alright, healthz |-> Alright, wrong_method |-> Response(405, "empty")]

(* The routes of the table that answer at once, under its 405 fallback. *)
OwnRoutes ==
    [livez |-> Alright, healthz |-> Alright, wrong_method |-> IntoResponse(405)]

(* SwaggerUi's routes, which router() merges in after it has put the       *)
(* fallback on its own: their 405 is axum's, and /docs redirects.          *)
SwaggerUi ==
    [docs |-> Response(303, "empty"), docs_page |-> Response(200, "page"),
     openapi |-> Alright, docs_wrong_method |-> Response(405, "empty")]

(* What answers at once; without documentation its paths are unknown ones. *)
Immediate ==
    [t \in Targets \ {"handler", "readyz"} |->
        IF t \in DOMAIN OwnRoutes THEN OwnRoutes[t]
        ELSE IF Docs /\ t \in DOMAIN SwaggerUi THEN SwaggerUi[t]
        ELSE IntoResponse(404)]

(* Bug variant: the legacy alias is one of the readiness probe. *)
AliasIsReadyz == {"readyz", "healthz"}

(* The routes that ping the database. *)
Pinging == {"readyz"}

(* The request comes in and reaches its handler. *)
Arrive(r) ==
    /\ st[r] = "absent"
    /\ id' = [id EXCEPT ![r] = Down(ask[r].client)]
    /\ seen' = [seen EXCEPT ![r] = {db}]
    /\ \/ ask[r].target = "handler" /\ Await(r, "handler", NoTimer)
       \/ ask[r].target \in Pinging /\ Await(r, "acquiring", AcquireTimeout)
       \/ /\ ask[r].target \notin {"handler"} \cup Pinging
          /\ Yield(r, Immediate[ask[r].target], id'[r])
    /\ UNCHANGED <<ask, age, db, others>>

HandlerEnds(r) ==
    /\ st[r] = "handler"
    /\ \E x \in HandlerOutcomes : Yield(r, x, id[r])
    /\ UNCHANGED <<ask, id, age, db, others, seen>>

-----------------------------------------------------------------------------
(* The ping of readyz *)

(* Bug variant: the pool opens connections without a limit. *)
AnyConnection == TRUE

(* The pool, of max_connections, has one to give. *)
FreeConnection == InUse < MaxConnections

(* The ping takes a connection, which the pool tests or opens first. *)
Acquire(r) ==
    /\ st[r] = "acquiring" /\ FreeConnection /\ db = "up"
    /\ st' = [st EXCEPT ![r] = "pinging"]
    /\ wait' = [wait EXCEPT ![r] = NoTimer]
    /\ UNCHANGED <<ask, id, res, left, age, db, others, seen>>

(* Bug variant: the probe looks at the connection, not at the answer. *)
UnreachableIgnored == Alright

(* readyz's answer to an error of the ping. *)
Unreachable == Response(503, "database unreachable")

(* No connection within acquire_timeout, or, before that, one that could   *)
(* not be opened: some errors the pool tries again, others it reports.     *)
AcquireFails(r) ==
    /\ st[r] = "acquiring"
    /\ wait[r] = 0 \/ (db = "down" /\ FreeConnection)
    /\ Yield(r, Unreachable, id[r])
    /\ UNCHANGED <<ask, id, age, db, others, seen>>

(* The ping comes back. *)
Ping(r) ==
    /\ st[r] = "pinging" /\ db # "hung"
    /\ Yield(r, IF db = "up" THEN Alright ELSE Unreachable, id[r])
    /\ UNCHANGED <<ask, id, age, db, others, seen>>

-----------------------------------------------------------------------------
(* Requests that are dropped *)

(* The connection of a request that was dropped goes to the pool, which    *)
(* takes it back when it can.                                              *)
Orphaned(r) == IF st[r] = "pinging" THEN others + 1 ELSE others

(* The timeout layer polls the request first, then its sleep: it drops the *)
(* request where it waits.                                                 *)
TimeOut(r) ==
    /\ r \in InProgress /\ left[r] = 0
    /\ Yield(r, Elapsed, id[r])
    /\ others' = Orphaned(r)
    /\ UNCHANGED <<ask, id, age, db, seen>>

(* The connection goes, and the request with it. *)
ClientLeaves(r) ==
    /\ r \in InProgress
    /\ Settle(r, "gone")
    /\ others' = Orphaned(r)
    /\ UNCHANGED <<ask, id, res, age, db, seen>>

-----------------------------------------------------------------------------
(* Database, pool and time *)

DbBecomes(s) ==
    /\ db # s
    /\ db' = s
    /\ seen' = [r \in Requests |-> IF st[r] \in {"acquiring", "pinging"}
                                  THEN seen[r] \cup {s} ELSE seen[r]]
    /\ UNCHANGED <<ask, st, id, res, timeVars, others>>

(* Jobs and handlers take connections and give them back. *)
Borrow ==
    /\ FreeConnection
    /\ others' = others + 1
    /\ UNCHANGED <<ask, st, id, res, timeVars, db, seen>>

GiveBack ==
    /\ others > 0
    /\ others' = others - 1
    /\ UNCHANGED <<ask, st, id, res, timeVars, db, seen>>

Less(n) == IF n > 0 THEN n - 1 ELSE n

(* The pool and the database answer as soon as they can; over a database   *)
(* that is down the pool may go on trying.                                 *)
NothingDue ==
    \A r \in InProgress :
        /\ left[r] # 0 /\ wait[r] # 0
        /\ st[r] = "acquiring" => db # "up" \/ ~FreeConnection
        /\ st[r] = "pinging" => db = "hung"

Elapse ==
    /\ InProgress # {} /\ NothingDue
    /\ left' = [r \in Requests |-> Less(left[r])]
    /\ wait' = [r \in Requests |-> Less(wait[r])]
    /\ age' = [r \in Requests |->
                 IF r \in InProgress /\ age[r] <= Timeout THEN age[r] + 1 ELSE age[r]]
    /\ UNCHANGED <<ask, st, id, res, db, others, seen>>

Probe(r) == Acquire(r) \/ AcquireFails(r) \/ Ping(r)

Request(r) ==
    \/ Arrive(r) \/ HandlerEnds(r) \/ Probe(r) \/ TimeOut(r) \/ ClientLeaves(r)

Environment == Borrow \/ GiveBack \/ \E s \in DbStates : DbBecomes(s)

Next == (\E r \in Requests : Request(r)) \/ Environment \/ Elapse

Spec == Init /\ [][Next]_vars

(* Timers fire, pool and database answer when they can, and time passes    *)
(* however often they change their minds.  Nothing is owed by clients,     *)
(* handlers, the database or the other users of the pool.                  *)
Fairness ==
    SF_vars(Elapse) /\ \A r \in Requests : WF_vars(TimeOut(r)) /\ WF_vars(Probe(r))

FairSpec == Spec /\ Fairness

-----------------------------------------------------------------------------
(* Properties *)

Statuses == {0, 200, 303, 400, 404, 405, 409, 413, 415, 422, 500, 503}
Bodies   == {"none", "ok", "page", "empty", "own text", Masked, "request timed out",
             "database unreachable"}
Ids      == ClientIds \cup {"uuid"}
Results  == [kind : {"none", "response", "panic", "elapsed"}, status : Statuses,
             body : Bodies, id : Ids]

(* Requests, timers and pool are well typed; the pool never exceeds        *)
(* max_connections, whoever drops a request that held one.                 *)
TypeOK ==
    /\ ask \in [Requests -> Inputs]
    /\ st \in [Requests -> {"absent", "handler", "acquiring", "pinging",
                             "answered", "torn", "gone"}]
    /\ id \in [Requests -> Ids]
    /\ res \in [Requests -> Results]
    /\ left \in [Requests -> NoTimer..Timeout]
    /\ wait \in [Requests -> NoTimer..AcquireTimeout]
    /\ age \in [Requests -> 0..(Timeout + 1)]
    /\ db \in DbStates
    /\ others \in Nat /\ InUse <= MaxConnections
    /\ seen \in [Requests -> SUBSET DbStates]

(* Every answer carries the id its log lines carry: the client's own if it *)
(* was acceptable, else a fresh one.  Timeouts, panics and unknown paths   *)
(* included (middleware::apply, "a traced, correlated 500").               *)
Correlated ==
    \A r \in Requests : st[r] = "answered" =>
        /\ res[r].id = SpanId(id[r])
        /\ res[r].id = IF ask[r].client = "sane" THEN "sane" ELSE "uuid"

(* The JSON of a success, or the error envelope. *)
InEnvelope(x) ==
    /\ x.body \notin {"page", "empty"}
    /\ x.status < 400 <=> x.body = "ok"

(* The request was for the pages of the exposed documentation. *)
OnDocs(r) == Docs /\ ask[r].target \in DocsTargets \ {"openapi"}

(* Every answer is JSON, an error exactly when the status is one, from     *)
(* whichever layer, route or handler (ARCHITECTURE.md, "Every response is  *)
(* JSON").  The exception are the pages of the documentation, whose        *)
(* redirect and 405 are empty.                                             *)
JsonOnly ==
    \A r \in Requests : st[r] = "answered" => OnDocs(r) \/ InEnvelope(res[r])

(* What went wrong inside never reaches a client: a panicking handler does *)
(* not tear its connection down, and a 5xx has one of three fixed texts    *)
(* (error.rs, catch_panic.rs).                                             *)
NoLeak ==
    \A r \in Requests :
        /\ st[r] # "torn"
        /\ st[r] = "answered" /\ res[r].status >= 500 =>
             res[r].body \in {Masked, "request timed out", "database unreachable"}

(* router/mod.rs: a known path hit with the wrong method gets the JSON      *)
(* error envelope "instead of axum's empty 405".                           *)
NoEmpty405 ==
    \A r \in Requests :
        st[r] = "answered" /\ res[r].status = 405 => res[r].body # "empty"

(* Liveness never depends on the database or on the pool: the probes       *)
(* answer 200 at once, whatever the others wait for.                       *)
AlwaysLive ==
    \A r \in Requests : ask[r].target \in {"livez", "healthz"} =>
        /\ age[r] = 0
        /\ st[r] = "answered" => res[r].status = 200

(* A ready pod had a database that was up while the probe was served. *)
ReadyMeansUp ==
    \A r \in Requests :
        st[r] = "answered" /\ ask[r].target = "readyz" /\ res[r].status = 200 =>
            "up" \in seen[r]

RequestsBox == INSTANCE TimeBox WITH
    Members <- Requests, Limit <- [r \in Requests |-> Timeout],
    inside <- InProgress,
    spent <- [r \in Requests |-> IF r \in InProgress THEN age[r] ELSE 0]

(* A request is in the stack for server.timeout at most, wherever it hangs *)
(* (timeout.rs): HttpServer supposes it of the stack around its handlers.  *)
ImplementsTimeBox == RequestsBox!Spec

(* Every request ends, whatever handlers, the database and the other users *)
(* of the pool do.                                                         *)
EveryRequestEnds ==
    \A r \in Requests : r \in InProgress ~> st[r] \in {"answered", "gone"}

=============================================================================
