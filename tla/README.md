# A verification development for starterhub-rust-stack

TLA+ models of the service in this repository, the TLC runs that check them on
small instances, and theorems about them checked by TLAPS for every value of
their constants. Paths are relative to the repository; `PROJECT.json` maps
every definition to the lines it models and every property to the run that
checks it.

    tlc -config Cron.cfg MCCron.tla          # one run
    tlapm CronProofs.tla                     # one proof module

## 1. The system

One process, `src/main.rs`, runs an HTTP API and a cron engine over one
PostgreSQL pool, and stops both through one cancellation token. The code
contains no business logic: what it has to get right is the boot, the
supervision, the stop, and the wiring around runs and requests.

| component | state it keeps | operations | module |
|---|---|---|---|
| process supervision, `src/main.rs` | main's position, token, signal streams, fence | boot steps, bridge, `supervise`, fence, exit | `Supervisor` |
| cron engine, `cron/src/server.rs`, `cron/src/job/mod.rs` | scheduler, one gate per job, `TaskTracker`, drain fence | start, tick, dispatch, execute, stop, drain | `Cron` |
| HTTP server, `api/src/server.rs` | listener, connections, `GracefulShutdown` registry | bind, accept, serve, drain | `HttpServer` |
| migrations, `migration/src` | migrations table, advisory lock | `up_guarded`, the CLI | `Migration` |
| request pipeline, `api/src/middleware`, `router`, `error.rs`, `extract.rs` | per request: id, budget, answer; the shared pool | layers, routes, probes, envelope | `Pipeline` |
| configuration, `common/src/config.rs` | files, environment, the merged and the typed tree | `load_dotenv`, `load`, `validate` | `Config` |
| telemetry, `common/src/telemetry.rs` | the verbosity | `init` | in `Config` |
| pool, `common/src/infrastructure` | connections in use | acquire, give back | in `Pipeline` |
| the whole process | the token, the runtime, the clock | | `Service` |
| roster, `cron/src/job/mod.rs` | names seen | `register` | not modelled |
| entity, dto, handler, service | none, or empty | | not modelled |

Interactions. `main` hands both components a future that resolves with the
token; it sees of each component a task that ends with Ok, an error or a panic.
The scheduler calls back the closure of `into_cron_job` from detached tasks;
the tracker is the only link between those tasks and the server that drains
them. The accept loop spawns a task per connection; the registry is its only
link to them. Probes, handlers and jobs take connections from one pool. Replicas
meet in the database only, under the advisory lock.

What is hard here:

* *Stopping.* A stop is a chain of fences: a job's budget (300 s by default)
  inside the cron drain (30 s), the head's and the request's budget (30 s each)
  inside the connection drain, all inside the grace (45 s). Each comment
  assumes something of the fence inside it.
* *Detached work.* Runs and connections outlive the call that started them;
  the drain must know all of them and forget all that ended.
* *Ends of runs.* A body returns, fails, panics or is dropped at its budget,
  and every path must give back the permit and the tracker's token.
* *Signals*, which arrive between any two steps of the boot, and coalesce.
* *Replicas* booting together, dying in a migration, or of different builds.
* *Sources.* Five sources set one configuration, with types and strictness of
  their own, and two executables read it under different names.
* *Dropped requests.* A timeout or a client that leaves drops a request where it
  waits, in the middle of a database call included.

What makes each component correct:

* supervision: never half-alive; a stop that ends within the grace; an exit
  status that tells the truth; no signal lost or counted twice;
* cron: no self-overlap, no leaked slot, a drain that is complete and bounded;
* HTTP server: a drain that misses no connection, cuts no request and ends;
* migrations: serialized, all or nothing, aligned with the build that serves;
* pipeline: every request ends within its timeout, in JSON, under its request id,
  whatever layer answers; probes that tell the truth, liveness that waits for
  nothing;
* configuration: the most specific source wins; nothing unusable boots;
* the whole: the parts suppose of each other what they do; no failure of one
  cuts the work of the other; the fences fit inside one another.

## 2. The modules

All modules treat time the same way: an `Elapse` action lets one unit pass,
decrements the running timers and is disabled while a timer is due or the
runtime has something to poll (`NothingDue`). Timers are thus exact and
scheduling takes no time; a unit stands for seconds, scheduling delays for
milliseconds. An action that a timer enables races with everything else enabled
at the same instant.

**`Cron`**. `phase` is the position of `Server::run`, `engine` the scheduler's
tick loop, `st[t]` the life of tick `t`: *fired* by the scheduler, *spawned*
(the closure wrapped it in `track_future`), *running*, then *ended*, or
*skipped* by the gate, or *dropped* with the engine. `permits[j]` is the gate,
`tracked` and `closed` the `TaskTracker`, `left` and `drainLeft` the timers.
`BodyEnds` stands for Ok, Err and panic: the code only logs differently.
The roster is a constant; `register` checks it before anything runs.
`StopFails` is the early return when `JobScheduler::shutdown` fails.
Constants cover what the code leaves open: `Blocking` jobs never reach an
await, so a timeout cannot cut them; `Late` are the ticks that the scheduler,
once they have fired, still lets call the closure after `shutdown()` returned.
The scheduler's source is not in this repository and nothing in the repository
shows what `JobScheduler::shutdown` does to a tick on its way, so it is an
assumption on an external library: `StopEngine` is one step, after which no tick
fires, and every fired tick but the late ones is dropped (`InFlightTicks`).
`Late = {}` is the contract the comments of `Server::run` rely on ("the tracker
can no longer grow"); the run `cron` and the theorems do without it.

**`Supervisor`**. `pc` is main's step, `pending` the coalesced signals,
`bridge` the signal task, `comp[c]` a component as its `JoinHandle` sees it,
`armed`, `fence` and `age` the grace and the time since the order. Components
owe nothing: they fail, panic or hang when they like, and return Ok only after
the token. When main has returned, `#[tokio::main]` drops the runtime: tasks
are cancelled at their next await (`DropTasks`, which takes the bridge away),
and the drop waits for those that have none (`Exit` needs `~wedged`).
`process::exit`, used by the fence and the second signal, waits for nothing.
`select!` is unbiased: at the deadline the fence may win over components that
ended at that instant. `Wedges` says whether a task may block its worker; the
runtime then has a worker left for everyone else (see *Assumed of the runtime*).

**`HttpServer`**. `conn[c]` is the life of a connection from the kernel's queue
to its close, with keep-alive cycles; `watched` is the registry, `told` the
connections the graceful order has reached. hyper is external and modelled as
the code configures it: an idle connection closes on the order, one reading its
first head or serving a request goes on to the end of that request. `accept()`
needs one of the process's descriptors (`MaxOpen`): without one it fails at
once and the kernel keeps the connection, so the loop turns in place, a stutter
that `BeginDrain` competes with in the `select!`. A timed-out
request is answered by the middleware stack, so it ends like any other.
HTTP/2 and upgrades are left out. `SlowReaders` are clients that may never
read; the socket's buffer takes the others' (small) responses at once.

**`Migration`**. `applied` counts the committed migrations, `done[r]` those an
open transaction has reached, `lock` the advisory lock. `Known[r]` is the
length of the list in the build of process `r`; lists only grow, by the rule in
`Migrator::migrations` (at this commit the list is empty: the mechanism is
modelled for the migrations it is there for). Waiting for another
transaction's objects, colliding with them once committed, refusing a table
that names unknown migrations and rolling back on a crash are PostgreSQL's and
sea-orm-migration's behaviour, external.

**`Pipeline`**. `st[r]` is how far request `r` is: waiting in a *handler*,
*acquiring* a connection for a probe, *pinging* the database, then *answered*,
*torn* (its connection's task panicked) or *gone* with its client. No layer
awaits anything on the way down, so `Arrive` takes a request to its handler in
one step, through `Down`; `Yield` takes what comes of it back through `Up`. The
two compose the layers in the order of `middleware::apply`, and `Up` acts on
outcomes of three kinds, responses, panics and elapsed budgets, as each layer
does. The target *handler* stands for the handlers the repository is there to
receive (it has none yet) and ends in a success, any `ApiError` or a panic, or
never. The documentation's routes answer what Swagger UI's router, merged in
after the fallback for wrong methods, makes of them (`SwaggerUi`): the redirect
of `/docs` (`api/tests/router.rs:107`), a page, the contract, and axum's 405.
`others` are the pool's connections in the hands of jobs, handlers and
the pool itself, which takes back the connection of a dropped request
(`Orphaned`). The database is up, down (refuses) or hung (answers nothing), and
changes at any time; `seen` remembers its states while a probe is served. Over a
database that is down the pool reports some errors at once and tries again over
others until `acquire_timeout`: `AcquireFails` may come at any moment of the
wait. The pool's queue and the drop of a request are sqlx's and hyper's, external.

**`Config`**. One boot from `./.env` to the first log line, in the order of
`main`: `LoadDotenv`, `Build` (the layers of `Config::load`), `Deserialize`,
`Validate`, `InitTelemetry`, each with its failure. A source is a function from
the keys it sets to scalars, and a scalar is a text with the number it reads as,
so that `native_or_string` and a password of digits can be told apart. The files
and the environment are variables that no step changes; the merge of the crate
`config` and dotenvy's (which never overrides) are external. Keys that nothing
checks are represented by `database.host`. With both executables the same module
says what the CLI reads.

**`Drain`** is an abstract specification: work joins while a component is open,
leaves at any time, nothing joins once it closes but known *stragglers*, and the
component says *empty* only when it is; a fenced one may give up. `Cron`
implements it with its live ticks (not the tracker's count) as the work, the late
ones as stragglers and the drain fence as the right to give up, `HttpServer` with
its open connections (not the registry), no straggler and no fence. The refinement mapping is `RunsDrain` and `ConnsDrain`.

**`TimeBox`** is the abstract specification of a bound in time: work begins with
nothing spent, may end at any moment, and no time passes over work that has
spent its limit. `Pipeline` implements it with its requests, whatever layer,
probe or handler they are in, on a clock of their own (`age`, not the timer that
is to bound them). That is what `HttpServer`, where the budget of a request is
one timer, supposes of the stack around its handlers. `Cron` has no box: a run
that blocks outlives its budget.

**`Schema`** is what the migrations promise of any number of processes: each run
is one moment. It takes the schema to that of its build or leaves it alone,
because it refuses a schema its build does not know or because a rival
committed first, and the rivals of a replica are the CLIs alone. `Migration`
implements it (`AtOnce`), with reads, open transactions, waits, the lock and
crashes all hidden.

**`Service`** composes `Supervisor`, `Cron` and `HttpServer`, by INSTANCE, over
shared variables: main's token is the shutdown future of both components, the
result of a component is what `main`'s `JoinHandle` sees (`Result`), a run that
never awaits is what blocks a worker (`wedged`), and the drop of the runtime
stops every task but that one. In the parts the environment is free (a
component of `Supervisor` may end at any time, `shutdown` of `Cron` may fire at
any time); here it is the other part. `ImplementsComponents` says that each part
lives in the composition as its own module describes it. One simplification:
starting and stopping a component takes no time (`ComponentReady`), what it
drains does.

*Assumed of the runtime.* In `Cron`, `Supervisor` and `Service` a run or task that
blocks its thread holds one worker, and another is free for main, the bridge, the
timers and everything else: tokio's default of one worker per core, with more
cores than blocked runs. With every worker blocked nothing runs at all, the fence
included; no property speaks of that.

`MC*` modules only give the constants values. Definitions commented as *bug
variants* are plausible mistakes in the definition that follows them; each
property is known to fail under at least one (`mutants` in `PROJECT.json`).

## 3. The runs

| run | instance | shows |
|---|---|---|
| `cron` | a Skip job with three ticks, the last of which may come late, an Allow job that may block with one; budgets 2 and 1, fence 2 | overlap, slot, tracker, drain, fence and liveness together; the engine implements `Drain`, the late tick its only straggler |
| `cron_budget` | the defaults in units of 30 s: budget 10, fence 1 | *violation*, see below |
| `supervisor` | grace 3, three signals, a task that may block its worker | everything about `main`: status, deadline, signals, never half-alive; a second signal ends the process without waiting for the grace |
| `supervisor_dies` | grace 2, one signal, blocked worker | *violation*, see below |
| `http_server` | three connections over two descriptors, one client that may never read; timeout 2 | the drain implements `Drain`, cuts nothing, begins whatever accept() does, ends within two timeouts but for that client |
| `migration` | two replicas of a build of two, one of three, the CLI of three; two crashes | replicas serialized and aligned, the runs implement `Schema`, no waiter left behind, whatever the CLI does |
| `pipeline` | two requests among all targets, a pool of one; timeout 2, acquire timeout 1; documentation | every request ends, correlated, in the envelope but for the documentation's own answers; the requests implement `TimeBox`; probes tell the truth |
| `pipeline_405` | as `pipeline` | *violation*, see below |
| `service` | a job that awaits, one that blocks, two connections, one slow reader; timeout 1, drain fence 1, grace 4 | the parts fit together, nothing is cut by a sibling's failure, the fences nest |
| `service_grace` | the defaults in units of 15 s: timeout 2, drain fence 2, grace 3; every client reads | *violation*, see below |
| `config` | two files, `./.env` and the environment, each one of twelve to fifteen contents | every source obeyed, nothing unusable loads |
| `config_cli` | the application and the CLI on one host | *violation*, see below |

Why the bounds are enough. Three ticks of one job are a run, a tick that finds
it, and a tick after it; a fourth repeats one of these. Budgets of two units
leave an instant strictly inside a budget; budgets equal to, below and above the
fence are all covered. Three signals are the order, the escalation and one that
coalesces. Three connections over two descriptors are two in different states
and one that waits when the drain begins, and each goes through any number of
requests. Three replicas are the lock's holder, one that waits and one of
another build. Two requests and a pool of one are a holder and a waiter, with
`others` for any further users. In `service` the grace is two units more than
two timeouts: one for main to wait past them, which `FencesNest` forbids but
over slow readers alone, and one in which its own fence is still to come. In `config`
each setting stands for a class (fits, too large, zero, not a number, unknown
key, template password), two of them can meet from two sources, and a port limit
of 9 puts the width of `u16` in reach. For safety the theorems remove the
bounds. `DrainCap` and the cap on `age` stop clocks one unit past the bound the
properties speak of.

Fairness. The runtime polls what is ready and timers fire: weak fairness on the
steps of `main`, the bridge, the server, the dispatch and the timers, and on
`Elapse`. `JobScheduler::start` and `shutdown` are assumed to return (if one
hangs, main's fence is what ends the process; `Supervisor` assumes nothing of
its components). `accept()` is polled (weakly fair), and `select!` takes its
ready branches at random, so an `accept()` that fails without a pause does not
starve the shutdown branch. The advisory lock is granted in order, so `Acquire`
is strongly fair. In `Pipeline` time is strongly fair too: the database and the
other users of the pool may change their minds any number of times at one
instant, but not for ever. Nothing is assumed of boot I/O, signals, clients,
bodies of jobs, handlers, crashes or blocked workers.

### Where code and comments disagree

* `cron/src/server.rs:113`: the end of the drain fence "means a job outlived
  its own budget". A budget is 300 s by default, the fence 30 s: most runs that
  meet the fence are within their budget (`cron_budget`). With budgets no
  longer than the fence the comment is a theorem (`ExpiryNeedsOverrun`).
* `src/main.rs:25`: the grace "only fires on a genuine hang", because the API
  bounds its connections by the request timeout. A head still coming in has a
  budget of its own, of the same length: the true bound is twice the timeout
  (`DrainIsBounded`), 60 s with the default, beyond the grace of 45 s, and the
  fence exits over a request within its budget (`service_grace`; `README.md:47`,
  "never cut a request short"). `Config::validate` puts no upper limit on the
  timeout. What holds is `FencesNest`: past two timeouts and the drain fence main
  waits over connections whose clients do not read, and over nothing else. With
  both within the grace the comment is a theorem (`ForcedExitIsGenuine`), of
  which the exit itself asks less: the order had reached such a client.
* `cron/src/server.rs:18`, `src/main.rs:25`: the exit "stays deterministic". A
  run that blocks its thread outlives the drain fence, `Server::run` and main
  return, and the drop of the runtime waits for it outside every fence
  (`supervisor_dies`).
* `migration/src/main.rs:32`: the CLI is "guaranteed" to reach the database of
  the API. The name each executable passes to `Config::load` selects its file
  under `/etc`: the CLI reads `/etc/migration`, the application
  `/etc/starterhub-rust-stack` (`config_cli`). Nothing else parts them
  (`OnlyEtcPartsThem`): what the environment, `./.env` or `./app-config.json`
  sets is the same for both.
* `api/src/router/mod.rs:66` and `:179`: a known path hit with the wrong method
  answers the JSON envelope "instead of axum's empty `405`", which would be "the
  one reachable response that would break the JSON-only rule". The fallback is
  put on the routes present at `:68`, Swagger UI's are merged in at `:83`: where
  the documentation is mounted, a wrong method on one of its paths still gets the
  empty 405 (`pipeline_405`). It is not the only empty answer either: `GET /docs`
  is an empty 303. `ARCHITECTURE.md:63`, "every response is JSON", holds of
  everything but the documentation's own answers (`AnswersAreJson`).

Looser ones have no run. `ARCHITECTURE.md:77` has the client receive "a JSON
`408`" past the timeout; `middleware/timeout.rs` answers 503, on purpose, and so
does `Handled`. `migration/src/lib.rs:17` has the lock "serializing
migration runs"; the CLI does not take it, so its run can collide with a
replica's, which then fails its boot, or leave a replica serving over a newer
schema. That is the exception in `ReplicasSerialized` and `BootsAligned`; the
schema stays whole (`ImplementsSchema`, `SchemaIsWhole`). A pool of
`max_connections = 0` passes `validate` if `min_connections` is 0 too, though
every request for a connection would then time out (`BootsUsable` claims the
order of the bounds only). `ARCHITECTURE.md:70` has every 5xx body read
"internal server error"; the 503s of the probe and of the timeout have texts of
their own, and what holds is that a 5xx has one of three fixed texts (`NoLeak`).
And /readyz says "database unreachable" over a pool that is busy for the acquire
timeout, whatever the database does (`AcquireFails`).

## 4. The proofs

`CronProofs`, for every roster, schedule, policy, budget and fence
(`CronAssumption`: the functions have their domains, durations are positive).
The inductive invariant ties together the places that know of a run:
`TrackerExact` (tokens are the spawned and running ticks), `GateExact` (a
permit is out exactly while a run of that job holds it), `ClosedAfterStop`, and
`NoSelfOverlap`. No property is inductive alone: that a tick is only skipped
over a run in flight (`NoSlotLeak`) is `GateExact` read in one direction, that
two runs never hold one gate needs it in the other. All of it holds whatever
ticks are `Late`. `DrainInv` adds that no other tick is on its way to a closed
tracker, which makes every step a step of `Drain` or a stutter
(`DrainImplemented`). `FitInv` compares each run's remaining budget with the
fence's, late ticks excepted, and gives `ExpiryNeedsOverrun`, under the
hypothesis the defaults break.

`SupervisorProofs`, for every grace and number of signals. `PositionInv` says
what main's step tells of the components, `HandlerInv` that nothing is spawned
or both handlers are in place, `SignalInv` counts the signals behind those
pending and the one consumed. The exit status, the default disposition and the
escalation follow. `GraceIsExact` adds `FenceInv`, `age + fence = Grace` from
the moment the fence is armed to main's return.

`HttpServerProofs`, for every set of connections, every timeout and every number
of descriptors. `RegistryInv` (watched = open) gives `DrainImplemented`.
`DrainIsBounded` rests on `ClockInv`: during a drain, the clock plus what a
connection's timer still allows is at most one timeout in the head and two in
the handler, because a connection the order has reached is never idle again.

`PipelineProofs`, for every finite set of requests, every mix of inputs, every
timeout and every size of pool. `AnswerInv` says that every answer is the way up
of an outcome the code below the layers can produce, under the request's id;
`UpAnswers`, about the composition of the layers alone, then gives
`Correlation`, `AnswersAreJson` and `NothingLeaks`. For `AnswersAreJson` the
outcomes of the routes are told apart (`ImmediateCases`): only Swagger UI's own,
where it is mounted, are outside the envelope (`DocsOutcomes`). `BudgetInv` (age and
remaining budget add up to the timeout) gives `RequestsKeepTheirBudget`, the
refinement of `TimeBox`: every way into the stack starts a box, every way out,
a panic, a timeout or a lost client included, ends it, and time is disabled over
a spent one. `RequestsAreBounded` is the bound itself. `LiveInv` and `ProbeInv`
give the two theorems about the probes. The bound on the pool, part of
`TypeOK`, counts the set of holders (`HolderComes`, `HolderLeaves`): a request
that is dropped hands its connection to `others` in the same step.

`MigrationProofs`, for any replicas, CLIs, builds and crashes. `LockInv`: the
holders of the lock are the replicas past it. `StaleInv`: what a replica has
read is out of date only if a CLI has committed the very schema it now finds;
a collision and a schema of another build are both read off it. `OwnerInv`: the
schema is the work of a process that is up since, which is where the rival of a
CLI's run is found (`RivalIsUp`). With the two, every step is one of `Schema` or
a stutter (`RunsAreAtomic`): the moment of a run is its commit, its refusal or
its collision, and a run that commits nothing new ends over its own schema or,
overtaken, over a rival's (`CommitIsAtomic`). `SchemaIsWhole` needs `OwnerInv`
alone.

`ConfigProofs`, for any sources, defaults and limits (`ConfigAssumption`: the
defaults have every key, their password is the template's). The invariant says
that after each step of a boot its tree is a function of the sources (`Merged`,
`Final`) and passed the checks so far. That `Merged` is the first source that
has the key, which two merges in different places have to add up to, is the core
of `EverySourceObeyed`. As the sources of two executables differ under /etc only,
`OnlyEtcPartsThem` compares their `Merged`: the layers above /etc are common, so
a difference in a key shows that none of them has it.

`ServiceProofs`, for all parameters. `SpawnInv` and `OrderInv` say what one part
must know of another: a component is alive only between its spawn and main's
return, and drains only under the token. With them every step of the process is
a step or a stutter of each part (`MainSimulates`, `CronSimulates`,
`HttpSimulates`), so `CompositionImplements`, and the theorems above hold of the
process. `RunsDrain` and `ConnsDrain` then hold in it as well.

`ServiceStopProofs`, for all parameters (`ServiceAssumption`: durations are
positive). tlapm does not carry a theorem through an `INSTANCE`, so what is
needed of the parts is stated of `C` and `H` again (`RunsInv`, `HttpOpenInv`,
`HttpClockInv`). `TaskInv` ties what main sees of a task to where its
`Server::run` stands, `FenceInv` main's two clocks to its position: they give
`StopIsReported` and `NothingIsCut`, which excepts the runs of late ticks. `FencesAreNested`
needs the three clocks at once. `LateInv`: once time has passed since the order,
a component that still runs drains, and its drain is as old as the order. Past
two timeouts and the drain fence (`LateUnit`) the cron engine is then past its
own fence, so it has stopped; the HTTP server has not, or main would have
returned; its drain is older than two timeouts, and `HttpClockInv` leaves it
only clients that do not read. The clock moves with time alone (`WaitStep`) and
whom the order has reached stays reached (`ToldGrows`), so that the reason main
had for so long a wait is still on record (`WaitInv`). A forced exit comes at the
end of the grace, so that, if the grace is longer than both, it comes after such
a wait: `ForcedExitIsGenuine`. Either hypothesis is needed, and `service_grace` is what
happens without the first. `StopsWithinGrace` needs neither: whatever the
durations, main's clock stops at the grace, and with no job that blocks, nothing
holds the drop of the runtime.

Only model-checked: liveness, which is out of the prover's reach
(`StopsOnShutdown`, `SlotComesBack`, `TicksSettle`, `NeverHalfAlive`,
`SignalStops`, `SecondSignalExits`, `QueueMoves`, `DrainEnds`, `RunsFinish`, `EveryRequestEnds`).
Every other property of a passing run is a theorem.

## 5. Left out

Not modelled, and why: log lines and spans but for their id; the content
of the OpenAPI contract and of Swagger UI's pages (static); HEAD, which axum
answers as GET without the body; an optional configuration file that exists but
cannot be read (external: the crate `config` may pass over it as if absent); the pool's idle and lifetime options (sqlx's);
HTTP/2 and upgrades, and what hyper answers to malformed HTTP (hyper's); bodies
of jobs and handlers (one example job, no handler yet); the reading of request
bodies and their limit, which appear as the rejections a handler may end with;
`register`, a loop over the roster before anything runs, whose failures are the
boot's; the scheduler's parsing of schedules; the assembly of the connection URL
and of the listening address, which are string formatting; and the empty
`service`, `dto`, `handler` and `entity`.

What would extend this:

1. Handlers and migrations, when the repository has some: the outcomes of
   `Pipeline`'s target *handler* and `Known` are where they go.
2. `down` of the migration CLI, once a migration can be taken back.
