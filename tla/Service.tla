------------------------------- MODULE Service -------------------------------
(***************************************************************************)
(* The whole process: main (Supervisor) over the cron engine (Cron) and    *)
(* the HTTP server (HttpServer), on one shutdown token and one clock.      *)
(*                                                                         *)
(* main's token is the shutdown future of both components, the result of a *)
(* component's Server::run is what main's JoinHandle sees, a run that      *)
(* never awaits is what blocks a worker, and the drop of the runtime stops *)
(* every task but that one.                                                *)
(***************************************************************************)
EXTENDS Integers, FiniteSets

CONSTANTS
    Grace, MaxSignals,                                           \* main
    Jobs, Ticks, JobOf, Policy, Budget, Blocking, DrainGrace, Late,  \* cron
    Conns, Timeout, MaxOpen, SlowReaders                         \* HTTP server

(* What main and the components assume of their durations. *)
ASSUME ServiceAssumption ==
    /\ Grace \in Nat \ {0} /\ DrainGrace \in Nat \ {0} /\ Timeout \in Nat \ {0}
    /\ Budget \in [Jobs -> Nat \ {0}] /\ Late \subseteq Ticks

VARIABLES
    pc, handlers, pending, sent, bridge, token, comp, joined,
    armed, fence, age, exit,
    cronPhase, engine, st, runLeft, permits, tracked, closed, drainLeft, expired,
    httpPhase, conn, connLeft, watched, told, drainTime

mainVars == <<pc, handlers, pending, sent, bridge, token, joined, armed, fence, age, exit>>
cronVars == <<cronPhase, engine, st, runLeft, permits, tracked, closed, drainLeft, expired>>
httpVars == <<httpPhase, conn, connLeft, watched, told, drainTime>>
vars     == <<mainVars, comp, cronVars, httpVars>>

(* A run that never awaits holds its worker for as long as it lasts. *)
wedged == \E t \in Ticks : st[t] = "running" /\ JobOf[t] \in Blocking

M == INSTANCE Supervisor WITH Wedges <- Blocking # {}
C == INSTANCE Cron WITH phase <- cronPhase, shutdown <- token, left <- runLeft
H == INSTANCE HttpServer WITH phase <- httpPhase, shutdown <- token, left <- connLeft

Init == C!Init /\ H!Init /\ M!Init

Alive   == exit = "none"
Runtime == Alive /\ bridge # "dropped"

-----------------------------------------------------------------------------
(* main, the signals and the bridge: the components only see the token. *)
Main ==
    /\ UNCHANGED <<cronVars, httpVars>>
    /\ \/ M!Main
       \/ \E s \in M!Signals : M!Signal(s) \/ M!BridgeFirst(s) \/ M!BridgeSecond(s)

(* Bug variant: an error of Server::run is logged and forgotten. *)
ResultForgotten(phase) ==
    IF phase \in {"stopped", "failed"} THEN "ok" ELSE "running"

(* What the JoinHandle of a component yields. *)
Result(phase) ==
    CASE phase = "stopped" -> "ok"
      [] phase = "failed" -> "err"
      [] OTHER -> "running"

(* Server::run of the cron engine, in the task main spawned. *)
CronServer ==
    /\ Runtime /\ comp["cron"] = "running"
    /\ UNCHANGED <<mainVars, httpVars>>
    /\ \/ C!StartEngine \/ C!StartFails
       \/ C!StopEngine \/ C!StopFails \/ C!Drained \/ C!DrainExpires
    /\ comp' = [comp EXCEPT !["cron"] = Result(cronPhase')]

(* A tick, in a detached task that outlives Server::run. *)
Run(t) ==
    /\ Runtime
    /\ UNCHANGED <<mainVars, comp, httpVars>>
    /\ C!Tick(t)

(* The drop of the runtime waits for a run that does not yield. *)
BlockingEnds(t) ==
    /\ Alive /\ bridge = "dropped" /\ JobOf[t] \in Blocking
    /\ UNCHANGED <<mainVars, comp, httpVars>>
    /\ C!BodyEnds(t)

(* Server::run of the API, in the task main spawned. *)
ApiServer ==
    /\ Runtime /\ comp["http-server"] = "running"
    /\ UNCHANGED <<mainVars, cronVars>>
    /\ H!Bind \/ H!BindFails \/ H!BeginDrain \/ H!Drained
    /\ comp' = [comp EXCEPT !["http-server"] = Result(httpPhase')]

Connection(c) ==
    /\ Runtime
    /\ UNCHANGED <<mainVars, comp, cronVars>>
    /\ H!Connection(c)

-----------------------------------------------------------------------------
(* Time *)

(* Starting and stopping a component takes no time; what it drains does. *)
ComponentReady ==
    \/ comp["cron"] = "running" /\ cronPhase = "built"
    \/ comp["cron"] = "running" /\ cronPhase = "running" /\ token
    \/ comp["http-server"] = "running" /\ httpPhase = "unbound"
    \/ comp["http-server"] = "running" /\ httpPhase = "accepting" /\ token

(* One unit for all: the timers of the tasks as long as there is a runtime, *)
(* and the grace once the order is out.                                     *)
Elapse ==
    /\ Alive
    /\ UNCHANGED <<pc, handlers, pending, sent, bridge, token, comp, joined, armed, exit>>
    /\ UNCHANGED <<cronPhase, engine, st, permits, tracked, closed, expired>>
    /\ UNCHANGED <<httpPhase, conn, watched, told>>
    /\ Runtime => C!NothingDue /\ H!NothingDue /\ ~ComponentReady
    /\ token \/ C!TimersRun \/ H!TimersRun
    /\ IF token THEN M!Elapse ELSE UNCHANGED <<fence, age>>
    /\ IF Runtime /\ C!TimersRun THEN C!Elapse ELSE UNCHANGED <<runLeft, drainLeft>>
    /\ IF Runtime /\ H!TimersRun THEN H!Elapse ELSE UNCHANGED <<connLeft, drainTime>>

Gone == ~Alive /\ UNCHANGED vars

Next ==
    \/ Main \/ CronServer \/ ApiServer
    \/ \E t \in Ticks : Run(t) \/ BlockingEnds(t)
    \/ \E c \in Conns : Connection(c)
    \/ Elapse \/ Gone

Spec == Init /\ [][Next]_vars

-----------------------------------------------------------------------------
(* Properties *)

(* Each component lives in the composition as its own module describes it: *)
(* what Supervisor supposes of the tasks it awaits is what Cron and        *)
(* HttpServer do, and what these suppose of their future is what main does *)
ImplementsComponents == M!Spec /\ C!Spec /\ H!Spec

(* When main returns, of itself or with the error of one component, the    *)
(* work of the other is not cut ("join!, not try_join!"): no connection is *)
(* open, and unless its stop failed or its drain gave up, the engine is    *)
(* still and no run is left but of a tick that came late.  A stop that     *)
(* failed leaves the engine ticking to the end of the process, and is      *)
(* never success.                                                          *)
NothingCut ==
    exit \in {"ok", "error"} =>
        /\ H!Open = {}
        /\ cronPhase # "failed" /\ ~expired =>
             engine # "ticking" /\ \A t \in Ticks \ Late : ~C!Live(t)
        /\ exit = "ok" => engine = "stopped"

(* The fences nest: every unit of time that main still waits, past the     *)
(* longer of two request timeouts and the drain fence, passes over         *)
(* connections whose clients do not read a response that is ready, and     *)
(* over nothing else.                                                      *)
FencesNest ==
    [][age' # age /\ pc = "supervise" /\ age' > 2 * Timeout /\ age' > DrainGrace
         => H!Open # {} /\ H!Open \subseteq H!Stuck]_vars

(* The order has reached a client that may never read its response. *)
Unread == SlowReaders \cap told # {}

(* The claim of SHUTDOWN_GRACE as it stands ("only fires on a genuine      *)
(* hang"): main's fence has such a client for its reason.                  *)
OnlyGenuineHangs == exit = "hang" => Unread

=============================================================================
