-------------------------------- MODULE Cron --------------------------------
(***************************************************************************)
(* The cron engine of the stack: Server::run (cron/src/server.rs) over the *)
(* per-tick wiring of cron/src/job/mod.rs (into_cron_job, dispatch and     *)
(* execute).  The scheduler itself, tokio-cron-scheduler, is external: it  *)
(* fires ticks at moments nobody controls and spawns each as a detached    *)
(* task.  A constant set of ticks stands for the schedules' occurrences.   *)
(*                                                                         *)
(* Time is discrete.  Timers are urgent: Elapse waits for every due timer  *)
(* and for the first poll of every spawned task, so a model time unit is   *)
(* far longer than the runtime's scheduling delays.                        *)
(***************************************************************************)
EXTENDS Integers, FiniteSets

CONSTANTS
    Jobs,        \* the roster
    Ticks,       \* occurrences of the schedules, each fires at most once
    JobOf,       \* the job a tick belongs to
    Policy,      \* Job::overlap of each job
    Budget,      \* Job::timeout of each job, in time units
    Blocking,    \* jobs whose body never reaches an await: a timeout cannot cut them
    DrainGrace,  \* DRAIN_GRACE, in time units
    Late         \* ticks that, fired before JobScheduler::shutdown returned, may
                 \* still call the adapter closure after it

(* What a tick does when a run of its job is in flight. *)
Overlap == {"Allow", "Skip"}

ASSUME CronAssumption ==
    /\ JobOf \in [Ticks -> Jobs]
    /\ Policy \in [Jobs -> Overlap]
    /\ Budget \in [Jobs -> Nat \ {0}]
    /\ Blocking \subseteq Jobs
    /\ DrainGrace \in Nat \ {0}
    /\ Late \subseteq Ticks

VARIABLES
    phase,      \* where Server::run stands
    engine,     \* the scheduler's tick loop
    shutdown,   \* the shutdown future handed to Server::run has resolved
    st,         \* what became of each tick
    left,       \* what remains of the budget of a running tick
    permits,    \* available permits of each job's gate (Semaphore::new(1))
    tracked,    \* tokens the TaskTracker holds
    closed,     \* TaskTracker::close was called
    drainLeft,  \* what remains of the drain fence
    expired     \* the drain fence elapsed before the tracker was empty

schedVars == <<engine>>
runVars   == <<st, left, permits, tracked>>
fenceVars == <<closed, drainLeft, expired>>
vars      == <<phase, engine, shutdown, st, left, permits, tracked,
               closed, drainLeft, expired>>

TickStates == {"unfired", "fired", "spawned", "running",
               "skipped", "ended", "dropped"}

(* A settled tick will never run (again). *)
Settled(t) == st[t] \in {"skipped", "ended", "dropped"}

(* A live tick is a task the tracker follows. *)
Live(t) == st[t] \in {"spawned", "running"}

(* Ticks that hold the gate of their job. *)
Holds(t) == st[t] = "running" /\ Policy[JobOf[t]] = "Skip"

(* TaskTracker::wait resolves once the tracker is closed and empty. *)
WaitResolves == closed /\ tracked = {}

Init ==
    /\ phase = "built" /\ engine = "idle" /\ shutdown = FALSE
    /\ st = [t \in Ticks |-> "unfired"]
    /\ left = [t \in Ticks |-> 0]
    /\ permits = [j \in Jobs |-> 1]
    /\ tracked = {} /\ closed = FALSE
    /\ drainLeft = DrainGrace /\ expired = FALSE

-----------------------------------------------------------------------------
(* Server::run *)

StartEngine ==
    /\ phase = "built"
    /\ phase' = "running" /\ engine' = "ticking"
    /\ UNCHANGED <<shutdown, runVars, fenceVars>>

StartFails ==
    /\ phase = "built"
    /\ phase' = "failed"
    /\ UNCHANGED <<engine, shutdown, runVars, fenceVars>>

(* The token of the process fires, at any moment (even before the start). *)
ShutdownFires ==
    /\ ~shutdown
    /\ shutdown' = TRUE
    /\ UNCHANGED <<phase, engine, runVars, fenceVars>>

(* What JobScheduler::shutdown does to ticks still on their way: none but  *)
(* the late ones reaches the adapter any more.                             *)
InFlightTicks ==
    [t \in Ticks |-> IF st[t] = "fired" /\ t \notin Late THEN "dropped" ELSE st[t]]

(* Bug variant: the scheduler is not shut down before the drain. *)
DrainWithoutStop ==
    /\ phase = "running" /\ shutdown
    /\ phase' = "draining" /\ closed' = TRUE /\ drainLeft' = DrainGrace
    /\ UNCHANGED <<engine, shutdown, runVars, expired>>

(* Bug variant: the tracker is never closed. *)
DrainWithoutClose ==
    /\ phase = "running" /\ shutdown
    /\ phase' = "draining" /\ engine' = "stopped"
    /\ st' = InFlightTicks /\ drainLeft' = DrainGrace
    /\ UNCHANGED <<shutdown, left, permits, tracked, closed, expired>>

(* JobScheduler::shutdown succeeds, then the tracker is closed and the     *)
(* drain fence armed, with no await in between.                            *)
StopEngine ==
    /\ phase = "running" /\ shutdown
    /\ phase' = "draining" /\ engine' = "stopped"
    /\ st' = InFlightTicks
    /\ closed' = TRUE /\ drainLeft' = DrainGrace
    /\ UNCHANGED <<shutdown, left, permits, tracked, expired>>

(* JobScheduler::shutdown fails: the early return skips close and drain,   *)
(* and the tick loop may still be turning.                                 *)
StopFails ==
    /\ phase = "running" /\ shutdown
    /\ phase' = "failed"
    /\ UNCHANGED <<engine, shutdown, runVars, fenceVars>>

Drained ==
    /\ phase = "draining" /\ WaitResolves
    /\ phase' = "stopped"
    /\ UNCHANGED <<engine, shutdown, runVars, fenceVars>>

(* Bug variant: the wait on the tracker has no fence. *)
DrainUnfenced == FALSE

DrainExpires ==
    /\ phase = "draining" /\ drainLeft = 0 /\ ~WaitResolves
    /\ phase' = "stopped" /\ expired' = TRUE
    /\ UNCHANGED <<engine, shutdown, runVars, closed, drainLeft>>

-----------------------------------------------------------------------------
(* One tick *)

Fire(t) ==
    /\ engine = "ticking" /\ st[t] = "unfired"
    /\ st' = [st EXCEPT ![t] = "fired"]
    /\ UNCHANGED <<phase, engine, shutdown, left, permits, tracked, fenceVars>>

(* The closure of into_cron_job: the run is tracked before it is polled.   *)
Adapt(t) ==
    /\ st[t] = "fired"
    /\ st' = [st EXCEPT ![t] = "spawned"]
    /\ tracked' = tracked \cup {t}
    /\ UNCHANGED <<phase, engine, shutdown, left, permits, fenceVars>>

(* The run begins: the timeout of execute is armed with the job's budget.  *)
Execute(t) ==
    /\ st' = [st EXCEPT ![t] = "running"]
    /\ left' = [left EXCEPT ![t] = Budget[JobOf[t]]]
    /\ UNCHANGED tracked

DispatchAllow(t) ==
    /\ st[t] = "spawned" /\ Policy[JobOf[t]] = "Allow"
    /\ Execute(t)
    /\ UNCHANGED <<phase, engine, shutdown, permits, fenceVars>>

(* Bug variant: the permit is tested, then dropped before the run. *)
DispatchUnheld(t) ==
    /\ st[t] = "spawned" /\ Policy[JobOf[t]] = "Skip"
    /\ permits[JobOf[t]] > 0
    /\ Execute(t)
    /\ UNCHANGED <<phase, engine, shutdown, permits, fenceVars>>

(* try_acquire took the only permit; it is held over the whole run. *)
DispatchAcquired(t) ==
    /\ st[t] = "spawned" /\ Policy[JobOf[t]] = "Skip"
    /\ permits[JobOf[t]] > 0
    /\ permits' = [permits EXCEPT ![JobOf[t]] = @ - 1]
    /\ Execute(t)
    /\ UNCHANGED <<phase, engine, shutdown, fenceVars>>

(* try_acquire found no permit: the tick is over, and its token with it. *)
DispatchSkipped(t) ==
    /\ st[t] = "spawned" /\ Policy[JobOf[t]] = "Skip"
    /\ permits[JobOf[t]] = 0
    /\ st' = [st EXCEPT ![t] = "skipped"]
    /\ tracked' = tracked \ {t}
    /\ UNCHANGED <<phase, engine, shutdown, left, permits, fenceVars>>

(* Bug variant: the permit is forgotten at the end of a run. *)
ReleaseLeaks(t) ==
    /\ st' = [st EXCEPT ![t] = "ended"]
    /\ left' = [left EXCEPT ![t] = 0]
    /\ tracked' = tracked \ {t}
    /\ UNCHANGED permits

(* Bug variant: every run adds a permit at its end, whether it took one. *)
ReleaseAddsPermit(t) ==
    /\ st' = [st EXCEPT ![t] = "ended"]
    /\ left' = [left EXCEPT ![t] = 0]
    /\ permits' = [permits EXCEPT ![JobOf[t]] = @ + 1]
    /\ tracked' = tracked \ {t}

(* The end of a run drops the permit, if it held one, and the token. *)
Release(t) ==
    /\ st' = [st EXCEPT ![t] = "ended"]
    /\ left' = [left EXCEPT ![t] = 0]
    /\ permits' = IF Holds(t) THEN [permits EXCEPT ![JobOf[t]] = @ + 1] ELSE permits
    /\ tracked' = tracked \ {t}

(* The body returned Ok or Err, or panicked: only the log line differs. *)
BodyEnds(t) ==
    /\ st[t] = "running"
    /\ Release(t)
    /\ UNCHANGED <<phase, engine, shutdown, fenceVars>>

(* Bug variant: the body is awaited without a timeout. *)
NoTimeOut(t) == FALSE

(* The budget is spent and the body, parked at an await, is dropped. *)
TimeOut(t) ==
    /\ st[t] = "running" /\ left[t] = 0 /\ JobOf[t] \notin Blocking
    /\ Release(t)
    /\ UNCHANGED <<phase, engine, shutdown, fenceVars>>

-----------------------------------------------------------------------------
(* Time *)

Monus(n) == IF n > 0 THEN n - 1 ELSE 0

NothingDue ==
    /\ \A t \in Ticks : /\ st[t] # "spawned"
                        /\ st[t] = "running" => left[t] > 0 \/ JobOf[t] \in Blocking
    /\ phase = "draining" => drainLeft > 0 /\ ~WaitResolves

TimersRun == phase = "draining" \/ \E t \in Ticks : st[t] = "running" /\ left[t] > 0

Elapse ==
    /\ NothingDue /\ TimersRun
    /\ left' = [t \in Ticks |-> Monus(left[t])]
    /\ drainLeft' = IF phase = "draining" THEN Monus(drainLeft) ELSE drainLeft
    /\ UNCHANGED <<phase, engine, shutdown, st, permits, tracked, closed, expired>>

(* Server::run returned and no run is left. *)
Over ==
    /\ phase \in {"stopped", "failed"}
    /\ \A t \in Ticks : ~Live(t)
    /\ UNCHANGED vars

Tick(t) ==
    \/ Fire(t) \/ Adapt(t)
    \/ DispatchAllow(t) \/ DispatchAcquired(t) \/ DispatchSkipped(t)
    \/ BodyEnds(t) \/ TimeOut(t)

Server ==
    \/ StartEngine \/ StartFails \/ ShutdownFires
    \/ StopEngine \/ StopFails \/ Drained \/ DrainExpires

Next == Server \/ (\E t \in Ticks : Tick(t)) \/ Elapse \/ Over

Spec == Init /\ [][Next]_vars

(* The runtime polls what is ready and fires what is due; the scheduler's  *)
(* start and shutdown calls return.  Ticks need not fire, bodies need not  *)
(* end, the token need not fire.                                           *)
Fairness ==
    /\ WF_vars(StartEngine \/ StartFails)
    /\ WF_vars(StopEngine \/ StopFails)
    /\ WF_vars(Drained \/ DrainExpires)
    /\ WF_vars(Elapse)
    /\ \A t \in Ticks :
        /\ WF_vars(Adapt(t))
        /\ WF_vars(DispatchAllow(t) \/ DispatchAcquired(t) \/ DispatchSkipped(t))
        /\ WF_vars(TimeOut(t))

FairSpec == Spec /\ Fairness

-----------------------------------------------------------------------------
(* Properties *)

(* The state of Server::run, of the ticks and of the timers is well typed. *)
TypeOK ==
    /\ phase \in {"built", "running", "draining", "stopped", "failed"}
    /\ engine \in {"idle", "ticking", "stopped"}
    /\ shutdown \in BOOLEAN
    /\ st \in [Ticks -> TickStates]
    /\ left \in [Ticks -> Nat]
    /\ permits \in [Jobs -> 0..1]
    /\ tracked \subseteq Ticks
    /\ closed \in BOOLEAN
    /\ drainLeft \in 0..DrainGrace
    /\ expired \in BOOLEAN

(* A job with Overlap::Skip never runs twice at once in one process. *)
NoSelfOverlap ==
    \A t, u \in Ticks :
        Holds(t) /\ Holds(u) /\ JobOf[t] = JobOf[u] => t = u

(* A tick is skipped only while another run of the same job is in flight:  *)
(* whichever way earlier runs ended (return, error, panic, timeout), none  *)
(* of them leaked the slot ("the next tick after a completed run always    *)
(* executes", dispatch).                                                   *)
SkipOnlyWhileRunning ==
    [][\A t \in Ticks :
        st[t] = "spawned" /\ st'[t] = "skipped" =>
            \E u \in Ticks : JobOf[u] = JobOf[t] /\ st[u] = "running"]_vars

(* The drain as Server::run promises it, with the ticks that live in the   *)
(* place of the tracker: what closes is the component, not the count.      *)
DrainStage ==
    CASE phase = "draining" -> "closing"
      [] phase = "stopped" /\ ~expired -> "empty"
      [] phase = "stopped" /\ expired -> "gaveup"
      [] OTHER -> "open"

RunsDrain == INSTANCE Drain WITH
    Members <- Ticks, Stragglers <- Late, MayGiveUp <- TRUE,
    inside <- {t \in Ticks : Live(t)}, stage <- DrainStage

(* No run but that of a late tick starts once the drain has begun ("the    *)
(* tracker can no longer grow", Server::run, if there is none), and a      *)
(* drain that meets no fence ends when none is left, not even one that     *)
(* joined the tracker after it was closed.                                 *)
ImplementsDrain == RunsDrain!Spec

(* The drain fence elapses only over a job that outlived its own budget    *)
(* (the comment under the fence in Server::run), or that came late.        *)
ExpiryMeansOverrun ==
    [][~expired /\ expired' =>
        \E t \in tracked : t \in Late \/ (st[t] = "running" /\ left[t] = 0)]_vars

(* Once the shutdown order is out, a started engine's Server::run returns, *)
(* even over a run that no timeout can cut.                                *)
StopsOnShutdown ==
    phase = "running" /\ shutdown ~> phase \in {"stopped", "failed"}

(* The slot of a job whose bodies await always comes back: a run stuck on  *)
(* a dead dependency does not stop its job forever (Job::timeout).         *)
SlotComesBack ==
    \A j \in Jobs \ Blocking : permits[j] = 0 ~> permits[j] = 1

(* Every tick that fired settles, unless its body blocks the thread. *)
TicksSettle ==
    \A t \in Ticks : JobOf[t] \notin Blocking =>
        (st[t] = "fired" ~> Settled(t))

=============================================================================
