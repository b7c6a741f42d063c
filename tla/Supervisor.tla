----------------------------- MODULE Supervisor -----------------------------
(***************************************************************************)
(* The binary, src/main.rs: the boot sequence, the bridge from Unix        *)
(* signals to the shutdown token, the supervision of the two components,   *)
(* the grace fence and the end of the process.  A component is only what   *)
(* main sees of it, a task that may end at any time in any way, or never.  *)
(*                                                                         *)
(* The end of main is not the end of the process: #[tokio::main] then      *)
(* drops the runtime, which cancels every task at its next await and waits *)
(* for those that never reach one.  process::exit waits for nothing.       *)
(*                                                                         *)
(* Time is discrete and counted from the shutdown order; Elapse waits for  *)
(* whatever the runtime can do at once.                                    *)
(***************************************************************************)
EXTENDS Integers, FiniteSets

CONSTANTS
    Grace,       \* SHUTDOWN_GRACE, in time units
    MaxSignals,  \* bound on the signals sent to the process
    Wedges       \* whether a task of a component may block its worker thread

ASSUME SupervisorAssumption ==
    /\ Grace \in Nat \ {0}
    /\ MaxSignals \in Nat
    /\ Wedges \in BOOLEAN

VARIABLES
    pc,        \* the step main is at, or what it returned ("ok", "error")
    handlers,  \* signal kinds whose handler is installed
    pending,   \* signal kinds received and not yet consumed (they coalesce)
    sent,      \* signals sent to the process
    bridge,    \* the signal bridge task
    token,     \* the CancellationToken is cancelled
    comp,      \* each component's task
    joined,    \* components whose supervise() returned
    armed,     \* the fence's sleep is running
    fence,     \* what remains of it
    age,       \* time since the shutdown order, cut off past Grace
    wedged,    \* a task blocks its worker thread
    exit       \* how the process ended

bootVars  == <<pc, handlers>>
sigVars   == <<pending, sent, bridge>>
compVars  == <<comp, joined>>
fenceVars == <<armed, fence, age>>
vars      == <<pc, handlers, pending, sent, bridge, token, comp, joined,
               armed, fence, age, wedged, exit>>

Components == {"http-server", "cron"}
Signals    == {"SIGINT", "SIGTERM"}

(* Bug variant: the signal streams are created once everything runs. *)
HandlersLast ==
    [load_dotenv |-> "load_config", load_config |-> "connect",
     connect |-> "up_guarded", up_guarded |-> "cron_new", cron_new |-> "api",
     api |-> "cron", cron |-> "sigint", sigint |-> "sigterm",
     sigterm |-> "bridge", bridge |-> "supervise"]

(* The order of main's steps. *)
After ==
    [load_dotenv |-> "load_config", load_config |-> "connect",
     connect |-> "up_guarded", up_guarded |-> "cron_new", cron_new |-> "sigint",
     sigint |-> "sigterm", sigterm |-> "bridge", bridge |-> "api",
     api |-> "cron", cron |-> "supervise"]

Steps    == DOMAIN After
Loading  == {"load_dotenv", "load_config", "connect", "up_guarded", "cron_new"}
Fallible == Loading \cup {"sigint", "sigterm"}
Returned == {"ok", "error"}

Alive    == exit = "none"
Ended(c) == comp[c] \in {"ok", "err", "panic"}

Init ==
    /\ pc = "load_dotenv" /\ handlers = {}
    /\ pending = {} /\ sent = 0 /\ bridge = "absent"
    /\ token = FALSE
    /\ comp = [c \in Components |-> "absent"] /\ joined = {}
    /\ armed = FALSE /\ fence = Grace /\ age = 0
    /\ wedged = FALSE /\ exit = "none"

-----------------------------------------------------------------------------
(* Boot *)

(* Configuration, telemetry, pool, migrations, cron engine. *)
Load ==
    /\ Alive /\ pc \in Loading
    /\ pc' = After[pc]
    /\ UNCHANGED <<handlers, sigVars, token, compVars, fenceVars, wedged, exit>>

InstallHandler ==
    /\ Alive /\ pc \in {"sigint", "sigterm"}
    /\ handlers' = handlers \cup {IF pc = "sigint" THEN "SIGINT" ELSE "SIGTERM"}
    /\ pc' = After[pc]
    /\ UNCHANGED <<sigVars, token, compVars, fenceVars, wedged, exit>>

(* Every fallible step ends main with `?`. *)
BootFails ==
    /\ Alive /\ pc \in Fallible
    /\ pc' = "error"
    /\ UNCHANGED <<handlers, sigVars, token, compVars, fenceVars, wedged, exit>>

SpawnBridge ==
    /\ Alive /\ pc = "bridge"
    /\ bridge' = "first" /\ pc' = After[pc]
    /\ UNCHANGED <<handlers, pending, sent, token, compVars, fenceVars, wedged, exit>>

SpawnComponents ==
    /\ Alive /\ pc \in {"api", "cron"}
    /\ comp' = [comp EXCEPT ![IF pc = "api" THEN "http-server" ELSE "cron"] = "running"]
    /\ pc' = After[pc]
    /\ UNCHANGED <<handlers, sigVars, token, joined, fenceVars, wedged, exit>>

-----------------------------------------------------------------------------
(* Signals *)

(* Without a handler the default disposition kills the process.  A second  *)
(* signal of a kind still pending is not distinguishable from the first.   *)
Signal(s) ==
    /\ Alive /\ sent < MaxSignals
    /\ sent' = sent + 1
    /\ IF s \in handlers
       THEN pending' = pending \cup {s} /\ UNCHANGED exit
       ELSE exit' = "killed" /\ UNCHANGED pending
    /\ UNCHANGED <<bootVars, bridge, token, compVars, fenceVars, wedged>>

(* Bug variant: the bridge looks at the first signal and leaves it there. *)
BridgePeeks(s) ==
    /\ Alive /\ bridge = "first" /\ s \in pending
    /\ bridge' = "second" /\ token' = TRUE
    /\ UNCHANGED <<bootVars, pending, sent, compVars, fenceVars, wedged, exit>>

(* First signal: order the graceful stop. *)
BridgeFirst(s) ==
    /\ Alive /\ bridge = "first" /\ s \in pending
    /\ pending' = pending \ {s}
    /\ bridge' = "second" /\ token' = TRUE
    /\ UNCHANGED <<bootVars, sent, compVars, fenceVars, wedged, exit>>

(* Bug variant: the bridge goes on listening, and swallows what it hears. *)
BridgeSwallows(s) ==
    /\ Alive /\ bridge = "second" /\ s \in pending
    /\ pending' = pending \ {s}
    /\ UNCHANGED <<bootVars, sent, bridge, token, compVars, fenceVars, wedged, exit>>

(* Second signal: process::exit(130). *)
BridgeSecond(s) ==
    /\ Alive /\ bridge = "second" /\ s \in pending
    /\ pending' = pending \ {s}
    /\ exit' = "escalated"
    /\ UNCHANGED <<bootVars, sent, bridge, token, compVars, fenceVars, wedged>>

-----------------------------------------------------------------------------
(* Components, seen from main *)

(* Both components return Ok only once the token fired; they may fail, or  *)
(* panic, whenever they like.                                              *)
Stop(c, result) ==
    /\ Alive /\ pc \notin Returned /\ comp[c] = "running"
    /\ result = "ok" => token
    /\ comp' = [comp EXCEPT ![c] = result]
    /\ UNCHANGED <<bootVars, sigVars, token, joined, fenceVars, wedged, exit>>

(* A detached run of a component stops awaiting anything, or comes back;   *)
(* such a run may still begin after main has returned, until the drop.     *)
Wedge ==
    /\ Alive /\ Wedges /\ bridge # "dropped"
    /\ \E c \in Components : comp[c] # "absent"
    /\ wedged' = TRUE
    /\ UNCHANGED <<bootVars, sigVars, token, compVars, fenceVars, exit>>

Unwedge ==
    /\ Alive /\ wedged
    /\ wedged' = FALSE
    /\ UNCHANGED <<bootVars, sigVars, token, compVars, fenceVars, exit>>

(* Bug variant: a component that ends does not stop its sibling. *)
SuperviseAlone(c) ==
    /\ Alive /\ pc = "supervise" /\ Ended(c) /\ c \notin joined
    /\ joined' = joined \cup {c}
    /\ UNCHANGED <<bootVars, sigVars, token, comp, fenceVars, wedged, exit>>

(* Bug variant: the grace starts anew with each component that ends. *)
SuperviseRearms(c) ==
    /\ Alive /\ pc = "supervise" /\ Ended(c) /\ c \notin joined
    /\ joined' = joined \cup {c} /\ token' = TRUE /\ fence' = Grace
    /\ UNCHANGED <<bootVars, sigVars, comp, armed, age, wedged, exit>>

(* supervise(): whatever the result, the shared token is cancelled. *)
Supervise(c) ==
    /\ Alive /\ pc = "supervise" /\ Ended(c) /\ c \notin joined
    /\ joined' = joined \cup {c} /\ token' = TRUE
    /\ UNCHANGED <<bootVars, sigVars, comp, fenceVars, wedged, exit>>

(* The second branch of main's select!: the sleep starts with the token. *)
ArmFence ==
    /\ Alive /\ pc = "supervise" /\ token /\ ~armed
    /\ armed' = TRUE /\ fence' = Grace
    /\ UNCHANGED <<bootVars, sigVars, token, compVars, age, wedged, exit>>

(* Bug variant: the components are awaited without a fence. *)
NoFence == FALSE

(* process::exit(1).  select! is unbiased: at the deadline the fence may   *)
(* win over components that have just ended.                               *)
FenceFires ==
    /\ Alive /\ pc = "supervise" /\ armed /\ fence = 0
    /\ exit' = "hang"
    /\ UNCHANGED <<bootVars, sigVars, token, compVars, fenceVars, wedged>>

(* Bug variant: api_result.or(cron_result). *)
AnyOk == \E c \in Components : comp[c] = "ok"

(* api_result.and(cron_result) *)
AllOk == \A c \in Components : comp[c] = "ok"

(* Bug variant: try_join!, which gives up on the others at the first error. *)
ReturnFirstError ==
    /\ Alive /\ pc = "supervise"
    /\ joined = Components \/ \E c \in joined : comp[c] # "ok"
    /\ pc' = IF AllOk THEN "ok" ELSE "error"
    /\ UNCHANGED <<handlers, sigVars, token, compVars, fenceVars, wedged, exit>>

(* The first branch of the select!: both are down, main returns. *)
Return ==
    /\ Alive /\ pc = "supervise" /\ joined = Components
    /\ pc' = IF AllOk THEN "ok" ELSE "error"
    /\ UNCHANGED <<handlers, sigVars, token, compVars, fenceVars, wedged, exit>>

-----------------------------------------------------------------------------
(* The end of the process *)

(* The runtime is dropped: the bridge goes, the handlers stay. *)
DropTasks ==
    /\ Alive /\ pc \in Returned /\ bridge # "dropped"
    /\ bridge' = "dropped"
    /\ UNCHANGED <<bootVars, pending, sent, token, compVars, fenceVars, wedged, exit>>

(* The drop waits for every task that does not yield. *)
Exit ==
    /\ Alive /\ pc \in Returned /\ bridge = "dropped" /\ ~wedged
    /\ exit' = pc
    /\ UNCHANGED <<bootVars, sigVars, token, compVars, fenceVars, wedged>>

-----------------------------------------------------------------------------
(* Time *)

BridgeReady == bridge \in {"first", "second"} /\ pending # {}

MainReady ==
    \/ pc \in Steps
    \/ pc = "supervise" /\ token /\ ~armed
    \/ pc = "supervise" /\ \E c \in Components \ joined : Ended(c)
    \/ pc = "supervise" /\ joined = Components
    \/ pc \in Returned /\ (bridge # "dropped" \/ ~wedged)

(* Bug variant: nothing looks at the fence. *)
FenceUnseen == FALSE

FenceDue == pc = "supervise" /\ armed /\ fence = 0

Elapse ==
    /\ Alive /\ token
    /\ ~BridgeReady /\ ~MainReady /\ ~FenceDue
    /\ age' = IF age <= Grace THEN age + 1 ELSE age
    /\ fence' = IF armed /\ pc = "supervise" THEN fence - 1 ELSE fence
    /\ UNCHANGED <<bootVars, sigVars, token, compVars, armed, wedged, exit>>

Gone == ~Alive /\ UNCHANGED vars

Main ==
    \/ Load \/ InstallHandler \/ BootFails \/ SpawnBridge \/ SpawnComponents
    \/ ArmFence \/ FenceFires \/ Return \/ DropTasks \/ Exit
    \/ \E c \in Components : Supervise(c)

Next ==
    \/ Main
    \/ \E s \in Signals : Signal(s) \/ BridgeFirst(s) \/ BridgeSecond(s)
    \/ \E c \in Components, result \in {"ok", "err", "panic"} : Stop(c, result)
    \/ Wedge \/ Unwedge
    \/ Elapse \/ Gone

Spec == Init /\ [][Next]_vars

(* The runtime runs what is ready and time passes.  Loading steps, signals *)
(* and components owe nothing.                                             *)
Fairness ==
    /\ WF_vars(InstallHandler) /\ WF_vars(SpawnBridge) /\ WF_vars(SpawnComponents)
    /\ WF_vars(ArmFence) /\ WF_vars(FenceFires) /\ WF_vars(Return)
    /\ WF_vars(DropTasks) /\ WF_vars(Exit) /\ WF_vars(Elapse)
    /\ WF_vars(\E s \in Signals : BridgeFirst(s) \/ BridgeSecond(s))
    /\ \A c \in Components : WF_vars(Supervise(c))

FairSpec == Spec /\ Fairness

-----------------------------------------------------------------------------
(* Properties *)

(* The state of main, of the bridge, of the components and of the fence is *)
(* well typed; the fence never counts below zero.                          *)
TypeOK ==
    /\ pc \in Steps \cup {"supervise"} \cup Returned
    /\ handlers \subseteq Signals
    /\ pending \subseteq handlers
    /\ sent \in 0..MaxSignals
    /\ bridge \in {"absent", "first", "second", "dropped"}
    /\ token \in BOOLEAN
    /\ comp \in [Components -> {"absent", "running", "ok", "err", "panic"}]
    /\ joined \subseteq Components
    /\ armed \in BOOLEAN
    /\ fence \in 0..Grace
    /\ age \in 0..(Grace + 1)
    /\ wedged \in BOOLEAN
    /\ exit \in {"none", "ok", "error", "hang", "escalated", "killed"}

(* The exit status tells the truth: zero means that both components ended  *)
(* cleanly; a failure is reported by main only when nothing was spawned,   *)
(* or when both are down and one of them failed.                           *)
ExitStatus ==
    /\ exit = "ok" => \A c \in Components : comp[c] = "ok"
    /\ exit = "error" =>
        \/ \A c \in Components : comp[c] = "absent"
        \/ /\ \A c \in Components : Ended(c)
           /\ \E c \in Components : comp[c] # "ok"

(* The process outlives the shutdown order by more than the grace only in  *)
(* the drop of the runtime, over a task that blocks its worker; and the    *)
(* fence gives the components all of the grace (SHUTDOWN_GRACE).           *)
Deadline ==
    [][/\ age' > age /\ age' > Grace => pc \in Returned /\ wedged
       /\ exit # "hang" /\ exit' = "hang" => age = Grace]_vars

(* No signal kills a process whose components run: both handlers are in    *)
(* place before anything is spawned.                                       *)
HandledBeforeSpawn ==
    exit = "killed" => \A c \in Components : comp[c] = "absent"

(* Only a second signal exits at once; the first one is never counted      *)
(* twice, and the graceful stop had been ordered.                          *)
EscalationNeedsTwo == exit = "escalated" => token /\ sent >= 2

(* Main is over and only a task that blocks its worker keeps the process.  *)
HeldByWorker == pc \in Returned /\ wedged

(* "The process can never linger half-alive": a component that ends, in    *)
(* whatever way, ends the process, even if its sibling hangs; a blocked    *)
(* worker cannot keep main from its end, only the runtime's drop.          *)
NeverHalfAlive ==
    \A c \in Components : Ended(c) ~> ~Alive \/ HeldByWorker

(* A signal that arrives once its handler is installed ends the process,   *)
(* during the spawns, before or after a component ended.                   *)
SignalStops == pending # {} ~> ~Alive \/ HeldByWorker

(* A second signal ends the process before time passes, however much of    *)
(* the grace is left to components that hang ("exit right now", main);     *)
(* only the drop of the runtime takes the bridge that would do it.         *)
SecondSignalExits ==
    \A a \in 0..Grace :
        bridge = "second" /\ pending # {} /\ age = a
            ~> (~Alive /\ age = a) \/ bridge = "dropped"

(* The process dies deterministically once the shutdown order is out,      *)
(* whatever its components do (SHUTDOWN_GRACE, DRAIN_GRACE).               *)
OrderedStopEnds == token ~> ~Alive

=============================================================================
