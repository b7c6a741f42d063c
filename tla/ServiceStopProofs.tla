-------------------------- MODULE ServiceStopProofs --------------------------
(***************************************************************************)
(* Proofs about how the process of Service ends: what main's return and    *)
(* main's fence leave behind, for every roster, every set of connections   *)
(* and all durations.  The invariants tie the result main sees of a task   *)
(* to where its Server::run stands, and main's clock to the clocks of the  *)
(* two drains.  The provers do not carry a theorem through an INSTANCE, so *)
(* what is needed of the parts is stated and proved of C and H here.       *)
(***************************************************************************)
EXTENDS ServiceProofs

-----------------------------------------------------------------------------
(* The HTTP server: the registry is the set of open connections, there are *)
(* some only while it accepts or drains, and the timers bound the drain.   *)

HttpOpenInv ==
    /\ httpPhase \in {"unbound", "accepting", "draining", "stopped", "failed"}
    /\ conn \in [Conns -> H!ConnStates]
    /\ watched = H!Open
    /\ httpPhase \in {"unbound", "stopped", "failed"} => H!Open = {}
    /\ told \subseteq Conns

HttpClockInv ==
    /\ connLeft \in [Conns -> 0..Timeout]
    /\ drainTime \in 0..H!DrainCap
    /\ httpPhase \notin {"draining", "stopped"} => drainTime = 0 /\ told = {}
    /\ \A c \in told : conn[c] \notin {"none", "backlog", "fresh", "idle"}
    /\ \A c \in H!Open \ told : drainTime = 0
    /\ \A c \in Conns :
        /\ conn[c] = "head" => drainTime + connLeft[c] <= Timeout
        /\ conn[c] = "handling" => drainTime + connLeft[c] <= 2 * Timeout
        /\ conn[c] = "writing" /\ c \notin SlowReaders => drainTime <= 2 * Timeout

(* The cron engine: the tracker follows the live runs, the tick loop turns *)
(* only between the start and the stop, and of the ticks that do not come  *)
(* late a complete drain leaves no run, nor one on its way to the adapter. *)
RunsInv ==
    /\ cronPhase \in {"built", "running", "draining", "stopped", "failed"}
    /\ engine \in {"idle", "ticking", "stopped"}
    /\ st \in [Ticks -> C!TickStates]
    /\ drainLeft \in 0..DrainGrace
    /\ \A t \in Ticks : t \in tracked <=> C!Live(t)
    /\ cronPhase \in {"draining", "stopped"} <=> engine = "stopped"
    /\ cronPhase = "built" => engine = "idle"
    /\ cronPhase # "stopped" => ~expired
    /\ engine = "stopped" => \A t \in Ticks \ Late : st[t] # "fired"
    /\ cronPhase = "stopped" /\ ~expired => \A t \in Ticks \ Late : ~C!Live(t)

(* What main sees of a task is where its Server::run stands. *)
TaskInv ==
    /\ comp["cron"] = "absent" => cronPhase = "built"
    /\ comp["cron"] = "running" <=>
         comp["cron"] # "absent" /\ cronPhase \in {"built", "running", "draining"}
    /\ comp["cron"] = "ok" => cronPhase = "stopped"
    /\ comp["http-server"] = "absent" => httpPhase = "unbound"
    /\ comp["http-server"] = "running" <=>
         comp["http-server"] # "absent" /\ httpPhase \in {"unbound", "accepting", "draining"}

(* Main's position, its exit and its fence. *)
FenceInv ==
    /\ fence \in 0..Grace /\ age \in Nat /\ armed \in BOOLEAN
    /\ bridge = "dropped" => pc \in M!Returned
    /\ pc = "supervise" => \A c \in M!Components : comp[c] # "absent"
    /\ pc = "cron" => comp["http-server"] # "absent"
    /\ pc = "ok" => M!AllOk
    /\ exit \in M!Returned => pc = exit
    /\ exit = "hang" => pc = "supervise" /\ armed /\ fence = 0
    /\ pc \notin M!Returned /\ ~armed => age = 0
    /\ pc \in M!Steps => ~armed
    /\ pc = "supervise" /\ armed => age + fence = Grace

(* Once time has passed since the order, a component that still runs       *)
(* drains, and its drain is as old as the order.                           *)
LateInv ==
    pc = "supervise" /\ age > 0 =>
        /\ comp["cron"] = "running" =>
             cronPhase = "draining" /\ drainLeft + age <= DrainGrace
        /\ comp["http-server"] = "running" =>
             httpPhase = "draining" /\ (drainTime >= age \/ drainTime = H!DrainCap)

PartsInv ==
    /\ SpawnInv /\ OrderInv /\ HttpOpenInv /\ HttpClockInv /\ RunsInv
    /\ TaskInv /\ FenceInv /\ LateInv

(* So long a wait had a reason, and what was told of the order stays told. *)
WaitInv ==
    pc = "supervise" /\ age > 2 * Timeout /\ age > DrainGrace => Unread

IInv == PartsInv /\ WaitInv

LEMMA InitIInv == Init => IInv
<1> SUFFICES ASSUME Init PROVE IInv
  OBVIOUS
<1> USE ServiceAssumption DEF Init
<1>1. HttpOpenInv
  BY DEF H!Init, HttpOpenInv, H!ConnStates, H!Open
<1>2. HttpClockInv
  BY DEF H!Init, HttpClockInv, H!Open, H!DrainCap
<1>3. RunsInv
  BY DEF C!Init, RunsInv, C!TickStates, C!Live
<1>4. TaskInv
  BY DEF M!Init, C!Init, H!Init, TaskInv, M!Components
<1>5. FenceInv
  <2>1. armed \in BOOLEAN
    BY DEF M!Init
  <2>2. fence \in 0..Grace /\ age \in Nat
    BY DEF M!Init
  <2>3. pc \notin {"supervise", "cron", "ok"} /\ pc \in M!Steps \ M!Returned
    BY DEF M!Init, M!Steps, M!After, M!Returned
  <2> QED
    BY <2>1, <2>2, <2>3 DEF M!Init, FenceInv, M!Returned
<1>6. LateInv /\ WaitInv
  BY DEF M!Init, LateInv, WaitInv
<1> QED
  BY <1>1, <1>2, <1>3, <1>4, <1>5, <1>6, InitInv DEF IInv, PartsInv

-----------------------------------------------------------------------------
(* The HTTP server *)

LEMMA ConnMoves ==
    ASSUME HttpOpenInv, HttpClockInv, NEW c \in Conns, NEW s \in H!ConnStates,
           H!Become(c, s) \/ H!BecomeTimed(c, s)
    PROVE  /\ conn' = [conn EXCEPT ![c] = s]
           /\ conn' \in [Conns -> H!ConnStates]
           /\ connLeft' \in [Conns -> 0..Timeout]
BY ServiceAssumption DEF HttpOpenInv, HttpClockInv, H!Become, H!BecomeTimed

LEMMA HttpOpenStep ==
    ASSUME HttpOpenInv, HttpClockInv, H!Next \/ UNCHANGED H!vars
    PROVE  HttpOpenInv'
<1> USE DEF HttpOpenInv
<1>1. CASE H!Server
  BY <1>1 DEF H!Server, H!Bind, H!BindFails, H!ShutdownFires, H!BeginDrain, H!Drained,
     H!connVars, H!Open, H!ConnStates
<1>2. ASSUME NEW c \in Conns, H!Connection(c) PROVE HttpOpenInv'
  <2> USE ConnMoves DEF H!ConnStates, H!Open
  <2>1. CASE H!Connect(c) \/ H!Accept(c) \/ H!AcceptFails(c)
    BY <2>1 DEF H!Connect, H!Accept, H!AcceptFails
  <2>2. CASE H!StartHead(c) \/ H!StartRequest(c) \/ H!Respond(c) \/ H!RequestTimeout(c)
    BY <2>2 DEF H!StartHead, H!StartRequest, H!Respond, H!RequestTimeout
  <2>3. CASE H!HeadTimeout(c) \/ H!Flushed(c) \/ H!PeerLeaves(c)
    BY <2>3 DEF H!HeadTimeout, H!Flushed, H!PeerLeaves, H!Leave
  <2>4. CASE H!Notice(c)
    BY <2>4 DEF H!Notice, H!Leave
  <2> QED
    BY <1>2, <2>1, <2>2, <2>3, <2>4 DEF H!Connection
<1>3. CASE H!Elapse \/ UNCHANGED H!vars
  BY <1>3 DEF H!Elapse, H!vars, H!Open
<1> QED
  BY <1>1, <1>2, <1>3 DEF H!Next, H!Over

LEMMA HttpClockStep ==
    ASSUME HttpOpenInv, HttpClockInv, H!Next \/ UNCHANGED H!vars
    PROVE  HttpClockInv'
<1> USE ServiceAssumption DEF HttpOpenInv, HttpClockInv, H!Open, H!DrainCap
<1>1. CASE H!Server
  BY <1>1 DEF H!Server, H!Bind, H!BindFails, H!ShutdownFires, H!BeginDrain, H!Drained,
     H!connVars
<1>2. ASSUME NEW c \in Conns, H!Connection(c) PROVE HttpClockInv'
  <2>1. CASE H!Connect(c) \/ H!Accept(c) \/ H!AcceptFails(c)
    BY <2>1 DEF H!Connect, H!Accept, H!AcceptFails, H!Become
  <2>2. CASE H!StartHead(c)
    BY <2>2 DEF H!StartHead, H!BecomeTimed
  <2>3. CASE H!StartRequest(c)
    <3>1. drainTime <= Timeout
      BY <2>3 DEF H!StartRequest
    <3> QED
      BY <2>3, <3>1 DEF H!StartRequest, H!BecomeTimed
  <2>4. CASE H!Respond(c) \/ H!RequestTimeout(c)
    BY <2>4 DEF H!Respond, H!RequestTimeout, H!Become
  <2>5. CASE H!HeadTimeout(c) \/ H!Flushed(c) \/ H!PeerLeaves(c)
    BY <2>5 DEF H!HeadTimeout, H!Flushed, H!PeerLeaves, H!Leave, H!Become
  <2>6. CASE H!Notice(c)
    BY <2>6 DEF H!Notice, H!Leave, H!Become
  <2> QED
    BY <1>2, <2>1, <2>2, <2>3, <2>4, <2>5, <2>6 DEF H!Connection
<1>3. CASE H!Elapse
  <2>1. /\ connLeft' \in [Conns -> 0..Timeout]
        /\ \A c \in Conns :
             conn[c] \in {"head", "handling"} => connLeft'[c] = connLeft[c] - 1
    BY <1>3 DEF H!Elapse, H!NothingDue, H!Timed
  <2>2. \A c \in Conns : conn[c] = "writing" => c \in SlowReaders
    BY <1>3 DEF H!Elapse, H!NothingDue
  <2>3. drainTime' \in {drainTime, drainTime + 1} /\ drainTime' \in 0..H!DrainCap
    BY <1>3 DEF H!Elapse
  <2>4. CASE httpPhase = "draining"
    <3>1. H!Open \subseteq told
      BY <1>3, <2>4 DEF H!Elapse, H!NothingDue
    <3> QED
      BY <1>3, <2>1, <2>2, <2>3, <2>4, <3>1 DEF H!Elapse
  <2>5. CASE httpPhase # "draining"
    <3>1. drainTime' = drainTime
      BY <1>3, <2>5 DEF H!Elapse
    <3> QED
      BY <1>3, <2>1, <2>2, <2>5, <3>1 DEF H!Elapse
  <2> QED
    BY <2>4, <2>5
<1>4. CASE UNCHANGED H!vars
  BY <1>4 DEF H!vars
<1> QED
  BY <1>1, <1>2, <1>3, <1>4 DEF H!Next, H!Over

-----------------------------------------------------------------------------
(* The cron engine *)

LEMMA RunsStep ==
    ASSUME RunsInv, C!Next \/ UNCHANGED C!vars
    PROVE  RunsInv'
<1> USE ServiceAssumption DEF RunsInv, C!TickStates, C!Live
<1>1. CASE C!StartEngine \/ C!StartFails \/ C!ShutdownFires \/ C!StopFails
  BY <1>1 DEF C!StartEngine, C!StartFails, C!ShutdownFires, C!StopFails, C!runVars,
     C!fenceVars
<1>2. CASE C!StopEngine
  <2>1. \A t \in Ticks : /\ (C!Live(t))' <=> C!Live(t)
                         /\ st'[t] \in C!TickStates
                         /\ t \notin Late => st'[t] # "fired"
    BY <1>2 DEF C!StopEngine, C!InFlightTicks
  <2>2. st' \in [Ticks -> C!TickStates]
    BY <1>2 DEF C!StopEngine, C!InFlightTicks
  <2> QED
    BY <1>2, <2>1, <2>2 DEF C!StopEngine
<1>3. CASE C!Drained \/ C!DrainExpires
  BY <1>3 DEF C!Drained, C!DrainExpires, C!WaitResolves, C!runVars, C!fenceVars
<1>4. ASSUME NEW t \in Ticks, C!Tick(t) PROVE RunsInv'
  <2>1. CASE C!Fire(t) \/ C!Adapt(t)
    BY <2>1 DEF C!Fire, C!Adapt, C!fenceVars
  <2>2. CASE C!DispatchAllow(t) \/ C!DispatchAcquired(t) \/ C!DispatchSkipped(t)
    BY <2>2 DEF C!DispatchAllow, C!DispatchAcquired, C!DispatchSkipped, C!Execute,
       C!fenceVars
  <2>3. CASE C!BodyEnds(t) \/ C!TimeOut(t)
    BY <2>3 DEF C!BodyEnds, C!TimeOut, C!Release, C!fenceVars
  <2> QED
    BY <1>4, <2>1, <2>2, <2>3 DEF C!Tick
<1>5. CASE C!Elapse
  <2>1. drainLeft' \in 0..DrainGrace
    BY <1>5 DEF C!Elapse, C!Monus
  <2> QED
    BY <1>5, <2>1 DEF C!Elapse
<1>6. CASE UNCHANGED C!vars
  BY <1>6 DEF C!vars
<1> QED
  BY <1>1, <1>2, <1>3, <1>4, <1>5, <1>6 DEF C!Next, C!Server, C!Over

-----------------------------------------------------------------------------
(* What a step of one part leaves alone of the others. *)

LEMMA RunFrame ==
    ASSUME NEW t \in Ticks, Run(t) \/ BlockingEnds(t)
    PROVE  UNCHANGED <<mainVars, comp, httpVars, cronPhase, drainLeft>>
BY DEF Run, BlockingEnds, C!Tick, C!Fire, C!Adapt, C!DispatchAllow, C!DispatchAcquired,
   C!DispatchSkipped, C!BodyEnds, C!TimeOut, C!fenceVars

LEMMA ConnectionFrame ==
    ASSUME NEW c \in Conns, Connection(c)
    PROVE  /\ UNCHANGED <<mainVars, comp, cronVars, httpPhase, drainTime>>
           /\ told \subseteq told'
BY DEF Connection, H!Connection, H!Connect, H!Accept, H!AcceptFails, H!StartHead,
   H!StartRequest, H!HeadTimeout, H!Respond, H!RequestTimeout, H!Flushed, H!PeerLeaves,
   H!Notice

LEMMA CronServerStep ==
    ASSUME SpawnInv, CronServer
    PROVE  /\ UNCHANGED <<mainVars, httpVars>>
           /\ comp["cron"] = "running"
           /\ comp'["cron"] = Result(cronPhase')
           /\ comp'["http-server"] = comp["http-server"]
           /\ cronPhase' \in {"running", "draining", "stopped", "failed"}
           /\ cronPhase = "draining" => cronPhase' = "stopped"
BY DEF CronServer, SpawnInv, M!Components, C!StartEngine, C!StartFails, C!StopEngine,
   C!StopFails, C!Drained, C!DrainExpires

LEMMA ApiServerStep ==
    ASSUME SpawnInv, ApiServer
    PROVE  /\ UNCHANGED <<mainVars, cronVars, told>>
           /\ comp["http-server"] = "running"
           /\ comp'["http-server"] = Result(httpPhase')
           /\ comp'["cron"] = comp["cron"]
           /\ httpPhase' \in {"accepting", "draining", "stopped", "failed"}
           /\ httpPhase = "draining" => httpPhase' = "stopped"
BY DEF ApiServer, SpawnInv, M!Components, H!Bind, H!BindFails, H!BeginDrain, H!Drained,
   H!connVars

LEMMA MainSteps ==
    ASSUME SpawnInv, Main
    PROVE  /\ UNCHANGED <<cronVars, httpVars, age>>
           /\ \/ UNCHANGED comp
              \/ /\ pc = "api" /\ pc' = "cron" /\ exit' = "none"
                 /\ UNCHANGED <<armed, fence, bridge>>
                 /\ comp' = [comp EXCEPT !["http-server"] = "running"]
              \/ /\ pc = "cron" /\ pc' = "supervise" /\ exit' = "none"
                 /\ UNCHANGED <<armed, fence, bridge>>
                 /\ comp' = [comp EXCEPT !["cron"] = "running"]
<1>1. CASE M!SpawnComponents
  <2>1. /\ exit' = "none" /\ UNCHANGED <<armed, fence, bridge, age>>
        /\ UNCHANGED <<cronVars, httpVars>>
    BY <1>1 DEF Main, M!SpawnComponents, M!Alive, M!fenceVars, M!sigVars
  <2>2. CASE pc = "api"
    BY <1>1, <2>1, <2>2 DEF M!SpawnComponents, M!After
  <2>3. CASE pc = "cron"
    BY <1>1, <2>1, <2>3 DEF M!SpawnComponents, M!After
  <2> QED
    BY <1>1, <2>2, <2>3 DEF M!SpawnComponents
<1>2. CASE ~M!SpawnComponents
  BY <1>2 DEF Main, M!Main, M!Load, M!InstallHandler, M!BootFails, M!SpawnBridge,
     M!ArmFence, M!FenceFires, M!Return, M!DropTasks, M!Exit, M!Supervise, M!Signal,
     M!BridgeFirst, M!BridgeSecond, M!compVars, M!fenceVars
<1> QED
  BY <1>1, <1>2

LEMMA TaskStep ==
    ASSUME SpawnInv, TaskInv, [Next]_vars
    PROVE  TaskInv'
<1> USE DEF TaskInv
<1>1. ASSUME UNCHANGED <<comp, cronPhase, httpPhase>> PROVE TaskInv'
  BY <1>1
<1>2. CASE Main
  BY <1>2, MainSteps DEF SpawnInv, M!Components, M!Steps, M!After, cronVars, httpVars
<1>3. CASE CronServer
  BY <1>3, CronServerStep DEF Result, httpVars
<1>4. CASE ApiServer
  BY <1>4, ApiServerStep DEF Result, cronVars
<1>5. ASSUME NEW t \in Ticks, Run(t) \/ BlockingEnds(t) PROVE TaskInv'
  BY <1>1, <1>5, RunFrame DEF httpVars
<1>6. ASSUME NEW c \in Conns, Connection(c) PROVE TaskInv'
  BY <1>1, <1>6, ConnectionFrame DEF cronVars
<1>7. CASE Elapse \/ UNCHANGED vars
  BY <1>1, <1>7 DEF Elapse, vars, cronVars, httpVars
<1> QED
  BY <1>2, <1>3, <1>4, <1>5, <1>6, <1>7 DEF Next, Gone

-----------------------------------------------------------------------------
(* Main and its fence *)

LEMMA MainFenceStep ==
    ASSUME SpawnInv, FenceInv, Main
    PROVE  FenceInv'
<1> USE ServiceAssumption DEF FenceInv, M!Steps, M!After, M!Returned, M!Components
<1>1. age' = age
  BY MainSteps
<1>2. CASE M!Load \/ M!InstallHandler \/ M!BootFails \/ M!SpawnBridge
  <2>1. UNCHANGED <<comp, armed, fence>> /\ exit = "none" /\ exit' = "none"
    BY <1>2 DEF M!Load, M!InstallHandler, M!BootFails, M!SpawnBridge, M!compVars,
       M!fenceVars, M!Alive
  <2>2. /\ pc \in M!Steps
        /\ pc' \in (M!Steps \ {"cron"}) \cup {"error"}
        /\ bridge' \in {"first", bridge}
    BY <1>2 DEF M!Load, M!Loading, M!Fallible, M!InstallHandler, M!BootFails,
       M!SpawnBridge, M!sigVars
  <2> QED
    BY <1>1, <2>1, <2>2
<1>3. CASE M!SpawnComponents
  <2>1. exit = "none" /\ exit' = "none" /\ UNCHANGED <<armed, fence, bridge>>
    BY <1>3 DEF M!SpawnComponents, M!Alive, M!fenceVars, M!sigVars
  <2>2. CASE pc = "api"
    <3>1. pc' = "cron" /\ comp'["http-server"] = "running"
      BY <1>3, <2>2 DEF M!SpawnComponents, SpawnInv
    <3> QED
      BY <1>1, <2>1, <2>2, <3>1
  <2>3. CASE pc = "cron"
    <3>1. /\ pc' = "supervise" /\ comp'["cron"] = "running"
          /\ comp'["http-server"] = comp["http-server"]
      BY <1>3, <2>3 DEF M!SpawnComponents, SpawnInv
    <3> QED
      BY <1>1, <2>1, <2>3, <3>1
  <2> QED
    BY <1>3, <2>2, <2>3 DEF M!SpawnComponents
<1>4. CASE M!Return
  BY <1>1, <1>4 DEF M!Return, M!AllOk, M!Alive, M!compVars, M!fenceVars, M!sigVars
<1>5. CASE M!ArmFence
  BY <1>1, <1>5 DEF M!ArmFence, M!Alive, M!bootVars, M!compVars, M!sigVars
<1>6. CASE M!FenceFires \/ M!DropTasks \/ M!Exit
  BY <1>1, <1>6 DEF M!FenceFires, M!DropTasks, M!Exit, M!AllOk, M!Alive, M!bootVars,
     M!compVars, M!fenceVars, M!sigVars
<1>7. ASSUME NEW c \in M!Components, M!Supervise(c) PROVE FenceInv'
  BY <1>1, <1>7 DEF M!Supervise, M!AllOk, M!Alive, M!bootVars, M!fenceVars, M!sigVars
<1>8. ASSUME NEW s \in M!Signals, M!Signal(s) \/ M!BridgeFirst(s) \/ M!BridgeSecond(s)
      PROVE  FenceInv'
  BY <1>1, <1>8 DEF M!Signal, M!BridgeFirst, M!BridgeSecond, M!AllOk, M!Alive,
     M!bootVars, M!compVars, M!fenceVars
<1> QED
  BY <1>2, <1>3, <1>4, <1>5, <1>6, <1>7, <1>8 DEF Main, M!Main

(* The clock of main moves only when every task has done what it can do.   *)
LEMMA Quiet ==
    ASSUME SpawnInv, OrderInv, TaskInv, FenceInv, Elapse, pc = "supervise"
    PROVE  IF token
           THEN /\ armed /\ fence > 0 /\ age < Grace
                /\ age' = age + 1 /\ fence' = fence - 1
                /\ C!NothingDue /\ H!NothingDue
                /\ comp["cron"] = "running" => cronPhase = "draining" /\ C!Elapse
                /\ comp["http-server"] = "running" => httpPhase = "draining" /\ H!Elapse
                /\ \E c \in M!Components : comp[c] = "running"
           ELSE UNCHANGED <<fence, age>>
<1> USE ServiceAssumption
<1>1. CASE token
  <2>1. Runtime
    BY DEF Elapse, Runtime, FenceInv, M!Returned
  <2>2. C!NothingDue /\ H!NothingDue /\ ~ComponentReady
    BY <2>1 DEF Elapse
  <2>3. /\ comp["cron"] = "running" => cronPhase = "draining"
        /\ comp["http-server"] = "running" => httpPhase = "draining"
    BY <1>1, <2>2 DEF ComponentReady, TaskInv
  <2>4. /\ cronPhase = "draining" => C!Elapse
        /\ httpPhase = "draining" => H!Elapse
    BY <2>1 DEF Elapse, C!TimersRun, H!TimersRun
  <2>5. M!Elapse
    BY <1>1 DEF Elapse
  <2>6. armed /\ fence # 0
    BY <1>1, <2>5 DEF M!Elapse, M!MainReady, M!FenceDue
  <2>7. fence > 0 /\ age < Grace
    BY <2>6 DEF FenceInv
  <2>8. age' = age + 1 /\ fence' = fence - 1
    BY <2>5, <2>6, <2>7 DEF M!Elapse, FenceInv
  <2>9. \E c \in M!Components : comp[c] = "running"
    <3>1. PICK c \in M!Components : c \notin joined
      BY <2>5 DEF M!Elapse, M!MainReady, SpawnInv
    <3>2. ~M!Ended(c)
      BY <2>5, <3>1 DEF M!Elapse, M!MainReady
    <3> QED
      BY <3>1, <3>2 DEF M!Ended, SpawnInv, FenceInv
  <2> QED
    BY <1>1, <2>2, <2>3, <2>4, <2>6, <2>7, <2>8, <2>9
<1>2. CASE ~token
  BY <1>2 DEF Elapse
<1> QED
  BY <1>1, <1>2

LEMMA FenceStep ==
    ASSUME SpawnInv, OrderInv, TaskInv, FenceInv, [Next]_vars
    PROVE  FenceInv'
<1> USE ServiceAssumption DEF FenceInv
<1>1. ASSUME UNCHANGED <<mainVars, comp>> PROVE FenceInv'
  BY <1>1 DEF mainVars, M!AllOk
<1>2. CASE CronServer
  <2>1. pc \notin M!Returned
    BY <1>2, CronServerStep DEF SpawnInv, M!Components
  <2>2. Result(cronPhase') # "absent"
    BY DEF Result
  <2> QED
    BY <1>2, <2>1, <2>2, CronServerStep DEF mainVars, M!Components, M!Returned
<1>3. CASE ApiServer
  <2>1. pc \notin M!Returned
    BY <1>3, ApiServerStep DEF SpawnInv, M!Components
  <2>2. Result(httpPhase') # "absent"
    BY DEF Result
  <2> QED
    BY <1>3, <2>1, <2>2, ApiServerStep DEF mainVars, M!Components, M!Returned
<1>4. CASE Elapse
  <2>1. UNCHANGED <<pc, bridge, comp, armed, exit>>
    BY <1>4 DEF Elapse
  <2>2. CASE pc = "supervise"
    <3>1. \/ UNCHANGED <<fence, age>>
          \/ armed /\ fence > 0 /\ age' = age + 1 /\ fence' = fence - 1
      BY <1>4, <2>2, Quiet
    <3> QED
      BY <2>1, <2>2, <3>1 DEF M!AllOk, M!Returned
  <2>3. CASE pc # "supervise"
    <3>1. fence' = fence /\ age' \in Nat /\ (pc \in M!Steps => age' = age)
      BY <1>4, <2>3 DEF Elapse, M!Elapse, M!MainReady
    <3> QED
      BY <2>1, <2>3, <3>1 DEF M!AllOk, SpawnInv
  <2> QED
    BY <2>2, <2>3
<1>5. ASSUME NEW t \in Ticks, Run(t) \/ BlockingEnds(t) PROVE FenceInv'
  BY <1>1, <1>5, RunFrame
<1>6. ASSUME NEW c \in Conns, Connection(c) PROVE FenceInv'
  BY <1>1, <1>6, ConnectionFrame
<1>7. CASE UNCHANGED vars
  BY <1>1, <1>7 DEF vars
<1> QED
  BY <1>2, <1>3, <1>4, <1>5, <1>6, <1>7, MainFenceStep DEF Next, Gone

-----------------------------------------------------------------------------
(* The clocks together *)

LEMMA LateStep ==
    ASSUME SpawnInv, OrderInv, TaskInv, FenceInv, RunsInv, HttpClockInv, LateInv,
           [Next]_vars
    PROVE  LateInv'
<1> USE ServiceAssumption DEF LateInv
<1>1. ASSUME UNCHANGED <<mainVars, comp, cronPhase, drainLeft, httpPhase, drainTime>>
      PROVE  LateInv'
  BY <1>1 DEF mainVars, H!DrainCap
<1>2. CASE Main
  <2>1. CASE UNCHANGED comp /\ pc' = pc
    BY <1>2, <2>1, MainSteps DEF cronVars, httpVars, H!DrainCap
  <2>2. CASE pc' = "supervise" /\ pc # "supervise"
    <3>1. pc \in M!Steps /\ age = 0
      BY <1>2, <2>2 DEF Main, M!Main, M!Load, M!Loading, M!InstallHandler, M!BootFails,
         M!SpawnBridge, M!SpawnComponents, M!ArmFence, M!FenceFires, M!Return,
         M!DropTasks, M!Exit, M!Supervise, M!Signal, M!BridgeFirst, M!BridgeSecond,
         M!bootVars, M!Steps, M!After, M!Returned, FenceInv
    <3> QED
      BY <1>2, <3>1, MainSteps
  <2>3. CASE pc' # "supervise"
    BY <2>3
  <2> QED
    BY <1>2, <2>1, <2>2, <2>3, MainSteps
<1>3. CASE CronServer
  BY <1>3, CronServerStep DEF mainVars, httpVars, Result, H!DrainCap
<1>4. CASE ApiServer
  BY <1>4, ApiServerStep DEF mainVars, cronVars, Result
<1>5. CASE Elapse /\ pc = "supervise"
  <2>1. UNCHANGED <<pc, comp, cronPhase, httpPhase>>
    BY <1>5 DEF Elapse
  <2>2. CASE token
    <3>1. ASSUME comp["cron"] = "running"
          PROVE  cronPhase = "draining" /\ drainLeft' + age' <= DrainGrace
      <4>1. cronPhase = "draining" /\ drainLeft > 0 /\ drainLeft' = drainLeft - 1
        BY <1>5, <2>2, <3>1, Quiet DEF C!NothingDue, C!Elapse, C!Monus
      <4>2. age \in Nat /\ age' = age + 1 /\ drainLeft \in 0..DrainGrace
        BY <1>5, <2>2, Quiet DEF FenceInv, RunsInv
      <4> QED
        BY <3>1, <4>1, <4>2, <1>5
    <3>2. ASSUME comp["http-server"] = "running"
          PROVE  httpPhase = "draining" /\ (drainTime' >= age' \/ drainTime' = H!DrainCap)
      <4>1. httpPhase = "draining" /\ H!Elapse
        BY <1>5, <2>2, <3>2, Quiet
      <4>2. /\ age \in Nat /\ age' = age + 1
            /\ drainTime \in 0..H!DrainCap /\ H!DrainCap \in Nat
        BY <1>5, <2>2, Quiet DEF FenceInv, HttpClockInv, H!DrainCap
      <4>3. drainTime' = IF drainTime < H!DrainCap THEN drainTime + 1 ELSE drainTime
        BY <4>1 DEF H!Elapse
      <4> QED
        BY <3>2, <4>1, <4>2, <4>3, <1>5
    <3> QED
      BY <2>1, <3>1, <3>2 DEF H!DrainCap
  <2>3. CASE ~token
    <3>1. age' = age
      BY <1>5, <2>3, Quiet
    <3> QED
      BY <2>1, <2>3, <3>1 DEF OrderInv
  <2> QED
    BY <2>2, <2>3
<1>6. CASE Elapse /\ pc # "supervise"
  BY <1>6 DEF Elapse
<1>7. ASSUME NEW t \in Ticks, Run(t) \/ BlockingEnds(t) PROVE LateInv'
  BY <1>1, <1>7, RunFrame DEF httpVars
<1>8. ASSUME NEW c \in Conns, Connection(c) PROVE LateInv'
  BY <1>1, <1>8, ConnectionFrame DEF cronVars
<1>9. CASE UNCHANGED vars
  BY <1>1, <1>9 DEF vars, cronVars, httpVars
<1> QED
  BY <1>2, <1>3, <1>4, <1>5, <1>6, <1>7, <1>8, <1>9 DEF Next, Gone

LEMMA ToldGrows ==
    ASSUME [Next]_vars, SpawnInv
    PROVE  told \subseteq told'
<1>1. CASE UNCHANGED told
  BY <1>1
<1> QED
  BY <1>1, MainSteps, CronServerStep, ApiServerStep, RunFrame, ConnectionFrame
     DEF Next, Gone, Elapse, vars, httpVars

(* A unit that passes so late passes over a client that does not read: the *)
(* cron engine's drain is older than its own fence, so it is over, and so  *)
(* old a drain of connections has only such clients left.                  *)
LEMMA LateUnit ==
    ASSUME PartsInv, PartsInv', Elapse, pc = "supervise", token,
           age' > 2 * Timeout, age' > DrainGrace, UNCHANGED <<conn, told>>
    PROVE  H!Open # {} /\ H!Open \subseteq H!Stuck /\ Unread
<1> USE ServiceAssumption
<1>1. age' = age + 1 /\ age \in Nat /\ age' \in Nat
  BY Quiet DEF PartsInv, FenceInv
<1>2. UNCHANGED <<pc, comp, cronPhase, httpPhase, watched>>
  BY DEF Elapse
<1>3. LateInv' /\ age' > 0 /\ pc' = "supervise"
  BY <1>1, <1>2 DEF PartsInv
<1>4. comp["cron"] # "running"
  <2>1. drainLeft' \in 0..DrainGrace
    BY DEF PartsInv, RunsInv
  <2>2. comp'["cron"] = "running" => drainLeft' + age' <= DrainGrace
    BY <1>3 DEF LateInv
  <2>3. ~(drainLeft' + age' <= DrainGrace)
    <3>1. \A d \in 0..DrainGrace, a \in Nat : a > DrainGrace => ~(d + a <= DrainGrace)
      OBVIOUS
    <3> QED
      BY <1>1, <2>1, <3>1
  <2> QED
    BY <1>2, <2>2, <2>3
<1>5. comp["http-server"] = "running"
  BY <1>4, Quiet DEF PartsInv, M!Components
<1>6. drainTime' >= age' \/ drainTime' = H!DrainCap
  BY <1>2, <1>3, <1>5 DEF LateInv, H!DrainCap
<1>7. drainTime' > 2 * Timeout
  <2>1. drainTime' \in Nat
    BY DEF PartsInv, HttpClockInv, H!DrainCap
  <2>2. \A d \in Nat, a \in Nat : d >= a /\ a > 2 * Timeout => d > 2 * Timeout
    OBVIOUS
  <2>3. H!DrainCap > 2 * Timeout
    BY DEF H!DrainCap
  <2> QED
    BY <1>1, <1>6, <2>1, <2>2, <2>3
<1>8. (H!Open \subseteq H!Stuck)'
  BY <1>7 DEF PartsInv, HttpOpenInv, HttpClockInv, H!DrainBound, H!Open, H!Stuck,
     H!DrainCap, H!ConnStates
<1>9. watched # {} /\ watched \subseteq told /\ watched = H!Open
  <2>1. httpPhase = "draining" /\ H!NothingDue
    BY <1>5, Quiet DEF PartsInv
  <2> QED
    BY <2>1 DEF PartsInv, HttpOpenInv, H!NothingDue
<1>10. H!Open \subseteq H!Stuck
  BY <1>8 DEF H!Open, H!Stuck
<1> QED
  BY <1>9, <1>10 DEF Unread, H!Stuck

(* Main begins to wait with no time passed since the order, and its clock  *)
(* moves with time alone.                                                  *)
LEMMA WaitStep ==
    ASSUME PartsInv, [Next]_vars, pc' = "supervise", age' # 0
    PROVE  /\ pc = "supervise"
           /\ age' = age \/ (Elapse /\ token /\ UNCHANGED <<conn, told>>)
<1> USE DEF PartsInv
<1>1. CASE Main
  <2>1. age' = age
    BY <1>1, MainSteps
  <2>2. ASSUME pc # "supervise" PROVE FALSE
    <3>1. pc \in M!Steps
      BY <1>1, <2>2 DEF Main, M!Main, M!Load, M!Loading, M!InstallHandler, M!BootFails,
         M!SpawnBridge, M!SpawnComponents, M!ArmFence, M!FenceFires, M!Return,
         M!DropTasks, M!Exit, M!Supervise, M!Signal, M!BridgeFirst, M!BridgeSecond,
         M!bootVars, M!Steps, M!After, M!Returned
    <3>2. pc \notin M!Returned
      BY <3>1 DEF M!Steps, M!After, M!Returned
    <3> QED
      BY <2>1, <3>1, <3>2 DEF FenceInv
  <2> QED
    BY <2>1, <2>2
<1>2. CASE Elapse
  BY <1>2 DEF Elapse
<1>3. ASSUME UNCHANGED mainVars PROVE pc = "supervise" /\ age' = age
  BY <1>3 DEF mainVars
<1> QED
  BY <1>1, <1>2, <1>3, CronServerStep, ApiServerStep, RunFrame, ConnectionFrame
     DEF Next, Gone, vars

LEMMA WaitInvStep ==
    ASSUME IInv, PartsInv', [Next]_vars
    PROVE  WaitInv'
<1> USE ServiceAssumption DEF IInv
<1> SUFFICES ASSUME pc' = "supervise", age' > 2 * Timeout, age' > DrainGrace
             PROVE  Unread'
  BY DEF WaitInv
<1>1. age' # 0
  OBVIOUS
<1>2. Unread => Unread'
  BY ToldGrows DEF PartsInv, Unread
<1>3. CASE age' = age
  BY <1>1, <1>2, <1>3, WaitStep DEF WaitInv
<1>4. CASE Elapse /\ token /\ UNCHANGED <<conn, told>>
  BY <1>1, <1>2, <1>4, WaitStep, LateUnit
<1> QED
  BY <1>1, <1>3, <1>4, WaitStep

LEMMA StepIInv == IInv /\ [Next]_vars => IInv'
<1> SUFFICES ASSUME IInv, [Next]_vars PROVE IInv'
  OBVIOUS
<1>1. (SpawnInv /\ OrderInv)'
  BY StepInv DEF IInv, PartsInv
<1>2. (HttpOpenInv /\ HttpClockInv)'
  BY HttpSimulates, HttpOpenStep, HttpClockStep DEF IInv, PartsInv
<1>3. RunsInv'
  BY CronSimulates, RunsStep DEF IInv, PartsInv
<1>4. (TaskInv /\ FenceInv /\ LateInv)'
  BY TaskStep, FenceStep, LateStep DEF IInv, PartsInv
<1>5. PartsInv'
  BY <1>1, <1>2, <1>3, <1>4 DEF PartsInv
<1> QED
  BY <1>5, WaitInvStep DEF IInv

LEMMA StopInvariance == Spec => []IInv
  BY InitIInv, StepIInv, PTL DEF Spec

LEMMA NestedUnit ==
    ASSUME IInv, IInv', [Next]_vars, age' # age, pc = "supervise",
           age' > 2 * Timeout, age' > DrainGrace
    PROVE  H!Open # {} /\ H!Open \subseteq H!Stuck
<1> USE ServiceAssumption DEF IInv
<1>1. Elapse
  BY MainSteps, CronServerStep, ApiServerStep, RunFrame, ConnectionFrame
     DEF Next, Gone, vars, mainVars, PartsInv
<1>2. pc' = "supervise" /\ age' # 0
  BY <1>1 DEF Elapse
<1> QED
  BY <1>1, <1>2, WaitStep, LateUnit

(* The fences nest, whatever runs and whoever is connected: past two       *)
(* request timeouts and the drain fence, main waits over connections whose *)
(* clients do not read, and over nothing else.                             *)
THEOREM FencesAreNested == Spec => FencesNest
<1>1. IInv /\ IInv' /\ [Next]_vars
        => [age' # age /\ pc = "supervise" /\ age' > 2 * Timeout /\ age' > DrainGrace
              => H!Open # {} /\ H!Open \subseteq H!Stuck]_vars
  BY NestedUnit
<1> QED
  BY <1>1, StopInvariance, PTL DEF Spec, FencesNest

(* With both within the grace, a forced exit is a genuine hang             *)
(* (SHUTDOWN_GRACE).  The defaults, 60 s and 30 s in 45 s, break the       *)
(* hypothesis.                                                             *)
THEOREM ForcedExitIsGenuine ==
    ASSUME 2 * Timeout < Grace, DrainGrace < Grace
    PROVE  Spec => []OnlyGenuineHangs
<1>1. IInv => OnlyGenuineHangs
  <2> SUFFICES ASSUME IInv, exit = "hang" PROVE Unread
    BY DEF OnlyGenuineHangs
  <2>1. pc = "supervise" /\ age + fence = Grace /\ fence = 0 /\ age \in Nat
    BY DEF IInv, PartsInv, FenceInv
  <2>2. age = Grace
    BY <2>1
  <2> QED
    BY <2>1, <2>2 DEF IInv, WaitInv
<1> QED
  BY <1>1, StopInvariance, PTL

(* A service whose jobs all await is gone within the grace of the order:   *)
(* its clock never passes it.  What a job that blocks does to this is what *)
(* the rest of the process cannot help.                                    *)
THEOREM StopsWithinGrace ==
    ASSUME Blocking = {}
    PROVE  Spec => [](age <= Grace)
<1> DEFINE G == age <= Grace
<1>1. Init => G
  BY ServiceAssumption DEF Init, M!Init
<1>2. IInv /\ G /\ [Next]_vars => G'
  <2> SUFFICES ASSUME IInv, G, [Next]_vars PROVE G'
    OBVIOUS
  <2> USE ServiceAssumption
  <2>1. CASE Elapse /\ pc = "supervise"
    <3>1. age' = age \/ (age' = age + 1 /\ age < Grace)
      BY <2>1, Quiet DEF IInv, PartsInv
    <3>2. age \in Nat
      BY DEF IInv, PartsInv, FenceInv
    <3> QED
      BY <3>1, <3>2
  <2>2. CASE Elapse /\ pc # "supervise"
    <3>1. pc \in M!Steps \cup M!Returned
      BY <2>2 DEF IInv, PartsInv, SpawnInv
    <3>2. ~wedged
      BY DEF wedged
    <3>3. age' = age
      BY <2>2, <3>1, <3>2 DEF Elapse, M!Elapse, M!MainReady
    <3> QED
      BY <3>3
  <2>3. CASE ~Elapse
    <3>1. age' = age
      BY <2>3, MainSteps, CronServerStep, ApiServerStep, RunFrame, ConnectionFrame
         DEF Next, Gone, vars, mainVars, IInv, PartsInv
    <3> QED
      BY <3>1
  <2> QED
    BY <2>1, <2>2, <2>3
<1> QED
  BY <1>1, <1>2, StopInvariance, PTL DEF Spec

LEMMA SuccessMeansStopped == IInv => (exit = "ok" => engine = "stopped")
BY DEF IInv, PartsInv, FenceInv, TaskInv, RunsInv, M!Returned, M!AllOk, M!Components

(* The exit status is never success over an engine that was not stopped,   *)
(* late ticks or not.                                                      *)
THEOREM StopIsReported == Spec => [](exit = "ok" => engine = "stopped")
BY SuccessMeansStopped, StopInvariance, PTL

(* When main returns, nothing that was in flight is cut but what reached   *)
(* the adapter after JobScheduler::shutdown.                               *)
THEOREM NothingIsCut == Spec => []NothingCut
<1>1. IInv => NothingCut
  <2> SUFFICES ASSUME IInv, exit \in {"ok", "error"}
               PROVE  /\ H!Open = {}
                      /\ cronPhase # "failed" /\ ~expired =>
                           engine # "ticking" /\ \A t \in Ticks \ Late : ~C!Live(t)
    BY SuccessMeansStopped DEF NothingCut
  <2>1. \A c \in M!Components : comp[c] # "running"
    BY DEF IInv, PartsInv, FenceInv, SpawnInv, M!Returned
  <2>2. httpPhase \in {"unbound", "stopped", "failed"}
    BY <2>1 DEF IInv, PartsInv, TaskInv, HttpOpenInv, M!Components
  <2>3. cronPhase \in {"stopped", "failed"} \/ comp["cron"] = "absent"
    BY <2>1 DEF IInv, PartsInv, TaskInv, RunsInv, M!Components
  <2>4. comp["cron"] = "absent" => engine # "ticking" /\ \A t \in Ticks \ Late : ~C!Live(t)
    BY DEF IInv, PartsInv, OrderInv, C!Live
  <2>5. H!Open = {}
    BY <2>2 DEF IInv, PartsInv, HttpOpenInv
  <2>6. cronPhase = "stopped" /\ ~expired =>
            engine = "stopped" /\ \A t \in Ticks \ Late : ~C!Live(t)
    BY DEF IInv, PartsInv, RunsInv
  <2> QED
    BY <2>3, <2>4, <2>5, <2>6
<1> QED
  BY <1>1, StopInvariance, PTL

=============================================================================
