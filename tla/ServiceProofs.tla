---------------------------- MODULE ServiceProofs ----------------------------
(***************************************************************************)
(* Proofs about Service, for every roster, every set of connections and    *)
(* all durations: the composition is a behaviour of each of its parts.     *)
(***************************************************************************)
EXTENDS Service, TLAPS

(* What main's step tells of the tasks it has spawned. *)
SpawnInv ==
    /\ comp \in [M!Components -> {"absent", "running", "ok", "err", "panic"}]
    /\ pc \in M!Steps \cup {"supervise"} \cup M!Returned
    /\ pc \in M!Steps \ {"cron"} => \A c \in M!Components : comp[c] = "absent"
    /\ pc = "cron" => comp["cron"] = "absent"
    /\ pc \in M!Returned => \A c \in M!Components : comp[c] # "running"
    /\ \A c \in joined : c \in M!Components /\ comp[c] \notin {"absent", "running"}

(* What a component has done tells of the token and of its own task. *)
OrderInv ==
    /\ token \in BOOLEAN
    /\ cronPhase = "draining" => token
    /\ httpPhase = "draining" => token
    /\ comp["cron"] = "absent" => engine # "ticking" /\ \A t \in Ticks : st[t] = "unfired"

LEMMA InitInv == Init => SpawnInv /\ OrderInv
<1> SUFFICES ASSUME Init PROVE SpawnInv /\ OrderInv
  OBVIOUS
<1>1. SpawnInv
  BY DEF Init, M!Init, SpawnInv, M!Steps, M!After, M!Returned, M!Components
<1>2. OrderInv
  BY DEF Init, M!Init, C!Init, H!Init, OrderInv, M!Components
<1> QED
  BY <1>1, <1>2

(* main cancels the token or leaves it alone. *)
LEMMA TokenStep ==
    ASSUME Main
    PROVE  token' = token \/ token' = TRUE
BY DEF Main, M!Main, M!Load, M!InstallHandler, M!BootFails, M!SpawnBridge,
   M!SpawnComponents, M!ArmFence, M!FenceFires, M!Return, M!DropTasks, M!Exit,
   M!Supervise, M!Signal, M!BridgeFirst, M!BridgeSecond

LEMMA MainSpawnStep ==
    ASSUME SpawnInv, Main
    PROVE  SpawnInv'
<1> USE DEF SpawnInv
<1>1. CASE M!Load
  BY <1>1 DEF M!Load, M!Loading, M!Steps, M!After, M!Returned, M!compVars
<1>2. CASE M!InstallHandler
  BY <1>2 DEF M!InstallHandler, M!Steps, M!After, M!Returned, M!compVars
<1>3. CASE M!BootFails
  BY <1>3 DEF M!BootFails, M!Fallible, M!Loading, M!Steps, M!After, M!Returned, M!compVars
<1>4. CASE M!SpawnBridge
  BY <1>4 DEF M!SpawnBridge, M!Steps, M!After, M!Returned, M!compVars
<1>5. CASE M!SpawnComponents
  <2>1. CASE pc = "api"
    BY <1>5, <2>1 DEF M!SpawnComponents, M!Steps, M!After, M!Returned, M!Components
  <2>2. CASE pc = "cron"
    BY <1>5, <2>2 DEF M!SpawnComponents, M!Steps, M!After, M!Returned, M!Components
  <2> QED
    BY <1>5, <2>1, <2>2 DEF M!SpawnComponents
<1>6. CASE M!Return
  BY <1>6 DEF M!Return, M!Steps, M!After, M!Returned, M!compVars
<1>7. ASSUME NEW c \in M!Components, M!Supervise(c) PROVE SpawnInv'
  BY <1>7 DEF M!Supervise, M!Ended, M!bootVars
<1>8. ASSUME UNCHANGED <<pc, comp, joined>> PROVE SpawnInv'
  BY <1>8
<1>9. CASE M!ArmFence \/ M!FenceFires \/ M!DropTasks \/ M!Exit
  BY <1>8, <1>9 DEF M!ArmFence, M!FenceFires, M!DropTasks, M!Exit, M!bootVars, M!compVars
<1>10. ASSUME NEW s \in M!Signals, M!Signal(s) \/ M!BridgeFirst(s) \/ M!BridgeSecond(s)
       PROVE  SpawnInv'
  BY <1>8, <1>10 DEF M!Signal, M!BridgeFirst, M!BridgeSecond, M!bootVars, M!compVars
<1> QED
  BY <1>1, <1>2, <1>3, <1>4, <1>5, <1>6, <1>7, <1>9, <1>10 DEF Main, M!Main

LEMMA MainOrderStep ==
    ASSUME SpawnInv, OrderInv, Main
    PROVE  OrderInv'
<1>1. token' \in BOOLEAN /\ (token => token')
  BY TokenStep DEF OrderInv
<1>2. comp'["cron"] = "absent" => comp["cron"] = "absent"
  BY DEF Main, M!Main, M!Load, M!InstallHandler, M!BootFails, M!SpawnBridge,
     M!SpawnComponents, M!ArmFence, M!FenceFires, M!Return, M!DropTasks, M!Exit,
     M!Supervise, M!Signal, M!BridgeFirst, M!BridgeSecond, M!compVars, SpawnInv,
     M!Components
<1> QED
  BY <1>1, <1>2 DEF OrderInv, Main, cronVars, httpVars

(* A component's task ends once, with Ok only after the token. *)
LEMMA ComponentStep ==
    ASSUME SpawnInv, OrderInv, CronServer \/ ApiServer
    PROVE  SpawnInv' /\ OrderInv'
<1>1. CASE CronServer
  <2>1. comp' = [comp EXCEPT !["cron"] = Result(cronPhase')] /\ comp["cron"] = "running"
    BY <1>1 DEF CronServer
  <2>2. Result(cronPhase') \in {"running", "ok", "err"}
    BY DEF Result
  <2>3. SpawnInv'
    BY <1>1, <2>1, <2>2 DEF CronServer, mainVars, SpawnInv, M!Components
  <2>4. comp'["cron"] # "absent"
    BY <2>1, <2>2 DEF SpawnInv, M!Components
  <2>5. cronPhase' = "draining" => token
    BY <1>1 DEF CronServer, C!StartEngine, C!StartFails, C!StopEngine, C!StopFails,
       C!Drained, C!DrainExpires
  <2> QED
    BY <1>1, <2>3, <2>4, <2>5 DEF OrderInv, CronServer, mainVars, httpVars
<1>2. CASE ApiServer
  <2>1. /\ comp' = [comp EXCEPT !["http-server"] = Result(httpPhase')]
        /\ comp["http-server"] = "running"
    BY <1>2 DEF ApiServer
  <2>2. Result(httpPhase') \in {"running", "ok", "err"}
    BY DEF Result
  <2>3. SpawnInv'
    BY <1>2, <2>1, <2>2 DEF ApiServer, mainVars, SpawnInv, M!Components
  <2>4. comp'["cron"] = comp["cron"]
    BY <2>1 DEF SpawnInv, M!Components
  <2>5. httpPhase' = "draining" => token
    BY <1>2 DEF ApiServer, H!Bind, H!BindFails, H!BeginDrain, H!Drained
  <2> QED
    BY <1>2, <2>3, <2>4, <2>5 DEF OrderInv, ApiServer, mainVars, cronVars
<1> QED
  BY <1>1, <1>2

LEMMA StepInv == SpawnInv /\ OrderInv /\ [Next]_vars => (SpawnInv /\ OrderInv)'
<1> SUFFICES ASSUME SpawnInv, OrderInv, [Next]_vars PROVE SpawnInv' /\ OrderInv'
  OBVIOUS
<1>1. ASSUME UNCHANGED <<mainVars, comp>> PROVE SpawnInv'
  BY <1>1 DEF mainVars, SpawnInv
<1>2. ASSUME NEW t \in Ticks, Run(t) PROVE SpawnInv' /\ OrderInv'
  <2>1. SpawnInv'
    BY <1>1, <1>2 DEF Run
  <2>2. UNCHANGED <<cronPhase, engine, token, httpPhase, comp>>
    BY <1>2 DEF Run, C!Tick, C!Fire, C!Adapt, C!DispatchAllow, C!DispatchAcquired,
       C!DispatchSkipped, C!BodyEnds, C!TimeOut, mainVars, httpVars
  <2>3. comp["cron"] # "absent"
    BY <1>2 DEF Run, C!Tick, C!Fire, C!Adapt, C!DispatchAllow, C!DispatchAcquired,
       C!DispatchSkipped, C!BodyEnds, C!TimeOut, OrderInv
  <2> QED
    BY <2>1, <2>2, <2>3 DEF OrderInv
<1>3. ASSUME NEW t \in Ticks, BlockingEnds(t) PROVE SpawnInv' /\ OrderInv'
  <2>1. SpawnInv'
    BY <1>1, <1>3 DEF BlockingEnds
  <2>2. UNCHANGED <<cronPhase, engine, token, httpPhase, comp>>
    BY <1>3 DEF BlockingEnds, C!BodyEnds, mainVars, httpVars
  <2>3. comp["cron"] # "absent"
    BY <1>3 DEF BlockingEnds, C!BodyEnds, OrderInv
  <2> QED
    BY <2>1, <2>2, <2>3 DEF OrderInv
<1>4. ASSUME NEW c \in Conns, Connection(c) PROVE SpawnInv' /\ OrderInv'
  <2>1. httpPhase' = httpPhase
    BY <1>4 DEF Connection, H!Connection, H!Connect, H!Accept, H!AcceptFails,
       H!StartHead, H!StartRequest, H!HeadTimeout, H!Respond, H!RequestTimeout,
       H!Flushed, H!PeerLeaves, H!Notice
  <2> QED
    BY <1>1, <1>4, <2>1 DEF Connection, mainVars, cronVars, OrderInv
<1>5. CASE Elapse
  BY <1>5 DEF Elapse, SpawnInv, OrderInv
<1>6. CASE UNCHANGED vars
  BY <1>1, <1>6 DEF vars, mainVars, cronVars, httpVars, OrderInv
<1> QED
  BY <1>2, <1>3, <1>4, <1>5, <1>6, MainSpawnStep, MainOrderStep, ComponentStep
     DEF Next, Gone

LEMMA Invariance == Spec => [](SpawnInv /\ OrderInv)
  BY InitInv, StepInv, PTL DEF Spec

-----------------------------------------------------------------------------
(***************************************************************************)
(* main: the result of a component is a Stop, a run that does not yield a  *)
(* Wedge, and everything else the components do is nothing to it.          *)
(***************************************************************************)
LEMMA MainSimulates ==
    ASSUME SpawnInv, OrderInv, [Next]_vars
    PROVE  M!Next \/ UNCHANGED M!vars
<1>1. CASE Main
  BY <1>1 DEF Main, M!Next
<1>2. ASSUME UNCHANGED <<mainVars, comp>>, wedged' = wedged PROVE UNCHANGED M!vars
  BY <1>2 DEF mainVars, M!vars
<1>3. ASSUME NEW c \in M!Components, NEW r \in {"running", "ok", "err"},
             Alive, comp[c] = "running", comp' = [comp EXCEPT ![c] = r],
             r = "ok" => token, UNCHANGED mainVars, wedged' = wedged
      PROVE  M!Next \/ UNCHANGED M!vars
  <2>1. CASE r = "running"
    <3>1. comp' = comp
      BY <1>3, <2>1 DEF SpawnInv
    <3> QED
      BY <1>2, <1>3, <3>1
  <2>2. CASE r # "running"
    <3>1. M!Stop(c, r)
      BY <1>3, <2>2 DEF M!Stop, M!Alive, M!bootVars, M!sigVars, M!fenceVars, Alive,
         mainVars, SpawnInv
    <3> QED
      BY <2>2, <3>1 DEF M!Next
  <2> QED
    BY <2>1, <2>2
<1>4. CASE CronServer
  <2>1. wedged' = wedged
    <3>1. \A t \in Ticks : st'[t] = "running" <=> st[t] = "running"
      BY <1>4 DEF CronServer, C!StartEngine, C!StartFails, C!StopEngine, C!StopFails,
         C!InFlightTicks, C!Drained, C!DrainExpires, C!runVars
    <3> QED
      BY <3>1 DEF wedged
  <2>2. Result(cronPhase') = "ok" => token
    BY <1>4 DEF CronServer, Result, C!StartEngine, C!StartFails, C!StopEngine,
       C!StopFails, C!Drained, C!DrainExpires, OrderInv
  <2>3. Result(cronPhase') \in {"running", "ok", "err"}
    BY DEF Result
  <2> QED
    BY <1>3, <1>4, <2>1, <2>2, <2>3 DEF CronServer, Runtime, M!Components
<1>5. CASE ApiServer
  <2>1. wedged' = wedged
    BY <1>5 DEF ApiServer, cronVars, wedged
  <2>2. Result(httpPhase') = "ok" => token
    BY <1>5 DEF ApiServer, Result, H!Bind, H!BindFails, H!BeginDrain, H!Drained, OrderInv
  <2>3. Result(httpPhase') \in {"running", "ok", "err"}
    BY DEF Result
  <2> QED
    BY <1>3, <1>5, <2>1, <2>2, <2>3 DEF ApiServer, Runtime, M!Components
<1>6. ASSUME NEW t \in Ticks, Run(t) \/ BlockingEnds(t)
      PROVE  M!Next \/ UNCHANGED M!vars
  <2>1. Alive /\ UNCHANGED <<mainVars, comp>> /\ C!Tick(t)
    BY <1>6 DEF Run, BlockingEnds, Runtime, C!Tick
  <2>2. CASE wedged' = wedged
    BY <1>2, <2>1, <2>2
  <2>3. CASE wedged' # wedged /\ wedged'
    <3>1. bridge # "dropped"
      BY <1>6, <2>3 DEF Run, BlockingEnds, Runtime, C!BodyEnds, C!Release, wedged
    <3>2. Blocking # {}
      BY <2>3 DEF wedged
    <3>3. comp["cron"] # "absent"
      BY <2>1 DEF C!Tick, C!Fire, C!Adapt, C!DispatchAllow, C!DispatchAcquired,
         C!DispatchSkipped, C!BodyEnds, C!TimeOut, OrderInv
    <3>4. wedged' = TRUE
      BY <2>3 DEF wedged
    <3>5. M!Wedge
      BY <2>1, <3>1, <3>2, <3>3, <3>4 DEF M!Wedge, M!Alive, M!Components, Alive, mainVars,
         M!bootVars, M!sigVars, M!compVars, M!fenceVars
    <3> QED
      BY <3>5 DEF M!Next
  <2>4. CASE wedged' # wedged /\ ~wedged'
    <3>1. wedged /\ wedged' = FALSE
      BY <2>4 DEF wedged
    <3>2. M!Unwedge
      BY <2>1, <3>1 DEF M!Unwedge, M!Alive, Alive, mainVars,
         M!bootVars, M!sigVars, M!compVars, M!fenceVars
    <3> QED
      BY <3>2 DEF M!Next
  <2> QED
    BY <2>2, <2>3, <2>4
<1>7. ASSUME NEW c \in Conns, Connection(c) PROVE UNCHANGED M!vars
  <2>1. wedged' = wedged
    BY <1>7 DEF Connection, cronVars, wedged
  <2> QED
    BY <1>2, <1>7, <2>1 DEF Connection
<1>8. CASE Elapse
  <2>1. wedged' = wedged
    BY <1>8 DEF Elapse, wedged
  <2>2. CASE M!Elapse
    BY <2>2 DEF M!Next
  <2>3. CASE UNCHANGED <<fence, age>>
    BY <1>2, <1>8, <2>1, <2>3 DEF Elapse, mainVars
  <2> QED
    BY <1>8, <2>2, <2>3 DEF Elapse
<1>9. CASE UNCHANGED vars
  <2>1. wedged' = wedged
    BY <1>9 DEF vars, cronVars, wedged
  <2> QED
    BY <1>2, <1>9, <2>1 DEF vars
<1> QED
  BY <1>1, <1>4, <1>5, <1>6, <1>7, <1>8, <1>9 DEF Next, Gone

(***************************************************************************)
(* A component: what main does is at most the order to stop.               *)
(***************************************************************************)
LEMMA CronSimulates ==
    ASSUME OrderInv, [Next]_vars
    PROVE  C!Next \/ UNCHANGED C!vars
<1>1. ASSUME UNCHANGED cronVars, token' = token PROVE UNCHANGED C!vars
  BY <1>1 DEF cronVars, C!vars
<1>2. CASE Main
  <2>1. CASE token' = token
    BY <1>1, <1>2, <2>1 DEF Main
  <2>2. CASE token' # token
    <3>1. ~token /\ token' = TRUE
      BY <1>2, <2>2, TokenStep DEF OrderInv
    <3>2. C!ShutdownFires
      BY <1>2, <3>1 DEF Main, cronVars, C!ShutdownFires, C!runVars, C!fenceVars
    <3> QED
      BY <3>2 DEF C!Next, C!Server
  <2> QED
    BY <2>1, <2>2
<1>3. CASE CronServer
  BY <1>3 DEF CronServer, C!Next, C!Server
<1>4. ASSUME NEW t \in Ticks, Run(t) \/ BlockingEnds(t) PROVE C!Next
  BY <1>4 DEF Run, BlockingEnds, C!Tick, C!Next
<1>5. CASE ApiServer
  BY <1>1, <1>5 DEF ApiServer, mainVars
<1>6. ASSUME NEW c \in Conns, Connection(c) PROVE UNCHANGED C!vars
  BY <1>1, <1>6 DEF Connection, mainVars
<1>7. CASE Elapse
  <2>1. CASE C!Elapse
    BY <2>1 DEF C!Next
  <2>2. CASE UNCHANGED <<runLeft, drainLeft>>
    BY <1>1, <1>7, <2>2 DEF Elapse, cronVars
  <2> QED
    BY <1>7, <2>1, <2>2 DEF Elapse
<1>8. CASE UNCHANGED vars
  BY <1>1, <1>8 DEF vars, mainVars
<1> QED
  BY <1>2, <1>3, <1>4, <1>5, <1>6, <1>7, <1>8 DEF Next, Gone

LEMMA HttpSimulates ==
    ASSUME OrderInv, [Next]_vars
    PROVE  H!Next \/ UNCHANGED H!vars
<1>1. ASSUME UNCHANGED httpVars, token' = token PROVE UNCHANGED H!vars
  BY <1>1 DEF httpVars, H!vars
<1>2. CASE Main
  <2>1. CASE token' = token
    BY <1>1, <1>2, <2>1 DEF Main
  <2>2. CASE token' # token
    <3>1. ~token /\ token' = TRUE
      BY <1>2, <2>2, TokenStep DEF OrderInv
    <3>2. H!ShutdownFires
      BY <1>2, <3>1 DEF Main, httpVars, H!ShutdownFires, H!connVars
    <3> QED
      BY <3>2 DEF H!Next, H!Server
  <2> QED
    BY <2>1, <2>2
<1>3. CASE ApiServer
  BY <1>3 DEF ApiServer, H!Next, H!Server
<1>4. ASSUME NEW c \in Conns, Connection(c) PROVE H!Next
  BY <1>4 DEF Connection, H!Next
<1>5. CASE CronServer
  BY <1>1, <1>5 DEF CronServer, mainVars
<1>6. ASSUME NEW t \in Ticks, Run(t) \/ BlockingEnds(t) PROVE UNCHANGED H!vars
  BY <1>1, <1>6 DEF Run, BlockingEnds, mainVars
<1>7. CASE Elapse
  <2>1. CASE H!Elapse
    BY <2>1 DEF H!Next
  <2>2. CASE UNCHANGED <<connLeft, drainTime>>
    BY <1>1, <1>7, <2>2 DEF Elapse, httpVars
  <2> QED
    BY <1>7, <2>1, <2>2 DEF Elapse
<1>8. CASE UNCHANGED vars
  BY <1>1, <1>8 DEF vars, mainVars
<1> QED
  BY <1>2, <1>3, <1>4, <1>5, <1>6, <1>7, <1>8 DEF Next, Gone

(* The process is at once a behaviour of Supervisor, of Cron and of        *)
(* HttpServer: whatever is proved of each of them holds of the whole, for  *)
(* every roster, every set of connections and all durations.               *)
THEOREM CompositionImplements == Spec => ImplementsComponents
<1>1. Init => M!Init /\ C!Init /\ H!Init
  BY DEF Init
<1>2. SpawnInv /\ OrderInv /\ [Next]_vars =>
          [M!Next]_(M!vars) /\ [C!Next]_(C!vars) /\ [H!Next]_(H!vars)
  BY MainSimulates, CronSimulates, HttpSimulates
<1> QED
  BY <1>1, <1>2, Invariance, PTL
     DEF Spec, ImplementsComponents, M!Spec, C!Spec, H!Spec

=============================================================================
