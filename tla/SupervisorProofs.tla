-------------------------- MODULE SupervisorProofs --------------------------
(***************************************************************************)
(* Proofs about Supervisor, for every grace, every number of signals and,  *)
(* except for the deadline, whether or not a task may block its worker.    *)
(* The invariant adds to the properties what main's position says of the   *)
(* handlers and of the components, and what the signals sent say of those  *)
(* pending.                                                                *)
(***************************************************************************)
EXTENDS Supervisor, TLAPS

Positions == Steps \cup {"supervise"} \cup Returned

(* The steps before the first spawn of a component, and those after both   *)
(* handlers are in place.                                                  *)
BeforeSpawn == Fallible \cup {"bridge", "api"}
Handled     == {"bridge", "api", "cron", "supervise", "ok"}

AllAbsent == \A c \in Components : comp[c] = "absent"
AllEnded  == \A c \in Components : Ended(c)

(* What main's position says of the components. *)
PositionInv ==
    /\ pc \in BeforeSpawn => AllAbsent
    /\ joined # {} => pc \in {"supervise"} \cup Returned
    /\ pc = "ok" => AllOk
    /\ pc = "error" => AllAbsent \/ (AllEnded /\ ~AllOk)
    /\ \A c \in joined : Ended(c)

(* Nothing is spawned, or both handlers are in place. *)
HandlerInv ==
    /\ pc = "sigterm" => "SIGINT" \in handlers
    /\ pc \in Handled \/ ~AllAbsent => handlers = Signals

(* Every pending signal was sent; the one the bridge consumed was another. *)
SignalInv ==
    /\ pending # {} => sent >= 1
    /\ \A s, u \in pending : s # u => sent >= 2
    /\ bridge = "second" => token /\ sent >= 1 /\ (pending # {} => sent >= 2)

(* The process ended in main's own words. *)
ExitInv ==
    /\ exit \in Returned => pc = exit
    /\ exit = "killed" => AllAbsent
    /\ exit = "escalated" => token /\ sent >= 2

IInv == TypeOK /\ PositionInv /\ HandlerInv /\ SignalInv /\ ExitInv

LEMMA StepNames ==
    /\ Steps = {"load_dotenv", "load_config", "connect", "up_guarded", "cron_new",
                "sigint", "sigterm", "bridge", "api", "cron"}
    /\ \A p \in Loading : After[p] \in {"load_config", "connect", "up_guarded",
                                        "cron_new", "sigint"}
    /\ After["sigint"] = "sigterm" /\ After["sigterm"] = "bridge"
    /\ After["bridge"] = "api" /\ After["api"] = "cron" /\ After["cron"] = "supervise"
  BY DEF Steps, After, Loading

LEMMA InitIInv == Init => IInv
<1> SUFFICES ASSUME Init PROVE IInv
  OBVIOUS
<1>1. TypeOK
  <2>1. pc \in Steps \cup {"supervise"} \cup Returned
    BY StepNames DEF Init
  <2>2. token \in BOOLEAN /\ armed \in BOOLEAN /\ wedged \in BOOLEAN
    BY DEF Init
  <2>3. /\ handlers \subseteq Signals /\ pending \subseteq handlers
        /\ bridge \in {"absent", "first", "second", "dropped"}
        /\ comp \in [Components -> {"absent", "running", "ok", "err", "panic"}]
        /\ joined \subseteq Components
        /\ exit \in {"none", "ok", "error", "hang", "escalated", "killed"}
    BY DEF Init
  <2>4. sent \in 0..MaxSignals /\ fence \in 0..Grace /\ age \in 0..(Grace + 1)
    BY SupervisorAssumption DEF Init
  <2> QED
    BY <2>1, <2>2, <2>3, <2>4 DEF TypeOK
<1>2. PositionInv /\ HandlerInv /\ SignalInv /\ ExitInv
  BY DEF Init, PositionInv, HandlerInv, SignalInv, ExitInv, AllAbsent, Handled, Returned
<1> QED
  BY <1>1, <1>2 DEF IInv

-----------------------------------------------------------------------------
(* Type correctness, one step per group of actions. *)

LEMMA TypeStep ==
    ASSUME TypeOK, [Next]_vars
    PROVE  TypeOK'
<1> USE DEF TypeOK
<1>1. ASSUME Load \/ InstallHandler \/ BootFails \/ SpawnBridge \/ SpawnComponents
      PROVE  TypeOK'
  <2>1. pc' \in Steps \cup {"supervise"} \cup Returned
    BY <1>1, StepNames DEF Load, InstallHandler, BootFails, SpawnBridge, SpawnComponents,
       Returned
  <2>2. handlers' \subseteq Signals /\ pending' \subseteq handlers'
    BY <1>1 DEF Load, InstallHandler, BootFails, SpawnBridge, SpawnComponents, sigVars,
       Signals
  <2>3. comp' \in [Components -> {"absent", "running", "ok", "err", "panic"}]
    BY <1>1 DEF Load, InstallHandler, BootFails, SpawnBridge, SpawnComponents, compVars,
       Components
  <2>4. bridge' \in {"absent", "first", "second", "dropped"}
    BY <1>1 DEF Load, InstallHandler, BootFails, SpawnBridge, SpawnComponents, sigVars
  <2>5. UNCHANGED <<sent, token, joined, armed, fence, age, wedged, exit>>
    BY <1>1 DEF Load, InstallHandler, BootFails, SpawnBridge, SpawnComponents, sigVars,
       compVars, fenceVars
  <2> QED
    BY <2>1, <2>2, <2>3, <2>4, <2>5
<1>2. ASSUME NEW s \in Signals, Signal(s) \/ BridgeFirst(s) \/ BridgeSecond(s)
      PROVE  TypeOK'
  <2>1. pending' \subseteq handlers' /\ handlers' = handlers
    BY <1>2 DEF Signal, BridgeFirst, BridgeSecond, bootVars
  <2>2. sent' \in 0..MaxSignals
    BY <1>2, SupervisorAssumption DEF Signal, BridgeFirst, BridgeSecond
  <2>3. /\ bridge' \in {"absent", "first", "second", "dropped"}
        /\ exit' \in {"none", "ok", "error", "hang", "escalated", "killed"}
    BY <1>2 DEF Signal, BridgeFirst, BridgeSecond
  <2>4. token' \in BOOLEAN
    BY <1>2 DEF Signal, BridgeFirst, BridgeSecond
  <2>5. UNCHANGED <<pc, comp, joined, armed, fence, age, wedged>>
    BY <1>2 DEF Signal, BridgeFirst, BridgeSecond, bootVars, compVars, fenceVars
  <2> QED
    BY <2>1, <2>2, <2>3, <2>4, <2>5
<1>3. ASSUME NEW c \in Components, NEW r \in {"ok", "err", "panic"}, Stop(c, r)
      PROVE  TypeOK'
  BY <1>3 DEF Stop, bootVars, sigVars, fenceVars
<1>4. ASSUME Wedge \/ Unwedge PROVE TypeOK'
  BY <1>4 DEF Wedge, Unwedge, bootVars, sigVars, compVars, fenceVars
<1>5. ASSUME NEW c \in Components, Supervise(c) PROVE TypeOK'
  <2>1. joined' \subseteq Components
    BY <1>5 DEF Supervise
  <2>2. token' \in BOOLEAN
    BY <1>5 DEF Supervise
  <2> QED
    BY <1>5, <2>1, <2>2 DEF Supervise, bootVars, sigVars, fenceVars
<1>6. ASSUME ArmFence \/ FenceFires \/ Return \/ DropTasks \/ Exit PROVE TypeOK'
  <2>1. pc' \in Steps \cup {"supervise"} \cup Returned
    BY <1>6 DEF ArmFence, FenceFires, Return, DropTasks, Exit, bootVars, Returned
  <2>2. exit' \in {"none", "ok", "error", "hang", "escalated", "killed"}
    BY <1>6 DEF ArmFence, FenceFires, Return, DropTasks, Exit, Returned
  <2>3. armed' \in BOOLEAN
    BY <1>6 DEF ArmFence, FenceFires, Return, DropTasks, Exit, fenceVars
  <2>4. fence' \in 0..Grace /\ age' = age
    BY <1>6, SupervisorAssumption DEF ArmFence, FenceFires, Return, DropTasks, Exit,
       fenceVars
  <2>5. bridge' \in {"absent", "first", "second", "dropped"}
    BY <1>6 DEF ArmFence, FenceFires, Return, DropTasks, Exit, sigVars
  <2>6. UNCHANGED <<handlers, pending, sent, token, comp, joined, wedged>>
    BY <1>6 DEF ArmFence, FenceFires, Return, DropTasks, Exit, bootVars, sigVars, compVars
  <2> QED
    BY <2>1, <2>2, <2>3, <2>4, <2>5, <2>6
<1>7. ASSUME Elapse PROVE TypeOK'
  <2>1. age' \in 0..(Grace + 1)
    BY <1>7, SupervisorAssumption DEF Elapse
  <2>2. fence' \in 0..Grace
    BY <1>7, SupervisorAssumption DEF Elapse, FenceDue
  <2> QED
    BY <1>7, <2>1, <2>2 DEF Elapse, bootVars, sigVars, compVars
<1>8. ASSUME UNCHANGED vars PROVE TypeOK'
  BY <1>8 DEF vars
<1> QED
  BY <1>1, <1>2, <1>3, <1>4, <1>5, <1>6, <1>7, <1>8 DEF Next, Main, Gone

-----------------------------------------------------------------------------
(* The conjuncts of the invariant, each with what it needs of the others. *)

LEMMA PositionStep ==
    ASSUME TypeOK, PositionInv, [Next]_vars
    PROVE  PositionInv'
<1> USE DEF PositionInv, AllAbsent, AllEnded, AllOk, Ended, BeforeSpawn, Returned
<1>1. ASSUME Load \/ InstallHandler \/ BootFails PROVE PositionInv'
  <2>1. /\ pc \in BeforeSpawn
        /\ pc' \in BeforeSpawn \cup {"error"}
        /\ UNCHANGED <<comp, joined>>
    BY <1>1, StepNames DEF Load, InstallHandler, BootFails, compVars, Fallible, Loading
  <2>2. joined = {}
    BY <2>1 DEF Fallible, Loading
  <2> QED
    BY <2>1, <2>2 DEF Fallible, Loading
<1>2. CASE SpawnBridge
  BY <1>2, StepNames DEF SpawnBridge, compVars, Fallible, Loading
<1>3. CASE SpawnComponents
  BY <1>3, StepNames DEF SpawnComponents, Fallible, Loading
<1>4. ASSUME NEW s \in Signals, Signal(s) \/ BridgeFirst(s) \/ BridgeSecond(s)
      PROVE  PositionInv'
  BY <1>4 DEF Signal, BridgeFirst, BridgeSecond, bootVars, compVars
<1>5. ASSUME NEW c \in Components, NEW r \in {"ok", "err", "panic"}, Stop(c, r)
      PROVE  PositionInv'
  BY <1>5 DEF Stop, bootVars, TypeOK
<1>6. CASE Wedge \/ Unwedge \/ ArmFence \/ FenceFires \/ DropTasks \/ Exit \/ Elapse \/ Gone
  BY <1>6 DEF Wedge, Unwedge, ArmFence, FenceFires, DropTasks, Exit, Elapse, Gone,
     bootVars, compVars, vars
<1>7. ASSUME NEW c \in Components, Supervise(c) PROVE PositionInv'
  BY <1>7 DEF Supervise, bootVars
<1>8. CASE Return
  BY <1>8 DEF Return, compVars, Components, Fallible, Loading
<1>9. CASE UNCHANGED vars
  BY <1>9 DEF vars
<1> QED
  BY <1>1, <1>2, <1>3, <1>4, <1>5, <1>6, <1>7, <1>8, <1>9 DEF Next, Main

LEMMA HandlerStep ==
    ASSUME TypeOK, PositionInv, HandlerInv, [Next]_vars
    PROVE  HandlerInv'
<1> USE DEF HandlerInv, AllAbsent, Handled
<1>1. CASE Load \/ BootFails
  BY <1>1, StepNames DEF Load, BootFails, compVars, Loading
<1>2. CASE InstallHandler
  <2>1. CASE pc = "sigint"
    <3>1. AllAbsent
      BY <2>1 DEF PositionInv, BeforeSpawn, Fallible
    <3> QED
      BY <1>2, <2>1, <3>1, StepNames DEF InstallHandler, compVars
  <2>2. CASE pc = "sigterm"
    BY <1>2, <2>2, StepNames DEF InstallHandler, TypeOK, Signals
  <2> QED
    BY <1>2, <2>1, <2>2 DEF InstallHandler
<1>3. CASE SpawnBridge \/ SpawnComponents
  BY <1>3, StepNames DEF SpawnBridge, SpawnComponents, compVars
<1>4. ASSUME NEW s \in Signals, Signal(s) \/ BridgeFirst(s) \/ BridgeSecond(s)
      PROVE  HandlerInv'
  BY <1>4 DEF Signal, BridgeFirst, BridgeSecond, bootVars, compVars
<1>5. ASSUME NEW c \in Components, NEW r \in {"ok", "err", "panic"}, Stop(c, r)
      PROVE  HandlerInv'
  BY <1>5 DEF Stop, bootVars, TypeOK
<1>6. CASE Wedge \/ Unwedge \/ ArmFence \/ FenceFires \/ DropTasks \/ Exit \/ Elapse \/ Gone
  BY <1>6 DEF Wedge, Unwedge, ArmFence, FenceFires, DropTasks, Exit, Elapse, Gone,
     bootVars, compVars, vars
<1>7. ASSUME NEW c \in Components, Supervise(c) PROVE HandlerInv'
  BY <1>7 DEF Supervise, bootVars
<1>8. CASE Return
  BY <1>8 DEF Return, compVars
<1>9. CASE UNCHANGED vars
  BY <1>9 DEF vars
<1> QED
  BY <1>1, <1>2, <1>3, <1>4, <1>5, <1>6, <1>7, <1>8, <1>9 DEF Next, Main

LEMMA SignalStep ==
    ASSUME TypeOK, SignalInv, [Next]_vars
    PROVE  SignalInv'
<1> USE DEF SignalInv
<1>1. ASSUME NEW s \in Signals, Signal(s) PROVE SignalInv'
  BY <1>1 DEF Signal, TypeOK
<1>2. ASSUME NEW s \in Signals, BridgeFirst(s) PROVE SignalInv'
  BY <1>2 DEF BridgeFirst, TypeOK
<1>3. ASSUME NEW s \in Signals, BridgeSecond(s) PROVE SignalInv'
  BY <1>3 DEF BridgeSecond, TypeOK
<1>4. ASSUME NEW c \in Components, Supervise(c) PROVE SignalInv'
  BY <1>4 DEF Supervise, sigVars
<1>5. CASE SpawnBridge \/ DropTasks
  BY <1>5 DEF SpawnBridge, DropTasks
<1>6. ASSUME UNCHANGED <<sigVars, token>> PROVE SignalInv'
  BY <1>6 DEF sigVars
<1>7. CASE \/ Load \/ InstallHandler \/ BootFails \/ SpawnComponents \/ ArmFence
           \/ FenceFires \/ Return \/ Exit \/ Wedge \/ Unwedge \/ Elapse \/ Gone
           \/ UNCHANGED vars
  BY <1>6, <1>7 DEF Load, InstallHandler, BootFails, SpawnComponents, ArmFence,
     FenceFires, Return, Exit, Wedge, Unwedge, Elapse, Gone, vars, sigVars
<1>8. ASSUME NEW c \in Components, NEW r \in {"ok", "err", "panic"}, Stop(c, r)
      PROVE  SignalInv'
  BY <1>6, <1>8 DEF Stop
<1> QED
  BY <1>1, <1>2, <1>3, <1>4, <1>5, <1>7, <1>8 DEF Next, Main

LEMMA ExitStep ==
    ASSUME IInv, [Next]_vars
    PROVE  ExitInv'
<1> USE DEF ExitInv
<1>1. CASE UNCHANGED vars
  BY <1>1 DEF vars, IInv, AllAbsent
<1>2. CASE ~Alive
  BY <1>1, <1>2 DEF Next, Main, Load, InstallHandler, BootFails, SpawnBridge,
     SpawnComponents, ArmFence, FenceFires, Return, DropTasks, Exit, Supervise, Signal,
     BridgeFirst, BridgeSecond, Stop, Wedge, Unwedge, Elapse, Gone
<1>3. ASSUME exit' = "none" PROVE ExitInv'
  BY <1>3 DEF Returned
<1>4. CASE Alive /\ Next
  <2>1. ASSUME NEW s \in Signals, Signal(s) PROVE ExitInv'
    BY <1>3, <1>4, <2>1 DEF Signal, compVars, Alive, IInv, HandlerInv, AllAbsent, Returned
  <2>2. ASSUME NEW s \in Signals, BridgeSecond(s) PROVE ExitInv'
    BY <2>2 DEF BridgeSecond, IInv, SignalInv, Returned
  <2>3. CASE FenceFires
    BY <2>3 DEF FenceFires, Returned
  <2>4. CASE Exit
    BY <2>4 DEF Exit, Returned, bootVars
  <2>5. ASSUME exit' = exit PROVE ExitInv'
    BY <1>3, <1>4, <2>5 DEF Alive
  <2> QED
    BY <1>1, <1>4, <2>1, <2>2, <2>3, <2>4, <2>5 DEF Next, Main, Load, InstallHandler,
       BootFails, SpawnBridge, SpawnComponents, ArmFence, Return, DropTasks, Supervise,
       BridgeFirst, Stop, Wedge, Unwedge, Elapse, Gone
<1> QED
  BY <1>1, <1>2, <1>4

LEMMA Invariance == Spec => []IInv
<1>1. IInv /\ [Next]_vars => IInv'
  BY TypeStep, PositionStep, HandlerStep, SignalStep, ExitStep DEF IInv
<1> QED
  BY <1>1, InitIInv, PTL DEF Spec

(* The state of main, of the bridge, of the components and of the fence is *)
(* well typed in every reachable state: the fence never runs below zero    *)
(* and no signal is pending without its handler.                           *)
THEOREM TypeCorrect == Spec => []TypeOK
<1>1. IInv => TypeOK
  BY DEF IInv
<1> QED
  BY <1>1, Invariance, PTL

(* Zero only if both components ended cleanly; a failure only if nothing   *)
(* was spawned, or both are down and one failed.                           *)
THEOREM StatusTellsTheTruth == Spec => []ExitStatus
<1>1. IInv => ExitStatus
  BY DEF IInv, ExitInv, PositionInv, ExitStatus, Returned, AllAbsent, AllEnded, AllOk
<1> QED
  BY <1>1, Invariance, PTL

(* No signal takes a process down by default once a component runs. *)
THEOREM NeverKilledRunning == Spec => []HandledBeforeSpawn
<1>1. IInv => HandledBeforeSpawn
  BY DEF IInv, ExitInv, HandledBeforeSpawn, AllAbsent
<1> QED
  BY <1>1, Invariance, PTL

(* The immediate exit takes two signals, and the graceful order came first. *)
THEOREM TwoSignalsToEscalate == Spec => []EscalationNeedsTwo
<1>1. IInv => EscalationNeedsTwo
  BY DEF IInv, ExitInv, EscalationNeedsTwo
<1> QED
  BY <1>1, Invariance, PTL

-----------------------------------------------------------------------------
(***************************************************************************)
(* The deadline.  The clock starts with the fence, and until main returns  *)
(* each unit of time is taken from the fence.                              *)
(***************************************************************************)
FenceInv == pc \notin Returned => IF armed THEN age + fence = Grace ELSE age = 0

LEMMA FenceStep ==
    ASSUME IInv, FenceInv, [Next]_vars
    PROVE  FenceInv'
<1> USE DEF FenceInv, IInv, TypeOK
<1>1. ASSUME UNCHANGED <<armed, fence, age>>, pc' \notin Returned => pc \notin Returned
      PROVE  FenceInv'
  BY <1>1
<1>2. CASE ArmFence
  BY <1>2, SupervisorAssumption DEF ArmFence, bootVars, Returned
<1>3. CASE Elapse
  <2>1. pc' = pc /\ armed' = armed
    BY <1>3 DEF Elapse, bootVars
  <2>2. CASE pc \notin Returned
    <3>1. pc = "supervise" /\ armed /\ fence > 0
      BY <1>3, <2>2 DEF Elapse, MainReady, FenceDue
    <3>2. age + fence = Grace /\ age <= Grace
      BY <2>2, <3>1, SupervisorAssumption
    <3>3. age' = age + 1 /\ fence' = fence - 1
      BY <1>3, <3>1, <3>2 DEF Elapse
    <3> QED
      BY <2>1, <3>1, <3>2, <3>3, SupervisorAssumption
  <2> QED
    BY <2>1, <2>2
<1>4. CASE \/ Load \/ InstallHandler \/ BootFails \/ SpawnBridge \/ SpawnComponents
  <2>1. pc \notin Returned /\ UNCHANGED <<armed, fence, age>>
    BY <1>4 DEF Load, InstallHandler, BootFails, SpawnBridge, SpawnComponents,
       Loading, Fallible, Returned, fenceVars
  <2> QED
    BY <1>1, <2>1
<1>5. CASE \/ FenceFires \/ Return \/ DropTasks \/ Exit \/ Wedge \/ Unwedge \/ Gone
           \/ UNCHANGED vars
  BY <1>1, <1>5 DEF FenceFires, Return, DropTasks, Exit, Wedge, Unwedge, Gone,
     Returned, bootVars, fenceVars, vars
<1>6. ASSUME NEW s \in Signals, Signal(s) \/ BridgeFirst(s) \/ BridgeSecond(s)
      PROVE  FenceInv'
  BY <1>1, <1>6 DEF Signal, BridgeFirst, BridgeSecond, bootVars, fenceVars
<1>7. ASSUME NEW c \in Components, Supervise(c) PROVE FenceInv'
  BY <1>1, <1>7 DEF Supervise, bootVars, fenceVars
<1>8. ASSUME NEW c \in Components, NEW r \in {"ok", "err", "panic"}, Stop(c, r)
       PROVE  FenceInv'
  BY <1>1, <1>8 DEF Stop, bootVars, fenceVars
<1> QED
  BY <1>2, <1>3, <1>4, <1>5, <1>6, <1>7, <1>8 DEF Next, Main

(* Only the drop of the runtime, over a blocked worker, outlives the grace *)
(* that starts with the shutdown order; a component that hangs has had all *)
(* of it.                                                                  *)
THEOREM GraceIsExact == Spec => Deadline
<1> DEFINE A == /\ age' > age /\ age' > Grace => pc \in Returned /\ wedged
                /\ exit # "hang" /\ exit' = "hang" => age = Grace
<1>1. Init => FenceInv
  BY DEF Init, FenceInv
<1>2. IInv /\ FenceInv /\ [Next]_vars => FenceInv'
  BY FenceStep
<1>3. IInv /\ FenceInv /\ [Next]_vars => [A]_vars
  <2> SUFFICES ASSUME IInv, FenceInv, Next PROVE A
    OBVIOUS
  <2> USE DEF IInv, TypeOK
  <2>1. ASSUME age' > age, age' > Grace PROVE pc \in Returned /\ wedged
    <3>1. Elapse
      BY <2>1 DEF Next, Main, Load, InstallHandler, BootFails, SpawnBridge,
         SpawnComponents, ArmFence, FenceFires, Return, DropTasks, Exit, Supervise,
         Signal, BridgeFirst, BridgeSecond, Stop, Wedge, Unwedge, Gone, fenceVars, vars
    <3>2. pc \in Returned
      <4>1. SUFFICES ASSUME pc \notin Returned PROVE FALSE
        OBVIOUS
      <4>2. pc = "supervise" /\ armed /\ fence > 0
        BY <3>1, <4>1 DEF Elapse, MainReady, FenceDue
      <4>3. age + fence = Grace
        BY <4>1, <4>2 DEF FenceInv
      <4>4. age' = age + 1
        BY <2>1, <3>1 DEF Elapse
      <4> QED
        BY <2>1, <4>2, <4>3, <4>4, SupervisorAssumption
    <3> QED
      BY <3>1, <3>2 DEF Elapse, MainReady
  <2>2. ASSUME exit # "hang", exit' = "hang" PROVE age = Grace
    <3>1. FenceFires
      BY <2>2 DEF Next, Main, Load, InstallHandler, BootFails, SpawnBridge,
         SpawnComponents, ArmFence, Return, DropTasks, Exit, Supervise, Returned,
         Signal, BridgeFirst, BridgeSecond, Stop, Wedge, Unwedge, Elapse, Gone, vars
    <3> QED
      BY <3>1, SupervisorAssumption DEF FenceFires, FenceInv, Returned
  <2> QED
    BY <2>1, <2>2
<1> QED
  BY <1>1, <1>2, <1>3, Invariance, PTL DEF Spec, Deadline

=============================================================================
