----------------------------- MODULE CronProofs -----------------------------
(***************************************************************************)
(* Proofs about Cron, for every roster, set of ticks, policy, budget and   *)
(* fence.  The inductive invariant ties the four places that know of a     *)
(* run, its state, the tracker's token, the permit and the timers, to each *)
(* other: none of the properties is inductive without it.                  *)
(***************************************************************************)
EXTENDS Cron, TLAPS

(* The tracker follows exactly the live ticks. *)
TrackerExact == \A t \in Ticks : t \in tracked <=> Live(t)

(* A permit is out exactly while a run of the job holds it. *)
GateExact ==
    \A j \in Jobs : permits[j] = 0 <=> \E t \in Ticks : JobOf[t] = j /\ Holds(t)

(* The tracker is closed from the drain on, with the tick loop stopped. *)
ClosedAfterStop ==
    /\ closed <=> phase \in {"draining", "stopped"}
    /\ closed => engine = "stopped"

IInv ==
    /\ TypeOK
    /\ TrackerExact
    /\ GateExact
    /\ NoSelfOverlap
    /\ ClosedAfterStop

LEMMA InitIInv == Init => IInv
<1> SUFFICES ASSUME Init PROVE IInv
  OBVIOUS
<1> USE CronAssumption DEF Init
<1>1. TypeOK
  <2>1. st \in [Ticks -> TickStates] /\ left \in [Ticks -> Nat] /\ tracked \subseteq Ticks
    BY DEF TickStates
  <2>2. permits \in [Jobs -> 0..1] /\ drainLeft \in 0..DrainGrace
    OBVIOUS
  <2>3. shutdown \in BOOLEAN /\ closed \in BOOLEAN /\ expired \in BOOLEAN
    OBVIOUS
  <2> QED
    BY <2>1, <2>2, <2>3 DEF TypeOK
<1>2. TrackerExact /\ NoSelfOverlap /\ ClosedAfterStop
  BY DEF TrackerExact, NoSelfOverlap, ClosedAfterStop, Live, Holds
<1>3. GateExact
  BY DEF GateExact, Holds
<1> QED
  BY <1>1, <1>2, <1>3 DEF IInv

(***************************************************************************)
(* A step of Server::run or of the clock leaves the runs where they are.   *)
(***************************************************************************)
LEMMA ServerStep ==
    ASSUME IInv, Server
    PROVE  IInv'
<1> USE CronAssumption
<1>1. ASSUME UNCHANGED runVars PROVE TrackerExact' /\ GateExact' /\ NoSelfOverlap'
  BY <1>1 DEF runVars, IInv, TrackerExact, GateExact, NoSelfOverlap, Live, Holds
<1>2. CASE StartEngine \/ StartFails \/ ShutdownFires \/ StopFails \/ Drained \/ DrainExpires
  <2>1. UNCHANGED runVars
    BY <1>2 DEF StartEngine, StartFails, ShutdownFires, StopFails, Drained, DrainExpires
  <2>2. shutdown' \in BOOLEAN /\ expired' \in BOOLEAN /\ UNCHANGED <<closed, drainLeft>>
    BY <1>2 DEF StartEngine, StartFails, ShutdownFires, StopFails, Drained, DrainExpires,
       fenceVars, IInv, TypeOK
  <2>3. /\ phase' \in {"built", "running", "draining", "stopped", "failed"}
        /\ engine' \in {"idle", "ticking", "stopped"}
    BY <1>2 DEF StartEngine, StartFails, ShutdownFires, StopFails, Drained, DrainExpires,
       IInv, TypeOK
  <2>4. TypeOK'
    BY <2>1, <2>2, <2>3 DEF runVars, IInv, TypeOK
  <2>5. ClosedAfterStop'
    BY <1>2, <2>2 DEF StartEngine, StartFails, ShutdownFires, StopFails, Drained,
       DrainExpires, IInv, ClosedAfterStop
  <2> QED
    BY <1>1, <2>1, <2>4, <2>5 DEF IInv
<1>3. CASE StopEngine
  <2>1. st' \in [Ticks -> TickStates]
    BY <1>3 DEF StopEngine, InFlightTicks, IInv, TypeOK, TickStates
  <2>2. \A t \in Ticks : (Live(t))' = Live(t) /\ (Holds(t))' = Holds(t)
    BY <1>3 DEF StopEngine, InFlightTicks, IInv, TypeOK, Live, Holds
  <2>3. TypeOK'
    BY <1>3, <2>1 DEF StopEngine, IInv, TypeOK
  <2>4. TrackerExact' /\ ClosedAfterStop'
    BY <1>3, <2>2 DEF StopEngine, IInv, TrackerExact, ClosedAfterStop
  <2>5. GateExact'
    BY <1>3, <2>2 DEF StopEngine, IInv, GateExact
  <2>6. NoSelfOverlap'
    BY <2>2 DEF IInv, NoSelfOverlap
  <2> QED
    BY <2>3, <2>4, <2>5, <2>6 DEF IInv
<1> QED
  BY <1>2, <1>3 DEF Server

LEMMA ElapseStep ==
    ASSUME IInv, Elapse
    PROVE  IInv'
<1>1. \A n \in Nat : Monus(n) \in Nat /\ Monus(n) <= n
  BY DEF Monus
<1>2. left' \in [Ticks -> Nat] /\ drainLeft' \in 0..DrainGrace
  BY <1>1, CronAssumption DEF Elapse, IInv, TypeOK
<1> QED
  BY <1>2 DEF Elapse, IInv, TypeOK, TrackerExact, GateExact, NoSelfOverlap,
     ClosedAfterStop, Live, Holds

(***************************************************************************)
(* A step of a tick.  Every action but DispatchAcquired and Release leaves *)
(* the gates alone.                                                        *)
(***************************************************************************)
LEMMA ReleaseKeeps ==
    ASSUME IInv, NEW t \in Ticks, st[t] = "running", Release(t),
           UNCHANGED <<phase, engine, shutdown, fenceVars>>
    PROVE  IInv'
<1> USE CronAssumption DEF IInv
<1>1. \A u \in Ticks : (Live(u))' = (Live(u) /\ u # t) /\ (Holds(u))' = (Holds(u) /\ u # t)
  BY DEF Release, TypeOK, Live, Holds
<1>2. TrackerExact' /\ NoSelfOverlap' /\ ClosedAfterStop'
  BY <1>1 DEF Release, TrackerExact, NoSelfOverlap, ClosedAfterStop, fenceVars
<1>3. CASE Holds(t)
  <2>1. permits[JobOf[t]] = 0
    BY <1>3 DEF GateExact
  <2>2. permits' = [permits EXCEPT ![JobOf[t]] = 1]
    BY <1>3, <2>1 DEF Release
  <2>3. TypeOK'
    <3>1. permits' \in [Jobs -> 0..1]
      BY <2>2 DEF TypeOK
    <3> QED
      BY <3>1 DEF Release, TypeOK, TickStates, fenceVars
  <2>4. ASSUME NEW j \in Jobs
        PROVE  permits'[j] = 0 <=> \E u \in Ticks : JobOf[u] = j /\ (Holds(u))'
    <3>1. CASE j = JobOf[t]
      <4>1. permits'[j] = 1
        BY <2>2, <3>1 DEF TypeOK
      <4>2. \A u \in Ticks : JobOf[u] = j => ~(Holds(u))'
        BY <1>1, <1>3, <3>1 DEF NoSelfOverlap
      <4> QED
        BY <4>1, <4>2
    <3>2. CASE j # JobOf[t]
      BY <1>1, <2>2, <3>2 DEF GateExact, TypeOK
    <3> QED
      BY <3>1, <3>2
  <2> QED
    BY <1>2, <2>3, <2>4 DEF GateExact
<1>4. CASE ~Holds(t)
  <2>1. permits' = permits
    BY <1>4 DEF Release
  <2>2. TypeOK'
    BY <2>1 DEF Release, TypeOK, TickStates, fenceVars
  <2>3. \A u \in Ticks : (Holds(u))' <=> Holds(u)
    BY <1>1, <1>4
  <2>4. GateExact'
    BY <2>1, <2>3 DEF GateExact
  <2> QED
    BY <1>2, <2>2, <2>4
<1> QED
  BY <1>3, <1>4

LEMMA TickStep ==
    ASSUME IInv, NEW t \in Ticks, Tick(t)
    PROVE  IInv'
<1> USE CronAssumption DEF IInv
<1>1. CASE Fire(t) \/ Adapt(t) \/ DispatchSkipped(t)
  <2>1. TypeOK'
    BY <1>1 DEF Fire, Adapt, DispatchSkipped, TypeOK, TickStates, fenceVars
  <2>2. \A u \in Ticks : (Holds(u))' = Holds(u)
    BY <1>1 DEF Fire, Adapt, DispatchSkipped, TypeOK, Holds
  <2>3. TrackerExact'
    BY <1>1 DEF Fire, Adapt, DispatchSkipped, TypeOK, TrackerExact, Live
  <2>4. GateExact' /\ NoSelfOverlap' /\ ClosedAfterStop'
    BY <1>1, <2>2 DEF Fire, Adapt, DispatchSkipped, GateExact, NoSelfOverlap,
       ClosedAfterStop, fenceVars
  <2> QED
    BY <2>1, <2>3, <2>4
<1>2. CASE DispatchAllow(t)
  <2>1. TypeOK'
    BY <1>2 DEF DispatchAllow, Execute, TypeOK, TickStates, fenceVars
  <2>2. \A u \in Ticks : (Holds(u))' = Holds(u) /\ (Live(u))' = Live(u)
    BY <1>2 DEF DispatchAllow, Execute, TypeOK, Holds, Live
  <2> QED
    BY <1>2, <2>1, <2>2 DEF DispatchAllow, Execute, TrackerExact, GateExact,
       NoSelfOverlap, ClosedAfterStop, fenceVars
<1>3. CASE DispatchAcquired(t)
  <2>1. permits[JobOf[t]] = 1 /\ permits' = [permits EXCEPT ![JobOf[t]] = 0]
    <3>1. JobOf[t] \in Jobs /\ permits \in [Jobs -> 0..1] /\ permits[JobOf[t]] > 0
      BY <1>3 DEF DispatchAcquired, TypeOK
    <3>2. permits[JobOf[t]] = 1
      BY <3>1
    <3> QED
      BY <1>3, <3>2 DEF DispatchAcquired
  <2>2. TypeOK'
    BY <1>3, <2>1 DEF DispatchAcquired, Execute, TypeOK, TickStates, fenceVars
  <2>3. \A u \in Ticks : (Holds(u))' = (Holds(u) \/ u = t) /\ (Live(u))' = Live(u)
    BY <1>3 DEF DispatchAcquired, Execute, TypeOK, Holds, Live
  <2>4. \A u \in Ticks : JobOf[u] = JobOf[t] => ~Holds(u)
    BY <2>1 DEF GateExact
  <2>5. TrackerExact' /\ NoSelfOverlap' /\ ClosedAfterStop'
    BY <1>3, <2>3, <2>4 DEF DispatchAcquired, Execute, TrackerExact, NoSelfOverlap,
       ClosedAfterStop, fenceVars
  <2>6. GateExact'
    BY <2>1, <2>3 DEF GateExact, TypeOK
  <2> QED
    BY <2>2, <2>5, <2>6
<1>4. CASE BodyEnds(t) \/ TimeOut(t)
  BY <1>4, ReleaseKeeps DEF BodyEnds, TimeOut
<1> QED
  BY <1>1, <1>2, <1>3, <1>4 DEF Tick

LEMMA StepIInv == IInv /\ [Next]_vars => IInv'
<1> SUFFICES ASSUME IInv, [Next]_vars PROVE IInv'
  OBVIOUS
<1>1. CASE UNCHANGED vars
  BY <1>1 DEF vars, IInv, TypeOK, TrackerExact, GateExact, NoSelfOverlap,
     ClosedAfterStop, Live, Holds
<1> QED
  BY <1>1, ServerStep, TickStep, ElapseStep DEF Next, Over

LEMMA Invariance == Spec => []IInv
  BY InitIInv, StepIInv, PTL DEF Spec

(* The state of the cron engine is well typed in every reachable state; in *)
(* particular no gate ever counts more than one permit.                    *)
THEOREM TypeCorrect == Spec => []TypeOK
<1>1. IInv => TypeOK
  BY DEF IInv
<1> QED
  BY <1>1, Invariance, PTL

(* No job with Overlap::Skip ever runs twice at once, for any roster and   *)
(* any schedule of ticks.                                                  *)
THEOREM OneRunPerSkipJob == Spec => []NoSelfOverlap
<1>1. IInv => NoSelfOverlap
  BY DEF IInv
<1> QED
  BY <1>1, Invariance, PTL

(* A tick is skipped only while a run of its job is in flight: no end of a *)
(* run, not even the budget's, leaks the slot.                             *)
THEOREM NoSlotLeak == Spec => SkipOnlyWhileRunning
<1> DEFINE A == \A t \in Ticks :
                   st[t] = "spawned" /\ st'[t] = "skipped" =>
                       \E u \in Ticks : JobOf[u] = JobOf[t] /\ st[u] = "running"
<1>1. IInv /\ [Next]_vars => [A]_vars
  <2> SUFFICES ASSUME IInv, Next, NEW t \in Ticks,
                      st[t] = "spawned", st'[t] = "skipped"
               PROVE  \E u \in Ticks : JobOf[u] = JobOf[t] /\ st[u] = "running"
    OBVIOUS
  <2> USE CronAssumption DEF IInv, TypeOK
  <2>1. ~Server /\ ~Elapse /\ ~Over
    BY DEF Server, StartEngine, StartFails, ShutdownFires, StopEngine, InFlightTicks,
       StopFails, Drained, DrainExpires, Elapse, Over, runVars, vars
  <2>2. PICK u \in Ticks : Tick(u)
    BY <2>1 DEF Next
  <2>3. DispatchSkipped(t)
    BY <2>2 DEF Tick, Fire, Adapt, DispatchAllow, DispatchAcquired, DispatchSkipped,
       Execute, BodyEnds, TimeOut, Release
  <2> QED
    BY <2>3 DEF DispatchSkipped, GateExact, Holds
<1> QED
  BY <1>1, Invariance, PTL DEF Spec, SkipOnlyWhileRunning

-----------------------------------------------------------------------------
(***************************************************************************)
(* The drain: a tick that has not reached the adapter when                 *)
(* JobScheduler::shutdown returns never does, unless it is a late one.     *)
(***************************************************************************)

(* Nothing but late ticks is on its way to a closed tracker. *)
DrainInv ==
    /\ closed => \A t \in Ticks \ Late : st[t] # "fired"
    /\ expired => phase = "stopped"

LEMMA StepDrainInv ==
    ASSUME IInv, DrainInv, [Next]_vars
    PROVE  DrainInv'
<1> USE CronAssumption DEF IInv, TypeOK
<1>1. CASE UNCHANGED vars
  BY <1>1 DEF vars, DrainInv
<1>2. CASE Server
  BY <1>2 DEF Server, StartEngine, StartFails, ShutdownFires, StopEngine, InFlightTicks,
     StopFails, Drained, DrainExpires, WaitResolves, runVars, fenceVars,
     DrainInv, ClosedAfterStop
<1>3. ASSUME NEW t \in Ticks, Tick(t) PROVE DrainInv'
  BY <1>3 DEF Tick, Fire, Adapt, DispatchAllow, DispatchAcquired, DispatchSkipped,
     Execute, BodyEnds, TimeOut, Release, fenceVars, DrainInv, ClosedAfterStop
<1>4. CASE Elapse
  BY <1>4 DEF Elapse, DrainInv
<1> QED
  BY <1>1, <1>2, <1>3, <1>4 DEF Next, Over

LEMMA DrainInvariance == Spec => []DrainInv
<1>1. Init => DrainInv
  BY DEF Init, DrainInv
<1>2. IInv /\ DrainInv /\ [Next]_vars => DrainInv'
  BY StepDrainInv
<1> QED
  BY <1>1, <1>2, Invariance, PTL DEF Spec

(* The drain implements Drain, for every roster and schedule: no run but   *)
(* that of a late tick joins it, and when Server::run returns either the   *)
(* fence elapsed over the runs that are left or there is none.             *)
THEOREM DrainImplemented == Spec => ImplementsDrain
<1> DEFINE Lives == {t \in Ticks : Live(t)}
<1>1. Init => RunsDrain!Init
  BY DEF Init, RunsDrain!Init, Live, DrainStage
<1>2. IInv /\ DrainInv /\ [Next]_vars => [RunsDrain!Next]_<<Lives, DrainStage>>
  <2> SUFFICES ASSUME IInv, DrainInv, [Next]_vars
               PROVE  \/ RunsDrain!Next
                      \/ UNCHANGED <<Lives, DrainStage>>
    OBVIOUS
  <2> USE DEF IInv, TypeOK
  <2>1. CASE \/ StartEngine \/ StartFails \/ ShutdownFires \/ StopFails \/ Elapse
             \/ UNCHANGED vars
    BY <2>1 DEF StartEngine, StartFails, ShutdownFires, StopFails, Elapse, runVars,
       fenceVars, vars, Live, DrainStage
  <2>2. CASE StopEngine
    <3>1. \A t \in Ticks : (Live(t))' = Live(t)
      BY <2>2 DEF StopEngine, InFlightTicks, Live
    <3>2. Lives' = Lives
      BY <3>1
    <3>3. DrainStage = "open" /\ DrainStage' = "closing"
      BY <2>2 DEF StopEngine, DrainStage
    <3>4. RunsDrain!Close
      BY <3>2, <3>3 DEF RunsDrain!Close
    <3> QED
      BY <3>4 DEF RunsDrain!Next
  <2>3. CASE Drained
    <3>1. Lives = {} /\ Lives' = Lives
      BY <2>3 DEF Drained, WaitResolves, runVars, TrackerExact, Live
    <3>2. DrainStage = "closing" /\ DrainStage' = "empty"
      BY <2>3 DEF Drained, DrainInv, fenceVars, DrainStage
    <3>3. RunsDrain!Finish
      BY <3>1, <3>2 DEF RunsDrain!Finish
    <3> QED
      BY <3>3 DEF RunsDrain!Next
  <2>4. CASE DrainExpires
    <3>1. Lives # {} /\ Lives' = Lives
      BY <2>4 DEF DrainExpires, WaitResolves, runVars, TrackerExact, ClosedAfterStop, Live
    <3>2. DrainStage = "closing" /\ DrainStage' = "gaveup"
      BY <2>4 DEF DrainExpires, DrainStage
    <3>3. RunsDrain!GiveUp
      BY <3>1, <3>2 DEF RunsDrain!GiveUp
    <3> QED
      BY <3>3 DEF RunsDrain!Next
  <2>5. ASSUME NEW t \in Ticks, Tick(t)
        PROVE  RunsDrain!Next \/ UNCHANGED <<Lives, DrainStage>>
    <3>1. DrainStage' = DrainStage
      BY <2>5 DEF Tick, Fire, Adapt, DispatchAllow, DispatchAcquired, DispatchSkipped,
         BodyEnds, TimeOut, fenceVars, DrainStage
    <3>2. CASE Fire(t) \/ DispatchAllow(t) \/ DispatchAcquired(t)
      <4>1. \A u \in Ticks : (Live(u))' = Live(u)
        BY <3>2 DEF Fire, DispatchAllow, DispatchAcquired, Execute, Live
      <4> QED
        BY <3>1, <4>1
    <3>3. CASE Adapt(t)
      <4>1. \A u \in Ticks : (Live(u))' = (Live(u) \/ u = t)
        BY <3>3 DEF Adapt, Live
      <4>2. Lives' = Lives \cup {t} /\ t \notin Lives
        BY <3>3, <4>1 DEF Adapt, Live
      <4>3. DrainStage = "open" \/ t \in Late
        BY <3>3 DEF Adapt, DrainInv, ClosedAfterStop, DrainStage
      <4>4. RunsDrain!Join(t)
        BY <3>1, <4>2, <4>3 DEF RunsDrain!Join
      <4> QED
        BY <4>4 DEF RunsDrain!Next
    <3>4. CASE DispatchSkipped(t) \/ BodyEnds(t) \/ TimeOut(t)
      <4>1. /\ Live(t)
            /\ \A u \in Ticks : (Live(u))' = (Live(u) /\ u # t)
        BY <3>4 DEF DispatchSkipped, BodyEnds, TimeOut, Release, Live
      <4>2. Lives' = Lives \ {t} /\ t \in Lives
        BY <4>1
      <4>3. RunsDrain!Leave(t)
        BY <3>1, <4>2 DEF RunsDrain!Leave
      <4> QED
        BY <4>3 DEF RunsDrain!Next
    <3> QED
      BY <2>5, <3>2, <3>3, <3>4 DEF Tick
  <2> QED
    BY <2>1, <2>2, <2>3, <2>4, <2>5 DEF Next, Server, Over
<1> QED
  BY <1>1, <1>2, Invariance, DrainInvariance, PTL
     DEF Spec, ImplementsDrain, RunsDrain!Spec, RunsDrain!drainVars

-----------------------------------------------------------------------------
(***************************************************************************)
(* What the drain fence would have to satisfy for its expiry to mean what  *)
(* Server::run says: no budget longer than the fence.                      *)
(***************************************************************************)

(* A running tick never has more than its budget left, nor, during the     *)
(* drain, more than the fence, unless it came late; the fence does not     *)
(* move before the ticks already spawned have had their first poll.        *)
FitInv ==
    /\ \A t \in Ticks : left[t] <= Budget[JobOf[t]]
    /\ phase = "draining" =>
        \A t \in Ticks \ Late : /\ st[t] = "running" => left[t] <= drainLeft
                                /\ st[t] = "spawned" => drainLeft = DrainGrace

LEMMA StepFitInv ==
    ASSUME \A j \in Jobs : Budget[j] <= DrainGrace,
           IInv, DrainInv, FitInv, [Next]_vars
    PROVE  FitInv'
<1> USE CronAssumption DEF IInv, TypeOK
<1>1. CASE UNCHANGED vars
  BY <1>1 DEF vars, FitInv
<1>2. CASE StartEngine \/ StartFails \/ ShutdownFires \/ StopFails \/ Drained \/ DrainExpires
  BY <1>2 DEF StartEngine, StartFails, ShutdownFires, StopFails, Drained, DrainExpires,
     runVars, fenceVars, FitInv
<1>3. CASE StopEngine
  <2>1. \A t \in Ticks : left'[t] <= Budget[JobOf[t]] /\ Budget[JobOf[t]] <= DrainGrace
    BY <1>3 DEF StopEngine, FitInv
  <2> QED
    BY <1>3, <2>1 DEF StopEngine, InFlightTicks, FitInv
<1>4. ASSUME NEW t \in Ticks, Fire(t) \/ Adapt(t) \/ DispatchSkipped(t) PROVE FitInv'
  BY <1>4 DEF Fire, Adapt, DispatchSkipped, fenceVars, FitInv, DrainInv, ClosedAfterStop
<1>5. ASSUME NEW t \in Ticks, DispatchAllow(t) \/ DispatchAcquired(t) PROVE FitInv'
  <2>1. left' = [left EXCEPT ![t] = Budget[JobOf[t]]] /\ st' = [st EXCEPT ![t] = "running"]
    BY <1>5 DEF DispatchAllow, DispatchAcquired, Execute
  <2>2. st[t] = "spawned" /\ drainLeft' = drainLeft /\ phase' = phase
    BY <1>5 DEF DispatchAllow, DispatchAcquired, fenceVars
  <2> QED
    BY <2>1, <2>2 DEF FitInv
<1>6. ASSUME NEW t \in Ticks, BodyEnds(t) \/ TimeOut(t) PROVE FitInv'
  BY <1>6 DEF BodyEnds, TimeOut, Release, fenceVars, FitInv
<1>7. CASE Elapse
  <2>1. \A m, n \in Nat : m <= n => Monus(m) <= Monus(n) /\ Monus(m) <= n
    BY DEF Monus
  <2>2. \A t \in Ticks : st[t] # "spawned"
    BY <1>7 DEF Elapse, NothingDue
  <2>3. \A t \in Ticks : left'[t] = Monus(left[t]) /\ left[t] \in Nat
    BY <1>7 DEF Elapse
  <2>4. phase = "draining" => drainLeft' = Monus(drainLeft) /\ drainLeft \in Nat
    BY <1>7 DEF Elapse
  <2>5. \A t \in Ticks : left'[t] <= Budget[JobOf[t]]
    BY <2>1, <2>3 DEF FitInv
  <2>6. phase' = "draining" =>
            \A t \in Ticks \ Late : st'[t] = "running" => left'[t] <= drainLeft'
    BY <1>7, <2>1, <2>3, <2>4 DEF Elapse, FitInv
  <2> QED
    BY <1>7, <2>2, <2>5, <2>6 DEF Elapse, FitInv
<1> QED
  BY <1>1, <1>2, <1>3, <1>4, <1>5, <1>6, <1>7 DEF Next, Server, Tick, Over

(* If no budget exceeds the drain fence, the fence elapses only over a run *)
(* that outlived its own budget or came late.  The defaults, 300 s and     *)
(* 30 s, break the hypothesis.                                             *)
THEOREM ExpiryNeedsOverrun ==
    ASSUME \A j \in Jobs : Budget[j] <= DrainGrace
    PROVE  Spec => ExpiryMeansOverrun
<1> DEFINE A == ~expired /\ expired' =>
                   \E t \in tracked : t \in Late \/ (st[t] = "running" /\ left[t] = 0)
<1>1. Init => FitInv
  BY CronAssumption DEF Init, FitInv
<1>2. IInv /\ DrainInv /\ FitInv /\ [Next]_vars => FitInv'
  BY StepFitInv
<1>3. IInv /\ FitInv /\ [Next]_vars => [A]_vars
  <2> SUFFICES ASSUME IInv, FitInv, Next, ~expired, expired'
               PROVE  \E t \in tracked : t \in Late \/ (st[t] = "running" /\ left[t] = 0)
    OBVIOUS
  <2>1. DrainExpires
    BY DEF Next, Server, StartEngine, StartFails, ShutdownFires, StopEngine, StopFails,
       Drained, Tick, Fire, Adapt, DispatchAllow, DispatchAcquired, DispatchSkipped,
       BodyEnds, TimeOut, Elapse, Over, fenceVars, vars
  <2>2. PICK t \in tracked : Live(t)
    BY <2>1 DEF DrainExpires, WaitResolves, IInv, TypeOK, TrackerExact, ClosedAfterStop
  <2>3. t \notin Late => st[t] = "running" /\ left[t] <= 0
    BY <2>1, <2>2, CronAssumption DEF DrainExpires, Live, FitInv, IInv, TypeOK
  <2> QED
    BY <2>3 DEF IInv, TypeOK
<1> QED
  BY <1>1, <1>2, <1>3, Invariance, DrainInvariance, PTL DEF Spec, ExpiryMeansOverrun

=============================================================================
