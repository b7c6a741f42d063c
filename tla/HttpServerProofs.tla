-------------------------- MODULE HttpServerProofs --------------------------
(***************************************************************************)
(* Proofs about HttpServer, for every set of connections and every         *)
(* timeout.  The registry is exactly the set of open connections; the      *)
(* bound on the drain follows from what each connection's timer still      *)
(* allows it.                                                              *)
(***************************************************************************)
EXTENDS HttpServer, TLAPS

Draining == phase \in {"draining", "stopped"}

(* The registry follows the open connections, and only an accepting server *)
(* has a queue of connections.                                             *)
RegistryInv ==
    /\ \A c \in Conns : c \in watched <=> c \in Open
    /\ \A c \in Conns : conn[c] = "backlog" => phase = "accepting"
    /\ phase = "stopped" => watched = {}

LEMMA InitInv == Init => TypeOK /\ RegistryInv
<1> SUFFICES ASSUME Init PROVE TypeOK /\ RegistryInv
  OBVIOUS
<1>1. /\ conn \in [Conns -> ConnStates] /\ left \in [Conns -> 0..Timeout]
      /\ drainTime \in 0..DrainCap /\ watched \subseteq Conns /\ told \subseteq Conns
  BY HttpServerAssumption DEF Init, ConnStates, DrainCap
<1>2. shutdown \in BOOLEAN
  BY DEF Init
<1>3. TypeOK
  BY <1>1, <1>2 DEF Init, TypeOK
<1>4. RegistryInv
  BY DEF Init, RegistryInv, Open
<1> QED
  BY <1>3, <1>4

LEMMA TypeStep ==
    ASSUME TypeOK, [Next]_vars
    PROVE  TypeOK'
<1> USE HttpServerAssumption DEF TypeOK, ConnStates
<1>1. CASE Bind \/ BindFails \/ BeginDrain \/ Drained
  BY <1>1 DEF Bind, BindFails, BeginDrain, Drained, connVars
<1>2. CASE ShutdownFires
  BY <1>2 DEF ShutdownFires, connVars
<1>3. ASSUME NEW c \in Conns, Connection(c) PROVE TypeOK'
  <2>1. ASSUME NEW s \in ConnStates, Become(c, s) \/ BecomeTimed(c, s)
        PROVE  conn' \in [Conns -> ConnStates] /\ left' \in [Conns -> 0..Timeout]
    BY <2>1 DEF Become, BecomeTimed
  <2>2. CASE Connect(c) \/ Accept(c) \/ AcceptFails(c)
    BY <2>1, <2>2 DEF Connect, Accept, AcceptFails
  <2>3. CASE StartHead(c) \/ StartRequest(c) \/ Respond(c) \/ RequestTimeout(c)
    BY <2>1, <2>3 DEF StartHead, StartRequest, Respond, RequestTimeout
  <2>4. CASE HeadTimeout(c) \/ Flushed(c) \/ PeerLeaves(c)
    BY <2>1, <2>4 DEF HeadTimeout, Flushed, PeerLeaves, Leave
  <2>5. CASE Notice(c)
    BY <2>1, <2>5 DEF Notice, Leave
  <2> QED
    BY <1>3, <2>2, <2>3, <2>4, <2>5 DEF Connection
<1>4. CASE Elapse
  <2>1. left' \in [Conns -> 0..Timeout]
    BY <1>4 DEF Elapse, NothingDue, Timed
  <2>2. drainTime' \in 0..DrainCap
    BY <1>4 DEF Elapse, DrainCap
  <2> QED
    BY <1>4, <2>1, <2>2 DEF Elapse
<1>5. CASE UNCHANGED vars
  BY <1>5 DEF vars
<1> QED
  BY <1>1, <1>2, <1>3, <1>4, <1>5 DEF Next, Server, Over

LEMMA RegistryStep ==
    ASSUME TypeOK, RegistryInv, [Next]_vars
    PROVE  RegistryInv'
<1> USE DEF TypeOK, RegistryInv, Open
<1>1. CASE Server
  BY <1>1 DEF Server, Bind, BindFails, ShutdownFires, BeginDrain, Drained, connVars
<1>2. ASSUME NEW c \in Conns, Connection(c) PROVE RegistryInv'
  <2>1. CASE Connect(c) \/ Accept(c) \/ AcceptFails(c)
    BY <2>1 DEF Connect, Accept, AcceptFails, Become
  <2>2. CASE StartHead(c) \/ StartRequest(c) \/ Respond(c) \/ RequestTimeout(c)
    BY <2>2 DEF StartHead, StartRequest, Respond, RequestTimeout, Become, BecomeTimed
  <2>3. CASE HeadTimeout(c) \/ Flushed(c) \/ PeerLeaves(c)
    BY <2>3 DEF HeadTimeout, Flushed, PeerLeaves, Leave, Become
  <2>4. CASE Notice(c)
    BY <2>4 DEF Notice, Leave, Become
  <2> QED
    BY <1>2, <2>1, <2>2, <2>3, <2>4 DEF Connection
<1>3. CASE Elapse \/ UNCHANGED vars
  BY <1>3 DEF Elapse, vars
<1> QED
  BY <1>1, <1>2, <1>3 DEF Next, Over

LEMMA Invariance == Spec => [](TypeOK /\ RegistryInv)
  BY InitInv, TypeStep, RegistryStep, PTL DEF Spec

(* The state of the server and of its connections is well typed in every   *)
(* reachable state: no timer runs longer than the configured timeout.      *)
THEOREM TypeCorrect == Spec => []TypeOK
  BY Invariance, PTL

(* The drain implements Drain, for every set of connections: no connection *)
(* joins it, and the server returns only when none is open.                *)
THEOREM DrainImplemented == Spec => ImplementsDrain
<1>1. Init => ConnsDrain!Init
  BY DEF Init, ConnsDrain!Init, Open, DrainStage
<1>2. TypeOK /\ RegistryInv /\ [Next]_vars => [ConnsDrain!Next]_<<Open, DrainStage>>
  <2> SUFFICES ASSUME TypeOK, RegistryInv, [Next]_vars
               PROVE  \/ ConnsDrain!Next
                      \/ UNCHANGED <<Open, DrainStage>>
    OBVIOUS
  <2> USE DEF TypeOK
  <2>1. ASSUME NEW c \in Conns, Connection(c), UNCHANGED Open
        PROVE  UNCHANGED <<Open, DrainStage>>
    BY <2>1 DEF Connection, Connect, Accept, AcceptFails, StartHead, StartRequest,
       HeadTimeout, Respond, RequestTimeout, Flushed, PeerLeaves, Notice, DrainStage
  <2>2. CASE Bind \/ BindFails \/ ShutdownFires \/ Elapse \/ UNCHANGED vars
    BY <2>2 DEF Bind, BindFails, ShutdownFires, Elapse, connVars, vars, Open, DrainStage
  <2>3. CASE BeginDrain
    <3>1. ConnsDrain!Close
      BY <2>3 DEF BeginDrain, ConnsDrain!Close, Open, DrainStage
    <3> QED
      BY <3>1 DEF ConnsDrain!Next
  <2>4. CASE Drained
    <3>1. ConnsDrain!Finish
      BY <2>4 DEF Drained, ConnsDrain!Finish, RegistryInv, Open, DrainStage, connVars
    <3> QED
      BY <3>1 DEF ConnsDrain!Next
  <2>5. ASSUME NEW c \in Conns, Accept(c) PROVE ConnsDrain!Next
    <3>1. ConnsDrain!Join(c)
      BY <2>5 DEF Accept, Become, ConnsDrain!Join, Open, DrainStage
    <3> QED
      BY <3>1 DEF ConnsDrain!Next
  <2>6. ASSUME NEW c \in Conns, NEW s \in {"closed", "gone"}, c \in Open, Leave(c, s),
               phase' = phase
        PROVE  ConnsDrain!Next
    <3>1. ConnsDrain!Leave(c)
      BY <2>6 DEF Leave, Become, ConnsDrain!Leave, Open, DrainStage
    <3> QED
      BY <3>1 DEF ConnsDrain!Next
  <2>7. ASSUME NEW c \in Conns, Connection(c)
        PROVE  ConnsDrain!Next \/ UNCHANGED <<Open, DrainStage>>
    <3>1. CASE Connect(c) \/ AcceptFails(c)
      BY <3>1, <2>1, <2>7 DEF Connect, AcceptFails, Become, Open
    <3>2. CASE StartHead(c) \/ StartRequest(c) \/ Respond(c) \/ RequestTimeout(c)
      BY <3>2, <2>1, <2>7 DEF StartHead, StartRequest, Respond, RequestTimeout, Become,
         BecomeTimed, Open
    <3>3. CASE HeadTimeout(c)
      BY <3>3, <2>6 DEF HeadTimeout, Open
    <3>4. CASE PeerLeaves(c)
      BY <3>4, <2>6 DEF PeerLeaves
    <3>5. CASE Flushed(c)
      <4>1. CASE Become(c, "idle") /\ phase' = phase
        BY <3>5, <4>1 DEF Flushed, Become, Open, DrainStage
      <4>2. CASE Leave(c, "closed") /\ phase' = phase
        BY <3>5, <4>2, <2>6 DEF Flushed, Open
      <4> QED
        BY <3>5, <4>1, <4>2 DEF Flushed
    <3>6. CASE Notice(c)
      <4>1. CASE conn[c] \in {"fresh", "idle"}
        BY <3>6, <4>1, <2>6 DEF Notice, Open
      <4>2. CASE conn[c] \notin {"fresh", "idle"}
        BY <3>6, <4>2, <2>1, <2>7 DEF Notice, Open
      <4> QED
        BY <4>1, <4>2
    <3> QED
      BY <2>5, <2>7, <3>1, <3>2, <3>3, <3>4, <3>5, <3>6 DEF Connection
  <2> QED
    BY <2>2, <2>3, <2>4, <2>7 DEF Next, Server, Over
<1> QED
  BY <1>1, <1>2, Invariance, PTL
     DEF Spec, ImplementsDrain, ConnsDrain!Spec, ConnsDrain!drainVars

(* The server never closes a connection over a request it is handling.     *)
THEOREM RequestsAreAnswered == Spec => NoRequestCut
<1> DEFINE A == \A c \in Conns : conn[c] = "handling" => conn'[c] # "closed"
<1>1. TypeOK /\ [Next]_vars => [A]_vars
  <2> SUFFICES ASSUME TypeOK, Next, NEW c \in Conns, conn[c] = "handling"
               PROVE  conn'[c] # "closed"
    OBVIOUS
  <2> USE DEF TypeOK
  <2>1. CASE Server \/ Elapse \/ Over
    BY <2>1 DEF Server, Bind, BindFails, ShutdownFires, BeginDrain, Drained, connVars,
       Elapse, Over, vars
  <2>2. ASSUME NEW d \in Conns, Connection(d) PROVE conn'[c] # "closed"
    BY <2>2 DEF Connection, Connect, Accept, AcceptFails, StartHead, StartRequest,
       HeadTimeout, Respond, RequestTimeout, Flushed, PeerLeaves, Notice,
       Leave, Become, BecomeTimed
  <2> QED
    BY <2>1, <2>2 DEF Next
<1> QED
  BY <1>1, Invariance, PTL DEF Spec, NoRequestCut

-----------------------------------------------------------------------------
(***************************************************************************)
(* The length of a drain.  A connection the order has reached is past its  *)
(* last idle moment; what its timer still allows, added to the drain's     *)
(* clock, stays within one timeout in the head and two in the handler.     *)
(***************************************************************************)
ClockInv ==
    /\ ~Draining => drainTime = 0 /\ told = {}
    /\ \A c \in told : conn[c] \notin {"none", "backlog", "fresh", "idle"}
    /\ \A c \in Open \ told : drainTime = 0
    /\ \A c \in Conns : /\ conn[c] = "head" => drainTime + left[c] <= Timeout
                        /\ conn[c] = "handling" => drainTime + left[c] <= 2 * Timeout
                        /\ conn[c] = "writing" /\ c \notin SlowReaders =>
                             drainTime <= 2 * Timeout

LEMMA ClockStep ==
    ASSUME TypeOK, RegistryInv, ClockInv, [Next]_vars
    PROVE  ClockInv'
<1> USE HttpServerAssumption DEF TypeOK, ClockInv, Open
<1>1. CASE Server
  BY <1>1 DEF Server, Bind, BindFails, ShutdownFires, BeginDrain, Drained, connVars,
     Draining
<1>2. ASSUME NEW c \in Conns, Connection(c) PROVE ClockInv'
  <2>1. CASE Connect(c) \/ Accept(c) \/ AcceptFails(c)
    BY <2>1 DEF Connect, Accept, AcceptFails, Become, Draining
  <2>2. CASE StartHead(c)
    BY <2>2 DEF StartHead, BecomeTimed, Draining
  <2>3. CASE StartRequest(c)
    <3>1. drainTime <= Timeout
      BY <2>3 DEF StartRequest
    <3> QED
      BY <2>3, <3>1 DEF StartRequest, BecomeTimed, Draining
  <2>4. CASE Respond(c) \/ RequestTimeout(c)
    BY <2>4 DEF Respond, RequestTimeout, Become, Draining
  <2>5. CASE HeadTimeout(c) \/ Flushed(c) \/ PeerLeaves(c)
    BY <2>5 DEF HeadTimeout, Flushed, PeerLeaves, Leave, Become, Draining
  <2>6. CASE Notice(c)
    BY <2>6 DEF Notice, Leave, Become, Draining, RegistryInv
  <2> QED
    BY <1>2, <2>1, <2>2, <2>3, <2>4, <2>5, <2>6 DEF Connection
<1>3. CASE Elapse
  <2>1. \A c \in Conns : conn[c] \in {"head", "handling"} => left'[c] = left[c] - 1
    BY <1>3 DEF Elapse, Timed
  <2>2. \A c \in Conns : conn[c] = "writing" => c \in SlowReaders
    BY <1>3 DEF Elapse, NothingDue
  <2>3. drainTime' \in {drainTime, drainTime + 1}
    BY <1>3 DEF Elapse
  <2>4. CASE phase = "draining"
    <3>1. Open \subseteq told
      BY <1>3, <2>4 DEF Elapse, NothingDue, RegistryInv
    <3> QED
      BY <1>3, <2>1, <2>2, <2>3, <2>4, <3>1 DEF Elapse, Draining
  <2>5. CASE phase # "draining"
    <3>1. drainTime' = drainTime
      BY <1>3, <2>5 DEF Elapse
    <3> QED
      BY <1>3, <2>1, <2>2, <2>5, <3>1 DEF Elapse, Draining
  <2> QED
    BY <2>4, <2>5
<1>4. CASE UNCHANGED vars
  BY <1>4 DEF vars, Draining
<1> QED
  BY <1>1, <1>2, <1>3, <1>4 DEF Next, Over

(* A drain lasts at most twice the configured timeout, however many        *)
(* connections are open, but for clients that do not read.                 *)
THEOREM DrainIsBounded == Spec => []DrainBound
<1>1. Init => ClockInv
  BY HttpServerAssumption DEF Init, ClockInv, Open, Draining
<1>2. TypeOK /\ RegistryInv /\ ClockInv /\ [Next]_vars => ClockInv'
  BY ClockStep
<1>3. TypeOK /\ ClockInv => DrainBound
  BY HttpServerAssumption DEF TypeOK, ClockInv, DrainBound, Open, Stuck
<1> QED
  BY <1>1, <1>2, <1>3, Invariance, PTL DEF Spec

=============================================================================
