----------------------------- MODULE HttpServer -----------------------------
(***************************************************************************)
(* The HTTP server of the stack, api/src/server.rs: bind, the accept loop, *)
(* the registry of watched connections and the graceful drain.  The        *)
(* connection machinery is hyper's and external; it is modelled as the     *)
(* code configures it, for HTTP/1: a head budget on the first request, the *)
(* request timeout of the middleware stack around the handler, keep-alive  *)
(* until the graceful order reaches the connection.                        *)
(*                                                                         *)
(* Time is discrete and its timers urgent: Elapse waits for every due      *)
(* timer, for every connection still to notice the drain, and for every    *)
(* response but those to slow readers (the socket's buffer takes them).    *)
(***************************************************************************)
EXTENDS Integers, FiniteSets

CONSTANTS
    Conns,       \* TCP connections, each used once
    Timeout,     \* server.timeout, the request's budget and the head's
    MaxOpen,     \* descriptors the process has left for connections
    SlowReaders  \* connections whose client may never read its response

ASSUME HttpServerAssumption ==
    /\ Timeout \in Nat \ {0}
    /\ MaxOpen \in Nat
    /\ SlowReaders \subseteq Conns

VARIABLES
    phase,     \* where Server::run stands
    shutdown,  \* the shutdown future has resolved
    conn,      \* the life of each connection
    left,      \* what remains of the timer of a connection, if it has one
    watched,   \* connections the GracefulShutdown registry waits for
    told,      \* connections the graceful order has reached
    drainTime  \* time since the drain began, cut off at DrainCap

connVars == <<conn, left, watched, told>>
vars     == <<phase, shutdown, conn, left, watched, told, drainTime>>

(* Bound on the drain's clock: one unit past twice the timeout. *)
DrainCap == 2 * Timeout + 1

(* none: not connected; backlog: the kernel's queue; fresh: accepted, not  *)
(* a byte read; head: the first head is coming in; idle: keep-alive, the   *)
(* next head awaited; closed: by the server; gone: by client or kernel.    *)
ConnStates == {"none", "backlog", "fresh", "head", "handling", "writing",
               "idle", "closed", "gone"}

Open  == {c \in Conns : conn[c] \in {"fresh", "head", "handling", "writing", "idle"}}
Timed == {c \in Conns : conn[c] \in {"head", "handling"}}

(* accept() needs a descriptor; without one it fails with EMFILE, at once  *)
(* and again and again, and the kernel keeps the connection in its queue.  *)
DescriptorFree == Cardinality(Open) < MaxOpen

Init ==
    /\ phase = "unbound" /\ shutdown = FALSE
    /\ conn = [c \in Conns |-> "none"]
    /\ left = [c \in Conns |-> 0]
    /\ watched = {} /\ told = {} /\ drainTime = 0

(* The connection moves on, without a timer. *)
Become(c, s) ==
    /\ conn' = [conn EXCEPT ![c] = s]
    /\ left' = [left EXCEPT ![c] = 0]

(* Bug variant: the head is left to hyper's own, longer, timeout. *)
BecomeDefaulted(c, s) ==
    /\ conn' = [conn EXCEPT ![c] = s]
    /\ left' = [left EXCEPT ![c] = IF s = "head" THEN Timeout + 1 ELSE Timeout]

(* The connection moves on under a timer of its own. *)
BecomeTimed(c, s) ==
    /\ conn' = [conn EXCEPT ![c] = s]
    /\ left' = [left EXCEPT ![c] = Timeout]

(* The connection's task ends, and its watcher with it. *)
Leave(c, s) == Become(c, s) /\ watched' = watched \ {c}

-----------------------------------------------------------------------------
(* Server::run *)

Bind ==
    /\ phase = "unbound"
    /\ phase' = "accepting"
    /\ UNCHANGED <<shutdown, connVars, drainTime>>

BindFails ==
    /\ phase = "unbound"
    /\ phase' = "failed"
    /\ UNCHANGED <<shutdown, connVars, drainTime>>

ShutdownFires ==
    /\ ~shutdown
    /\ shutdown' = TRUE
    /\ UNCHANGED <<phase, connVars, drainTime>>

(* Bug variant: the connection is spawned without being watched. *)
AcceptUnwatched(c) ==
    /\ phase = "accepting" /\ conn[c] = "backlog" /\ DescriptorFree
    /\ Become(c, "fresh")
    /\ UNCHANGED <<phase, shutdown, watched, told, drainTime>>

(* Watched before it is spawned: no drain can miss it. *)
Accept(c) ==
    /\ phase = "accepting" /\ conn[c] = "backlog" /\ DescriptorFree
    /\ Become(c, "fresh")
    /\ watched' = watched \cup {c}
    /\ UNCHANGED <<phase, shutdown, told, drainTime>>

(* Bug variant: an error of accept() ends the server. *)
AcceptErrorEnds(c) ==
    /\ phase = "accepting" /\ conn[c] = "backlog" /\ DescriptorFree
    /\ Become(c, "gone")
    /\ phase' = "failed"
    /\ UNCHANGED <<shutdown, watched, told, drainTime>>

(* accept() reports an aborted handshake; the loop continues. *)
AcceptFails(c) ==
    /\ phase = "accepting" /\ conn[c] = "backlog" /\ DescriptorFree
    /\ Become(c, "gone")
    /\ UNCHANGED <<phase, shutdown, watched, told, drainTime>>

(* The loop breaks (its select! may accept first, even with the order      *)
(* out); dropping the listener resets what the kernel still queues; then   *)
(* graceful.shutdown() sends the order.                                    *)
BeginDrain ==
    /\ phase = "accepting" /\ shutdown
    /\ phase' = "draining"
    /\ conn' = [c \in Conns |-> IF conn[c] = "backlog" THEN "gone" ELSE conn[c]]
    /\ UNCHANGED <<shutdown, left, watched, told, drainTime>>

(* Every watcher is gone. *)
Drained ==
    /\ phase = "draining" /\ watched = {}
    /\ phase' = "stopped"
    /\ UNCHANGED <<shutdown, connVars, drainTime>>

-----------------------------------------------------------------------------
(* One connection *)

Connect(c) ==
    /\ phase = "accepting" /\ conn[c] = "none"
    /\ Become(c, "backlog")
    /\ UNCHANGED <<phase, shutdown, watched, told, drainTime>>

(* The first bytes are in: header_read_timeout starts. *)
StartHead(c) ==
    /\ conn[c] = "fresh"
    /\ BecomeTimed(c, "head")
    /\ UNCHANGED <<phase, shutdown, watched, told, drainTime>>

(* The head is complete: the request enters the middleware stack. *)
StartRequest(c) ==
    /\ conn[c] \in {"head", "idle"}
    /\ BecomeTimed(c, "handling")
    /\ UNCHANGED <<phase, shutdown, watched, told, drainTime>>

HeadTimeout(c) ==
    /\ conn[c] = "head" /\ left[c] = 0
    /\ Leave(c, "closed")
    /\ UNCHANGED <<phase, shutdown, told, drainTime>>

(* The handler answers, or the request timeout answers for it. *)
Respond(c) ==
    /\ conn[c] = "handling"
    /\ Become(c, "writing")
    /\ UNCHANGED <<phase, shutdown, watched, told, drainTime>>

RequestTimeout(c) ==
    /\ conn[c] = "handling" /\ left[c] = 0
    /\ Become(c, "writing")
    /\ UNCHANGED <<phase, shutdown, watched, told, drainTime>>

(* Bug variant: keep-alive whatever the drain said. *)
FlushedKeepsAlive(c) ==
    /\ conn[c] = "writing"
    /\ Become(c, "idle")
    /\ UNCHANGED <<phase, shutdown, watched, told, drainTime>>

(* The response is out; the client may have asked for the close itself. *)
Flushed(c) ==
    /\ conn[c] = "writing"
    /\ \/ c \notin told /\ Become(c, "idle") /\ UNCHANGED watched
       \/ Leave(c, "closed")
    /\ UNCHANGED <<phase, shutdown, told, drainTime>>

(* The client closes, or hyper cuts an idle connection, or an error does. *)
PeerLeaves(c) ==
    /\ c \in Open
    /\ Leave(c, "gone")
    /\ UNCHANGED <<phase, shutdown, told, drainTime>>

(* Bug variant: the order cuts every connection that is not writing. *)
NoticeCuts(c) ==
    /\ phase = "draining" /\ c \in watched \ told
    /\ told' = told \cup {c}
    /\ IF conn[c] # "writing" THEN Leave(c, "closed") ELSE UNCHANGED <<conn, left, watched>>
    /\ UNCHANGED <<phase, shutdown, drainTime>>

(* Bug variant: the order disables keep-alive only. *)
NoticeSparesIdle(c) ==
    /\ phase = "draining" /\ c \in watched \ told
    /\ told' = told \cup {c}
    /\ UNCHANGED <<phase, shutdown, conn, left, watched, drainTime>>

(* The order reaches a connection: one that serves nothing closes, the     *)
(* others finish their request and lose keep-alive.                        *)
Notice(c) ==
    /\ phase = "draining" /\ c \in watched \ told
    /\ told' = told \cup {c}
    /\ IF conn[c] \in {"fresh", "idle"}
       THEN Leave(c, "closed")
       ELSE UNCHANGED <<conn, left, watched>>
    /\ UNCHANGED <<phase, shutdown, drainTime>>

-----------------------------------------------------------------------------
(* Time *)

NothingDue ==
    /\ \A c \in Timed : left[c] > 0
    /\ \A c \in Conns : conn[c] = "writing" => c \in SlowReaders
    /\ phase = "draining" => watched # {} /\ watched \subseteq told

TimersRun == phase = "draining" \/ Timed # {}

Elapse ==
    /\ NothingDue /\ TimersRun
    /\ left' = [c \in Conns |-> IF c \in Timed THEN left[c] - 1 ELSE left[c]]
    /\ drainTime' = IF phase = "draining" /\ drainTime < DrainCap
                    THEN drainTime + 1 ELSE drainTime
    /\ UNCHANGED <<phase, shutdown, conn, watched, told>>

Over == phase \in {"stopped", "failed"} /\ UNCHANGED vars

Connection(c) ==
    \/ Connect(c) \/ Accept(c) \/ AcceptFails(c)
    \/ StartHead(c) \/ StartRequest(c) \/ HeadTimeout(c)
    \/ Respond(c) \/ RequestTimeout(c) \/ Flushed(c)
    \/ PeerLeaves(c) \/ Notice(c)

Server == Bind \/ BindFails \/ ShutdownFires \/ BeginDrain \/ Drained

Next == Server \/ (\E c \in Conns : Connection(c)) \/ Elapse \/ Over

Spec == Init /\ [][Next]_vars

(* The runtime polls what is ready; clients owe nothing, except that the   *)
(* kernel takes a response from those that are not slow readers.           *)
Fairness ==
    /\ WF_vars(BeginDrain) /\ WF_vars(Drained) /\ WF_vars(Elapse)
    /\ \A c \in Conns :
        /\ WF_vars(Accept(c) \/ AcceptFails(c))
        /\ WF_vars(Notice(c)) /\ WF_vars(HeadTimeout(c)) /\ WF_vars(RequestTimeout(c))
        /\ c \notin SlowReaders => WF_vars(Flushed(c))

FairSpec == Spec /\ Fairness

-----------------------------------------------------------------------------
(* Properties *)

(* The state of Server::run and of the connections is well typed, and no   *)
(* timer runs longer than the configured timeout.                          *)
TypeOK ==
    /\ phase \in {"unbound", "accepting", "draining", "stopped", "failed"}
    /\ shutdown \in BOOLEAN
    /\ conn \in [Conns -> ConnStates]
    /\ left \in [Conns -> 0..Timeout]
    /\ watched \subseteq Conns
    /\ told \subseteq Conns
    /\ drainTime \in 0..DrainCap

(* The drain as serve() promises it, with the open connections in the      *)
(* place of the registry, and no fence of its own.                         *)
DrainStage ==
    CASE phase = "draining" -> "closing"
      [] phase = "stopped" -> "empty"
      [] OTHER -> "open"

ConnsDrain == INSTANCE Drain WITH
    Members <- Conns, Stragglers <- {}, MayGiveUp <- FALSE,
    inside <- Open, stage <- DrainStage

(* serve() "returns once all have drained": none is open then, and none    *)
(* sneaked in from the listener's queue after the loop.                    *)
ImplementsDrain == ConnsDrain!Spec

(* The server never cuts a request whose head it has read: it closes the   *)
(* connection only after the response (serve's doc comment).               *)
NoRequestCut ==
    [][\A c \in Conns : conn[c] = "handling" => conn'[c] # "closed"]_vars

(* Connections that only wait for their client to read its response.       *)
Stuck == {c \in SlowReaders : conn[c] = "writing"}

(* After two timeouts, one for a head that was coming in and one for the   *)
(* request it became, a drain waits for clients that do not read and for   *)
(* nothing else; if there is none, it is over.                             *)
DrainBound == drainTime > 2 * Timeout => Open \subseteq Stuck

(* Accept errors are transient (serve): a queued connection is taken, once *)
(* a descriptor is free, whatever accept() said before.                    *)
QueueMoves ==
    \A c \in Conns : conn[c] = "backlog" ~> conn[c] # "backlog" \/ ~DescriptorFree

(* The drain ends, whatever clients send on their keep-alive connections,  *)
(* and begins even while accept() fails without a pause (EMFILE).  A       *)
(* client that never reads its response holds it, and no other connection. *)
DrainEnds ==
    /\ phase = "accepting" /\ shutdown ~> phase # "accepting" /\ Open \subseteq Stuck
    /\ phase = "draining" /\ Open = {} ~> phase = "stopped"

=============================================================================
