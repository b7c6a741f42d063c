--------------------------- MODULE PipelineProofs ---------------------------
(***************************************************************************)
(* Proofs about Pipeline, for every finite set of requests, every mix of   *)
(* inputs, every timeout and every size of the pool.  The invariant says   *)
(* where an answer comes from (it is the way up of an outcome that the     *)
(* code below the layers can produce, under the id of the request), what   *)
(* the budget has left, and that a probe has seen the database as it is.   *)
(***************************************************************************)
EXTENDS Pipeline, TLAPS, FiniteSetTheorems

Waits == {"handler", "acquiring", "pinging"}

Stages == {"absent", "handler", "acquiring", "pinging", "answered", "torn", "gone"}

(* What reaches the layers from below. *)
Served == HandlerOutcomes \cup {Elapsed, Unreachable}

Outcomes == Served \cup {Immediate[t] : t \in DOMAIN Immediate}

(* What only the documentation's routes answer. *)
DocsOutcomes == {Response(303, "empty"), Response(200, "page"), Response(405, "empty")}

(* The id a request is known by. *)
Known(r) == IF ask[r].client = "sane" THEN "sane" ELSE "uuid"

Holders == {r \in Requests : st[r] = "pinging"}

AnswerInv ==
    \A r \in Requests :
        /\ st[r] # "absent" => id[r] = Known(r)
        /\ st[r] # "torn"
        /\ st[r] = "answered" => \E x \in Outcomes : res[r] = Up(x, id[r])
        /\ st[r] = "answered" => OnDocs(r) \/ InEnvelope(res[r])

BudgetInv ==
    \A r \in Requests :
        /\ st[r] = "absent" => age[r] = 0
        /\ st[r] \in Waits => left[r] \in Nat /\ age[r] + left[r] = Timeout

(* The answers to a probe, and how it comes to a good one. *)
ProbeInv ==
    \A r \in Requests :
        /\ st[r] \in {"acquiring", "pinging"} => db \in seen[r]
        /\ ask[r].target = "readyz" => st[r] # "handler"
        /\ /\ st[r] = "answered" /\ ask[r].target = "readyz" /\ res[r].status = 200
           => "up" \in seen[r]

(* The liveness probes never wait. *)
LiveInv ==
    \A r \in Requests : ask[r].target \in {"livez", "healthz"} =>
        /\ st[r] \notin Waits /\ age[r] = 0
        /\ st[r] = "answered" => res[r].status = 200

IInv == TypeOK /\ AnswerInv /\ BudgetInv /\ ProbeInv /\ LiveInv

-----------------------------------------------------------------------------
(* The operators *)

(* A route that answers at once does so like a handler, unless it is one   *)
(* of the exposed documentation.                                           *)
LEMMA ImmediateCases ==
    /\ DOMAIN Immediate = Targets \ {"handler", "readyz"}
    /\ \A t \in DOMAIN Immediate :
         /\ Immediate[t] \in Served \cup DocsOutcomes
         /\ ~(Docs /\ t \in DocsTargets \ {"openapi"}) => Immediate[t] \in Served
<1>1. Alright \in Served /\ IntoResponse(404) \in Served /\ IntoResponse(405) \in Served
  BY DEF Served, HandlerOutcomes, StatusCode
<1>2. DOMAIN OwnRoutes = {"livez", "healthz", "wrong_method"} /\ DOMAIN SwaggerUi = DocsTargets
  BY DEF OwnRoutes, SwaggerUi, DocsTargets
<1>3. \A t \in DOMAIN OwnRoutes : OwnRoutes[t] \in Served
  BY <1>1 DEF OwnRoutes
<1>4. \A t \in DocsTargets \ {"openapi"} : SwaggerUi[t] \in DocsOutcomes
  BY DEF SwaggerUi, DocsTargets, DocsOutcomes
<1>5. SwaggerUi["openapi"] \in Served
  BY <1>1 DEF SwaggerUi
<1>6. DOMAIN Immediate = Targets \ {"handler", "readyz"}
  BY DEF Immediate
<1>7. ASSUME NEW t \in DOMAIN Immediate
      PROVE  /\ t \in DOMAIN OwnRoutes => Immediate[t] = OwnRoutes[t]
             /\ /\ t \notin DOMAIN OwnRoutes /\ Docs /\ t \in DocsTargets
                => Immediate[t] = SwaggerUi[t]
             /\ /\ t \notin DOMAIN OwnRoutes /\ ~(Docs /\ t \in DocsTargets)
                => Immediate[t] = IntoResponse(404)
  BY <1>2, <1>6 DEF Immediate
<1> QED
  BY <1>1, <1>2, <1>3, <1>4, <1>5, <1>6, <1>7

(* Every outcome, on its way up, becomes an answer that is typed, carries  *)
(* the id and, when it is a server error, one of the fixed texts; one that *)
(* does not come from the documentation is in the JSON envelope.           *)
LEMMA UpAnswers ==
    ASSUME NEW x \in Outcomes, NEW i \in Ids
    PROVE  /\ Up(x, i) \in Results
           /\ Up(x, i).kind = "response" /\ Up(x, i).id = i
           /\ x \in Served => InEnvelope(Up(x, i))
           /\ Up(x, i).status >= 500 =>
                Up(x, i).body \in {Masked, "request timed out", "database unreachable"}
<1> DEFINE Sound(s, b) ==
             /\ s \in Statuses \ {0} /\ b \in Bodies \ {"none"}
             /\ s >= 500 => b \in {Masked, "request timed out", "database unreachable"}
           Fits(s, b) ==
             /\ Sound(s, b)
             /\ b \notin {"page", "empty"}
             /\ s < 400 <=> b = "ok"
           Answer(s, b) == [kind |-> "response", status |-> s, body |-> b, id |-> i]
<1>1. ASSUME NEW s, NEW b
      PROVE  Up(Response(s, b), i) = Answer(s, b)
  BY DEF Up, Caught, Handled, Propagated, Response
<1>2. ASSUME x \in Served
      PROVE  \E s, b : Fits(s, b) /\ Up(x, i) = Answer(s, b)
  <2>1. CASE x = Panic
    <3>1. Up(x, i) = Answer(500, Masked)
      BY <2>1 DEF Panic, Failure, Up, Caught, Handled, Propagated, Response
    <3>2. Fits(500, Masked)
      BY DEF Statuses, Bodies, Masked
    <3> QED
      BY <3>1, <3>2
  <2>2. CASE x = Elapsed
    <3>1. Up(x, i) = Answer(503, "request timed out")
      BY <2>2 DEF Elapsed, Failure, Up, Caught, Handled, Propagated, Response
    <3>2. Fits(503, "request timed out")
      BY DEF Statuses, Bodies, Masked
    <3> QED
      BY <3>1, <3>2
  <2>3. ASSUME NEW s, NEW b, Fits(s, b), x = Response(s, b)
        PROVE  \E t, c : Fits(t, c) /\ Up(x, i) = Answer(t, c)
    <3> HIDE DEF Fits, Answer
    <3> QED
      BY <1>1, <2>3
  <2>4. Fits(200, "ok") /\ Fits(503, "database unreachable")
    BY DEF Statuses, Bodies, Masked
  <2>5. ASSUME NEW s \in {400, 404, 405, 409, 413, 415, 422, 500}, x = IntoResponse(s)
        PROVE  \E b : Fits(s, b) /\ x = Response(s, b)
    <3>1. CASE s = 500
      <4>1. x = Response(500, Masked)
        BY <2>5, <3>1 DEF IntoResponse
      <4>2. Fits(500, Masked)
        BY DEF Statuses, Bodies, Masked
      <4> HIDE DEF Fits
      <4> QED
        BY <3>1, <4>1, <4>2
    <3>2. CASE s # 500
      <4>0. ~(s >= 500)
        BY <3>2
      <4>1. x = Response(s, "own text")
        BY <2>5, <4>0 DEF IntoResponse
      <4>2. Fits(s, "own text")
        BY <3>2 DEF Statuses, Bodies, Masked
      <4> HIDE DEF Fits
      <4> QED
        BY <4>1, <4>2
    <3> QED
      BY <3>1, <3>2
  <2>6. CASE x = Alright \/ x = Unreachable
    <3>1. x = Response(200, "ok") \/ x = Response(503, "database unreachable")
      BY <2>6 DEF Alright, Unreachable
    <3> HIDE DEF Fits, Answer
    <3>2. CASE x = Response(200, "ok")
      <4>1. Up(x, i) = Answer(200, "ok")
        BY <3>2, <1>1
      <4> QED
        BY <4>1, <2>4
    <3>3. CASE x = Response(503, "database unreachable")
      <4>1. Up(x, i) = Answer(503, "database unreachable")
        BY <3>3, <1>1
      <4> QED
        BY <4>1, <2>4
    <3> QED
      BY <3>1, <3>2, <3>3
  <2>7. CASE \E s \in UNION {StatusCode[e] : e \in DOMAIN StatusCode} : x = IntoResponse(s)
    <3>1. PICK s \in UNION {StatusCode[e] : e \in DOMAIN StatusCode} : x = IntoResponse(s)
      BY <2>7
    <3>2. s \in {400, 404, 405, 409, 413, 415, 422, 500}
      BY <3>1 DEF StatusCode
    <3> HIDE DEF Fits, Answer
    <3> QED
      BY <3>1, <3>2, <2>3, <2>5
  <2> QED
    BY <1>2, <2>1, <2>2, <2>6, <2>7 DEF Served, HandlerOutcomes
<1>3. ASSUME x \in DocsOutcomes
      PROVE  \E s, b : Sound(s, b) /\ Up(x, i) = Answer(s, b)
  <2>1. Sound(303, "empty") /\ Sound(200, "page") /\ Sound(405, "empty")
    BY DEF Statuses, Bodies
  <2>2. \E s, b : Sound(s, b) /\ x = Response(s, b)
    <3> HIDE DEF Sound
    <3> QED
      BY <1>3, <2>1 DEF DocsOutcomes
  <2> HIDE DEF Sound, Answer
  <2> QED
    BY <1>1, <2>2
<1>4. x \in Served \/ x \in DocsOutcomes
  BY ImmediateCases DEF Outcomes
<1>5. PICK s, b : /\ Sound(s, b) /\ Up(x, i) = Answer(s, b)
                  /\ x \in Served => Fits(s, b)
  <2> HIDE DEF Sound, Answer
  <2>1. CASE x \in Served
    BY <1>2, <2>1
  <2>2. CASE x \notin Served
    BY <1>3, <1>4, <2>2
  <2> QED
    BY <2>1, <2>2
<1>6. Up(x, i) = Answer(s, b)
  BY <1>5
<1>7. s \in Statuses \ {0} /\ b \in Bodies \ {"none"}
  BY <1>5
<1>8. /\ x \in Served => b \notin {"page", "empty"} /\ (s < 400 <=> b = "ok")
      /\ s >= 500 => b \in {Masked, "request timed out", "database unreachable"}
  BY <1>5
<1>9. Answer(s, b) \in Results
  BY <1>7 DEF Results
<1>10. /\ Answer(s, b).kind = "response" /\ Answer(s, b).id = i
       /\ Answer(s, b).status = s /\ Answer(s, b).body = b
  OBVIOUS
<1> HIDE DEF Sound, Fits, Answer
<1>11. Up(x, i).status = s /\ Up(x, i).body = b
  BY <1>6, <1>10
<1>12. Up(x, i) \in Results
  BY <1>6, <1>9
<1>13. Up(x, i).kind = "response" /\ Up(x, i).id = i
  BY <1>6, <1>10
<1>14. x \in Served => InEnvelope(Up(x, i))
  BY <1>8, <1>11 DEF InEnvelope
<1>15. Up(x, i).status >= 500 =>
         Up(x, i).body \in {Masked, "request timed out", "database unreachable"}
  BY <1>8, <1>11
<1> QED
  BY <1>12, <1>13, <1>14, <1>15

LEMMA DownKnown ==
    ASSUME NEW i \in ClientIds
    PROVE  Down(i) = (IF i = "sane" THEN "sane" ELSE "uuid") /\ Down(i) \in Ids
BY DEF Down, Assigned, Sanitized, ClientIds, Ids

(* Whatever goes up is an answer: no panic gets past the layers. *)
LEMMA YieldAnswers ==
    ASSUME NEW r \in Requests, NEW x \in Outcomes, NEW i \in Ids, Yield(r, x, i)
    PROVE  /\ st' = [st EXCEPT ![r] = "answered"]
           /\ res' = [res EXCEPT ![r] = Up(x, i)]
           /\ left' = [left EXCEPT ![r] = NoTimer]
           /\ wait' = [wait EXCEPT ![r] = NoTimer]
           /\ Up(x, i) \in Results
BY UpAnswers DEF Yield, Settle

LEMMA SomeOutcomes ==
    /\ Served \subseteq Outcomes
    /\ Alright \in Served /\ Elapsed \in Served /\ Unreachable \in Served
    /\ Alright \in Outcomes /\ Elapsed \in Outcomes /\ Unreachable \in Outcomes
    /\ \A t \in DOMAIN Immediate : Immediate[t] \in Outcomes
    /\ DOMAIN Immediate = Targets \ {"handler", "readyz"}
BY ImmediateCases DEF Outcomes, Served, HandlerOutcomes

(* What Arrive does, case by case. *)
LEMMA ArriveCases ==
    ASSUME TypeOK, NEW r \in Requests, Arrive(r)
    PROVE  /\ id' = [id EXCEPT ![r] = Known(r)] /\ Known(r) \in Ids
           /\ id'[r] = Known(r)
           /\ \/ ask[r].target = "handler" /\ Await(r, "handler", NoTimer)
              \/ ask[r].target = "readyz" /\ Await(r, "acquiring", AcquireTimeout)
              \/ /\ ask[r].target \in DOMAIN Immediate
                 /\ Yield(r, Immediate[ask[r].target], Known(r))
<1>1. ask[r].client \in ClientIds /\ ask[r].target \in Targets
  BY PipelineAssumption DEF TypeOK
<1>2. id' = [id EXCEPT ![r] = Known(r)] /\ Known(r) \in Ids /\ id'[r] = Known(r)
  <2>1. Down(ask[r].client) = Known(r) /\ Known(r) \in Ids
    BY <1>1, DownKnown DEF Known
  <2>2. id' = [id EXCEPT ![r] = Down(ask[r].client)]
    BY DEF Arrive
  <2> QED
    BY <2>1, <2>2 DEF TypeOK
<1>3. ask[r].target \notin {"handler"} \cup Pinging => ask[r].target \in DOMAIN Immediate
  BY <1>1, SomeOutcomes DEF Pinging
<1>4. \/ ask[r].target = "handler" /\ Await(r, "handler", NoTimer)
      \/ ask[r].target \in Pinging /\ Await(r, "acquiring", AcquireTimeout)
      \/ /\ ask[r].target \notin {"handler"} \cup Pinging
         /\ Yield(r, Immediate[ask[r].target], id'[r])
  BY DEF Arrive
<1>5. ask[r].target \in Pinging <=> ask[r].target = "readyz"
  BY DEF Pinging
<1> QED
  BY <1>2, <1>3, <1>4, <1>5

(* The steps that answer a request, with what they answer. *)
LEMMA Answering ==
    ASSUME TypeOK, NEW r \in Requests,
           HandlerEnds(r) \/ AcquireFails(r) \/ Ping(r) \/ TimeOut(r)
    PROVE  /\ r \in InProgress
           /\ \E x \in Served : Yield(r, x, id[r])
           /\ \E x \in Outcomes : Yield(r, x, id[r])
           /\ UNCHANGED <<ask, id, age, db, seen>>
<1>1. CASE HandlerEnds(r)
  BY <1>1 DEF HandlerEnds, Outcomes, Served, InProgress
<1>2. CASE AcquireFails(r)
  BY <1>2, SomeOutcomes DEF AcquireFails, InProgress
<1>3. CASE Ping(r)
  BY <1>3, SomeOutcomes DEF Ping, InProgress
<1>4. CASE TimeOut(r)
  BY <1>4, SomeOutcomes DEF TimeOut
<1> QED
  BY <1>1, <1>2, <1>3, <1>4

-----------------------------------------------------------------------------
(* Type correctness and the pool *)

(* Only a request that holds a connection frees one by leaving. *)
LEMMA HolderLeaves ==
    ASSUME TypeOK, NEW r \in Requests, NEW s, s # "pinging",
           st' = [st EXCEPT ![r] = s]
    PROVE  /\ st[r] = "pinging" => Cardinality(Holders') = Cardinality(Holders) - 1
           /\ st[r] # "pinging" => Holders' = Holders
           /\ Cardinality(Holders) \in Nat /\ Cardinality(Holders') \in Nat
<1>1. IsFiniteSet(Holders) /\ IsFiniteSet(Holders')
  BY PipelineAssumption, FS_Subset DEF Holders
<1>2. Holders' = Holders \ {r}
  BY DEF Holders, TypeOK
<1>3. st[r] = "pinging" => r \in Holders
  BY DEF Holders
<1>4. st[r] # "pinging" => r \notin Holders
  BY DEF Holders
<1> QED
  BY <1>1, <1>2, <1>3, <1>4, FS_RemoveElement, FS_CardinalityType

LEMMA HolderComes ==
    ASSUME TypeOK, NEW r \in Requests, st[r] # "pinging",
           st' = [st EXCEPT ![r] = "pinging"]
    PROVE  /\ Cardinality(Holders') = Cardinality(Holders) + 1
           /\ Cardinality(Holders) \in Nat
<1>1. IsFiniteSet(Holders)
  BY PipelineAssumption, FS_Subset DEF Holders
<1>2. Holders' = Holders \cup {r} /\ r \notin Holders
  BY DEF Holders, TypeOK
<1> QED
  BY <1>1, <1>2, FS_AddElement, FS_CardinalityType

LEMMA InitIInv == Init => IInv
<1> SUFFICES ASSUME Init PROVE IInv
  OBVIOUS
<1>1. InUse = 0
  <2>1. {r \in Requests : st[r] = "pinging"} = {}
    BY DEF Init
  <2> QED
    BY <2>1, FS_EmptySet DEF Init, InUse
<1>2. Failure("none") \in Results
  BY DEF Failure, Results, Statuses, Bodies, Ids, ClientIds
<1>3. TypeOK
  BY <1>1, <1>2, PipelineAssumption DEF Init, TypeOK, Ids, ClientIds, NoTimer, DbStates
<1>4. AnswerInv /\ BudgetInv /\ ProbeInv /\ LiveInv
  BY PipelineAssumption DEF Init, AnswerInv, BudgetInv, ProbeInv, LiveInv, Waits, NoTimer
<1> QED
  BY <1>3, <1>4 DEF IInv

(* The pool keeps to its size: a request that is dropped leaves its        *)
(* connection to the pool, one that is answered gives it back.             *)
LEMMA PoolStep ==
    ASSUME TypeOK, [Next]_vars
    PROVE  others' \in Nat /\ InUse' <= MaxConnections
<1> DEFINE Good == others' \in Nat /\ others' + Cardinality(Holders') <= MaxConnections
<1>0. /\ InUse = others + Cardinality(Holders) /\ InUse' = others' + Cardinality(Holders')
      /\ others \in Nat /\ others + Cardinality(Holders) <= MaxConnections
      /\ MaxConnections \in Nat /\ Cardinality(Holders) \in Nat
  BY PipelineAssumption, FS_Subset, FS_CardinalityType DEF InUse, Holders, TypeOK
<1> SUFFICES Good
  BY <1>0
<1>1. ASSUME NEW r \in Requests, Arrive(r) PROVE Good
  <2>1. others' = others /\ st[r] = "absent" /\ r \notin Holders
    BY <1>1 DEF Arrive, Holders
  <2>2. PICK s : s # "pinging" /\ st' = [st EXCEPT ![r] = s]
    <3>1. CASE Await(r, "handler", NoTimer) \/ Await(r, "acquiring", AcquireTimeout)
      BY <3>1 DEF Await
    <3>2. CASE \E x : Yield(r, x, Known(r))
      BY <3>2 DEF Yield, Settle
    <3> QED
      BY <1>1, <3>1, <3>2, ArriveCases
  <2>3. Holders' = Holders
    BY <2>1, <2>2, HolderLeaves
  <2> QED
    BY <2>1, <2>3, <1>0
<1>2. ASSUME NEW r \in Requests, HandlerEnds(r) \/ AcquireFails(r) \/ Ping(r) \/ TimeOut(r)
      PROVE  Good
  <2>1. PICK x \in Outcomes : Yield(r, x, id[r])
    BY <1>2, Answering
  <2>2. st' = [st EXCEPT ![r] = "answered"]
    BY <2>1, YieldAnswers DEF TypeOK
  <2>3. others' = others \/ (st[r] = "pinging" /\ others' = others + 1)
    <3>1. others' = others \/ others' = Orphaned(r)
      BY <1>2 DEF HandlerEnds, AcquireFails, Ping, TimeOut
    <3> QED
      BY <3>1, <1>0 DEF Orphaned
  <2>4. /\ st[r] = "pinging" => Cardinality(Holders') = Cardinality(Holders) - 1
        /\ st[r] # "pinging" => Holders' = Holders
    BY <2>2, HolderLeaves
  <2> QED
    BY <2>3, <2>4, <1>0
<1>3. ASSUME NEW r \in Requests, ClientLeaves(r) PROVE Good
  <2>1. st' = [st EXCEPT ![r] = "gone"]
    BY <1>3 DEF ClientLeaves, Settle
  <2>2. others' = others \/ (st[r] = "pinging" /\ others' = others + 1)
    <3>1. others' = Orphaned(r)
      BY <1>3 DEF ClientLeaves
    <3> QED
      BY <3>1, <1>0 DEF Orphaned
  <2>3. /\ st[r] = "pinging" => Cardinality(Holders') = Cardinality(Holders) - 1
        /\ st[r] # "pinging" => Holders' = Holders
    BY <2>1, HolderLeaves
  <2> QED
    BY <2>2, <2>3, <1>0
<1>4. ASSUME NEW r \in Requests, Acquire(r) PROVE Good
  <2>1. /\ st[r] # "pinging" /\ st' = [st EXCEPT ![r] = "pinging"]
        /\ others' = others /\ InUse < MaxConnections
    BY <1>4 DEF Acquire, FreeConnection
  <2>2. Cardinality(Holders') = Cardinality(Holders) + 1
    BY <2>1, HolderComes
  <2> QED
    BY <2>1, <2>2, <1>0
<1>5. CASE Borrow
  <2>1. st' = st /\ others' = others + 1 /\ InUse < MaxConnections
    BY <1>5 DEF Borrow, FreeConnection
  <2>2. Holders' = Holders
    BY <2>1 DEF Holders
  <2> QED
    BY <2>1, <2>2, <1>0
<1>6. CASE GiveBack
  <2>1. st' = st /\ others' = others - 1 /\ others > 0
    BY <1>6 DEF GiveBack
  <2>2. Holders' = Holders
    BY <2>1 DEF Holders
  <2> QED
    BY <2>1, <2>2, <1>0
<1>7. ASSUME UNCHANGED <<st, others>> PROVE Good
  <2>1. Holders' = Holders
    BY <1>7 DEF Holders
  <2> QED
    BY <1>7, <2>1, <1>0
<1>8. ASSUME NEW r \in Requests, Request(r) PROVE Good
  BY <1>1, <1>2, <1>3, <1>4, <1>8 DEF Request, Probe
<1>9. CASE Elapse \/ (\E s \in DbStates : DbBecomes(s)) \/ UNCHANGED vars
  <2>1. ASSUME NEW s \in DbStates, DbBecomes(s) PROVE UNCHANGED <<st, others>>
    BY <2>1 DEF DbBecomes
  <2>2. Elapse \/ UNCHANGED vars => UNCHANGED <<st, others>>
    BY DEF Elapse, vars
  <2> QED
    BY <1>9, <2>1, <2>2, <1>7
<1>10. \/ \E r \in Requests : Request(r)
       \/ Borrow \/ GiveBack
       \/ Elapse \/ (\E s \in DbStates : DbBecomes(s)) \/ UNCHANGED vars
  BY DEF Next, Environment
<1> HIDE DEF Good
<1> QED
  BY <1>5, <1>6, <1>8, <1>9, <1>10

(* The timers and the results of a request keep their types when it waits, *)
(* and when it ends.                                                       *)
LEMMA AwaitTyped ==
    ASSUME TypeOK, NEW r \in Requests, NEW s \in Waits, NEW w \in NoTimer..AcquireTimeout,
           Await(r, s, w)
    PROVE  /\ st' \in [Requests -> Stages] /\ res' \in [Requests -> Results]
           /\ left' \in [Requests -> NoTimer..Timeout]
           /\ wait' \in [Requests -> NoTimer..AcquireTimeout]
<1>1. Budget \in NoTimer..Timeout
  BY PipelineAssumption DEF Budget, NoTimer
<1> QED
  BY <1>1 DEF Await, TypeOK, Waits, Stages

LEMMA SettleTyped ==
    ASSUME TypeOK, NEW r \in Requests, NEW s \in {"answered", "gone"}, NEW x \in Results,
           st' = [st EXCEPT ![r] = s], res' = res \/ res' = [res EXCEPT ![r] = x],
           left' = [left EXCEPT ![r] = NoTimer], wait' = [wait EXCEPT ![r] = NoTimer]
    PROVE  /\ st' \in [Requests -> Stages] /\ res' \in [Requests -> Results]
           /\ left' \in [Requests -> NoTimer..Timeout]
           /\ wait' \in [Requests -> NoTimer..AcquireTimeout]
<1>1. NoTimer \in NoTimer..Timeout /\ NoTimer \in NoTimer..AcquireTimeout
  BY PipelineAssumption DEF NoTimer
<1> QED
  BY <1>1 DEF TypeOK, Stages

LEMMA TypeStep ==
    ASSUME TypeOK, [Next]_vars
    PROVE  TypeOK'
<1> DEFINE Data == /\ st' \in [Requests -> Stages] /\ res' \in [Requests -> Results]
                   /\ left' \in [Requests -> NoTimer..Timeout]
                   /\ wait' \in [Requests -> NoTimer..AcquireTimeout]
           Rest == /\ ask' \in [Requests -> Inputs] /\ id' \in [Requests -> Ids]
                   /\ age' \in [Requests -> 0..(Timeout + 1)] /\ db' \in DbStates
                   /\ seen' \in [Requests -> SUBSET DbStates]
<1> SUFFICES Data /\ Rest
  BY PoolStep DEF TypeOK, Stages
<1>1. ASSUME NEW r \in Requests, Arrive(r) PROVE Data /\ Rest
  <2>1. Rest
    BY <1>1, ArriveCases DEF Arrive, TypeOK
  <2>2. CASE Await(r, "handler", NoTimer)
    <3>1. NoTimer \in NoTimer..AcquireTimeout
      BY PipelineAssumption DEF NoTimer
    <3> QED
      BY <2>1, <2>2, <3>1, AwaitTyped DEF Waits
  <2>3. CASE Await(r, "acquiring", AcquireTimeout)
    <3>1. AcquireTimeout \in NoTimer..AcquireTimeout
      BY PipelineAssumption DEF NoTimer
    <3> QED
      BY <2>1, <2>3, <3>1, AwaitTyped DEF Waits
  <2>4. CASE /\ ask[r].target \in DOMAIN Immediate
             /\ Yield(r, Immediate[ask[r].target], Known(r))
    BY <1>1, <2>1, <2>4, ArriveCases, SomeOutcomes, YieldAnswers, SettleTyped
  <2> QED
    BY <1>1, <2>2, <2>3, <2>4, ArriveCases
<1>2. ASSUME NEW r \in Requests, HandlerEnds(r) \/ AcquireFails(r) \/ Ping(r) \/ TimeOut(r)
      PROVE  Data /\ Rest
  <2>1. PICK x \in Outcomes : Yield(r, x, id[r])
    BY <1>2, Answering
  <2>2. id[r] \in Ids
    BY DEF TypeOK
  <2>3. Data
    BY <2>1, <2>2, YieldAnswers, SettleTyped
  <2>4. Rest
    BY <1>2, Answering DEF TypeOK
  <2> QED
    BY <2>3, <2>4
<1>3. ASSUME NEW r \in Requests, ClientLeaves(r) PROVE Data /\ Rest
  <2>1. res[r] \in Results
    BY DEF TypeOK
  <2>2. Data
    BY <1>3, <2>1, SettleTyped DEF ClientLeaves, Settle
  <2>3. Rest
    BY <1>3 DEF ClientLeaves, TypeOK
  <2> QED
    BY <2>2, <2>3
<1>4. ASSUME NEW r \in Requests, Acquire(r) PROVE Data /\ Rest
  BY <1>4, PipelineAssumption DEF Acquire, TypeOK, Stages, NoTimer
<1>5. ASSUME NEW s \in DbStates, DbBecomes(s) PROVE Data /\ Rest
  <2>1. seen' \in [Requests -> SUBSET DbStates]
    BY <1>5 DEF DbBecomes, TypeOK
  <2> QED
    BY <1>5, <2>1 DEF DbBecomes, timeVars, TypeOK, Stages
<1>6. CASE Elapse
  <2>1. \A n \in NoTimer..Timeout : Less(n) \in NoTimer..Timeout
    BY PipelineAssumption DEF Less, NoTimer
  <2>2. \A n \in NoTimer..AcquireTimeout : Less(n) \in NoTimer..AcquireTimeout
    BY PipelineAssumption DEF Less, NoTimer
  <2>3. \A n \in 0..(Timeout + 1) : n <= Timeout => n + 1 \in 0..(Timeout + 1)
    BY PipelineAssumption
  <2>4. age' \in [Requests -> 0..(Timeout + 1)]
    BY <1>6, <2>3 DEF Elapse, TypeOK
  <2>5. /\ left' \in [Requests -> NoTimer..Timeout]
        /\ wait' \in [Requests -> NoTimer..AcquireTimeout]
    BY <1>6, <2>1, <2>2 DEF Elapse, TypeOK
  <2> QED
    BY <1>6, <2>4, <2>5 DEF Elapse, TypeOK, Stages
<1>7. CASE Borrow \/ GiveBack \/ UNCHANGED vars
  BY <1>7 DEF Borrow, GiveBack, timeVars, vars, TypeOK, Stages
<1> HIDE DEF Data, Rest
<1>8. ASSUME NEW r \in Requests, Request(r) PROVE Data /\ Rest
  BY <1>1, <1>2, <1>3, <1>4, <1>8 DEF Request, Probe
<1> QED
  BY <1>5, <1>6, <1>7, <1>8 DEF Next, Environment

-----------------------------------------------------------------------------
(* The answers *)

(* Steps that touch no request: the database, the pool, time. *)
LEMMA QuietSteps ==
    ASSUME Elapse \/ Environment \/ UNCHANGED vars
    PROVE  UNCHANGED <<ask, st, id, res>>
<1>1. ASSUME NEW s \in DbStates, DbBecomes(s) PROVE UNCHANGED <<ask, st, id, res>>
  BY <1>1 DEF DbBecomes
<1>2. Elapse \/ Borrow \/ GiveBack \/ UNCHANGED vars => UNCHANGED <<ask, st, id, res>>
  BY DEF Elapse, Borrow, GiveBack, vars
<1> QED
  BY <1>1, <1>2 DEF Environment

(* The steps of one request leave the others alone. *)
LEMMA OneRequest ==
    ASSUME TypeOK, NEW r \in Requests, Request(r), NEW q \in Requests, q # r
    PROVE  /\ ask' = ask /\ st'[q] = st[q] /\ id'[q] = id[q] /\ res'[q] = res[q]
           /\ age'[q] = age[q] /\ left'[q] = left[q] /\ seen'[q] = seen[q]
<1>1. CASE Arrive(r)
  BY <1>1, ArriveCases DEF Arrive, Await, Yield, Settle, TypeOK
<1>2. CASE HandlerEnds(r) \/ AcquireFails(r) \/ Ping(r) \/ TimeOut(r)
  <2>1. PICK x \in Outcomes : Yield(r, x, id[r])
    BY <1>2, Answering
  <2> QED
    BY <1>2, <2>1, Answering DEF Yield, Settle, TypeOK
<1>3. CASE ClientLeaves(r)
  BY <1>3 DEF ClientLeaves, Settle, TypeOK
<1>4. CASE Acquire(r)
  BY <1>4 DEF Acquire, TypeOK
<1> QED
  BY <1>1, <1>2, <1>3, <1>4 DEF Request, Probe

LEMMA AnswerStep ==
    ASSUME TypeOK, AnswerInv, [Next]_vars
    PROVE  AnswerInv'
<1> DEFINE A(q) == /\ st[q] # "absent" => id[q] = Known(q)
                   /\ st[q] # "torn"
                   /\ st[q] = "answered" => \E x \in Outcomes : res[q] = Up(x, id[q])
                   /\ st[q] = "answered" => OnDocs(q) \/ InEnvelope(res[q])
<1>0. \A q \in Requests : A(q)
  BY DEF AnswerInv
<1> SUFFICES ASSUME NEW q \in Requests PROVE A(q)'
  BY DEF AnswerInv
<1>1. ASSUME NEW r \in Requests, Request(r), q # r PROVE A(q)'
  BY <1>0, <1>1, OneRequest DEF Known, OnDocs
<1>2. CASE Arrive(q)
  <2>1. /\ id'[q] = Known(q) /\ ask' = ask /\ Known(q) \in Ids
    BY <1>2, ArriveCases DEF Arrive
  <2>2. CASE Await(q, "handler", NoTimer) \/ Await(q, "acquiring", AcquireTimeout)
    BY <2>1, <2>2 DEF Await, Known, TypeOK
  <2>3. CASE /\ ask[q].target \in DOMAIN Immediate
             /\ Yield(q, Immediate[ask[q].target], Known(q))
    <3>1. Immediate[ask[q].target] \in Outcomes
      BY <2>3, SomeOutcomes
    <3>2. st'[q] = "answered" /\ res'[q] = Up(Immediate[ask[q].target], Known(q))
      BY <2>1, <2>3, <3>1, YieldAnswers DEF TypeOK
    <3>3. ~OnDocs(q) => InEnvelope(res'[q])
      <4>1. ~OnDocs(q) => Immediate[ask[q].target] \in Served
        BY <2>3, ImmediateCases DEF OnDocs
      <4> QED
        BY <2>1, <3>1, <3>2, <4>1, UpAnswers
    <3> QED
      BY <2>1, <3>1, <3>2, <3>3 DEF Known, OnDocs
  <2> QED
    BY <1>2, <2>2, <2>3, ArriveCases
<1>3. CASE HandlerEnds(q) \/ AcquireFails(q) \/ Ping(q) \/ TimeOut(q)
  <2>1. PICK x \in Served : Yield(q, x, id[q])
    BY <1>3, Answering
  <2>2. id[q] \in Ids /\ st[q] # "absent" /\ UNCHANGED <<ask, id>>
    BY <1>3, Answering DEF TypeOK, InProgress
  <2>3. st'[q] = "answered" /\ res'[q] = Up(x, id[q])
    BY <2>1, <2>2, YieldAnswers, SomeOutcomes DEF TypeOK
  <2>4. InEnvelope(res'[q])
    <3>1. InEnvelope(Up(x, id[q]))
      BY <2>1, <2>2, UpAnswers, SomeOutcomes
    <3> QED
      BY <2>3, <3>1
  <2> QED
    BY <1>0, <2>2, <2>3, <2>4, SomeOutcomes DEF Known
<1>4. CASE ClientLeaves(q)
  BY <1>0, <1>4 DEF ClientLeaves, Settle, InProgress, TypeOK, Known
<1>5. CASE Acquire(q)
  BY <1>0, <1>5 DEF Acquire, TypeOK, Known
<1>6. CASE Elapse \/ Environment \/ UNCHANGED vars
  BY <1>0, <1>6, QuietSteps DEF Known, OnDocs
<1>7. CASE \E r \in Requests : Request(r)
  BY <1>1, <1>2, <1>3, <1>4, <1>5, <1>7 DEF Request, Probe
<1> QED
  BY <1>6, <1>7 DEF Next

(* A request that waits has used of its budget what has passed. *)
LEMMA BudgetStep ==
    ASSUME TypeOK, BudgetInv, [Next]_vars
    PROVE  BudgetInv'
<1> DEFINE B(q) == /\ st[q] = "absent" => age[q] = 0
                   /\ st[q] \in Waits => left[q] \in Nat /\ age[q] + left[q] = Timeout
<1>0. \A q \in Requests : B(q)
  BY DEF BudgetInv
<1> SUFFICES ASSUME NEW q \in Requests PROVE B(q)'
  BY DEF BudgetInv
<1>1. ASSUME NEW r \in Requests, Request(r), q # r PROVE B(q)'
  BY <1>0, <1>1, OneRequest
<1>2. CASE Arrive(q)
  <2>1. age'[q] = 0
    BY <1>0, <1>2 DEF Arrive
  <2>2. CASE Await(q, "handler", NoTimer) \/ Await(q, "acquiring", AcquireTimeout)
    <3>1. left'[q] = Timeout /\ st'[q] # "absent"
      BY <2>2 DEF Await, Budget, TypeOK
    <3> QED
      BY <2>1, <3>1, PipelineAssumption
  <2>3. CASE /\ ask[q].target \in DOMAIN Immediate
             /\ Yield(q, Immediate[ask[q].target], Known(q))
    <3>1. st'[q] \notin Waits
      BY <2>3 DEF Yield, Settle, TypeOK, Waits
    <3> QED
      BY <2>1, <3>1
  <2> QED
    BY <1>2, <2>2, <2>3, ArriveCases
<1>3. CASE HandlerEnds(q) \/ AcquireFails(q) \/ Ping(q) \/ TimeOut(q)
  <2>1. PICK x \in Outcomes : Yield(q, x, id[q])
    BY <1>3, Answering
  <2>2. st'[q] \notin Waits \cup {"absent"}
    BY <2>1 DEF Yield, Settle, TypeOK, Waits
  <2> QED
    BY <2>2
<1>4. CASE ClientLeaves(q)
  BY <1>4 DEF ClientLeaves, Settle, TypeOK, Waits
<1>5. CASE Acquire(q)
  BY <1>0, <1>5 DEF Acquire, TypeOK, Waits
<1>6. CASE Elapse
  <2>1. CASE q \in InProgress
    <3>1. left[q] \in Nat \ {0} /\ age[q] + left[q] = Timeout /\ age[q] \in Nat
      BY <1>0, <1>6, <2>1 DEF Elapse, NothingDue, InProgress, Waits, TypeOK
    <3>2. left'[q] = left[q] - 1 /\ age'[q] = age[q] + 1 /\ st'[q] = st[q]
      BY <1>6, <2>1, <3>1, PipelineAssumption DEF Elapse, Less, TypeOK
    <3> QED
      BY <2>1, <3>1, <3>2 DEF InProgress
  <2>2. CASE q \notin InProgress
    <3>1. age'[q] = age[q] /\ st'[q] = st[q] /\ st[q] \notin Waits
      BY <1>6, <2>2 DEF Elapse, InProgress, Waits, TypeOK
    <3> QED
      BY <1>0, <3>1
  <2> QED
    BY <2>1, <2>2
<1>7. CASE Environment \/ UNCHANGED vars
  <2>1. UNCHANGED <<st, left, age>>
    BY <1>7 DEF Environment, Borrow, GiveBack, DbBecomes, timeVars, vars
  <2> QED
    BY <1>0, <2>1
<1>8. CASE \E r \in Requests : Request(r)
  BY <1>1, <1>2, <1>3, <1>4, <1>5, <1>8 DEF Request, Probe
<1> QED
  BY <1>6, <1>7, <1>8 DEF Next

-----------------------------------------------------------------------------
(* The probes *)

LEMMA ProbeStep ==
    ASSUME TypeOK, ProbeInv, [Next]_vars
    PROVE  ProbeInv'
<1> DEFINE P(q) ==
        /\ st[q] \in {"acquiring", "pinging"} => db \in seen[q]
        /\ ask[q].target = "readyz" => st[q] # "handler"
        /\ /\ st[q] = "answered" /\ ask[q].target = "readyz" /\ res[q].status = 200
           => "up" \in seen[q]
<1>0. \A q \in Requests : P(q)
  BY DEF ProbeInv
<1> SUFFICES ASSUME NEW q \in Requests PROVE P(q)'
  BY DEF ProbeInv
<1>1. ASSUME NEW r \in Requests, Request(r), q # r PROVE P(q)'
  <2>1. db' = db
    <3>1. CASE HandlerEnds(r) \/ AcquireFails(r) \/ Ping(r) \/ TimeOut(r)
      BY <3>1, Answering
    <3> QED
      BY <1>1, <3>1 DEF Request, Probe, Arrive, Acquire, ClientLeaves
  <2> QED
    BY <1>0, <1>1, <2>1, OneRequest
<1>2. CASE Arrive(q)
  <2>1. seen'[q] = {db} /\ db' = db /\ ask' = ask
    BY <1>2 DEF Arrive, TypeOK
  <2>2. CASE Await(q, "handler", NoTimer) /\ ask[q].target = "handler"
    BY <2>1, <2>2 DEF Await, TypeOK
  <2>3. CASE Await(q, "acquiring", AcquireTimeout)
    BY <2>1, <2>3 DEF Await, TypeOK
  <2>4. CASE /\ ask[q].target \in DOMAIN Immediate
             /\ Yield(q, Immediate[ask[q].target], Known(q))
    <3>1. ask[q].target # "readyz"
      BY <2>4, SomeOutcomes
    <3>2. st'[q] \notin {"acquiring", "pinging"}
      BY <2>4 DEF Yield, Settle, TypeOK
    <3> QED
      BY <2>1, <3>1, <3>2
  <2> QED
    BY <1>2, <2>2, <2>3, <2>4, ArriveCases
<1>3. CASE HandlerEnds(q)
  <2>1. ask' = ask /\ seen' = seen /\ st'[q] \notin {"acquiring", "pinging", "handler"}
    BY <1>3 DEF HandlerEnds, Yield, Settle, TypeOK
  <2> QED
    BY <1>0, <1>3, <2>1 DEF HandlerEnds
<1>4. CASE AcquireFails(q) \/ TimeOut(q)
  <2>1. PICK x \in {Unreachable, Elapsed} : Yield(q, x, id[q])
    BY <1>4 DEF AcquireFails, TimeOut
  <2>2. Up(x, id[q]).status = 503
    <3>1. Up(Unreachable, id[q]).status = 503
      BY DEF Unreachable, Response, Up, Caught, Handled, Propagated
    <3>2. Up(Elapsed, id[q]).status = 503
      BY DEF Elapsed, Failure, Response, Up, Caught, Handled, Propagated
    <3> QED
      BY <2>1, <3>1, <3>2
  <2>3. st'[q] \notin {"acquiring", "pinging", "handler"} /\ res'[q].status = 503
    BY <2>1, <2>2 DEF Yield, Settle, TypeOK
  <2> QED
    BY <2>3
<1>5. CASE Ping(q)
  <2>1. /\ ask' = ask /\ seen' = seen /\ st[q] = "pinging"
        /\ st'[q] \notin {"acquiring", "pinging", "handler"}
    BY <1>5 DEF Ping, Yield, Settle, TypeOK
  <2>2. CASE db = "up"
    BY <1>0, <2>1, <2>2
  <2>3. CASE db # "up"
    <3>1. Up(Unreachable, id[q]).status = 503
      BY DEF Unreachable, Response, Up, Caught, Handled, Propagated
    <3>2. res'[q] = Up(Unreachable, id[q])
      BY <1>5, <2>3 DEF Ping, Yield, TypeOK
    <3> QED
      BY <2>1, <3>1, <3>2
  <2> QED
    BY <2>2, <2>3
<1>6. CASE ClientLeaves(q)
  BY <1>0, <1>6 DEF ClientLeaves, Settle, TypeOK
<1>7. CASE Acquire(q)
  BY <1>0, <1>7 DEF Acquire, TypeOK
<1>8. ASSUME NEW s \in DbStates, DbBecomes(s) PROVE P(q)'
  BY <1>0, <1>8 DEF DbBecomes, TypeOK
<1>9. CASE Elapse \/ Borrow \/ GiveBack \/ UNCHANGED vars
  <2>1. UNCHANGED <<ask, st, res, db, seen>>
    BY <1>9 DEF Elapse, Borrow, GiveBack, vars
  <2> QED
    BY <1>0, <2>1
<1>10. CASE \E r \in Requests : Request(r)
  BY <1>1, <1>2, <1>3, <1>4, <1>5, <1>6, <1>7, <1>10 DEF Request, Probe
<1> QED
  BY <1>8, <1>9, <1>10 DEF Next, Environment

LEMMA LiveStep ==
    ASSUME TypeOK, BudgetInv, LiveInv, [Next]_vars
    PROVE  LiveInv'
<1> DEFINE L(q) == ask[q].target \in {"livez", "healthz"} =>
                     /\ st[q] \notin Waits /\ age[q] = 0
                     /\ st[q] = "answered" => res[q].status = 200
<1>0. \A q \in Requests : L(q)
  BY DEF LiveInv
<1> SUFFICES ASSUME NEW q \in Requests PROVE L(q)'
  BY DEF LiveInv
<1>1. ASSUME NEW r \in Requests, Request(r), q # r PROVE L(q)'
  BY <1>0, <1>1, OneRequest
<1>2. CASE Arrive(q)
  <2>1. ask' = ask /\ age' = age
    BY <1>2 DEF Arrive
  <2>2. CASE ask[q].target \in {"livez", "healthz"}
    <3>1. Yield(q, Immediate[ask[q].target], Known(q))
      BY <1>2, <2>2, ArriveCases
    <3>2. Immediate[ask[q].target] = Alright
      BY <2>2 DEF Immediate, OwnRoutes, Targets
    <3>3. Up(Alright, Known(q)).status = 200
      BY DEF Alright, Response, Up, Caught, Handled, Propagated
    <3>4. st'[q] \notin Waits /\ res'[q].status = 200
      BY <3>1, <3>2, <3>3 DEF Yield, Settle, TypeOK, Waits
    <3> QED
      BY <1>0, <2>1, <2>2, <3>4
  <2>3. CASE ask[q].target \notin {"livez", "healthz"}
    BY <2>1, <2>3
  <2> QED
    BY <2>2, <2>3
<1>3. CASE HandlerEnds(q) \/ AcquireFails(q) \/ Ping(q) \/ TimeOut(q)
  <2>1. st[q] \in Waits /\ ask' = ask
    BY <1>3, Answering DEF InProgress, Waits
  <2> QED
    BY <1>0, <2>1
<1>4. CASE ClientLeaves(q) \/ Acquire(q)
  <2>1. st[q] \in Waits /\ ask' = ask
    BY <1>4 DEF ClientLeaves, Acquire, InProgress, Waits
  <2> QED
    BY <1>0, <2>1
<1>5. CASE Elapse \/ Environment \/ UNCHANGED vars
  <2>1. UNCHANGED <<ask, st, res>>
    BY <1>5, QuietSteps
  <2>2. st[q] \notin Waits => age'[q] = age[q]
    BY <1>5 DEF Elapse, Environment, Borrow, GiveBack, DbBecomes, timeVars, vars,
                InProgress, Waits, TypeOK
  <2> QED
    BY <1>0, <2>1, <2>2
<1>6. CASE \E r \in Requests : Request(r)
  BY <1>1, <1>2, <1>3, <1>4, <1>6 DEF Request, Probe
<1> QED
  BY <1>5, <1>6 DEF Next

-----------------------------------------------------------------------------
(* Theorems *)

THEOREM Invariance == Spec => []IInv
<1>1. Init => IInv
  BY InitIInv
<1>2. IInv /\ [Next]_vars => IInv'
  BY TypeStep, AnswerStep, BudgetStep, ProbeStep, LiveStep DEF IInv
<1> QED
  BY <1>1, <1>2, PTL DEF Spec

(* Requests, timers and the shared pool stay well typed: whoever drops a   *)
(* request that held a connection, the pool keeps to max_connections.      *)
THEOREM TypeCorrect == Spec => []TypeOK
<1>1. IInv => TypeOK
  BY DEF IInv
<1> QED
  BY <1>1, Invariance, PTL

(* What an answered request was given. *)
LEMMA GivenAnswer ==
    ASSUME IInv, NEW r \in Requests, st[r] = "answered"
    PROVE  /\ id[r] = Known(r) /\ id[r] \in Ids
           /\ \E x \in Outcomes : res[r] = Up(x, id[r])
BY DEF IInv, TypeOK, AnswerInv

(* Every answer of the API carries the id of its log lines, the client's   *)
(* if it was acceptable, on timeouts, panics and unknown paths too.        *)
THEOREM Correlation == Spec => []Correlated
<1>1. ASSUME IInv, NEW r \in Requests, st[r] = "answered"
      PROVE  res[r].id = id[r] /\ id[r] = Known(r)
  <2>1. PICK x \in Outcomes : res[r] = Up(x, id[r])
    BY <1>1, GivenAnswer
  <2>2. id[r] = Known(r) /\ id[r] \in Ids
    BY <1>1, GivenAnswer
  <2>3. Up(x, id[r]).id = id[r]
    BY <2>2, UpAnswers
  <2> QED
    BY <2>1, <2>2, <2>3
<1>2. IInv => Correlated
  BY <1>1 DEF Correlated, Known, SpanId
<1> QED
  BY <1>2, Invariance, PTL

(* Whatever a route, a handler, the timeout or a panic makes of a request, *)
(* its answer is JSON of the shape its status calls for, unless it was for *)
(* the pages of the exposed documentation.                                 *)
THEOREM AnswersAreJson == Spec => []JsonOnly
<1>1. IInv => JsonOnly
  BY DEF IInv, AnswerInv, JsonOnly
<1> QED
  BY <1>1, Invariance, PTL

(* What an error inside says never reaches a client: no panic gets past    *)
(* the layers, and every 5xx has one of three fixed texts, for every       *)
(* handler and every failure below it.                                     *)
THEOREM NothingLeaks == Spec => []NoLeak
<1>1. ASSUME IInv, NEW r \in Requests, st[r] = "answered", res[r].status >= 500
      PROVE  res[r].body \in {Masked, "request timed out", "database unreachable"}
  <2>1. PICK x \in Outcomes : res[r] = Up(x, id[r])
    BY <1>1, GivenAnswer
  <2>2. id[r] \in Ids
    BY <1>1, GivenAnswer
  <2> QED
    BY <1>1, <2>1, <2>2, UpAnswers
<1>2. IInv => NoLeak
  BY <1>1 DEF NoLeak, IInv, AnswerInv
<1> QED
  BY <1>2, Invariance, PTL

(* No request is in the stack for longer than server.timeout. *)
THEOREM RequestsAreBounded == Spec => [](\A r \in InProgress : age[r] <= Timeout)
<1>1. IInv => \A r \in InProgress : age[r] <= Timeout
  <2> SUFFICES ASSUME IInv, NEW r \in InProgress PROVE age[r] <= Timeout
    OBVIOUS
  <2>1. r \in Requests /\ st[r] \in Waits
    BY DEF InProgress, Waits
  <2>2. age[r] \in Nat /\ left[r] \in Nat /\ age[r] + left[r] = Timeout
    BY <2>1 DEF IInv, BudgetInv, TypeOK
  <2> QED
    BY <2>2, PipelineAssumption
<1> QED
  BY <1>1, Invariance, PTL

(* What each request has spent of its time in the stack. *)
Taken == [r \in Requests |-> IF r \in InProgress THEN age[r] ELSE 0]

LEMMA StackEntered ==
    ASSUME IInv, NEW r \in Requests, Arrive(r)
    PROVE  RequestsBox!Enter(r) \/ UNCHANGED <<InProgress, Taken>>
<1> USE DEF IInv, TypeOK
<1>1. age' = age /\ age[r] = 0 /\ r \notin InProgress
  BY DEF Arrive, BudgetInv, InProgress
<1>2. \A q \in Requests \ {r} : q \in InProgress' <=> q \in InProgress
  BY OneRequest DEF Request, InProgress
<1>3. Taken' = Taken
  BY <1>1, <1>2 DEF Taken
<1>4. InProgress' \in {InProgress, InProgress \cup {r}}
  BY <1>1, <1>2 DEF InProgress
<1> QED
  BY <1>1, <1>3, <1>4 DEF RequestsBox!Enter, Taken

LEMMA StackLeft ==
    ASSUME IInv, NEW r \in Requests, r \in InProgress, Request(r),
           st'[r] \notin Waits
    PROVE  RequestsBox!Leave(r)
<1> USE DEF IInv, TypeOK
<1>1. r \notin InProgress'
  BY DEF InProgress, Waits
<1>2. \A q \in Requests \ {r} : /\ q \in InProgress' <=> q \in InProgress
                                /\ age'[q] = age[q]
  BY OneRequest DEF InProgress
<1>3. InProgress' = InProgress \ {r}
  BY <1>1, <1>2 DEF InProgress
<1>4. Taken' = [Taken EXCEPT ![r] = 0]
  BY <1>1, <1>2 DEF Taken
<1> QED
  BY <1>3, <1>4 DEF RequestsBox!Leave, Taken

LEMMA StackTime ==
    ASSUME IInv, Elapse
    PROVE  RequestsBox!Pass
<1> USE PipelineAssumption DEF IInv, TypeOK
<1>1. InProgress' = InProgress
  BY DEF Elapse, InProgress
<1>2. \A r \in InProgress : age[r] < Timeout /\ age'[r] = age[r] + 1
  <2> SUFFICES ASSUME NEW r \in InProgress
               PROVE  age[r] < Timeout /\ age'[r] = age[r] + 1
    OBVIOUS
  <2>1. r \in Requests /\ left[r] \in Nat \ {0} /\ age[r] + left[r] = Timeout
    BY DEF Elapse, NothingDue, InProgress, Waits, BudgetInv
  <2>2. age[r] \in Nat /\ age[r] < Timeout
    BY <2>1
  <2> QED
    BY <2>1, <2>2 DEF Elapse
<1>3. Taken' = [r \in Requests |-> IF r \in InProgress THEN Taken[r] + 1 ELSE 0]
  BY <1>1, <1>2 DEF Taken
<1>4. \A r \in InProgress : Taken[r] < [q \in Requests |-> Timeout][r]
  BY <1>2 DEF Taken, InProgress
<1> QED
  BY <1>1, <1>3, <1>4 DEF RequestsBox!Pass, Taken

(* The stack gives every request server.timeout and no more, from the      *)
(* moment it comes in, whatever it waits for: it is the time box that      *)
(* HttpServer gives the requests of its connections.                       *)
THEOREM RequestsKeepTheirBudget == Spec => ImplementsTimeBox
<1>1. Init => RequestsBox!Init
  BY DEF Init, RequestsBox!Init, InProgress
<1>2. IInv /\ [Next]_vars => [RequestsBox!Next]_<<InProgress, Taken>>
  <2> SUFFICES ASSUME IInv, [Next]_vars
               PROVE  RequestsBox!Next \/ UNCHANGED <<InProgress, Taken>>
    OBVIOUS
  <2>1. CASE Environment \/ UNCHANGED vars
    <3>1. UNCHANGED <<st, age>>
      BY <2>1 DEF Environment, Borrow, GiveBack, DbBecomes, timeVars, vars
    <3> QED
      BY <3>1 DEF InProgress, Taken
  <2>2. CASE Elapse
    BY <2>2, StackTime DEF RequestsBox!Next
  <2>3. ASSUME NEW r \in Requests, Request(r)
        PROVE  RequestsBox!Next \/ UNCHANGED <<InProgress, Taken>>
    <3>1. CASE Arrive(r)
      BY <3>1, StackEntered DEF RequestsBox!Next
    <3>2. CASE HandlerEnds(r) \/ AcquireFails(r) \/ Ping(r) \/ TimeOut(r)
      <4>1. PICK x \in Outcomes : r \in InProgress /\ Yield(r, x, id[r])
        BY <3>2, Answering DEF IInv
      <4>2. st'[r] \notin Waits
        BY <4>1 DEF Yield, Settle, IInv, TypeOK, Waits
      <4> QED
        BY <2>3, <4>1, <4>2, StackLeft DEF RequestsBox!Next
    <3>3. CASE ClientLeaves(r)
      <4>1. r \in InProgress /\ st'[r] \notin Waits
        BY <3>3 DEF ClientLeaves, Settle, IInv, TypeOK, Waits
      <4> QED
        BY <2>3, <4>1, StackLeft DEF RequestsBox!Next
    <3>4. CASE Acquire(r)
      <4>1. age' = age /\ \A q \in Requests : q \in InProgress' <=> q \in InProgress
        BY <3>4 DEF Acquire, InProgress, IInv, TypeOK
      <4>2. InProgress' = InProgress
        BY <4>1 DEF InProgress
      <4> QED
        BY <4>1, <4>2 DEF Taken
    <3> QED
      BY <2>3, <3>1, <3>2, <3>3, <3>4 DEF Request, Probe
  <2> QED
    BY <2>1, <2>2, <2>3 DEF Next
<1> QED
  BY <1>1, <1>2, Invariance, PTL
     DEF Spec, ImplementsTimeBox, RequestsBox!Spec, RequestsBox!boxVars, Taken

(* The liveness probes answer 200 at once, whatever state the database and *)
(* the pool are in.                                                        *)
THEOREM LivenessIsIndependent == Spec => []AlwaysLive
<1>1. IInv => AlwaysLive
  BY DEF IInv, LiveInv, AlwaysLive
<1> QED
  BY <1>1, Invariance, PTL

(* A probe that reports ready had a database that was up meanwhile. *)
THEOREM ReadinessIsTrue == Spec => []ReadyMeansUp
<1>1. IInv => ReadyMeansUp
  BY DEF IInv, ProbeInv, ReadyMeansUp
<1> QED
  BY <1>1, Invariance, PTL

=============================================================================
