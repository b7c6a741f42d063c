--------------------------- MODULE MigrationProofs --------------------------
(* Proofs about Migration, for any replicas, CLIs, builds and crashes.     *)
EXTENDS Migration, TLAPS

(* The holders of the lock are the replicas past it, one at most.          *)
LockInv ==
    /\ \A r \in Replicas : r \in lock <=> pc[r] \in {"locked", "running"}
    /\ lock \subseteq Replicas
    /\ \A r, s \in lock : r = s

(* What a replica has read goes stale only through a CLI, the one that     *)
(* committed last: this is why a collision, or a schema of another build,  *)
(* is the CLI's doing.                                                     *)
StaleInv ==
    \A r \in Replicas : pc[r] = "running" /\ applied > done[r] =>
        \E c \in Clis : pc[c] = "up" /\ Known[c] = applied

(* The schema is the work of a process that is up since. *)
OwnerInv == applied > 0 => \E s \in Runners : pc[s] = "up" /\ Known[s] = applied

Types ==
    /\ applied \in Nat
    /\ pc \in [Runners -> States]
    /\ done \in [Runners -> Nat]
    /\ crashes \in 0..MaxCrashes

Blamed == (\E r \in Replicas : pc[r] = "collided") => \E c \in Clis : pc[c] = "up"

Inv == Types /\ LockInv /\ StaleInv /\ OwnerInv /\ Blamed

LEMMA InitInv == Init => Inv
  <1> SUFFICES ASSUME Init PROVE Inv
    OBVIOUS
  <1>1. Types
    BY MigrationAssumption DEF Init, Types, States
  <1>2. LockInv /\ StaleInv /\ OwnerInv /\ Blamed
    BY DEF Init, LockInv, StaleInv, OwnerInv, Blamed, Runners
  <1> QED
    BY <1>1, <1>2 DEF Inv

(* Whatever a process does, one CLI that is up stays up. *)
LEMMA UpForGood ==
  ASSUME Inv, NEW r \in Runners, Begin(r) \/ Run(r) \/ Crash(r),
         NEW c \in Runners, pc[c] = "up"
  PROVE  pc'[c] = "up"
  <1> USE DEF Inv, Types
  <1>1. CASE Begin(r)
    BY <1>1 DEF Begin
  <1>2. CASE Acquire(r) \/ Plan(r)
    BY <1>2 DEF Acquire, Plan, ReadyToRead
  <1>3. CASE Refuse(r) \/ Collide(r) \/ Commit(r) \/ Crash(r)
    BY <1>3 DEF Refuse, Collide, Commit, Crash, Finish, ReadyToRead, InTransaction
  <1>4. CASE Apply(r)
    BY <1>4 DEF Apply
  <1> QED
    BY <1>1, <1>2, <1>3, <1>4 DEF Run

LEMMA TypesStep == Inv /\ [Next]_vars => Types'
  <1> SUFFICES ASSUME Inv, [Next]_vars PROVE Types'
    OBVIOUS
  <1> USE DEF Inv, Types, States
  <1>1. CASE UNCHANGED vars
    BY <1>1 DEF vars
  <1>2. CASE Quiet
    BY <1>2 DEF Quiet, vars
  <1>3. ASSUME NEW r \in Runners, Begin(r) \/ Run(r) \/ Crash(r) PROVE Types'
    <2>1. CASE Begin(r)
      BY <2>1 DEF Begin
    <2>2. CASE Acquire(r) \/ Plan(r)
      BY <2>2 DEF Acquire, Plan
    <2>3. CASE Refuse(r) \/ Collide(r) \/ Commit(r)
      BY <2>3 DEF Refuse, Collide, Commit, Finish
    <2>4. CASE Apply(r)
      BY <2>4 DEF Apply
    <2>5. CASE Crash(r)
      BY <2>5, MigrationAssumption DEF Crash, Finish
    <2> QED
      BY <1>3, <2>1, <2>2, <2>3, <2>4, <2>5 DEF Run
  <1> QED
    BY <1>1, <1>2, <1>3 DEF Next

LEMMA LockStep == Inv /\ [Next]_vars => LockInv'
  <1> SUFFICES ASSUME Inv, [Next]_vars PROVE LockInv'
    OBVIOUS
  <1> USE DEF Inv, Types, LockInv
  <1>1. CASE UNCHANGED vars
    BY <1>1 DEF vars
  <1>2. CASE Quiet
    BY <1>2 DEF Quiet, vars
  <1>3. ASSUME NEW r \in Runners, Begin(r) \/ Run(r) \/ Crash(r) PROVE LockInv'
    <2>0. Replicas \subseteq Runners
      BY DEF Runners
    <2>1. CASE Begin(r)
      BY <2>0, <2>1 DEF Begin
    <2>2. CASE Acquire(r)
      BY <2>0, <2>2 DEF Acquire
    <2>3. CASE Plan(r)
      BY <2>0, <2>3 DEF Plan, ReadyToRead
    <2>4. CASE Refuse(r) \/ Collide(r) \/ Commit(r) \/ Crash(r)
      <3>1. PICK s \in {"refused", "collided", "up", "down"} :
              pc' = [pc EXCEPT ![r] = s] /\ lock' = lock \ {r}
        BY <2>4 DEF Refuse, Collide, Commit, Crash, Finish
      <3> QED
        BY <2>0, <3>1
    <2>5. CASE Apply(r)
      BY <2>0, <2>5 DEF Apply
    <2> QED
      BY <1>3, <2>1, <2>2, <2>3, <2>4, <2>5 DEF Run
  <1> QED
    BY <1>1, <1>2, <1>3 DEF Next

LEMMA StaleStep == Inv /\ [Next]_vars => StaleInv'
  <1> SUFFICES ASSUME Inv, [Next]_vars PROVE StaleInv'
    OBVIOUS
  <1>1. CASE UNCHANGED vars
    BY <1>1 DEF vars, Inv, StaleInv
  <1>2. CASE Quiet
    BY <1>2 DEF Quiet, vars, Inv, StaleInv
  <1>3. ASSUME NEW q \in Runners, Begin(q) \/ Run(q) \/ Crash(q) PROVE StaleInv'
    <2> SUFFICES ASSUME NEW r \in Replicas, pc'[r] = "running", applied' > done'[r]
                 PROVE  \E c \in Clis : pc'[c] = "up" /\ Known[c] = applied'
      BY DEF StaleInv
    <2>0. r \in Runners /\ Types /\ LockInv /\ StaleInv
      BY DEF Runners, Inv
    <2>1. ASSUME applied' = applied, pc[r] = "running", done'[r] >= done[r]
          PROVE  \E c \in Clis : pc'[c] = "up" /\ Known[c] = applied'
      <3>1. applied > done[r]
        BY <2>0, <2>1, TypesStep DEF Types
      <3>2. PICK c \in Clis : pc[c] = "up" /\ Known[c] = applied
        BY <2>0, <2>1, <3>1 DEF StaleInv
      <3>3. pc'[c] = "up"
        BY <1>3, <3>2, UpForGood DEF Runners
      <3> QED
        BY <2>1, <3>2, <3>3
    <2>2. CASE Begin(q)
      BY <2>0, <2>1, <2>2 DEF Begin, Types
    <2>3. CASE Acquire(q)
      BY <2>0, <2>1, <2>3 DEF Acquire, Types
    <2>4. CASE Plan(q)
      <3>1. q # r
        BY <2>0, <2>4 DEF Plan, Types
      <3> QED
        BY <2>0, <2>1, <2>4, <3>1 DEF Plan, Types
    <2>5. CASE Refuse(q) \/ Collide(q) \/ Crash(q)
      <3>1. /\ applied' = applied /\ done' = [done EXCEPT ![q] = 0]
            /\ \E s \in {"refused", "collided", "down"} : pc' = [pc EXCEPT ![q] = s]
        BY <2>5 DEF Refuse, Collide, Crash, Finish
      <3>2. q # r
        BY <2>0, <3>1 DEF Types
      <3> QED
        BY <2>0, <2>1, <3>1, <3>2 DEF Types
    <2>6. CASE Apply(q)
      BY <2>0, <2>1, <2>6 DEF Apply, Types
    <2>7. CASE Commit(q)
      <3>1. q # r /\ pc[r] = "running" /\ pc[q] = "running" /\ done'[r] = done[r]
        BY <2>0, <2>7 DEF Commit, Finish, Types
      <3>2. q \in Clis
        BY <2>0, <3>1 DEF LockInv, Runners
      <3>3. CASE done[q] > applied
        <4>1. applied' = done[q] /\ done[q] = Known[q] /\ pc'[q] = "up"
          BY <2>0, <2>7, <3>3 DEF Commit, Finish, Types
        <4>2. Known[q] = applied'
          BY <2>0, <4>1 DEF Types
        <4> QED
          BY <3>2, <4>1, <4>2
      <3>4. CASE ~(done[q] > applied)
        <4>1. applied' = applied
          BY <2>7, <3>4 DEF Commit
        <4> QED
          BY <2>0, <2>1, <3>1, <4>1 DEF Types
      <3> QED
        BY <3>3, <3>4
    <2> QED
      BY <1>3, <2>2, <2>3, <2>4, <2>5, <2>6, <2>7 DEF Run
  <1> QED
    BY <1>1, <1>2, <1>3 DEF Next

LEMMA BlameStep == Inv /\ [Next]_vars => Blamed'
  <1> SUFFICES ASSUME Inv, [Next]_vars PROVE Blamed'
    OBVIOUS
  <1>1. CASE UNCHANGED vars
    BY <1>1 DEF vars, Inv, Blamed
  <1>2. CASE Quiet
    BY <1>2 DEF Quiet, vars, Inv, Blamed
  <1>3. ASSUME NEW q \in Runners, Begin(q) \/ Run(q) \/ Crash(q) PROVE Blamed'
    <2> SUFFICES ASSUME NEW r \in Replicas, pc'[r] = "collided"
                 PROVE  \E c \in Clis : pc'[c] = "up"
      BY DEF Blamed
    <2>0. r \in Runners /\ Types /\ StaleInv /\ Blamed
      BY DEF Runners, Inv
    <2>1. ASSUME \E c \in Clis : pc[c] = "up" PROVE \E c \in Clis : pc'[c] = "up"
      BY <1>3, <2>1, UpForGood DEF Runners
    <2>2. CASE pc[r] = "collided"
      BY <2>0, <2>1, <2>2 DEF Blamed
    <2>3. CASE pc[r] # "collided"
      <3>1. Collide(q) /\ q = r
        <4>1. CASE Begin(q) \/ Acquire(q) \/ Plan(q) \/ Apply(q)
          BY <2>0, <2>3, <4>1 DEF Begin, Acquire, Plan, Apply, Types
        <4>2. CASE Refuse(q) \/ Commit(q) \/ Crash(q)
          BY <2>0, <2>3, <4>2 DEF Refuse, Commit, Crash, Finish, Types
        <4>3. CASE Collide(q)
          BY <2>0, <2>3, <4>3 DEF Collide, Finish, Types
        <4> QED
          BY <1>3, <4>1, <4>2, <4>3 DEF Run
      <3>2. \E c \in Clis : pc[c] = "up"
        BY <2>0, <3>1 DEF Collide, StaleInv
      <3> QED
        BY <2>1, <3>2
    <2> QED
      BY <2>2, <2>3
  <1> QED
    BY <1>1, <1>2, <1>3 DEF Next

LEMMA OwnerStep == Inv /\ [Next]_vars => OwnerInv'
  <1> SUFFICES ASSUME Inv, [Next]_vars, applied' > 0
               PROVE  \E s \in Runners : pc'[s] = "up" /\ Known[s] = applied'
    BY DEF OwnerInv
  <1>1. CASE UNCHANGED vars
    BY <1>1 DEF vars, Inv, OwnerInv
  <1>2. CASE Quiet
    BY <1>2 DEF Quiet, vars, Inv, OwnerInv
  <1>3. ASSUME NEW q \in Runners, Begin(q) \/ Run(q) \/ Crash(q)
        PROVE  \E s \in Runners : pc'[s] = "up" /\ Known[s] = applied'
    <2>1. CASE applied' = applied
      <3>1. PICK s \in Runners : pc[s] = "up" /\ Known[s] = applied
        BY <2>1 DEF Inv, OwnerInv
      <3> QED
        BY <1>3, <2>1, <3>1, UpForGood
    <2>2. CASE applied' # applied
      <3>1. Commit(q)
        BY <1>3, <2>2 DEF Begin, Run, Acquire, Plan, Refuse, Apply, Collide, Crash
      <3>2. applied' = Known[q] /\ pc'[q] = "up"
        BY <2>2, <3>1 DEF Commit, Finish, Inv, Types
      <3> QED
        BY <3>2
    <2> QED
      BY <2>1, <2>2
  <1> QED
    BY <1>1, <1>2, <1>3 DEF Next

LEMMA Invariance == Spec => []Inv
  <1>1. Inv /\ [Next]_vars => Inv'
    BY TypesStep, LockStep, StaleStep, OwnerStep, BlameStep DEF Inv
  <1> QED
    BY InitInv, <1>1, PTL DEF Spec

LEMMA InvTypes == Inv => TypeOK
  BY DEF Inv, Types, LockInv, TypeOK, InTransaction

(* The database and the processes are well typed, and whatever crashes,    *)
(* the lock is held by one open transaction at most (TypeOK).              *)
THEOREM TypeCorrect == Spec => []TypeOK
  BY Invariance, InvTypes, PTL

LEMMA InvWhole == Inv => applied \in {0} \cup {Known[r] : r \in Runners}
  BY DEF Inv, Types, OwnerInv

(* "The schema is migrated or not, never half-way" (src/main.rs): after    *)
(* any crash, refusal or collision it is that of a whole build.            *)
THEOREM SchemaIsWhole == Spec => [](applied \in {0} \cup {Known[r] : r \in Runners})
  BY Invariance, InvWhole, PTL

LEMMA InvSerialized == Inv => ReplicasSerialized
  BY DEF Inv, LockInv, Blamed, ReplicasSerialized

(* The lock serializes any number of replicas, and only a CLI makes one    *)
(* collide (ReplicasSerialized).                                           *)
THEOREM LockSerializes == Spec => []ReplicasSerialized
  BY Invariance, InvSerialized, PTL

(* A replica commits over the schema of its build, or over that of a newer *)
(* CLI: its plan is complete, and stale only through that CLI.             *)
LEMMA AlignedStep ==
  Inv /\ [Next]_vars =>
      [\A r \in Replicas : pc[r] # "up" /\ pc'[r] = "up" =>
          \/ applied' = Known[r]
          \/ \E c \in Clis : pc[c] = "up" /\ Known[c] > Known[r]]_vars
  <1> SUFFICES ASSUME Inv, Next, NEW r \in Replicas, pc[r] # "up", pc'[r] = "up"
               PROVE  \/ applied' = Known[r]
                      \/ \E c \in Clis : pc[c] = "up" /\ Known[c] > Known[r]
    OBVIOUS
  <1>0. r \in Runners /\ Types /\ StaleInv
    BY DEF Runners, Inv
  <1>1. Commit(r)
    <2>1. ASSUME NEW q \in Runners, Begin(q) \/ Run(q) \/ Crash(q) PROVE Commit(r)
      <3>1. CASE Begin(q) \/ Acquire(q) \/ Plan(q) \/ Apply(q)
        BY <1>0, <3>1 DEF Begin, Acquire, Plan, Apply, Types
      <3>2. CASE Refuse(q) \/ Collide(q) \/ Crash(q)
        BY <1>0, <3>2 DEF Refuse, Collide, Crash, Finish, Types
      <3>3. CASE Commit(q)
        BY <1>0, <3>3 DEF Commit, Finish, Types
      <3> QED
        BY <2>1, <3>1, <3>2, <3>3 DEF Run
    <2> QED
      BY <2>1 DEF Next, Quiet, vars
  <1>2. pc[r] = "running" /\ done[r] = Known[r]
    BY <1>1 DEF Commit
  <1>3. CASE applied > done[r]
    <2>1. PICK c \in Clis : pc[c] = "up" /\ Known[c] = applied
      BY <1>0, <1>2, <1>3 DEF StaleInv
    <2>2. Known[c] \in Nat /\ Known[r] \in Nat /\ applied \in Nat
      BY <1>0, MigrationAssumption DEF Types, Runners
    <2>3. Known[c] > Known[r]
      BY <1>2, <1>3, <2>1, <2>2
    <2> QED
      BY <2>1, <2>3
  <1>4. CASE ~(applied > done[r])
    BY <1>0, <1>1, <1>2, <1>4 DEF Commit, Types
  <1> QED
    BY <1>3, <1>4

(* A replica serves over the schema of its own build, unless a newer CLI   *)
(* migrated during its run (BootsAligned).                                 *)
THEOREM BootIsAligned == Spec => BootsAligned
  BY Invariance, AlignedStep, PTL DEF Spec, BootsAligned

-----------------------------------------------------------------------------
(* What came of the last run of each process.                              *)
Outcome == [r \in Runners |->
              IF pc[r] \in {"up", "refused", "collided"} THEN pc[r] ELSE "none"]

(* A rival that committed the schema a process finds: for a replica whose  *)
(* plan went stale a CLI, for any process some other one.                  *)
LEMMA RivalIsUp ==
  ASSUME Inv, NEW r \in Runners, pc[r] = "running", applied > done[r]
  PROVE  \E s \in AtOnce!Rivals(r) : Outcome[s] = "up" /\ Known[s] = applied
  <1>1. applied \in Nat /\ done[r] \in Nat
    BY DEF Inv, Types
  <1>2. CASE r \in Replicas
    <2>1. PICK c \in Clis : pc[c] = "up" /\ Known[c] = applied
      BY <1>2 DEF Inv, StaleInv
    <2> QED
      BY <1>2, <2>1 DEF AtOnce!Rivals, Outcome, Runners
  <1>3. CASE r \notin Replicas
    <2>1. PICK s \in Runners : pc[s] = "up" /\ Known[s] = applied
      BY <1>1 DEF Inv, OwnerInv
    <2> QED
      BY <1>3, <2>1 DEF AtOnce!Rivals, Outcome, Runners
  <1> QED
    BY <1>2, <1>3

(* The end of a transaction is the moment of its run. *)
LEMMA RunEnds ==
  ASSUME Inv, NEW r \in Runners, NEW s \in {"up", "refused", "collided"},
         pc[r] \in {"begun", "locked", "running"}, Finish(r, s)
  PROVE  AtOnce!Ends(r, s)
  <1>1. pc' = [pc EXCEPT ![r] = s] /\ pc \in [Runners -> States]
    BY DEF Finish, Inv, Types
  <1>2. Outcome[r] = "none" /\ Outcome' = [Outcome EXCEPT ![r] = s]
    BY <1>1 DEF Outcome
  <1> QED
    BY <1>2 DEF AtOnce!Ends, Outcome

LEMMA CommitIsAtomic ==
  ASSUME Inv, NEW r \in Runners, Commit(r)
  PROVE  AtOnce!Migrate(r) \/ AtOnce!Overtaken(r)
  <1>1. /\ applied \in Nat /\ done[r] = Known[r] /\ Known[r] \in Nat
        /\ pc[r] = "running" /\ AtOnce!Ends(r, "up")
    BY RunEnds, MigrationAssumption DEF Commit, Inv, Types
  <1>2. CASE applied <= Known[r]
    BY <1>1, <1>2 DEF Commit, AtOnce!Migrate
  <1>3. CASE applied > Known[r]
    <2>1. applied' = applied
      BY <1>1, <1>3 DEF Commit
    <2> QED
      BY <1>1, <1>3, <2>1, RivalIsUp DEF AtOnce!Overtaken, Outcome
  <1> QED
    BY <1>1, <1>2, <1>3

LEMMA RunIsAtomic ==
  ASSUME Inv, NEW r \in Runners, Begin(r) \/ Run(r) \/ Crash(r)
  PROVE  AtOnce!Next \/ UNCHANGED <<applied, Outcome>>
  <1> USE DEF Inv, Types
  <1>0. r \in Replicas \cup Clis
    BY DEF Runners
  <1>1. CASE Begin(r)
    <2>1. CASE pc[r] = "down"
      BY <1>1, <2>1 DEF Begin, Outcome
    <2>2. CASE pc[r] # "down"
      <3>1. Outcome[r] \in {"refused", "collided"}
        BY <1>1, <2>2 DEF Begin, Outcome
      <3>2. Outcome' = [Outcome EXCEPT ![r] = "none"] /\ applied' = applied
        BY <1>1 DEF Begin, Outcome
      <3>3. AtOnce!Retry(r)
        BY <3>1, <3>2 DEF AtOnce!Retry, Outcome
      <3> QED
        BY <1>0, <3>3 DEF AtOnce!Next
    <2> QED
      BY <2>1, <2>2
  <1>2. CASE Acquire(r) \/ Plan(r) \/ Apply(r)
    BY <1>2 DEF Acquire, Plan, ReadyToRead, Apply, Outcome
  <1>3. CASE Refuse(r)
    <2>1. AtOnce!Refuse(r)
      BY <1>3, RunEnds DEF Refuse, ReadyToRead, AtOnce!Refuse
    <2> QED
      BY <1>0, <2>1 DEF AtOnce!Next
  <1>4. CASE Collide(r)
    <2>1. AtOnce!Ends(r, "collided") /\ applied' = applied
      BY <1>4, RunEnds DEF Collide
    <2>2. \E s \in AtOnce!Rivals(r) : Outcome[s] = "up" /\ Known[s] = applied
      BY <1>4, RivalIsUp DEF Collide
    <2>3. AtOnce!Collide(r)
      BY <2>1, <2>2 DEF AtOnce!Collide, Outcome
    <2> QED
      BY <1>0, <2>3 DEF AtOnce!Next
  <1>5. CASE Commit(r)
    BY <1>0, <1>5, CommitIsAtomic DEF AtOnce!Next
  <1>6. CASE Crash(r)
    BY <1>6 DEF Crash, InTransaction, Finish, Outcome
  <1> QED
    BY <1>1, <1>2, <1>3, <1>4, <1>5, <1>6 DEF Run

(* Whatever interleaves, waits, collides and crashes, each run is one      *)
(* moment that takes the schema to its own build's or leaves it alone, and *)
(* only a CLI comes between a replica and the schema of its build.         *)
THEOREM RunsAreAtomic == Spec => ImplementsSchema
  <1>1. Init => AtOnce!Init
    BY DEF Init, AtOnce!Init, Runners
  <1>2. Inv /\ [Next]_vars => [AtOnce!Next]_<<applied, Outcome>>
    <2> SUFFICES ASSUME Inv, [Next]_vars
                 PROVE  AtOnce!Next \/ UNCHANGED <<applied, Outcome>>
      OBVIOUS
    <2>1. CASE Quiet \/ UNCHANGED vars
      BY <2>1 DEF Quiet, vars, Outcome
    <2> QED
      BY <2>1, RunIsAtomic DEF Next
  <1> QED
    BY <1>1, <1>2, Invariance, PTL
       DEF Spec, ImplementsSchema, AtOnce!Spec, AtOnce!schemaVars, Outcome

=============================================================================
