----------------------------- MODULE Migration ------------------------------
(***************************************************************************)
(* Migrations at boot, migration/src/lib.rs: replicas that boot together   *)
(* each run up_guarded, one transaction under an advisory lock; the CLI of *)
(* migration/src/main.rs runs the same Migrator without the lock.          *)
(*                                                                         *)
(* PostgreSQL and sea-orm-migration are external.  A transaction sees what *)
(* had been committed when its statement began (READ COMMITTED); creating  *)
(* what another open transaction created waits for it, and fails if it     *)
(* committed.  Migrations are numbered in the order of                     *)
(* Migrator::migrations, to which builds only ever append.                 *)
(***************************************************************************)
EXTENDS Integers, FiniteSets

CONSTANTS
    Replicas,   \* processes that boot with up_guarded
    Clis,       \* processes that run the migration CLI's "up"
    Known,      \* how many migrations the build of each process holds
    MaxCrashes  \* bound on the crashes of the processes

Runners == Replicas \cup Clis

ASSUME MigrationAssumption ==
    /\ Replicas \cap Clis = {}
    /\ Known \in [Runners -> Nat]
    /\ MaxCrashes \in Nat

VARIABLES
    applied,  \* committed migrations
    lock,     \* holders of the advisory lock
    pc,       \* where each process stands
    done,     \* migrations each open transaction has reached
    crashes   \* crashes so far

vars == <<applied, lock, pc, done, crashes>>

States == {"down", "begun", "locked", "running", "up", "refused", "collided"}

(* Processes with a transaction open. *)
InTransaction(r) == pc[r] \in {"begun", "locked", "running"}

Init ==
    /\ applied = 0 /\ lock = {} /\ crashes = 0
    /\ pc = [r \in Runners |-> "down"]
    /\ done = [r \in Runners |-> 0]

(* Bug variant: a lock of the session, that a failed run forgets. *)
FinishHolding(r, s) ==
    /\ pc' = [pc EXCEPT ![r] = s]
    /\ lock' = IF s = "up" THEN lock \ {r} ELSE lock
    /\ done' = [done EXCEPT ![r] = 0]

(* The end of a transaction, in whatever way, releases the lock. *)
Finish(r, s) ==
    /\ pc' = [pc EXCEPT ![r] = s]
    /\ lock' = lock \ {r}
    /\ done' = [done EXCEPT ![r] = 0]

(* A process boots, or its supervisor boots it again after a failed run. *)
Begin(r) ==
    /\ pc[r] \in {"down", "refused", "collided"}
    /\ pc' = [pc EXCEPT ![r] = "begun"]
    /\ UNCHANGED <<applied, lock, done, crashes>>

(* Bug variant: pg_try_advisory_xact_lock, its answer ignored. *)
AcquireTries(r) ==
    /\ r \in Replicas /\ pc[r] = "begun"
    /\ lock' = IF lock = {} THEN {r} ELSE lock
    /\ pc' = [pc EXCEPT ![r] = "locked"]
    /\ UNCHANGED <<applied, done, crashes>>

(* Bug variant: pg_advisory_xact_lock_shared. *)
AcquireShared(r) ==
    /\ r \in Replicas /\ pc[r] = "begun"
    /\ lock' = lock \cup {r}
    /\ pc' = [pc EXCEPT ![r] = "locked"]
    /\ UNCHANGED <<applied, done, crashes>>

(* SELECT pg_advisory_xact_lock(MIGRATION_LOCK_KEY) *)
Acquire(r) ==
    /\ r \in Replicas /\ pc[r] = "begun" /\ lock = {}
    /\ lock' = {r}
    /\ pc' = [pc EXCEPT ![r] = "locked"]
    /\ UNCHANGED <<applied, done, crashes>>

(* Migrator::up reads the migrations table, and may start: a replica holds *)
(* the lock by then, the CLI never asks for it.                            *)
ReadyToRead(r) == pc[r] = IF r \in Replicas THEN "locked" ELSE "begun"

Plan(r) ==
    /\ ReadyToRead(r) /\ applied <= Known[r]
    /\ pc' = [pc EXCEPT ![r] = "running"]
    /\ done' = [done EXCEPT ![r] = applied]
    /\ UNCHANGED <<applied, lock, crashes>>

(* The table names migrations this build does not have: up() is an error.  *)
Refuse(r) ==
    /\ ReadyToRead(r) /\ applied > Known[r]
    /\ Finish(r, "refused")
    /\ UNCHANGED <<applied, crashes>>

(* The next migration, unless another open transaction holds its objects. *)
Apply(r) ==
    /\ pc[r] = "running" /\ done[r] < Known[r] /\ applied <= done[r]
    /\ \A s \in Runners \ {r} : done[s] <= done[r]
    /\ done' = [done EXCEPT ![r] = @ + 1]
    /\ UNCHANGED <<applied, lock, pc, crashes>>

(* Another process committed that migration since the plan was read. *)
Collide(r) ==
    /\ pc[r] = "running" /\ done[r] < Known[r] /\ applied > done[r]
    /\ Finish(r, "collided")
    /\ UNCHANGED <<applied, crashes>>

(* Bug variant: each migration commits on its own. *)
CommitEach(r) ==
    /\ pc[r] = "running" /\ done[r] > applied
    /\ applied' = done[r]
    /\ IF done[r] = Known[r] THEN Finish(r, "up") ELSE UNCHANGED <<lock, pc, done>>
    /\ UNCHANGED crashes

(* A plan with nothing left to apply commits as it stands. *)
Commit(r) ==
    /\ pc[r] = "running" /\ done[r] = Known[r]
    /\ applied' = IF done[r] > applied THEN done[r] ELSE applied
    /\ Finish(r, "up")
    /\ UNCHANGED crashes

(* The process dies (no signal handler is installed yet) or loses its      *)
(* connection; the server rolls the transaction back.                      *)
Crash(r) ==
    /\ InTransaction(r) /\ crashes < MaxCrashes
    /\ crashes' = crashes + 1
    /\ Finish(r, "down")
    /\ UNCHANGED applied

Quiet == (\A r \in Runners : pc[r] = "up") /\ UNCHANGED vars

Run(r) ==
    \/ Acquire(r) \/ Plan(r) \/ Refuse(r) \/ Apply(r) \/ Collide(r) \/ Commit(r)

Next ==
    \/ \E r \in Runners : Begin(r) \/ Run(r) \/ Crash(r)
    \/ Quiet

Spec == Init /\ [][Next]_vars

(* A run goes on; the lock's queue is first come, first served, so a       *)
(* waiter is not passed over for ever.  Nothing makes a process boot.      *)
Fairness ==
    \A r \in Runners :
        /\ SF_vars(Acquire(r)) /\ WF_vars(Plan(r) \/ Refuse(r))
        /\ WF_vars(Apply(r) \/ Collide(r) \/ Commit(r))

FairSpec == Spec /\ Fairness

-----------------------------------------------------------------------------
(* Properties *)

(* The database and the processes are well typed, and the lock has one     *)
(* holder at most, a process with a transaction open.                      *)
TypeOK ==
    /\ applied \in Nat
    /\ lock \subseteq {r \in Replicas : InTransaction(r)}
    /\ \A r, s \in lock : r = s
    /\ pc \in [Runners -> States]
    /\ done \in [Runners -> Nat]
    /\ crashes \in 0..MaxCrashes

(* A replica goes on to serve only over the schema of its own build ("the  *)
(* running code and the database are always aligned", src/main.rs), unless *)
(* a newer CLI, which no lock holds back, migrated during its run.         *)
BootsAligned ==
    [][\A r \in Replicas : pc[r] # "up" /\ pc'[r] = "up" =>
          \/ applied' = Known[r]
          \/ \E c \in Clis : pc[c] = "up" /\ Known[c] > Known[r]]_vars

AtOnce == INSTANCE Schema WITH
    run <- [r \in Runners |->
              IF pc[r] \in {"up", "refused", "collided"} THEN pc[r] ELSE "none"]

(* The runs are atomic, whatever interleaves and crashes ("the schema is   *)
(* migrated or not, never half-way", src/main.rs): it goes from one whole  *)
(* build's to another's, and only a CLI gets in the way of a replica.      *)
ImplementsSchema == AtOnce!Spec

(* A replica that asked for the lock gets its answer: it migrates, finds   *)
(* nothing to do, refuses a newer schema, or dies.  No crash of another    *)
(* holder leaves it waiting.                                               *)
RunsFinish ==
    \A r \in Replicas : pc[r] = "begun" ~> pc[r] \in {"up", "refused", "collided", "down"}

(* The advisory lock serializes the replicas, whatever the CLI does: no    *)
(* two are between the migrations table and their commit, and so they      *)
(* never collide on a pending migration (up_guarded, "the lock serializes  *)
(* them instead") but with one that the CLI committed.                     *)
ReplicasSerialized ==
    /\ \A r, s \in Replicas : pc[r] = "running" /\ pc[s] = "running" => r = s
    /\ (\E r \in Replicas : pc[r] = "collided") => \E c \in Clis : pc[c] = "up"

=============================================================================
