-------------------------------- MODULE Schema --------------------------------
(***************************************************************************)
(* What the migrations promise of any number of processes that boot: each  *)
(* run is one moment.  It takes the schema to that of its own build, or it *)
(* leaves the schema alone: because it refuses one its build does not      *)
(* know, or because a rival committed first.  The rivals of a replica are  *)
(* the CLIs alone: this is what the advisory lock is for.  A process that  *)
(* dies in its run leaves nothing to see.                                  *)
(***************************************************************************)
EXTENDS Integers

CONSTANTS
    Replicas,  \* processes that boot under the lock
    Clis,      \* processes that run the CLI
    Known      \* how many migrations the build of each process holds

VARIABLES
    applied,  \* the migrations of the schema
    run       \* what came of the last run of each process

schemaVars == <<applied, run>>

Init == applied = 0 /\ run = [r \in Replicas \cup Clis |-> "none"]

Rivals(r) == IF r \in Replicas THEN Clis ELSE Replicas \cup Clis

Ends(r, outcome) ==
    /\ run[r] = "none"
    /\ run' = [run EXCEPT ![r] = outcome]

Retry(r) ==
    /\ run[r] \in {"refused", "collided"}
    /\ run' = [run EXCEPT ![r] = "none"]
    /\ UNCHANGED applied

Migrate(r) ==
    /\ applied <= Known[r]
    /\ applied' = Known[r]
    /\ Ends(r, "up")

(* A run with nothing left to do ends under a schema newer than it read.   *)
Overtaken(r) ==
    /\ applied > Known[r]
    /\ \E s \in Rivals(r) : run[s] = "up" /\ Known[s] = applied
    /\ Ends(r, "up")
    /\ UNCHANGED applied

Refuse(r) ==
    /\ applied > Known[r]
    /\ Ends(r, "refused")
    /\ UNCHANGED applied

Collide(r) ==
    /\ \E s \in Rivals(r) : run[s] = "up" /\ Known[s] = applied
    /\ Ends(r, "collided")
    /\ UNCHANGED applied

Next ==
    \E r \in Replicas \cup Clis :
        Retry(r) \/ Migrate(r) \/ Overtaken(r) \/ Refuse(r) \/ Collide(r)

Spec == Init /\ [][Next]_schemaVars

=============================================================================
