---------------------------- MODULE MCMigration -----------------------------
(* Instances of Migration for TLC: a deployment in which two replicas run a *)
(* build of two migrations and one runs the next build, of three, of which  *)
(* the CLI is.                                                              *)
EXTENDS Migration

CONSTANTS old1, old2, new1, cli

MCReplicas == {old1, old2, new1}
MCCli      == {cli}
MCKnown    == [r \in Runners |-> IF r \in {new1, cli} THEN 3 ELSE 2]
=============================================================================
