------------------------------- MODULE MCCron -------------------------------
(* Instances of Cron for TLC: a Skip job with three ticks and a job of      *)
(* another kind with one.                                                   *)
EXTENDS Cron

CONSTANTS hello, report, t1, t2, t3, r1

MCJobs  == {hello, report}
MCTicks == {t1, t2, t3, r1}
MCJobOf == [t \in MCTicks |-> IF t = r1 THEN report ELSE hello]

(* hello skips, report opts into overlapping. *)
MCPolicy == [j \in MCJobs |-> IF j = hello THEN "Skip" ELSE "Allow"]

(* Budgets at and below a fence of two units. *)
MCBudget == [j \in MCJobs |-> IF j = hello THEN 2 ELSE 1]

(* Job::timeout's default of 300 s, in units of DRAIN_GRACE (30 s). *)
MCDefaultBudget == [j \in MCJobs |-> 10]

MCReport == {report}
MCLate   == {t3}
MCNone   == {}
=============================================================================
