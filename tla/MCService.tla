------------------------------ MODULE MCService ------------------------------
(* An instance of Service for TLC: a job that awaits and one that blocks.   *)
EXTENDS Service

CONSTANTS hello, report, t1, r1, c1, c2

MCJobs   == {hello, report}
MCTicks  == {t1, r1}
MCJobOf  == [t \in MCTicks |-> IF t = r1 THEN report ELSE hello]
MCPolicy == [j \in MCJobs |-> "Skip"]
MCBudget == [j \in MCJobs |-> 1]
MCReport == {report}
MCNone   == {}
MCConns  == {c1, c2}
MCOne    == {c1}
=============================================================================
