\* Server::run with a job that blocks, and a tick that may come after shutdown().
CONSTANTS
    hello = hello  report = report
    t1 = t1  t2 = t2  t3 = t3  r1 = r1
    Jobs <- MCJobs
    Ticks <- MCTicks
    JobOf <- MCJobOf
    Policy <- MCPolicy
    Budget <- MCBudget
    Blocking <- MCReport
    DrainGrace = 2
    Late <- MCLate
SPECIFICATION FairSpec
INVARIANTS TypeOK NoSelfOverlap
PROPERTIES SkipOnlyWhileRunning ImplementsDrain ExpiryMeansOverrun
PROPERTIES StopsOnShutdown SlotComesBack TicksSettle
