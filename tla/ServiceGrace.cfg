\* The defaults, in units of 15 s: a request timeout and a drain fence of 30 s within a
\* grace of 45 s; every client reads its responses.
CONSTANTS
    hello = hello  report = report  t1 = t1  r1 = r1  c1 = c1  c2 = c2
    Grace = 3
    MaxSignals = 1
    Jobs <- MCJobs
    Ticks <- MCTicks
    JobOf <- MCJobOf
    Policy <- MCPolicy
    Budget <- MCBudget
    Blocking <- MCNone
    DrainGrace = 2
    Late <- MCNone
    Conns <- MCConns
    Timeout = 2
    MaxOpen = 2
    SlowReaders <- MCNone
SPECIFICATION Spec
INVARIANTS OnlyGenuineHangs
