\* One job that awaits, one that blocks, two connections, one of a client that may
\* never read; one request timeout is a quarter of the grace.
CONSTANTS
    hello = hello  report = report  t1 = t1  r1 = r1  c1 = c1  c2 = c2
    Grace = 4
    MaxSignals = 1
    Jobs <- MCJobs
    Ticks <- MCTicks
    JobOf <- MCJobOf
    Policy <- MCPolicy
    Budget <- MCBudget
    Blocking <- MCReport
    DrainGrace = 1
    Late <- MCNone
    Conns <- MCConns
    Timeout = 1
    MaxOpen = 2
    SlowReaders <- MCOne
SPECIFICATION Spec
INVARIANTS NothingCut
PROPERTIES FencesNest ImplementsComponents
