\* The defaults, in units of 30 s: a budget of 300 s, a drain fence of 30 s.
CONSTANTS
    hello = hello  report = report
    t1 = t1  t2 = t2  t3 = t3  r1 = r1
    Jobs <- MCJobs
    Ticks <- MCTicks
    JobOf <- MCJobOf
    Policy <- MCPolicy
    Budget <- MCDefaultBudget
    Blocking <- MCNone
    DrainGrace = 1
    Late <- MCNone
SPECIFICATION FairSpec
PROPERTIES ExpiryMeansOverrun
