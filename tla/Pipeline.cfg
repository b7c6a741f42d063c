\* Two requests among all targets, a pool of one connection, the documentation exposed.
CONSTANTS
    Requests = {q1, q2}
    q1 = q1
    q2 = q2
    Inputs <- MCInputs
    Timeout = 2
    AcquireTimeout = 1
    MaxConnections = 1
    Docs = TRUE
SPECIFICATION FairSpec
INVARIANTS TypeOK Correlated JsonOnly NoLeak AlwaysLive ReadyMeansUp
PROPERTIES ImplementsTimeBox EveryRequestEnds
