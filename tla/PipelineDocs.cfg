\* As Pipeline.cfg, one statement of the comments.
CONSTANTS
    Requests = {q1, q2}
    q1 = q1
    q2 = q2
    Inputs <- MCInputs
    Timeout = 2
    AcquireTimeout = 1
    MaxConnections = 1
    Docs = TRUE
SPECIFICATION Spec
INVARIANT NoEmpty405
