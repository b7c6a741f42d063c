\* Three connections over two descriptors, each with any number of requests, one of
\* a client that may never read its response; a timeout of two units.
CONSTANTS
    c1 = c1  c2 = c2  c3 = c3
    Conns <- MCConns
    Timeout = 2
    MaxOpen = 2
    SlowReaders <- MCOne
SPECIFICATION FairSpec
INVARIANTS TypeOK DrainBound
PROPERTIES ImplementsDrain NoRequestCut QueueMoves DrainEnds
