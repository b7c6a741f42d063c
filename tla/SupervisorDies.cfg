\* The claim that the process dies deterministically, over a blocked worker.
CONSTANTS
    Grace = 2
    MaxSignals = 1
    Wedges = TRUE
SPECIFICATION FairSpec
PROPERTIES OrderedStopEnds
