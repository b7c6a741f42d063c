\* main.rs with components that end, hang or block their worker: three signals,
\* a grace of three units.
CONSTANTS
    Grace = 3
    MaxSignals = 3
    Wedges = TRUE
SPECIFICATION FairSpec
INVARIANTS TypeOK ExitStatus HandledBeforeSpawn EscalationNeedsTwo
PROPERTIES Deadline NeverHalfAlive SignalStops SecondSignalExits
