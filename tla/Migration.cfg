\* Three replicas of two builds and the CLI boot, crash and boot again.
CONSTANTS
    old1 = old1  old2 = old2  new1 = new1  cli = cli
    Replicas <- MCReplicas
    Clis <- MCCli
    Known <- MCKnown
    MaxCrashes = 2
SPECIFICATION FairSpec
INVARIANTS TypeOK ReplicasSerialized
PROPERTIES BootsAligned ImplementsSchema RunsFinish
