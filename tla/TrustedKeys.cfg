\* Two commands at a time over three keys, with a crash.
SPECIFICATION FairSpec
CONSTANTS
    Procs = {p1, p2}
    Keys = {k1, k2, k3}
    Labels = {home}
    None = None
    MaxDecisions = 3
    MaxCrashes = 1
INVARIANTS
    TypeOK
    OneKeyPerDecision
PROPERTIES
    DecisionsEndByRevocation
    EveryCommandEnds
