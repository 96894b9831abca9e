\* Recovery is run again and again, after crashes of commands and of recoveries.
SPECIFICATION FairSpec
CONSTANTS
    Procs = {p1}
    Ops = {o1, o2}
    Txs = {1, 2}
    Targets = {t1}
    UserBytes = {u1}
    PlanBytes = {n1, n2}
    Damaged = Damaged
    None = None
    RacingEdits = FALSE
    MaxEdits = 1
    MaxFaults = 2
    MaxDamage = 1
    MaxStops = 1
PROPERTIES
    RecoveryCloses
    FilesAreReversible
CHECK_DEADLOCK FALSE
