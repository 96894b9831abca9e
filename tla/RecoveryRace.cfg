\* Recovery looks the transaction up in the ledger while apply records it.
SPECIFICATION Spec
CONSTANTS
    Procs = {p1, p2}
    Ops = {o1}
    Txs = {1}
    Targets = {t1}
    UserBytes = {u1}
    PlanBytes = {n1, n2}
    Damaged = Damaged
    None = None
    RacingEdits = FALSE
    MaxEdits = 0
    MaxFaults = 0
    MaxDamage = 0
    MaxStops = 0
PROPERTY
    OrphansAreUnrecorded
CHECK_DEADLOCK FALSE
