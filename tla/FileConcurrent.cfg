\* Two processes with no lock between them on one target.
SPECIFICATION Spec
CONSTANTS
    Procs = {p1, p2}
    Txs = {x1, x2}
    Targets = {t1}
    UserBytes = {u1, u2}
    PlanBytes = {n1, n2}
    Damaged = Damaged
    None = None
    RacingEdits = FALSE
    MaxEdits = 1
    MaxFaults = 1
    MaxDamage = 1
SYMMETRY Symmetry
INVARIANTS
    TypeOK
    BackupsComplete
    TargetsExplained
    UserBytesKept
CHECK_DEADLOCK FALSE
