\* A third migration writes the bytes of the first, and the first is undone.
SPECIFICATION Spec
CONSTANTS
    Procs = {p1}
    Ops = {o1, o2, o3}
    Txs = {1, 2, 3}
    Targets = {t1}
    UserBytes = {u1}
    PlanBytes = {n1, n2}
    Damaged = Damaged
    None = None
    RacingEdits = FALSE
    MaxEdits = 0
    MaxFaults = 0
    MaxDamage = 0
    MaxStops = 0
INVARIANT
    UndoneTogether
CHECK_DEADLOCK FALSE
