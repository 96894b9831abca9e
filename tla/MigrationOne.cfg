\* One command at a time, with an error, a crash and an edit.
SPECIFICATION Spec
CONSTANTS
    Procs = {p1}
    Ops = {o1, o2}
    Txs = {1, 2, 3}
    Targets = {t1, t2}
    UserBytes = {u1}
    PlanBytes = {n1, n2}
    Damaged = Damaged
    None = None
    RacingEdits = FALSE
    MaxEdits = 1
    MaxFaults = 1
    MaxDamage = 0
    MaxStops = 1
SYMMETRY Symmetry
INVARIANTS
    TypeOK
    OutcomesAreTrue
    OwnersHoldTheirBytes
    RowsFollowJournals
CHECK_DEADLOCK FALSE
