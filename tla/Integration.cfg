\* One Skill, two versions of mnemo, with an error, a crash and edits.
SPECIFICATION IntegrationSpec
CONSTANTS
    Procs = {p1}
    Ops = {o1, o2, o3}
    Txs = {1, 2, 3}
    Targets = {t1}
    UserBytes = {u1}
    PlanBytes = {n1, n2}
    Damaged = Damaged
    None = None
    RacingEdits = FALSE
    MaxEdits = 1
    MaxFaults = 1
    MaxDamage = 0
    MaxStops = 1
SYMMETRY Symmetry
INVARIANT OwnedMeansInstalled
PROPERTY UserSkillKept
CHECK_DEADLOCK FALSE
