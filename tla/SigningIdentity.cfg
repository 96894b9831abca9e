\* Three first commands race; one may fail or crash, and the power fails once.
SPECIFICATION FairSpec
CONSTANTS
    Procs = {p1, p2, p3}
    Keys = {k1, k2}
    Torn = Torn
    None = None
    MaxFaults = 1
    MaxPower = 1
INVARIANTS
    TypeOK
    HandedKeysLast
PROPERTY EveryoneIsServed
CHECK_DEADLOCK FALSE
