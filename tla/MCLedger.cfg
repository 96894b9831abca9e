SPECIFICATION Spec
CONSTANTS
    Ops = {o1, o2, o3}
    Txs = {x1, x2, x3, x4}
    Targets = {t1, t2}
    Hashes = {h1}
    None = None
SYMMETRY Symmetry
INVARIANTS
    TypeOK
    OwnerStands
    PredecessorStands
    OwnershipIsAChain
CHECK_DEADLOCK FALSE
