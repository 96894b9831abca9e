\* Every runner against a child that may write, fork, hang or remove its output.
SPECIFICATION Spec
CONSTANTS
    None = None
    Limit = 2
    MaxSize = 4
    MayUnlink = TRUE
INVARIANTS
    TypeOK
    ChildEnded
    AcceptedIsWhole
PROPERTY Reported
CHECK_DEADLOCK FALSE
