\* Two edits and a step of another process anywhere in plan, apply and verify.
SPECIFICATION Spec
CONSTANTS
    json = json
    toml = toml
    project = project
    n1 = n1
    n2 = n2
    v1 = v1
    v2 = v2
    i1 = i1
    i2 = i2
    Targets = {json, toml, project}
    UserToml = toml
    WorkspaceToml = project
    Names = {n1, n2}
    Values = {v1, v2}
    Ids = {i1, i2}
    Packages <- MCPackages
    Start <- MCStart
    Foreign = Foreign
    None = None
    MaxEdits = 2
    MaxOthers = 1
INVARIANTS
    EveryAssetAccounted
    Converges
    NoFalseAlarm
PROPERTIES
    UserContentStays
    ServersStay
CHECK_DEADLOCK FALSE
