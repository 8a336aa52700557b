CONSTANTS
    a = a
    b = b
    c = c
    s = s
    ev = ev
    qu = qu
    empty = empty
    absent = absent
    broken = broken
    Empty = empty
    Absent = absent
    Broken = broken
    None = None
    MaxMesh = 1
    Word <- HealthWord
    Instance <- HealthInstance
    EventType = {ev}
    QueryType = {qu}
    Params <- HealthParams
    Blueprints <- HealthBlueprints
    Creators <- HealthCreators
SPECIFICATION HealthSpec
INVARIANTS
    WalkIsASnapshot
PROPERTIES
    ShutdownReturns
    EventsDrain
    WalkEnds
CHECK_DEADLOCK FALSE
