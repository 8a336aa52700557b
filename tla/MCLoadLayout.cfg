CONSTANTS
    a = a
    b = b
    c = c
    ev = ev
    qu = qu
    empty = empty
    absent = absent
    broken = broken
    Empty = empty
    Absent = absent
    Broken = broken
    None = None
    MaxMesh = 1
    Word <- MCWord
    Instance <- MCInstance
    EventType = {ev}
    QueryType = {qu}
    Params <- LayoutParams
    Blueprints <- LayoutBlueprints
    Creators <- LayoutCreators
SPECIFICATION FairMeshSpec
PROPERTIES ShutdownOfAnyMeshReturns
CHECK_DEADLOCK FALSE
