CONSTANTS
    a = a
    b = b
    c = c
    ev = ev
    qu = qu
    empty = empty
    absent = absent
    broken = broken
    Empty = empty
    Absent = absent
    Broken = broken
    None = None
    MaxMesh = 2
    Word <- MCWord
    Instance <- MCInstance
    EventType = {ev}
    QueryType = {qu}
    Params <- AllParams
    Blueprints <- PairBlueprints
    Creators <- PairCreators
SPECIFICATION MeshSpec
INVARIANTS
    BuilderTypeOK
    NoStrandedSender
    StartStopOrder
    RunReportsFailures
    AsksOnlyWhatIsAllowed
CHECK_DEADLOCK FALSE
