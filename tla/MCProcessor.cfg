CONSTANTS
    p1 = p1
    p2 = p2
    e1 = e1
    e2 = e2
    q1 = q1
    None = None
    Instance = {p1, p2}
    EventType = {e1, e2}
    QueryType = {q1}
    Params <- MCParams
SPECIFICATION Spec
INVARIANTS TypeOK InOrder OnlySent NothingLost ResultsMatchQueries
PROPERTIES QuietAfterStop ImplementsEventFlow
SYMMETRY MCSymmetry
CHECK_DEADLOCK FALSE
