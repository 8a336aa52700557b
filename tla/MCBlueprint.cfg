CONSTANTS
    a = a
    b = b
    ufo = ufo
    T = T
    ev = ev
    qu = qu
    empty = empty
    absent = absent
    Empty = empty
    Absent = absent
    KnownEvent = {ev}
    KnownQuery = {qu}
    Word <- MCWord
    Layouts <- MCLayouts
    int = int
    t1 = t1
    t2 = t2
    ints = ints
    anys = anys
    Nil = Nil
    NotAFunc = NotAFunc
    Type = {int, t1, t2, ints, anys}
    StringOf <- MCString
    Creators <- MCCreators
    ParamLists <- MCParamLists
SPECIFICATION BuilderInputs
INVARIANTS
    VerdictExact
    DocumentedFormsWork
    ProcessorIsChecked
CHECK_DEADLOCK FALSE
