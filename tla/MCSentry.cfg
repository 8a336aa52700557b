CONSTANTS
    c1 = c1
    c2 = c2
    d1 = d1
    d2 = d2
    bad = bad
    NoDsn = NoDsn
    Nil = Nil
    Caller = {c1, c2}
    Dsn = {d1, d2, bad, NoDsn}
    ValidDsn = {d1, d2, NoDsn}
    Configs <- MCConfigs
    Updates <- MCUpdates
    LogLevels <- MCLevels
    TraceLevels <- MCTrace
SPECIFICATION FairSpec
INVARIANTS
    TypeOK
PROPERTIES
    ReportsSeeOneConfig
    CallsReturn
CHECK_DEADLOCK FALSE
