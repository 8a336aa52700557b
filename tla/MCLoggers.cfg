CONSTANTS
    c1 = c1
    c2 = c2
    u = u
    root = root
    sentry = sentry
    l1 = l1
    l2 = l2
    None = None
    Caller = {c1, c2}
    Updater = u
    Name = {"a", "sentry"}
    LastPart <- MCLastPart
    Level <- MCLevel
    LoggerId = {root, sentry, l1, l2}
    Root = root
    SentryName = "sentry"
    SentryLogger = sentry
    FirstLevels = {"info"}
    ResetLevels = {"debug"}
    SetLevels = {"info"}
    Updates <- MCUpdates
SPECIFICATION Spec
SYMMETRY Ids
INVARIANTS
    TypeOK
    OneLoggerPerName
    MapsAgree
    LocksArePaths
    SomebodyGoesOn
PROPERTIES
    RegistrySpec
CHECK_DEADLOCK FALSE
