CONSTANTS
    Interval = 3
    Second = 2
    Modulus = 20
    Epoch = 21
    MaxNow = 36
    Graces = {0, 1, 2, 3, 4, 5, 9, 10, 12}
    c1 = c1
    c2 = c2
    v1 = v1
    v2 = v2
    Blank = Blank
    Caller = {c1, c2}
    HeartbeatConfigs <- MCConfigs
    u1 = u1
    u2 = u2
    Updater = {u1, u2}
    Configs <- MCDiagnosticsConfigs
    Environments <- MCEnvironments
    TracerFails = {FALSE, TRUE}
    MaxTracers = 3
SPECIFICATION MonitoringSpec
SYMMETRY Alike
INVARIANTS
    NoFalseAlarm
    HeldIsNoticed
    TracerHasCloser
    PprofStaysOff
    JaegerFollowsUpdates
    OnlyCloseCrashes
PROPERTIES
    HeartbeatIsLastConfig
CHECK_DEADLOCK FALSE
