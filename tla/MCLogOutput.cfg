CONSTANTS
    s1 = s1
    w1 = w1
    Sender = {s1}
    Writer = {w1}
    FirstConfigs <- MCFirst
    Updates <- MCUpdates
    CopyErrors = TRUE
SPECIFICATION FairSpec
INVARIANTS
    FirstFileGetsStreams
    LastUpdateRules
    
PROPERTIES
    CallsReturn
    NoWriteToClosedFile
CHECK_DEADLOCK FALSE
