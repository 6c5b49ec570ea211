SPECIFICATION LiveSpec
CONSTANTS
    None = None
    p = p
    q = q
    Accounts <- TwoAccounts
    Lists <- AnyList
    MaxRetry = 2
    MaxDrops = 1
INVARIANTS WatchdogAwake
PROPERTIES WatchdogDecides IsALink
CHECK_DEADLOCK FALSE
