SPECIFICATION ExitLoopSpec
CONSTANTS
    Codes = {a}
    None = None
    a = a
    MaxPositions = 1
    MaxEntries = 1
    MaxStopLosses = 0
    ManualTrading = TRUE
    SnapshotMissing = TRUE
    OtherStocks = TRUE
    MaxQty = 3
    MaxOrders = 2
    MaxRedeliveries = 0
    MaxSyncs = 1
    MaxDays = 1
INVARIANTS
    TypeOK
    PendingExplained
    AppBuysUnreported
PROPERTIES
    ForceRecordEndsWithPosition
    SellWatchdogReleases
