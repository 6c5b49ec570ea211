SPECIFICATION Spec
CONSTANTS
    Codes = {a, b}
    None = None
    a = a
    b = b
    MaxPositions = 1
    MaxEntries = 2
    MaxStopLosses = 1
    ManualTrading = FALSE
    SnapshotMissing = FALSE
    OtherStocks = FALSE
    MaxQty = 1
    MaxOrders = 3
    MaxRedeliveries = 1
    MaxSyncs = 1
    MaxDays = 2
INVARIANTS
    NoReentryAfterExit
PROPERTY BreakerStopsEntries RepeatsNeverSell
SYMMETRY CodeSymmetry
