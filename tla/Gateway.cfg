SPECIFICATION LiveSpec
CONSTANTS
    None = None
    a = a
    b = b
    Requests <- AFewRequests
    MaxDepth = 2
    MaxPending = 1
    MaxUnfreezes = 1
INVARIANTS TypeOK SlotFreed
PROPERTIES KeepsSlotPromise RequestsEnd
