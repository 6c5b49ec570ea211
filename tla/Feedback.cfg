SPECIFICATION Spec
CONSTANTS
    Params <- MCParams
    Low <- MCLow
    High <- MCHigh
    Assumed <- MCAssumed
    RelaxDefault <- MCRelaxDefault
    Shipped <- MCShipped
    ShippedLast <- MCShippedLast
    Days <- MCDays
    PeakDays = 2
    MaxVaried = 4
PROPERTIES
    CarefulSteps
    Recovers
