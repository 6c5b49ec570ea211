SPECIFICATION LiveSpec
CONSTANTS
    ProfitTarget = 2
    LossLimit = 1
    LossStreak = 2
    Results <- GainOrLoss
    BrokerReports = FALSE
    MinuteSlips = TRUE
    MaxSales = 3
    MaxEntries = 1
    MaxRestarts = 1
    MaxDays = 2
INVARIANTS TypeOK LedgerExact CooloffHolds
PROPERTIES LossLimitStopsEntries CooloffEnds LossLockReturns
