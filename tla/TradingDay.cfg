SPECIFICATION Spec
CONSTANTS
    Cfg <- MCCfg
    Clock <- MCClock
    Shown <- MCShown
    Codes = {c1}
    Types = {"JDM_ENTRY", "EOD", "MORNING_GOLDENTIME"}
    Prices = {940, 1000, 1040}
    Trends = {0, 3}
    Gaps = {600}
    EntryStart = 420
    EntryEnd = 930
    EodStart = 890
    EodEnd = 920
    MaxPositions = 5
    PhaseMax = 3
    Cooldown = 90
    TrendFilter = FALSE
    TickHard <- MCTickHard
    TickStop <- MCTickStop
    GapUp = 200
    GapDown <- MCGapDown
    TimeCutMin = 100
    EodStop <- MCGapDown
    MaxQty = 2
    MaxEntries = 2
    MaxInterrupts = 1
    MaxDays = 2
INVARIANTS GapJudgedLater DeepLossSold DayTradesClosed
PROPERTIES NoReentryAfterStop OvernightDecided
CHECK_DEADLOCK FALSE
