SPECIFICATION Spec
CONSTANTS
    Trades <- MCTrades
    PrevClose = 20
    IndexChange = 0
    Books <- MCBooks
    Readings <- MCReadings
    RowVolumes = {3}
    ServerBars <- MCServerBars
    Window = 6
    Deque = 4
    SaveLeast = 2
    FlipGap = 2
    FlipFade = 1
    Minutes = 5
    Budget = 6
    RsiPeriod = 2
    EmaPeriod = 2
    AtrPeriod = 3
    SlopePeriod = 2
    Group = 2
    DailyPeriods <- MCDailyPeriods
    DailyCloses <- MCDailyCloses
    HighDays = 4
    Few = 2
    Recent = 1
    Older = 1
INVARIANTS BarsMatchTicks RiseHelps BuyersNeeded
CHECK_DEADLOCK FALSE
