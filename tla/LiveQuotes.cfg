SPECIFICATION LiveSpec
CONSTANTS
    None = None
    Codes = {1, 2}
    Rankings <- Both
    MaxSubs = 1
    MaxTrades = 1
    MaxFaults = 1
    MaxDrops = 1
PROPERTIES HeldIsQuoted
