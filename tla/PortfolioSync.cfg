SPECIFICATION LiveSpec
CONSTANTS
    a = a
    b = b
    Codes <- TwoCodes
    Deposit = 3
    MaxEntries = 2
    MaxTrades = 3
    MaxChains = 2
    MaxRestarts = 1
PROPERTIES BookConverges CashConverges
