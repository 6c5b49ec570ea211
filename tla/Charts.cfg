SPECIFICATION Spec
CONSTANTS
    AllCodes = {"a", "b", "d", "x"}
    Held = {"b"}
    PrevVolume <- MCPrevVolume
    Listings <- MCListings
    Served = {"a"}
    Surges = {{}, {"a"}}
    WatchMax = 2
    SubMax = 2
    LoadMax = 1
    TurboMax = 2
    Retries = 1
    Expiry = 1
    MaxChains = 2
INVARIANTS BetterRowFirst
PROPERTIES FreshUniverse ChartsArrive
