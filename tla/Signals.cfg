SPECIFICATION Spec
CONSTANTS
    Cfg <- MCCfg
    Codes = {c1}
    Times <- MCTimes
    Facts <- MCFacts
    StrategyOrder <- MCOrder
    OwnCooldown <- MCOwn
    SignalCooldown = 2
    LossCooldown = 3
    MinChange <- MCMinChange
    MaxDayChange = 220
    MaxRestarts = 1
INVARIANTS QuietAfterLoss StrengthHelps
PROPERTIES JdmHeard
