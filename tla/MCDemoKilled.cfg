SPECIFICATION Spec
CONSTANTS
    PerTradeRisk = 400
    MaxPositionSize = 4
    E6Enabled = FALSE
    Symbols = {s1}
    Snapshots <- MCSnapshots
    BarHistories <- MCBars
    Spreads = {2, 5}
    Quotes = {980, 1050}
    ManualSizes = {3}
    LossLimits = {100}
    OpKinds = {"close", "scale", "stop", "buy", "sell", "trade", "flatten", "kill", "halt", "pause", "override", "scan"}
    Refusals = {"buy", "sell"}
    MaxBuys = 1
    MaxRequests = 1
PROPERTIES KilledMeansFlat
CHECK_DEADLOCK FALSE
