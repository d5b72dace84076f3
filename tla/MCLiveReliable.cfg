SPECIFICATION FairSpec
CONSTANTS
  Symbols = {s1}
  Prices <- MCPrices
  ThreeStrikes = 3
  MaxTradesPerDay = 2
  MaxDailyLossPct = 10
  AvgWinDayPnl = 1000
  BrokerHardLockout = 5000
  GiveBackWarn = 25
  GiveBackHard = 50
  HaltReasons = {"manual"}
  MaxAttempts = 2
  MaxHeld = 2
  Faults = {}
  NoSymbol = NoSymbol
CHECK_DEADLOCK FALSE
INVARIANTS
  EodMeansFlat
PROPERTIES
  BreachedStopsExit
  StaleFeedFlattens
