SPECIFICATION Spec
CONSTANTS
  Symbols = {s1}
  Prices <- MCPrices
  ThreeStrikes = 3
  MaxTradesPerDay = 1
  MaxDailyLossPct = 10
  AvgWinDayPnl = 1000
  BrokerHardLockout = 5000
  GiveBackWarn = 25
  GiveBackHard = 50
  HaltReasons = {"manual"}
  MaxAttempts = 1
  MaxHeld = 1
  Faults = {"short"}
  NoSymbol = NoSymbol
CHECK_DEADLOCK FALSE
INVARIANTS
  NeverShort
