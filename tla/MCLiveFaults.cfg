SPECIFICATION FairSpec
CONSTANTS
  Symbols = {s1}
  Prices <- MCPrices
  ThreeStrikes = 3
  MaxTradesPerDay = 2
  MaxDailyLossPct = 10
  AvgWinDayPnl = 1000
  BrokerHardLockout = 5000
  GiveBackWarn = 25
  GiveBackHard = 50
  HaltReasons = {"manual"}
  MaxAttempts = 2
  MaxHeld = 1
  Faults = {"refused", "unfilled", "lost_ack", "flatten_error", "positions_error", "quote_error"}
  NoSymbol = NoSymbol
CHECK_DEADLOCK FALSE
INVARIANTS
  TypeOK
  LedgersAgree
  EntryStillValid
  OneEntryPerFreeze
  EodUntracks
PROPERTIES
  OrphansLeave
  EodComes
