SPECIFICATION Spec
CONSTANTS
  Symbols = {s1, s2}
  Prices <- MCPrices
  ThreeStrikes = 3
  MaxTradesPerDay = 5
  MaxDailyLossPct = 10
  AvgWinDayPnl = 1000
  BrokerHardLockout = 5000
  GiveBackWarn = 25
  GiveBackHard = 50
  HaltReasons = {"manual"}
  MaxSize = 40
  IcebreakerPct = 25
  StarterCap = 20
  CushionPnl = 1000
  PerTradeRisk = 100
  RiskFormula = TRUE
  MondayPct = 50
  FridayPct = 75
  RehabCap = 4
  ColdPct = 50
  RampTier = "MICRO"
  RampMicroShares = 5
  RampStarterShares = 15
  Pnls <- MCPnls
  Equities <- MCEquities
  Contexts <- MCContexts
  MaxCloses = 5
INVARIANTS
  TypeOK
  GuardInv
  MonitorAgreesWithGate
  DayMatchesResults
PROPERTIES
  NoTradeAfterThreeStrikes
  SizeWithinCaps
