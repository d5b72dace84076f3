SPECIFICATION PartsSpec
CONSTANTS
    \* configuration
    TunedKeys = {"THREE_STRIKES", "TIER_A_GAP_MIN", "HARD_STOP_TIME"}
    TunedTexts <- TunedTextsDef
    MaxEdits = 4
    \* risk state, for replay and paper session
    Symbols = {"A", "B"}
    Prices = {110}
    ThreeStrikes = 2
    MaxTradesPerDay = 2
    MaxDailyLossPct = 5
    AvgWinDayPnl = 5
    BrokerHardLockout = 100000
    GiveBackWarn = 20
    GiveBackHard = 50
    HaltReasons = {"x"}
    \* replay
    ReplayBars <- ReplayBarsDef
    ReplayShares = {2}
    MaxDays = 2
    MaxTrades = 3
    \* paper session
    MaxLost = 1
    \* simulator gate and readiness
    Required = 3
    Accuracy = 60
    SimDays <- SimDaysDef
    Accounts <- AccountsDef
    MinBuyingPower = 500
    MaxLog = 6
    MaxDrift = 50
    \* bars and staleness
    PrintTimes = {0, 9, 10, 60, 75}
    PrintPrices = {100, 101}
    MaxPrints = 3
    MaxFlushes = 1
    Staleness = 5
    SlowStaleness = 15
    \* level 2
    Snapshots = 3
    Window = 30
    DepthTicks <- DepthTicksDef
    TapeTicks <- TapeTicksDef
    Delays = {1, 30}
    MaxTicks = 4
    \* scanner and catalyst
    BaselineDays = 3
    MinHistoryDays = 2
    Histories <- HistoriesDef
    DayVolumes = {400, 1000}
    FloatLists <- FloatListsDef
    ScanQuotes <- ScanQuotesDef
    CatalystCases <- CatalystCasesDef
    \* news
    Tickers = {"A"}
    CacheSize = 2
    Lookback = 60
    Backfills <- BackfillsDef
    NewsDelays = {0, 61}
    MaxArticles = 2
    \* dashboard
    Sockets = {"a", "b"}
    MaxUpdates = 3
    \* market state and halts
    HotWindowDays = 3
    MinWindowDays = 2
    DaySnapshots <- DaySnapshotsDef
    HaltPrices = {0, 100, 101}
    BandDistances = {100, 101}
    MaxHaltDays = 4
INVARIANTS
    TuningSurvivesSeeding
    ReplayLedgersAgree
    ReplayDayIsGuardDay
    PaperBooksAgree
    PaperSellsBounded
    SeriesAgree
    WindowIsComplete
    TradeableHoldsUp
    VerifiedIsUnblocked
    PagesCatchUp
    PreHaltNeedsHotTape
PROPERTIES
    StreakPromise
    ReadyMeansProven
CHECK_DEADLOCK FALSE
