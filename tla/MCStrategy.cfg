CONSTANTS
    SurgeMin = 2
    PullbackMax = 3
    FlagMax = 25
    LightVolumeRatio = 30
    SpikeLookback = 4
    RetraceMax = 50
    SpreadMin = 2
    SpreadMax = 10
    EntryTrigger = "mid_candle"
    StopBasis = "pullback_low"
    BailoutBars = 2
    BailoutMove = 2
    MoveBeTrigger = 2
    PsychStep = 7
    PsychTol = 1
    WatchRank = 2
    BarWindow = 8
    EmaSeed = 4
    SlowSeed = 5
    SignalSeed = 6
    Tape <- MCTape
    Open = 100
    TenSecondShapes <- MCTenSecond
    MaxExtra = 1
    MaxSessions = 2
    EmaOffsets <- MCEmaOffsets
    Views <- MCViews
    FillOffsets = {1}
    Opens <- MCOpens
    Ranks = {3}
SPECIFICATION Spec
INVARIANTS TypeOK EntryIsTradable StopHonoured WatermarkSeesEveryClose VwapWithinSession
CHECK_DEADLOCK FALSE
