SPECIFICATION ServicesSpec
CONSTANTS
    k1 = k1
    k2 = k2
    v1 = v1
    v2 = v2
    ConfigKeys = {k1, k2}
    ConfigValues = {v1, v2}
    Unset = Unset
    Missing = Missing
    Saves = {"imp1", "imp2", "put", "rev", "dry"}
    SaveKind <- SaveKindDef
    SaveYaml <- SaveYamlDef
    Reads = {"r1"}
    MaxConfigSaves = 3
    MaxConfigFaults = 1
    Runs = {"r1", "r2"}
    Imports = {"i1", "i2"}
    Imported = {"m"}
    ImportOf <- ImportOfDef
    Batches = 1
    MaxBtFaults = 1
    LastCalDay = 4
    OpenDays = {0, 1, 3, 4}
    PublishDays = {2, 4}
    RefreshDays = {2, 4}
    RequiredAhead = 2
    FillAhead = 3
    MaxCalFaults = 1
    FirstIcDay = 6
    LastIcDay = 13
    IcTradeDays = {1, 2, 3, 4, 5, 8, 9, 10, 11, 12, 15}
    IcLag = 2
    IcLookback = 5
    CatchupMax = 1
    MaxIcFaults = 1
    LastMonth = 2
    QuarterMonths = {2}
    MarketStates = {"UP"}
    StrategyOrder <- StrategyOrderDef
    RegistryOrder <- StrategyOrderDef
    DefaultWeights <- DefaultWeightsDef
    IcirValues <- IcirDef
    NoSample = NoSample
    SignificantIcir = 2
    DecayThreshold = 1
    DecayMonths = 1
    R1Months = 1
    R2Months = 2
    HysteresisOn = TRUE
    MaxMonthFaults = 1
    SignalNames = {s1}
    LastSigDay = 2
    SignalTtl = 1
    Clicks = {c1}
    MaxPoolRuns = 1
    LastIngDay = 3
    IngTradeDays = {1, 2, 3}
    QuarterOf <- QuarterOfDef
    Announced <- AnnouncedDef
    MaxIngFaults = 1
    SimStocks = {"a", "b"}
    LastSimDay = 4
    SimMarkets <- SimMarketsDef
    SimRankings <- SimRankingsDef
    FeeScale = 10
    BuyFee = 1
    SellFee = 1
    Capital = 100
    Lot = 1
    SinglePct = 40
    SizerStockPct = 60
    AvailablePct <- AvailablePctDef
    DefaultPct = 40
    RiskStockPct = 60
    AddDeviationPct = 50
    LastPitDay = 3
    PitPeriods = {1, 2, 3}
    PitFields <- PitFieldsDef
    Blank <- BlankDef
    PitLookback = 1
    SimStart = 2
    HistoryPeriods = 3
    LosingPeriods = 2
    MaxPitWrites = 3
    Amounts = {1, 2}
    Estimates = {1}
    Valuations = {1, 2}
    QuoteLookback = 1
    AmountWindow = 1
    FlowLookback = 1
    RankLookback = 1
    MaxTableWrites = 2
    RawStates = {"UPTREND", "OSCILLATION"}
    Oscillation = "OSCILLATION"
    NoState = "none"
    WindowDays = 4
    WarmDays = 1
    DebounceDays = 2
    LastMarketDay = 6
    PoolCodes = {"a", "b"}
    PoolCapacity = 1
    LastPoolDay = 2
    PoolRankings <- PoolRankingsDef
    PoolHoldings <- PoolHoldingsDef
    NoPool = NoPool
    MaxPoolWrites = 3
    MaxListEdits = 1
    PluginCalls = 2
    MaxKills = 1
    Inboxes = {"a", "b"}
    Pages = {"a"}
    System = System
    NoOwner = NoOwner
    LastNote = 2
    ListLimit = 1
    MaxMarks = 2
    ScStocks = {"a", "b", "c", "d"}
    ScStrategies = {"s", "t", "u"}
    ScBlacklist = {"d"}
    FactChoices <- FactsDef
    FinancialStocks = {"c"}
    ColumnChoices <- ColumnsDef
    ScColumns <- ScColumnsDef
    ScStates = {"UPTREND", "OSCILLATION"}
    Sideways = "OSCILLATION"
    ScWeights <- ScWeightsDef
    ScOrder <- ScOrderDef
    MaxScRuns = 1
    LastExitDay = 2
    ExitRanks = {1, 2, 3}
    SellRanks = {2, 3}
    FirstSellRank = 3
    Leads = {0, 2}
    DropSigma = 1
    NoSignal = NoSignal
    MaxExitRuns = 2
    MaxExitEdits = 2
INVARIANTS
    HistoryExplainsConfig
    BacktestRowsAgree
    OneBacktestAtATime
    SkippedOnlyIfUnknown
    CatchUpKeepsItsPromise
    RescoringSeesSameWeights
    ScanIsExact
    NoLookAhead
    ImportReportIsTrue
    SimulationIsHonest
    BacktestSeesLiveData
    SwitchIsConfirmed
    PoolRowsExplained
    PluginVerdictIsTrue
    NobodyIsFlattened
    StopIsNotSwallowed
PROPERTIES
    ConfigSettles
    BacktestEnds
    StatusContract
    BellHeals
    InboxIsPrivate
\* Every part stops at its bounds (days, saves, runs, faults).
CHECK_DEADLOCK FALSE
