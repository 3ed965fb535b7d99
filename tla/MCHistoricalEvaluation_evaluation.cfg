\* Four days; campaigns, callers' own cycles and backtests over thirty-four datasets.
CONSTANTS
  Nifty = Nifty  Sensex = Sensex
  call = call  otherCall = otherCall  put = put  far = far
  NothingTold = NothingTold
  IndexList <- OneIndexOnly
  Listed <- AllListed
  UnderlyingOf <- IndexOf
  TypeOf <- Sides
  StrikeOf <- TwoStrikes
  ExpiryOf <- Expiries
  ClassOf <- AllWeekly
  ProfileFor <- PreferWeekly
  AllowSameDay = FALSE
  MaxQuoteAge = 1
  EnabledStrategies = {}
  FastPeriod = 5
  SlowPeriod = 10
  RsiPeriod = 5
  RocPeriod = 5
  AtrPeriod = 5
  Lookback = 5
  RsiThreshold = 55
  RsiOversold = 30
  RsiOverbought = 70
  DeviationPct = 1
  StrikeDistance = 2
  AllowedMoneyness <- AnyMoney
  MinVolume = 1
  MinOpenInterest = 1
  MaxSpreadPct = 10
  MaxAgentAge = 1
  CampaignWindow = 1
  HistoryMin = 14
  HistoryTarget = 20
  CampaignCash = 100
  CampaignRisk = 10
  MaxChainAge = 5
  MaxViewAge = 1
  StrategiesConfigured = TRUE
  RegimeBars = 26
  MaxPositionNotional = 60
  MaxGrossNotional = 80
  MaxDailyLoss = 20
  MaxConcentrationPct = 80
  MaxOpenPositions = 2
  MaxPerTradeRisk = 10
  Deterministic = FALSE
  EntrySource = "ASK"
  ExitSource = "BID"
  SlippageBps = 500
  TakeProfitPct = 15
  SquareOffOnClose = TRUE
  Brokerage = 1
  SttRate = 0
  ExchangeRate = 0
  GstRate = 0
  SessionOf <- Calendar
  CeoFloorPct = 40
  Stores <- AllDatasets
  DayLength = 8
  CloseWindow = 1
  DecisionOffset = 2
  Precision = 24
  SquareOffOffset = 6
  BacktestQuantity = 1
  BacktestCash = 100
  ProbeDays = 6
  ProbeStrike = 1010
  Requests <- Asks
SPECIFICATION EvaluationSpec
INVARIANTS
  OnlyWhatWasKnown
  SpansStandAlone
  HistoricalIsReal
CHECK_DEADLOCK FALSE
