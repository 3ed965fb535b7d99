\* Two days of up to two snapshots; fixture and live campaigns.
CONSTANTS
  Nifty = Nifty  Sensex = Sensex  nCall = nCall  nPut = nPut  sCall = sCall  sPut = sPut
  NothingTold = NothingTold
  IndexList <- TwoIndices
  Listed <- FourListed
  UnderlyingOf <- IndexOf
  TypeOf <- TypesOf
  StrikeOf <- AtTheMoney
  ExpiryOf <- LaterExpiry
  ClassOf <- Weekly
  ProfileFor <- WeeklyPreferred
  AllowSameDay = FALSE
  MaxQuoteAge = 1
  EnabledStrategies = {}
  FastPeriod = 5
  SlowPeriod = 10
  RsiPeriod = 5
  RocPeriod = 5
  AtrPeriod = 5
  Lookback = 5
  RsiThreshold = 55
  RsiOversold = 30
  RsiOverbought = 70
  DeviationPct = 1
  StrikeDistance = 2
  AllowedMoneyness <- Money
  MinVolume = 1
  MinOpenInterest = 1
  MaxSpreadPct = 10
  MaxAgentAge = 1
  CampaignWindow = 1
  HistoryMin = 14
  HistoryTarget = 20
  CampaignCash = 50
  CampaignRisk = 6
  MaxChainAge = 5
  MaxViewAge = 1
  StrategiesConfigured = TRUE
  RegimeBars = 26
  MaxPositionNotional = 30
  MaxGrossNotional = 45
  MaxDailyLoss = 5
  MaxConcentrationPct = 80
  MaxOpenPositions = 2
  MaxPerTradeRisk = 6
  Deterministic = FALSE
  EntrySource = "ASK"
  ExitSource = "BID"
  SlippageBps = 500
  TakeProfitPct = 15
  SquareOffOnClose = TRUE
  Brokerage = 1
  SttRate = 0
  ExchangeRate = 0
  GstRate = 0
  Days = {1, 2}
  Moments = {1, 2, 3}
  SessionOf <- Session
  MarketsAt <- Markets
  Failings <- OneFails
  MaxSnapshots = 2
  MaxSessions = 2
SPECIFICATION Spec
INVARIANTS
  EntriesFitLedger
  OneProvenance
  LossWithinDrawdown
  EndedReportsEveryDayOnce
  EntryUnopposed
CHECK_DEADLOCK FALSE
