\* One index with a call and a put, two days, a timeout at the end.
CONSTANTS
  NIFTY = NIFTY  call = call  put = put
  Nothing = Nothing  NothingTold = Nothing
  Symbols <- AllSymbols
  Spots <- OneIndex
  Values <- Told
  MaxTime = 3
  MaxLag = 1
  MaxLead = 1
  Listed <- TwoListed
  UnderlyingOf <- OfIndex
  TypeOf <- CallAndPut
  StrikeOf <- Around
  ExpiryOf <- SameExpiry
  ClassOf <- Weekly
  ProfileFor <- WeeklyPreferred
  AllowSameDay = FALSE
  MaxQuoteAge = 1
  StrikeDistance = 2
  AllowedMoneyness <- NearMoney
  MinVolume = 1
  MinOpenInterest = 1
  MaxSpreadPct = 10
  CeoFloorPct = 40
  EnabledStrategies <- FourStrategies
  FastPeriod = 5
  SlowPeriod = 10
  RsiPeriod = 5
  RocPeriod = 5
  AtrPeriod = 5
  Lookback = 5
  RsiThreshold = 55
  RsiOversold = 30
  RsiOverbought = 70
  DeviationPct = 1
  MaxPositionNotional = 70
  MaxGrossNotional = 95
  MaxDailyLoss = 25
  MaxConcentrationPct = 60
  MaxOpenPositions = 1
  MaxPerTradeRisk = 15
  Deterministic = FALSE
  EntrySource = "ASK"
  ExitSource = "BID"
  SlippageBps = 500
  TakeProfitPct = 20
  SquareOffOnClose = TRUE
  Brokerage = 1
  SttRate = 0
  ExchangeRate = 0
  GstRate = 0
  Indicators <- UpOrDown
  IndexOrder <- IndexSequence
  LotOf <- OneLot
  Lots = 1
  StopLossPct = 20
  StartingCash = 100
  MaxStaleness = 0
  SnapshotInterval = 1
  LoopTimeout = 3
  SessionOf <- TwoDays
  DateOf <- DayOf
SPECIFICATION Spec
INVARIANTS
  LiveBooksAgree
PROPERTIES
  EntriesJustified
  HaltIsForGood
  CloseLeavesNothing
  TimeoutKeepsInventory
