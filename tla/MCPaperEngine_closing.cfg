\* A timeout or the square-off window meets inventory; one failed write or restart.
CONSTANTS
  d1 = d1  d2 = d2  c1 = c1
  NoQuote = NoQuote
  Decisions <- TwoDecisions
  Contracts <- OneContract
  Candidate <- OneUnapproved
  Complete <- AllTrue
  ContractOf <- SameContract
  QuantityOf <- UnevenLots
  StopOf <- StopAt5
  ExpiryDay <- NoExpiry
  Quotes <- ThinQuotes
  MaxTime = 3
  DayOf <- OneDay
  SessionOf <- TradingDay
  MaxLag = 0
  StartingCash = 60
  SessionTimeout = 3
  MaxFaults = 1
  MaxPositionNotional = 40
  MaxGrossNotional = 40
  MaxDailyLoss = 100
  MaxConcentrationPct = 100
  MaxOpenPositions = 2
  MaxPerTradeRisk = 100
  Deterministic = FALSE
  EntrySource = "ASK"
  ExitSource = "BID"
  SlippageBps = 1000
  TakeProfitPct = 20
  SquareOffOnClose = TRUE
  Brokerage = 1
  SttRate = 100
  ExchangeRate = 53
  GstRate = 18
SPECIFICATION FairSpec
PROPERTIES
  SquareOffFlattens
  TimeoutResolves
