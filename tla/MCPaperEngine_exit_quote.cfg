\* One position, quotes up to one instant old.
CONSTANTS
  d1 = d1  d2 = d2  c1 = c1
  NoQuote = NoQuote
  Decisions <- TwoDecisions
  Contracts <- OneContract
  Candidate <- AllTrue
  Complete <- AllTrue
  ContractOf <- SameContract
  QuantityOf <- UnevenLots
  StopOf <- StopAt5
  ExpiryDay <- NoExpiry
  Quotes <- AllQuotes
  MaxTime = 3
  DayOf <- OneDay
  SessionOf <- TradingDay
  MaxLag = 0
  StartingCash = 60
  SessionTimeout = 0
  MaxFaults = 0
  MaxPositionNotional = 40
  MaxGrossNotional = 40
  MaxDailyLoss = 100
  MaxConcentrationPct = 100
  MaxOpenPositions = 2
  MaxPerTradeRisk = 100
  Deterministic = FALSE
  EntrySource = "ASK"
  ExitSource = "BID"
  SlippageBps = 1000
  TakeProfitPct = 20
  SquareOffOnClose = TRUE
  Brokerage = 1
  SttRate = 100
  ExchangeRate = 53
  GstRate = 18
SPECIFICATION Spec
INVARIANTS
  ExitsUseCurrentQuotes
