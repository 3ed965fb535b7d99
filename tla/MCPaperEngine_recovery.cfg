\* Two decisions over two days: a timeout, an expired contract, losses, quotes out of
\* time, late snapshots, failed checkpoints and restarts.
CONSTANTS
  d1 = d1  d2 = d2  c1 = c1
  NoQuote = NoQuote
  Decisions <- TwoDecisions
  Contracts <- OneContract
  Candidate <- AllTrue
  Complete <- AllTrue
  ContractOf <- SameContract
  QuantityOf <- UnevenLots
  StopOf <- StopAt5
  ExpiryDay <- FirstDayExpiry
  Quotes <- TimedQuotes
  MaxTime = 3
  DayOf <- NightAfterFirst
  SessionOf <- TradingDay
  MaxLag = 1
  StartingCash = 60
  SessionTimeout = 2
  MaxFaults = 2
  MaxPositionNotional = 40
  MaxGrossNotional = 40
  MaxDailyLoss = 5
  MaxConcentrationPct = 100
  MaxOpenPositions = 2
  MaxPerTradeRisk = 100
  Deterministic = FALSE
  EntrySource = "ASK"
  ExitSource = "BID"
  SlippageBps = 1000
  TakeProfitPct = 20
  SquareOffOnClose = TRUE
  Brokerage = 1
  SttRate = 100
  ExchangeRate = 53
  GstRate = 18
SPECIFICATION Spec
INVARIANTS
  BooksAgree
  HaltDiscipline
  CausalExits
PROPERTIES
  NoEntryAfterHalt
  EntriesRespectDailyLoss
  DurableForward
  LifecycleKept
