\* One index with two tradable options, two numberings, two attempts.
CONSTANTS
  NIFTY = NIFTY  nifty = nifty  nearDay = nearDay  farDay = farDay
  oddDay = oddDay
  Nothing = Nothing
  LastDate = 60
  FirstWeekday = 3
  MonthOf <- TwoMonths
  SupportedDates <- AllDates
  Underlyings <- OneUnderlying
  ScheduleOf <- NseSchedule
  ProfileOf <- WeeklyPreferred
  IndexOf <- IndexSymbol
  Options <- ThreeOptions
  OptionOf <- NiftyOptions
  Today = 42
  PlanSpot <- LowClose
  Values <- HighSpot
  Ids <- FourIds
  Numberings <- Swapped
  Policies <- BothPolicies
  StrikeWindow = 2
  MaxSymbols = 2
  MaxStaleness = 2
  MaxAttempts = 2
  MaxBackoff = 1
  MaxTime = 3
  MaxLag = 0
  MaxLead = 0
SPECIFICATION Spec
INVARIANTS
  TicksMeanTheirSymbol
  SubscribedAsPlanned
PROPERTIES
  RecoveryDecided
  SilentForGood
  ImplementsMarketFeed
