SPECIFICATION Spec
CONSTANTS
  Interval = 2
  MaxTime = 5
  Prices = {1, 2, 3}
  MaxTrades = 4
  Quiet = TRUE
  NoCandle = NoCandle
INVARIANTS
  AssertionHolds
  CandleIsThatOfItsTrades
  EveryTradeCountsOnce
PROPERTY
  PublishedTimeNeverGoesBack
CHECK_DEADLOCK FALSE
