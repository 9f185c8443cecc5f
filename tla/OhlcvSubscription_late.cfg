SPECIFICATION Spec
CONSTANTS
  Interval = 2
  MaxTime = 3
  Prices = {1, 2}
  MaxTrades = 2
  Quiet = FALSE
  NoCandle = NoCandle
INVARIANT AssertionHolds
CHECK_DEADLOCK FALSE
