SPECIFICATION BackTestSpec
CONSTANTS
  Assets = {"BTC", "GBP", "ETH"}
  Pairs <- BothPairs
  Prices = {1, 2, 3}
  Requests = {}
  InitialBalances <- GbpAndEth
  FeeNum = 0
  FeeDen = 4
  DeltaDen = 2
  VolumeRange = 1000
  MaxOrders = 0
  NoPair = NoPair
  Files <- AnyFiles
  StepSize = 2
  ConfigStart = 0
  ConfigEnd = 0
  Intervals = {3}
  MaxCount = 1
  Subscribable = {}
INVARIANT NoFutureCandle
CHECK_DEADLOCK FALSE
