SPECIFICATION BackTestSpec
CONSTANTS
  Assets = {"BTC", "GBP", "ETH"}
  Pairs <- BothPairs
  Prices = {1, 2, 3}
  Requests <- Orders
  InitialBalances <- GbpAndEth
  FeeNum = 0
  FeeDen = 4
  DeltaDen = 2
  VolumeRange = 1000
  MaxOrders = 2
  NoPair = NoPair
  Files <- AnyFiles
  StepSize = 2
  ConfigStart = 0
  ConfigEnd = 0
  Intervals = {1, 2, 3}
  MaxCount = 3
  Subscribable <- OtherChannels
INVARIANTS
  IteratorIsLatest
  OhlcvMatchesWindows
  AccountIsUpToDate
  OpenOrdersAreSubscribed
  ReportedTradesAreInFile
PROPERTY
  NoCandleSkipped

CHECK_DEADLOCK FALSE
