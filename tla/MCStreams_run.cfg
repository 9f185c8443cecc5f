SPECIFICATION Spec
CONSTANTS
  Kinds = {"binance", "bybit", "coinbase", "digifinex", "kraken"}
  Prices = {1, 2}
  Volumes = {0, 1}
  MaxVersion = 4
  MaxSubscriptions = 2
  Pairs <- TwoPairs
  BookPair <- Btc
  Intervals = {"1m", "1d"}
  MaxItems = 3
  LocalOffset = 3600
INVARIANTS
  BookIsTheExchanges
  NoLevelInvented
  ReadersSeeTheBestAndTheLast
  HandlersAreToldEverything
PROPERTIES
  ImplementsBook
  CatchesUp
CHECK_DEADLOCK FALSE
