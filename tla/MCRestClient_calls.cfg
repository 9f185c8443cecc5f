SPECIFICATION Spec
CONSTANTS
  Kinds = {"binance", "bybit", "coinbase", "digifinex", "kraken"}
  Pairs <- TwoPairs
  Filters <- TwoFilters
  Market <- Exchange
  Calls <- AllCalls
  Moving <- OnlyBtc
  Prices <- TwoPrices
  MaxOrders = 4
  BybitFee = 1000
  OldNames <- OnlyBtc
  LocalOffset = 3600
INVARIANTS
  AnswersAreTrue
  
  CancelledIsNotOpen
  FailsForAReason
PROPERTIES
  CallsReturn
CHECK_DEADLOCK FALSE
