SPECIFICATION Spec
CONSTANTS
  Assets = {"BTC", "GBP", "ETH"}
  Pairs <- OnePair
  Prices = {1, 2, 3}
  Requests <- AllTypes
  InitialBalances <- Funds
  FeeNum = 1
  FeeDen = 4
  DeltaDen = 2
  VolumeRange = 1000
  MaxOrders = 2
  NoPair = NoPair
INVARIANT RefusedOrderNeverExecutes
CHECK_DEADLOCK FALSE
