SPECIFICATION FairSpec
CONSTANTS
  Assets = {"BTC", "GBP", "ETH"}
  Pairs <- TwoPairs
  Prices = {1, 2}
  Requests <- Chained
  InitialBalances <- GbpOnly
  FeeNum = 1
  FeeDen = 4
  DeltaDen = 2
  VolumeRange = 1000
  MaxOrders = 3
  NoPair = NoPair
INVARIANTS
  OpenOrdersAreListed
  NoTriggeredOrderLeft
  LedgerMatchesClosedOrders
PROPERTIES
  TriggeredOrderIsServed
CHECK_DEADLOCK FALSE
