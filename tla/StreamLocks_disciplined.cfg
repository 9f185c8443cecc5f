SPECIFICATION FairSpec
CONSTANTS
  Pairs = {p1, p2, p3}
  HandlerOrders = {p1, p2, p3}
  Disciplined = TRUE
  NoPair = NoPair
  NoThread = NoThread
INVARIANTS
  NoWaitCycle
  DeliveredPairIsKnown
PROPERTIES
  StrategyCallsReturn
  DeliveriesComplete
