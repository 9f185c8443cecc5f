SPECIFICATION FairSpec
CONSTANTS
  Pairs = {p1, p2}
  HandlerOrders = {}
  Disciplined = FALSE
  NoPair = NoPair
  NoThread = NoThread
PROPERTY
  StrategyCallsReturn
CHECK_DEADLOCK FALSE
