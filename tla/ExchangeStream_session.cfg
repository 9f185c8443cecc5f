SPECIFICATION PersistentSpec
CONSTANTS
  Pairs = {p1, p2}
  MaxWire = 2
  NoPair = NoPair
INVARIANTS
  SubscribedOnThisConnection
  HandedOutStreamHasConnection
PROPERTIES
  
  SubscriptionsTakeEffect
  
CHECK_DEADLOCK FALSE
