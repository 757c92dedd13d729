SPECIFICATION ClientSpec
CONSTANTS
  c1 = c1
  c2 = c2
  d1 = d1
  Calls <- MCCalls
  Domains <- MCDomains
  MaxSockets = 3
INVARIANTS
  OneLiveSocket
  PendingFailsFast
  SubscriptionsArmed
PROPERTIES
  EveryCallSettles
CHECK_DEADLOCK FALSE
