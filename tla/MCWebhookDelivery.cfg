CONSTANTS
  Delivery = {d1, t1}
  Synthetic = {t1}
  Endpoint = {p}
  p = p
  EndpointOf <- MCEndpointOf
  Relay = {r1}
  Worker = {w1, w2}
  MaxAttempts = 2
  Tier <- MCTier
  DuplicateWindow = 2
  MaxDeliver = 10
  MaxTrouble = 1
SPECIFICATION FairSpec
INVARIANT DeadLettersMatch
PROPERTIES EverySettles ImplementsLifecycle
CHECK_DEADLOCK FALSE
