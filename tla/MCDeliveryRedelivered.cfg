CONSTANTS
  Delivery = {d1}
  Synthetic = {}
  Endpoint = {p}
  p = p
  EndpointOf <- MCEndpointOf
  Relay = {r1}
  Worker = {w1}
  MaxAttempts = 3
  Tier <- MCTier
  DuplicateWindow = 2
  MaxDeliver = 10
  MaxTrouble = 1
SPECIFICATION Spec
PROPERTY TierNotCutShort
CHECK_DEADLOCK FALSE
