CONSTANTS
  Event = {e1, e2}
  Endpoint = {p1, p2}
  Worker = {w1, w2}
  PoolSize = 3
  MaxDeliver = 4
  MaxRedeliveries = 2
  MaxCrashes = 1
  MaxSwitches = 1
SPECIFICATION FairSpec
INVARIANTS AckedMeansClaimed ClaimedReachesEveryone
PROPERTY EveryEventHandled
CHECK_DEADLOCK FALSE
