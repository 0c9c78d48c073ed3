CONSTANTS
  Event = {e1}
  Endpoint = {p1}
  Worker = {w1}
  PoolSize = 3
  MaxDeliver = 4
  MaxRedeliveries = 2
  MaxCrashes = 1
  MaxSwitches = 0
SPECIFICATION Spec
INVARIANT RowsCommitWithTheClaim
CHECK_DEADLOCK FALSE
