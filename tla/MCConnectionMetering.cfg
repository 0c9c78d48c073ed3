CONSTANTS
  Connection = {c1, c2}
  Report = {r1, r2}
  Nobody = nobody
  Threshold = {2}
  PeriodOf <- MCPeriodOf
  MaxMinute = 2
  MaxRetained = 1
  MaxMishaps = 1
SPECIFICATION MeterFairSpec
INVARIANT BillsAreRight
PROPERTY ClosedIsRecorded
CHECK_DEADLOCK FALSE
