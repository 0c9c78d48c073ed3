CONSTANTS
  Connection = {c1}
  Report = {r1, r2}
  Nobody = nobody
  Threshold = {2}
  PeriodOf <- MCPeriodOf
  MaxMinute = 2
  MaxRetained = 1
  MaxMishaps = 0
SPECIFICATION MeterSpec
INVARIANT BillIsExact
CHECK_DEADLOCK FALSE
