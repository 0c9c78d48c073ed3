CONSTANTS
  Event = {e1, e2, e3}
  Relay = {r1, r2}
  BatchSize = 2
  MaxFailures = 1
  MaxCrashes = 1
  a1 = a1
  a2 = a2
  a3 = a3
  bad = bad
  odd = odd
  Record = {a1, a2, a3, bad, odd}
  Tables = 2
  TableOf <- MCTableOf
  Malformed = {bad}
  Unclaimed = {odd}
  Refused = {a3}
  Ingester = {i1, i2}
  BatchRows = 3
  MaxTrouble = 2
SPECIFICATION MCSpec
INVARIANT AckedIsCounted
PROPERTIES SpineSpec EveryRecordLands
CHECK_DEADLOCK FALSE
