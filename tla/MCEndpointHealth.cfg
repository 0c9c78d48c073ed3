SPECIFICATION FairSpec
CONSTANTS
  r1 = r1
  r2 = r2
  r3 = r3
  r4 = r4
  i1 = i1
  i2 = i2
  q1 = q1
  q2 = q2
  Report = {r1, r2, r3, r4}
  AttemptOf <- MCAttemptOf
  Instance = {i1, i2}
  Relay = {q1, q2}
  MinAttempts = 2
  Hour = 1
  Never = Never
  Nobody = Nobody
  MaxClock = 4
  MaxSwitches = 3
  MaxTrouble = 2
INVARIANTS RunIsTheStreak
PROPERTIES DisabledForCause LongRunsEnd DisablesAreMailed
CHECK_DEADLOCK FALSE
