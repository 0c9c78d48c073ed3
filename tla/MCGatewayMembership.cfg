CONSTANTS
  User = {u}
  u = u
  Channel = {c}
  Connection = {k1, k2}
  UserOf <- MCUserOf
  MaxChanges = 2
  MaxBans = 1
  MaxFaults = 1
SPECIFICATION MembershipFairSpec
INVARIANT HeldIsSubscribed
PROPERTY Converges
CHECK_DEADLOCK FALSE
