CONSTANTS
  User = {u}
  u = u
  Channel = {c}
  Connection = {k1}
  UserOf <- MCUserOf
  MaxChanges = 0
  MaxBans = 1
  MaxFaults = 0
SPECIFICATION MembershipSpec
PROPERTY BanSilences
CHECK_DEADLOCK FALSE
