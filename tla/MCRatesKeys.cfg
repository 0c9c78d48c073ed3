CONSTANTS
  Channel = {c}
  Private = {c}
  User = {u, b}
  Bot = {b}
  Send = {s1, s2}
  Edit = {e1, e2}
  Delete = {d1}
  Application = app
  Nobody = nobody
  Tombstone = tombstone
  NoKey = nokey
  UserOf <- MCUserOf
  ChannelOf <- MCChannelOf
  KeyOf <- MCKeyOf
  u = u
  c = c
  s1 = s1
  s2 = s2
  k = k
  b = b
  s3 = s2
  ByKey = {}
  MaxRollbacks = 0
  MaxAdmin = 0
  Caller = {c1, c2, c3}
  Record = {r1, r2}
  NoRecord = norecord
  MaxCalls = 5
  MaxLost = 1
  Api = {a1}
  Gateway = {g1}
  Slot = {q1, q2}
  Allowed = 1
  Limit = 1
  MaxWindow = 1
  MaxRequests = 7
  MaxCounted = 3
  MaxOutages = 1
  NoProcess = NoProcess
SPECIFICATION KeysSpec
PROPERTY KeysDie
CHECK_DEADLOCK FALSE
