SPECIFICATION FairSpec
CONSTANTS
  u = u
  v = v
  b = b
  c = c
  d = d
  s1 = s1
  s2 = s2
  s3 = s3
  s4 = s4
  s5 = s5
  k = k
  NoKey = NoKey
  Nobody = Nobody
  Send = {s1, s2, s3, s4, s5}
  Channel = {c, d}
  User = {u, v, b}
  Bot = {b}
  ChannelOf <- MCChannelOf
  UserOf <- MCUserOf
  KeyOf <- MCKeyOf
  Threshold = {100}
  MessageCap = 2
  UserCap = 2
  Relay = {r1, r2}
  Recipients = 1
  Batch = 2
  MaxRollbacks = 1
  MaxTrouble = 1
INVARIANTS OvershootIsBounded UserMarksAreNoticed
PROPERTY NoticesAreMailed
CHECK_DEADLOCK FALSE
