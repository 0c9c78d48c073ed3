CONSTANTS
  Channel = {c}
  Connection = {k1, k2}
  MemberOf <- MCMemberOf
  MaxSeq = 2
  BackfillLimit = 1
  MaxBuffered = 1
  MaxTrouble = 1
  MaxOpens = 2
SPECIFICATION FairSpec
INVARIANTS NoGap NoRepeat
PROPERTY EveryResumeEnds
CHECK_DEADLOCK FALSE
