SPECIFICATION Spec
SYMMETRY Symmetry
CONSTANTS
  a = a
  b = b
  w1 = w1
  w2 = w2
  m1 = m1
  m2 = m2
  Object = {a, b}
  Cap = 2
  Message = {m1, m2}
  MediaOf <- MCMediaOf
  Worker = {w1, w2}
  MaxKeys = 3
  Nobody = Nobody
  None = None
  MaxTrouble = 2
INVARIANTS CapIsKept ReadyHasBytes HeardOnce DanglesOnlyWhenLate
CHECK_DEADLOCK FALSE
