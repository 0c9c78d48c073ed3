SPECIFICATION MCSpec
CONSTANTS
  g1 = g1
  g2 = g2
  c1 = c1
  c2 = c2
  c3 = c3
  Connection = {c1, c2, c3}
  Places = 2
  Bound = 2
  MaxOutages = 2
  Free = Free
  Instance = {g1, g2}
  Visit = {c1, c2, c3}
  On <- MCOn
  Ttl = 3
  Grace = 3
  MaxTrouble = 1
INVARIANT NoPlaceIsTaken
PROPERTIES CountedHavePlaces PlacesComeBack SteadyIsOnline GoneIsHeard
