SPECIFICATION FairSpec
CONSTANTS
  a = a
  b = b
  c = c
  Keys = {a, b, c}
  Concurrency = 2
  Children = 2
  NoKey = NoKey
INVARIANT GaugeIsTrue
PROPERTY NobodyStarves
