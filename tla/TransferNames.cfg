\* Two tables with a row of the same key each, a target for each, over one connection; one failure.
CONSTANTS
  t1 = t1
  t2 = t2
  k1 = k1
  g1 = g1
  g2 = g2
  None = None
  Tables <- TwoTables
  Keys <- OneKey
  Maps <- TwoMaps
  FromTable <- OneEach
  MaxVersion = 2
  MaxRemoves = 2
  MaxChannels = 1
  MaxFails = 1
SPECIFICATION FairSpec
INVARIANTS Converged
CHECK_DEADLOCK FALSE
PROPERTIES EventuallyReturned
