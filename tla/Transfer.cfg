\* One table with one row, mapped to two targets.
CONSTANTS
  t1 = t1
  t2 = t2
  k1 = k1
  g1 = g1
  g2 = g2
  None = None
  Tables <- OneTable
  Keys <- OneKey
  Maps <- TwoMaps
  FromTable <- BothFromOne
  MaxVersion = 2
  MaxRemoves = 1
  MaxChannels = 2
  MaxFails = 1
SPECIFICATION Spec
INVARIANTS TypeOK Converged RecordsAreTrue
PROPERTIES NoStepBack
CHECK_DEADLOCK FALSE
