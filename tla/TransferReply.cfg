\* One write to two targets, one failure.
CONSTANTS
  t1 = t1
  t2 = t2
  k1 = k1
  g1 = g1
  g2 = g2
  None = None
  Tables <- OneTable
  Keys <- OneKey
  Maps <- TwoMaps
  FromTable <- BothFromOne
  MaxVersion = 1
  MaxRemoves = 0
  MaxChannels = 1
  MaxFails = 1
SPECIFICATION Spec
INVARIANTS ReplyTellsSuccess
CHECK_DEADLOCK FALSE
