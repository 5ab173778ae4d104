\* Two tables with two rows each, one of which cannot be marked.
CONSTANTS
  t1 = t1
  t2 = t2
  k1 = k1
  k2 = k2
  s1 = s1
  Tables <- TwoTables
  Keys <- TwoKeys
  Sessions <- OneSession
  All = All
  Unmarkable <- Apostrophe
  Named <- WithoutFraction
  MaxTxn = 2
  MaxScn = 4
  MaxDeletes = 2
  MaxDeleteFails = 2
SPECIFICATION FairSpec
CONSTRAINTS Quiet OneRow
INVARIANTS LastIsNamed NoDeleteForgotten MessagedOnce
PROPERTIES EventuallyMessaged
CHECK_DEADLOCK FALSE
