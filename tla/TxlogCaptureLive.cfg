\* Two tables with a row each, the bit of t2 beyond a Java int; two transactions of one session,
\* of which the second leaves the row of t1 without a date.
CONSTANTS
  t1 = t1
  t2 = t2
  k1 = k1
  s1 = s1
  s2 = s2
  Tables <- TwoTables
  Keys <- OneKey
  Sessions <- OneSession
  MaxTxn = 2
  MaxScn = 2
  Bit <- WideBit
  Undated <- SecondVersion
  MaxQueue = 1
  MaxFails = 1
SPECIFICATION FairSpec
PROPERTIES EventuallyOffered
CHECK_DEADLOCK FALSE
