\* Two tables with a row each, two sessions, two transactions; the bit of t2 is the highest of a Java int.
CONSTANTS
  t1 = t1
  t2 = t2
  k1 = k1
  s1 = s1
  s2 = s2
  Tables <- TwoTables
  Keys <- OneKey
  Sessions <- TwoSessions
  MaxTxn = 2
  MaxScn = 2
  Bit <- TopBit
  Undated = {}
  MaxQueue = 2
  MaxFails = 1
SPECIFICATION Spec
SYMMETRY Symmetry
INVARIANTS TypeOK RowsAreLogged NothingSkipped
PROPERTIES OfferOrder ImplementsFeed
CHECK_DEADLOCK FALSE
