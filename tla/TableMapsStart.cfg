\* A map started by the id that the web page shows.
CONSTANTS
  n1 = n1
  n2 = n2
  m1 = m1
  m2 = m2
  r1 = r1
  r2 = r2
  Nodes <- TwoNodes
  Maps <- TwoMaps
  Source <- FirstNode
  Target <- SecondNode
  Requests <- TwoRequests
  MaxRestarts = 0
  MaxFails = 0
SPECIFICATION Spec
PROPERTY StartStarts
CHECK_DEADLOCK FALSE
