\* Two requests or commands for one map or two, from n1 to n2, one end of a process, one failure.
CONSTANTS
  n1 = n1
  n2 = n2
  m1 = m1
  m2 = m2
  r1 = r1
  r2 = r2
  Nodes <- TwoNodes
  Maps <- TwoMaps
  Source <- FirstNode
  Target <- SecondNode
  Requests <- TwoRequests
  MaxRestarts = 1
  MaxFails = 1
SPECIFICATION Spec
SYMMETRY Symmetry
INVARIANTS TypeOK StartedIsServed WatchedAtSource NothingForgotten TrueMeansBoth PasswordsAreRight MapsDistinct WatchedOnce
CHECK_DEADLOCK FALSE
