\* Three maps in the list, two forms, two calls without answer; Focus bounds the rest.
CONSTANTS
  f1 = f1
  f2 = f2
  None = None
  Forms <- TwoForms
  MaxRow = 3
  Id <- SharedId
  MaxCalls = 2
  Days <- TwoDays
  Today <- January31
  MaxMap = 2
  MaxQueries = 2
  MaxClients = 7
SPECIFICATION Spec
CONSTRAINT Focus
INVARIANTS ColumnsFit ButtonsTell DayIsPicked ChartsAreOfLast VisibleIsCurrent
CHECK_DEADLOCK FALSE
