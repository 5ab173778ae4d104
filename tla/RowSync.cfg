\* Four table maps; 1, 1.5, 2 and 3 as numbers, of which 3 is beyond an int.
CONSTANTS
  a = a
  day = day
  top = top
  NullWord = NullWord
  Quoted = Quoted
  Null = Null
  TableMaps <- FourMaps
  Numbers <- SomeNumbers
  KeyNumbers <- SomeKeys
  MaxInt = 4
  Words <- SomeWords
  KeyWords <- TwoWords
  Dates <- OneDate
  Texts <- OneText
  MaxWrites = 3
SPECIFICATION Spec
INVARIANTS TypeOK InStep OneRowPerKey ListsCorrespond
CHECK_DEADLOCK FALSE
