SPECIFICATION Spec
CONSTANTS
  Scripts <- MCScripts
  HeaderLen = 2
  MaxSize = 4
  ReadTimeout = 3
  OverallTimeout = 1
  MaxLen = 3
  MaxTime = 9
INVARIANTS
  ReadsAreBounded
PROPERTIES
  WholeMessages
  ReaderEnds
CHECK_DEADLOCK FALSE
