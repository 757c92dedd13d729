SPECIFICATION Spec
CONSTANTS
  MaxBuffered = 2
  OversizeAuth <- SecondAndThird
  MaxUp = 4
  MaxDown = 4
INVARIANTS
  AuthFirstAndOnce
  BuffersBounded
PROPERTIES
  CloseCodeBlamesTheRightSide
  TeardownReachesBothEnds
  PipesAreFifo
CHECK_DEADLOCK FALSE
