SPECIFICATION Spec
CONSTANTS
  LastSector = 2
  Values = {"p", "q"}
  MaxCount = 2
  Polls = 3
  Tries = 3
  Garbage = "garbage"
  None = "none"
INVARIANTS
  TypeOK
  InStep
PROPERTIES
  OkIsTrue
  WritesInPlace
  CallsReturn
