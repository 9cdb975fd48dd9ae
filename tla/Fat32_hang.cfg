SPECIFICATION Spec
CONSTANTS
  MaxCluster = 4
  DiskEnd = 4
  NumFats = 3
  PerSector = 4
  a = a
  b = b
  Names = {a, b}
  Vals = {v1}
  NSlots = 1
  MaxLen = 2
  MaxFaults = 2
  Tree <- FileTree
  None = None
  NoEntry = NoEntry
  Garbage = Garbage
PROPERTIES
  HangsOnlyAtReserved
