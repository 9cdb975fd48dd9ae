SPECIFICATION Spec
CONSTANTS
  MaxCluster = 4
  DiskEnd = 4
  NumFats = 3
  PerSector = 4
  a = a
  b = b
  Names = {a, b}
  Vals = {v1, v2}
  NSlots = 2
  MaxLen = 2
  MaxFaults = 1
  Tree <- FileTree
  None = None
  NoEntry = NoEntry
  Garbage = Garbage
INVARIANTS
  RootIntact
  AcyclicFat
PROPERTIES
  FaultsSpareOthers
SYMMETRY ValSymmetry
