SPECIFICATION SafeSpec
CONSTANTS
  MaxCluster = 6
  DiskEnd = 5
  NumFats = 2
  PerSector = 4
  a = a
  b = b
  Names = {a, b}
  Vals = {v1, v2}
  NSlots = 2
  MaxLen = 2
  MaxFaults = 0
  Tree <- HostTree
  None = None
  NoEntry = NoEntry
  Garbage = Garbage
PROPERTIES
  CallsReturn
  ImplementsFileStore
INVARIANTS
  TypeOK
  UniqueRefs
  LinksLive
  MirrorsAgree
  EndMarkLast
  SavedReadable
  NoOtherLeak
  HeldApart
