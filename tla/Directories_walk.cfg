SPECIFICATION Spec
CONSTANTS
  MaxCluster = 5
  Shadow = {5}
  Image <- Nested
  NSlots = 4
  ZeroSlots = {1}
  MaxDepth = 2
  a = a
  b = b
  Names = {a, b}
  Dot = Dot
  DotDot = DotDot
  TypedNames <- Typed
  Slash = Slash
  None = None
INVARIANTS
  TypeOK
  StackIsPath
  ClustersApart
  WayNotFiles
PROPERTIES
  EntriesChangeHere
  ImplementsWalk
