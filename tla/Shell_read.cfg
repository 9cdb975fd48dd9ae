SPECIFICATION Spec
CONSTANTS
  BaseSize = 2
  ExtSize = 2
  Upper <- MCUpper
  Dot = "."
  Space = " "
  Nul = "nul"
  Slots = {1, 2}
  Commands = {"create", "delete", "writeb", "mkdir", "ed", "cat", "writetest"}
  Offset <- MCOffset
  Arguments <- MCOrdinary
  LineSize = 8
  Letter = "b"
  Bases <- MCBases
  Exts <- MCExts
  TestBase <- MCTestBase
  TestExt <- MCTestExt
  Path <- MCRoot
  RootName <- MCRoot
  Rests <- MCRests
  End = End
  Deleted = Deleted
  None = None
  MaxWrites = 1
INVARIANTS
  ReadsOpened
