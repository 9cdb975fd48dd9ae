SPECIFICATION Spec
CONSTANTS
  Width = 2
  Height = 4
  Gutter = 1
  CommandSize = 2
  SectorSize = 4
  Names = {"a", "a.x", "b"}
  Base <- MCBase
  TestFile = "a.x"
  Image <- MCImage
  OtherFiles <- MCOtherFiles
  Letters = {"q"}
  CommandKeys = {"w", "q", "t"}
  Newline = "nl"
  Backspace = "bs"
  Blank = " "
  Nul = "nul"
  Junk = "junk"
  MaxEdits = 1
  MaxWrites = 1
  None = None
INVARIANTS
  TypeOK
  CursorInBuffer
  OneMode
  ScreenShowsText
PROPERTIES
  SavesUnderBase
  ReopenKeepsBuffer
