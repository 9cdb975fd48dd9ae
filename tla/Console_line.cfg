SPECIFICATION Spec
CONSTANTS
  CharKeys = {"v", "enter", "back"}
  LetterKeys = {"v"}
  Plain <- MCPlain
  Shifted <- MCShifted
  ShiftKeys = {"lshift", "rshift"}
  CapsKey = "caps"
  Arrows <- MCArrows
  OtherKeys = {"del"}
  FifoSize = 2
  NoChar = "none"
  Width = 2
  Height = 2
  Newline = "nl"
  Backspace = "bs"
  Blank = " "
  LineSize = 3
  Prompt = ">"
  Outputs <- MCOutputs
INVARIANTS
  TypedIsRead
  ShiftReleased
  EchoIsLine
