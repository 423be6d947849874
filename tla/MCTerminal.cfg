SPECIFICATION TerminalSpec
CONSTANTS
  Letter = {"a", "b"}
  LineMax = 3
  KeyRoom = 3
  MaxKeys = 3
  Colour = {"white", "green"}
  TextLen = 2
  LogSize = 6
  MaxTexts = 5
  Printer = {"echo", "log"}
  Glyph = {"a"}
  Width = 2
  Height = 2
  WordSize = 7
  MaxRoll = 4
  MaxDrift = 1
INVARIANTS
  LineIsEdited
  TextsShown
  ColourKept
  ShowsTail
CHECK_DEADLOCK FALSE
