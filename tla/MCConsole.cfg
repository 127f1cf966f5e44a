SPECIFICATION Spec
CHECK_DEADLOCK FALSE
CONSTANTS
  Width = 3
  Height = 4
  InputSize = 5
  Keys = {"a", "nl", "bs", "shift"}
  Modifiers = {"shift"}
  Newline = "nl"
  Backspace = "bs"
  Blank = " "
  Nul = "nul"
  Prompt = ">"
  Smudge = "*"
  Intro <- MCIntro
  Outputs <- MCOutputs
  MaxKeys = 5
  MaxOutputs = 1
INVARIANTS
  OwnConsole
  LinesTyped
  ScreenShowsText
PROPERTIES
  Settles
