CONSTANTS
  ScreenRows = 2
  TerminalRows = 4
  FirstCapacity = 1
  Inputs <- MCInputs
SPECIFICATION FairSpec
CHECK_DEADLOCK FALSE
INVARIANTS  DisplayedHasKeyboard
PROPERTIES KeysInOrder KeysTakeEffect
