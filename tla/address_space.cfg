CONSTANTS
  Fanout = 2
  enable1gPages = TRUE
  Frames = 11
  Requests = {0, 1, 2, 4}
  MaxBlocks = 3
  StackPages = 1
  Threads = {t1}
  Elfs <- MCElfs
SPECIFICATION Spec
CHECK_DEADLOCK FALSE
INVARIANTS PagesMatchBlocks BlocksTile FramesConserved
PROPERTY FailureChangesNothing
