CONSTANTS
  Ratio = 3
  StackPageSize = 2
  AuxPages = 1
  SplitPages = 1
  LimitDMA = 2
  LimitDMA32 = 8
  AddressSpace = 64
  Maps <- MCMaps
  Enable1g = {TRUE, FALSE}
  MaxHeld = 3
SPECIFICATION Spec
CHECK_DEADLOCK FALSE
INVARIANTS TypeOK  NoFrameLost FailsOnlyWhenExhausted
