CONSTANTS
  NPages = 8
  MaxSize = 2
  Alignment = 4
SPECIFICATION Spec
CHECK_DEADLOCK FALSE
INVARIANTS LiveIntact ListOrdered
