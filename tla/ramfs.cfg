CONSTANTS
  NULL = NULL
  Files = {f1, f2}
  Names = {n1, n2}
  NHandles = 2
  Bytes = {b1, b2}
  MinBlock = 2
  Alignment = 1
  MaxWrite = 2
  MaxLength = 3
SPECIFICATION RamFsSpec
SYMMETRY Symmetry
CHECK_DEADLOCK FALSE
INVARIANTS  PositionAgrees ReadsContent FaultsOnlyAfterReadToEnd
PROPERTIES WriteStoresData
