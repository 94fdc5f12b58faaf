CONSTANTS
  CPUs = {c0, c1}
  BSP = c0
  Pages = {v1, v2}
  FLUSH = FLUSH
  QueueSize = 2
  NONE = NONE
SPECIFICATION TlbFairSpec
INVARIANTS TlbTypeOK StaleEntriesAreQueued
PROPERTIES ResetsOnlyWhenClean CommitDrainsEveryQueue
