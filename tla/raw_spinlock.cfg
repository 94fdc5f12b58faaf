CONSTANTS
  Threads = {t1, t2, t3, t4, t5}
  Half = 4
SPECIFICATION RawFairSpec
INVARIANTS ValueCountsCharges
PROPERTIES ImplementsMutex LoneContenderAcquires
