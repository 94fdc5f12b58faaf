SPECIFICATION Spec
CONSTANTS
  CPUs = {c1, c2}
  NONE = NONE
  MaxPermits = 2
SYMMETRY Symmetry
INVARIANTS NoAssertionFails SectionsExclude NeverWaitsForItself MaskFollowsLocks
