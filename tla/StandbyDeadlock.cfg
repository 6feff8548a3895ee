\* A start of a standby pipeline while one of its jobs settles.
SPECIFICATION Spec
CONSTANTS
  Plans <- LockPlans
  MaxMarks = 0
  PlainInput = TRUE
  NoRec = NoRec
  Free = Free
INVARIANTS
  NoLockCycle
CHECK_DEADLOCK FALSE
