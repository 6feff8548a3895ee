SPECIFICATION Spec
CONSTANTS
  Jobs = {j1, j2, j3}
  Callers = {c1}
  NoJob = NoJob
SYMMETRY Symmetry
INVARIANTS
  TypeOK
  OneJobRuns
  QueuedCancelNeverRuns
  SlotConserved
  NobodyStranded
PROPERTIES
  ImplementsFifoSlot
\* every job is spawned at most once, so the system stops
CHECK_DEADLOCK FALSE
