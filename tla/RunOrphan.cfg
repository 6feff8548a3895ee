\* A client of an ad-hoc run that dies after the end of its stdin.
SPECIFICATION FairSpec
CONSTANTS
  MaxData = 2
  MaxSignals = 2
  MaxOutput = 2
PROPERTIES
  NoOrphanAfterEOF
CHECK_DEADLOCK FALSE
