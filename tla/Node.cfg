SPECIFICATION NodeSpec
CONSTANTS
  Hosts = {1, 2, 3}
  Devices = {0, 1}
  Labels = {"big"}
  NoLabel = NoLabel
  Pipelines = {"p1", "p2", "p3"}
  Want <- MCWant
  Label <- MCLabel
  Reports <- StableReports
  Flaky = {2}
  MayDrop = {3}
  MayRestart = TRUE
  MaxCommits = 1
  Daemons = {d1, d2}
  Workers = {w1}
  MaxDeaths = 2
  Attachable <- MCAttachable
  MaxEdits = 1
  d1 = d1
  w1 = w1
  Files = {f1, f2}
  MaxWrites = 2
  MaxFailures = 1
  ServiceCommits = 3
  MaxData = 2
  MaxSignals = 2
  MaxOutput = 2
  Updaters = {u1, u2}
  MaxRuns = 2
  Writable = {"user", "root"}
  Installed = Installed
  NoFile = NoFile
INVARIANTS
  DevicesExclusive
  NoDeviceLeak
  BackgroundCurrent
  UpdatedIsWhole
PROPERTIES
  PollingEnds
  BackgroundJobsSettle
  NoOrphan
  DeadForgottenAlone
\* commits, chunks, deaths and updates are bounded, so the system stops
CHECK_DEADLOCK FALSE
