SPECIFICATION ProgressSpec
CONSTANTS
  N = 2
  Parallelism = 2
  Bound = 1
  MaxTries = 1
  Requests = {q1}
  HasErrCmd = TRUE
  j1 = j1
  j2 = j2
  c1 = c1
  c2 = c2
  api = api
  out = out
  master = master
  NoJob = NoJob
  NoCommit = NoCommit
  NoBranch = NoBranch
  NoRec = NoRec
  Free = Free
  HostJobs = {j1, j2}
  HostParallelism <- MCHostParallelism
  Per = 1
  Devices = {0, 1}
  HasTimeout = TRUE
  MaxAttempts = 1
  Plans <- MCPlans
  PlainInput = TRUE
  MaxMarks = 1
  ChainLength = 2
  Modes = {"running", "standby", "stopped"}
  Outcomes = {"success", "failure", "killed"}
INVARIANTS
  PoolSound
  DatumsApart
  FlushComplete
PROPERTIES
  PoolComesToItsEnd
  EveryJobSettles
  PlacedJobsSettle
  JobsEnd
  PipelineStateKept
  RequestsEnd
\* jobs, attempts, commits and requests are bounded, so the system stops
CHECK_DEADLOCK FALSE
