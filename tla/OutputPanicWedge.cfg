SPECIFICATION OutFairSpec
CONSTANTS
  Repos = {out}
  Branches = {master}
  Commits = {c1, c2, c3}
  Names = {"x", ".git", "HEAD"}
  PathOrder <- WithMarker
  Marker <- Git
  Contents = {v}
  NoCommit = NoCommit
  NoBranch = NoBranch
  Protected = {}
  MayDeleteRepo = FALSE
  RetargetOpen = FALSE
  MaxOps = 0
  Jobs = {j1, j2, j3}
  NoJob = NoJob
  OutRepo = out
  OutBranch = master
  OutDirs <- NoOutput
  MayAuthor = FALSE
  MayPanic = TRUE
PROPERTIES
  JobsEnd
\* jobs, commits and writes are bounded, so the system stops
CHECK_DEADLOCK FALSE
