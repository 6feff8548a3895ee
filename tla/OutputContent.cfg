SPECIFICATION RunSpec
CONSTANTS
  Repos = {out}
  Branches = {master}
  Commits = {c1, c2, c3}
  Names = {"x", ".git", "HEAD"}
  PathOrder <- WithMarker
  Marker <- Git
  Contents = {v}
  NoCommit = NoCommit
  NoLabel = NoLabel
  NoBranch = NoBranch
  Protected = {}
  MayDeleteRepo = TRUE
  RetargetOpen = FALSE
  MaxOps = 1
  Jobs = {j1, j2}
  NoJob = NoJob
  OutRepo = out
  OutBranch = master
  OutDirs <- MCOutDirs
  MayAuthor = TRUE
  MayPanic = TRUE
SYMMETRY Symmetry
INVARIANTS
  SharedSound
\* jobs, commits and writes are bounded, so the system stops
CHECK_DEADLOCK FALSE
