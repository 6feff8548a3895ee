SPECIFICATION Spec
CONSTANTS
  Repos = {r1}
  Branches = {b1, b2}
  Commits = {c1, c2, c3}
  Names = {"x", "x.t", "y", ".git", "HEAD"}
  PathOrder <- WithMarker
  Marker <- Git
  Contents = {v}
  NoCommit = NoCommit
  NoBranch = NoBranch
  Protected = {}
  MayDeleteRepo = FALSE
  RetargetOpen = FALSE
  MaxOps = 1
SYMMETRY Symmetry
INVARIANTS
  RefsResolve
  ParentsFinished
  MarkersTellApart
\* commits and writes are bounded, so the store may stop
CHECK_DEADLOCK FALSE
