SPECIFICATION Spec
CONSTANTS
  Repos = {r1}
  Branches = {b1}
  Commits = {c1, c2}
  Names = {"x", "x.t", "y", ".git", "HEAD"}
  PathOrder <- Interleaved
  Marker <- Git
  Contents = {v, w}
  NoCommit = NoCommit
  NoBranch = NoBranch
  Protected = {}
  MayDeleteRepo = TRUE
  RetargetOpen = FALSE
  MaxOps = 3
SYMMETRY Symmetry
INVARIANTS
  ViewsCompose
  NoTypeConflict
PROPERTIES
  ViewsImmutable
\* commits and writes are bounded, so the store may stop
CHECK_DEADLOCK FALSE
