SPECIFICATION Spec
CONSTANTS
  Sources = {"a"}
  PipelineList <- Listbcd
  Sides <- Chain
  MaxCommits <- Once
  OneClient = FALSE
  InOrder = TRUE
  MayFail = {"b"}
  MayFailSetup = {}
  MayBeEmpty = {}
INVARIANTS
  FailureReachesAll
\* commits are bounded, so the system stops
CHECK_DEADLOCK FALSE
