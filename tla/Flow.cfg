SPECIFICATION FlowSpec
CONSTANTS
  Sources = {"a"}
  PipelineList <- Listbcd
  Sides <- Diamond
  MaxCommits <- Twice
  OneClient = TRUE
  InOrder = TRUE
  MayFail = {}
  MayFailSetup = {}
  MayBeEmpty = {}
  NoProblem = NoProblem
  NoAnswer = NoAnswer
  a = a
  b = b
  Absent = Absent
  d1 = d1
  d2 = d2
  d3 = d3
  None = None
  a1 = a1
  a2 = a2
  Shas = {a}
  Holders = {"commit", "tag", "datum"}
  TagHolders = {"tag"}
  DatumHolders = {"datum"}
  TxPipes <- MCTxPipes
  TxSource = "src"
  TxConsumes <- MCTxConsumes
  TxExisting = {"a"}
  TxOpLists <- MCTxOpLists
  TxCommits = 1
  TxOutputs <- MCTxOutputs
  TxOutside = 1
  TxJobs = 2
  Batch = {}
  Standby = {s1}
  Background = {g1}
  BootJobs = 3
  BootCrashes = 2
  CronPipelines = {"foo", "foo-bar"}
  CronDeclared <- MCCronDeclared
  CronRepo <- MCCronRepo
  CronAdmins = {a1, a2}
  CronTicks = 1
  CronRestarts = 1
  LineSides <- Chain
  LineMayFail = {"b", "c"}
  LineMayFailSetup = {"c"}
  LineMayBeEmpty = {"b"}
  MemDatums = 2
  MemContents = {a, b}
  MemPathOf <- OnePath
  MemReprocess = FALSE
  MemJobs = 2
  MemVersions = 2
  SizeBytes = 2
  Sizes = {0, 1, 3, 5}
  SizeCommits = 3
  SizeCrash = TRUE
  Deliveries = {d1, d2, d3}
  GitPipes = {"p"}
  GitOf <- OneGitInput
  Url = "u"
  UrlRepo = "r"
  RepoOrder <- OneRepo
  GitPaths = {"f"}
  Edits <- OneEdit
  AdmAdmins = {a1}
  AdmSpecs <- Declarations
  AdmSources = {"r"}
  AdmCronRepo <- CronRepoOf
  Identifiers = {"p", "q", "r", "g", "u", "a", "x", "out"}
  AdmForce = TRUE
INVARIANTS
  DiamondConsumed
  DiamondPaired
  ChainOrdered
  DatumsComplete
  MemorySound
  InputsSound
  BlobsKept
  TransactionSound
  RestartSound
PROPERTIES
  DeletionClean
\* commits, deliveries, jobs and crashes are bounded, so the system stops
CHECK_DEADLOCK FALSE
