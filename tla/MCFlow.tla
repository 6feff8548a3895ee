------------------------------- MODULE MCFlow -------------------------------
(***************************************************************************)
(* How data gets from the repositories through the pipelines and out of    *)
(* the store again, and what a restart or a transaction does to that,      *)
(* checked in one run.  A behaviour is one of the models below, as part    *)
(* says, and the variables of the others stay as they are: a diamond and a *)
(* chain of pipelines (Dag, whose constants the configuration gives for    *)
(* the diamond), the datums a job finds in its input (DatumSets), the      *)
(* table of processed datums (DatumMemory), size triggers, git deliveries, *)
(* the deletion of commits, blob files, transactions, cron schedules, the  *)
(* start of the daemon after a crash (Restart), and the declarations that  *)
(* become pipelines (Admission).                                           *)
(***************************************************************************)
EXTENDS MCDag, FiniteSets

CONSTANTS
  NoProblem, NoAnswer, a, b, Absent, d1, d2, d3, None, a1, a2,
  Shas, Holders, TagHolders, DatumHolders,          \* of Blobs
  TxPipes, TxSource, TxConsumes, TxExisting, TxOpLists, \* of Transactions
  TxCommits, TxOutputs, TxOutside, TxJobs,
  Batch, Standby, Background, BootJobs, BootCrashes, \* of Restart
  CronPipelines, CronDeclared(_), CronRepo(_, _), CronAdmins, CronTicks, CronRestarts,
  LineSides, LineMayFail, LineMayFailSetup, LineMayBeEmpty, \* of Dag, for the chain
  MemDatums, MemContents, MemPathOf, MemReprocess, MemJobs, MemVersions, \* of DatumMemory
  SizeBytes, Sizes, SizeCommits, SizeCrash,         \* of SizeTriggers
  Deliveries, GitPipes, GitOf, Url, UrlRepo, RepoOrder, GitPaths, Edits, \* of GitInput
  AdmAdmins, AdmSpecs, AdmSources, AdmCronRepo(_, _), Identifiers, AdmForce \* of Admission

ASSUME FlowAssumption ==
  /\ TagHolders \subseteq Holders /\ DatumHolders \subseteq Holders
  /\ Standby \cap Background = {} /\ \A p \in Batch \cup Standby \cup Background : p \notin Nat
  /\ TxPipes \in Seq(Range(TxPipes)) /\ TxSource \notin Range(TxPipes)
  /\ TxConsumes \in [Range(TxPipes) -> Range(TxPipes) \cup {TxSource}]
  /\ TxOpLists \subseteq Seq([kind : {"create", "update"}, pipe : Range(TxPipes)]) \ {<<>>}
  /\ "nobody" \notin CronPipelines

ASSUME LineAssumption ==
  /\ LineSides \in [Pipelines -> Seq(Repos)]
  /\ LineMayFail \cup LineMayFailSetup \cup LineMayBeEmpty \subseteq Pipelines

ASSUME MemoryAssumption ==
  /\ MemDatums \in Nat /\ DOMAIN MemPathOf = 1 .. MemDatums /\ Absent \notin MemContents
  /\ MemReprocess \in BOOLEAN /\ MemJobs \in Nat /\ MemVersions \in Nat \ {0}

ASSUME SizeAssumption == SizeBytes \in Nat \ {0} /\ Sizes \subseteq Nat

ASSUME GitAssumption ==
  /\ RepoOrder \in Seq(Range(RepoOrder))
  /\ \A p \in GitPipes : GitOf[p].repo \in Range(RepoOrder)

VARIABLES
  part,
  \* DatumSets
  problem, answer,
  \* DatumMemory
  table, version, memJobs, memJob, output, last,
  \* SizeTriggers
  size, request, ledger, fired, lost,
  \* GitInput
  commit, gitHead, pipe, triggered, req, abandoned,
  \* CommitDelete
  rec, delHead, delJob, issued, del, met, stray,
  \* Blobs
  object, refs, write, gc, archive, blobJobs, exposed,
  \* Transactions
  txVersion, versions, txHead, signal, hold, pending, tx, coord, txJob, outside, before,
  \* CronTickers
  cronRec, declared, ticker, ticks, admin, boot, contested, loose, restarts,
  \* Restart
  phase, todo, bootRec, live, born, boxes, pstate, stopped, unseen, bootRequest, doomed, crashes,
  \* Admission
  pipes, repos, admins

setsVars == <<problem, answer>>
memVars == <<table, version, memJobs, memJob, output, last>>
sizeVars == <<size, request, ledger, fired, lost>>
gitVars == <<commit, gitHead, pipe, triggered, req, abandoned>>
delVars == <<rec, delHead, delJob, issued, del, met, stray>>
blobVars == <<object, refs, write, gc, archive, blobJobs, exposed>>
txVars == <<txVersion, versions, txHead, signal, hold, pending, tx, coord, txJob, outside, before>>
cronVars == <<cronRec, declared, ticker, ticks, admin, boot, contested, loose, restarts>>
bootVars == <<phase, todo, bootRec, live, born, boxes, pstate, stopped, unseen, bootRequest,
              doomed, crashes>>
admVars == <<pipes, repos, admins>>
flowVars == <<part, vars, setsVars, memVars, sizeVars, gitVars, delVars, blobVars,
              txVars, cronVars, bootVars, admVars>>

Line == INSTANCE Dag WITH
  Sides <- LineSides, MayFail <- LineMayFail, MayFailSetup <- LineMayFailSetup,
  MayBeEmpty <- LineMayBeEmpty, OneClient <- FALSE, InOrder <- FALSE

Problem == INSTANCE DatumProblems
Sets == INSTANCE DatumSets WITH Problems <- Problem!MCProblems

(* Two datums that write to the same path.                                 *)
OnePath == <<"p", "p">>
Memory == INSTANCE DatumMemory WITH
  NumDatums <- MemDatums, Contents <- MemContents, PathOf <- MemPathOf,
  Reprocess <- MemReprocess, MaxJobs <- MemJobs, MaxVersion <- MemVersions,
  jobs <- memJobs, job <- memJob

Triggers == INSTANCE SizeTriggers WITH MaxCommits <- SizeCommits, MayCrash <- SizeCrash

OneGitInput == [p \in GitPipes |-> [url |-> "u", repo |-> "r"]]
OneRepo == <<"r">>
OneEdit == {[files |-> {"f"}, deleted |-> {}]}
Git == INSTANCE GitInput WITH Pipelines <- GitPipes, Paths <- GitPaths, head <- gitHead

Delete == INSTANCE CommitDelete WITH
  MaxCommit <- 4, Deletes <- 1, head <- delHead, job <- delJob

Blob == INSTANCE Blobs WITH
  Tags <- TagHolders, Datums <- DatumHolders, jobs <- blobJobs

(* b reads the output of a, which exists and reads src.                    *)
Create(p) == [kind |-> "create", pipe |-> p]
Update(p) == [kind |-> "update", pipe |-> p]
MCTxPipes == <<"a", "b">>
MCTxConsumes == [p \in {"a", "b"} |-> IF p = "a" THEN "src" ELSE "a"]
MCTxOpLists == {<<Update("a"), Create("b")>>, <<Update("a"), Update("a")>>,
                <<Create("b"), Update("b")>>, <<Create("a")>>}
MCTxOutputs == [p \in {"a", "b"} |-> IF p = "a" THEN 2 ELSE 1]
Tx == INSTANCE Transactions WITH
  PipeList <- TxPipes, Source <- TxSource, Consumes <- TxConsumes, Existing <- TxExisting,
  OpLists <- TxOpLists, MaxCommits <- TxCommits, MaxOutputs <- TxOutputs,
  MaxOutside <- TxOutside, MaxJobs <- TxJobs,
  version <- txVersion, archive <- versions, head <- txHead, job <- txJob

(* Two pipelines, the name of one of which begins with the other's, and    *)
(* whose cron repositories may be one: updates drop an input or change its *)
(* cadence.                                                                *)
Every(n, e) == [name |-> n, every |-> e]
MCCronDeclared(p) ==
  IF p = "foo" THEN {{Every("x", 1)}, {Every("x", 2), Every("bar-x", 1)}}
  ELSE {{Every("x", 1)}, {Every("x", 0)}}
MCCronRepo(p, n) ==
  IF <<p, n>> \in {<<"foo", "bar-x">>, <<"foo-bar", "x">>} THEN "foo-bar-x"
  ELSE IF p = "foo" THEN "foo-x" ELSE "foo-bar-bar-x"
Cron == INSTANCE CronTickers WITH
  Pipelines <- CronPipelines, Declarations <- CronDeclared, Never <- 0, cronRepo <- CronRepo,
  Admins <- CronAdmins, MaxTicks <- CronTicks, MaxRestarts <- CronRestarts, rec <- cronRec

Daemon == INSTANCE Restart WITH
  MaxJobs <- BootJobs, MaxCrashes <- BootCrashes, rec <- bootRec, request <- bootRequest

(* Services that want the same port, and pipelines that share the          *)
(* repository of a git URL or read each other's output, among declarations *)
(* that are to be refused.                                                 *)
Side(k, n, r) == [kind |-> k, name |-> n, repo |-> r, sides |-> <<>>]
Unite(n, ss) == [kind |-> "union", name |-> n, repo |-> "", sides |-> ss]
Declared(n, shape, ss) ==
  [name |-> n, kind |-> {}, port |-> 0, standby |-> FALSE, workers |-> 1,
   input |-> [shape |-> shape, sides |-> ss]]
Served(n, port) ==
  [Declared(n, "one", <<Side("file", "", "r")>>) EXCEPT !.kind = {"service"}, !.port = port]
Declarations ==
  {Served("p", 1), Served("q", 1), Served("q", 2),
   [Served("p", 1) EXCEPT !.standby = TRUE], [Served("q", 2) EXCEPT !.workers = 2],
   [Declared("q", "one", <<>>) EXCEPT !.kind = {"spout"}],
   Declared("p", "one", <<Side("cron", "x", "")>>),
   Declared("p", "one", <<Side("file", "out", "r")>>),
   Declared("p", "one", <<Side("file", "", "p")>>),
   Declared("p", "cross", <<Side("file", "", "r"), Side("git", "", "g")>>),
   Declared("q", "one", <<Side("git", "", "g")>>),
   Declared("q", "join", <<Side("file", "a", "r"), Side("file", "a", "p")>>),
   Declared("q", "cross", <<Side("file", "u", "r"), Unite("u", <<Side("file", "", "r")>>)>>),
   Declared("q", "cross", <<Side("file", "", "p"),
                            Unite("u", <<Side("file", "", "r"), Side("git", "g", "g")>>)>>)}
EnvName(r) == r
CronRepoOf(p, n) == IF p = "p" THEN "p-x" ELSE "q-x"
Adm == INSTANCE Admission WITH
  Admins <- AdmAdmins, Specs <- AdmSpecs, Sources <- AdmSources, envName <- EnvName,
  cronRepo <- AdmCronRepo, MayForce <- AdmForce, admin <- admins

FlowInit ==
  /\ part \in {"diamond", "chain", "sets", "memory", "size", "git", "delete", "blobs",
              "transactions", "cron", "restart", "admission"}
  /\ Init /\ Memory!Init /\ Triggers!Init /\ Git!Init /\ Delete!Init /\ Blob!Init
  /\ Tx!Init /\ Cron!Init /\ Daemon!Init /\ Adm!Init
  /\ part # "transactions" => tx.ops = CHOOSE ops \in TxOpLists : TRUE
  /\ IF part = "sets" THEN Sets!Init ELSE problem = NoProblem /\ answer = NoAnswer

FlowNext ==
  \/ /\ part = "diamond" /\ Next
     /\ UNCHANGED <<part, setsVars, memVars, sizeVars, gitVars, delVars, blobVars,
                    txVars, cronVars, bootVars, admVars>>
  \/ /\ part = "chain" /\ Line!Next
     /\ UNCHANGED <<part, setsVars, memVars, sizeVars, gitVars, delVars, blobVars,
                    txVars, cronVars, bootVars, admVars>>
  \/ /\ part = "sets" /\ Sets!Next
     /\ UNCHANGED <<part, vars, memVars, sizeVars, gitVars, delVars, blobVars, txVars,
                    cronVars, bootVars, admVars>>
  \/ /\ part = "memory" /\ Memory!Next
     /\ UNCHANGED <<part, vars, setsVars, sizeVars, gitVars, delVars, blobVars, txVars,
                    cronVars, bootVars, admVars>>
  \/ /\ part = "size" /\ Triggers!Next
     /\ UNCHANGED <<part, vars, setsVars, memVars, gitVars, delVars, blobVars, txVars,
                    cronVars, bootVars, admVars>>
  \/ /\ part = "git" /\ Git!Next
     /\ UNCHANGED <<part, vars, setsVars, memVars, sizeVars, delVars, blobVars, txVars,
                    cronVars, bootVars, admVars>>
  \/ /\ part = "delete" /\ Delete!Next
     /\ UNCHANGED <<part, vars, setsVars, memVars, sizeVars, gitVars, blobVars, txVars,
                    cronVars, bootVars, admVars>>
  \/ /\ part = "blobs" /\ Blob!Next
     /\ UNCHANGED <<part, vars, setsVars, memVars, sizeVars, gitVars, delVars, txVars,
                    cronVars, bootVars, admVars>>
  \/ /\ part = "transactions" /\ Tx!Next
     /\ UNCHANGED <<part, vars, setsVars, memVars, sizeVars, gitVars, delVars,
                    blobVars, cronVars, bootVars, admVars>>
  \/ /\ part = "cron" /\ Cron!Next
     /\ UNCHANGED <<part, vars, setsVars, memVars, sizeVars, gitVars, delVars,
                    blobVars, txVars, bootVars, admVars>>
  \/ /\ part = "restart" /\ Daemon!Next
     /\ UNCHANGED <<part, vars, setsVars, memVars, sizeVars, gitVars, delVars,
                    blobVars, txVars, cronVars, admVars>>
  \/ /\ part = "admission" /\ Adm!Next
     /\ UNCHANGED <<part, vars, setsVars, memVars, sizeVars, gitVars, delVars,
                    blobVars, txVars, cronVars, bootVars>>

FlowSpec == FlowInit /\ [][FlowNext]_flowVars

----------------------------------------------------------------------------
(* A wave through the diamond leaves no head unconsumed, though triggers   *)
(* are deferred and skipped on the way (jobs.go, triggerForCommit).        *)
DiamondConsumed == part = "diamond" => HeadsConsumed

(* No pairing of heads is worked on by two live jobs (jobs.go,             *)
(* hasRunningJobWithInputs).                                               *)
DiamondPaired == part = "diamond" => OneLivePairing

(* Along the chain the jobs of a pipeline are spawned in the order of      *)
(* their inputs (jobs.go, triggerForCommit), their outputs appear in the   *)
(* order in which they entered its gate (jobGate), and no job succeeds on  *)
(* the output of a failed one (execute.go, runJob).                        *)
ChainOrdered == part = "chain" => Line!OutputsInTurn /\ Line!SpawnedInOrder /\ Line!FailureNotMasked

(* Every file of the input is in some datum (datum_engine.go), and the     *)
(* pages of the listing hold every datum (datum_api.go).                   *)
DatumsComplete == part = "sets" => Sets!InputsCovered /\ Sets!PagesCoverListing

(* What a job publishes is of its own input, and a datum is skipped only   *)
(* on a record that holds its files (datum_engine.go).                     *)
MemorySound == part = "memory" => Memory!OutputCurrent /\ Memory!SkipsAreEarned

(* Size triggers count every byte once (trigger.go), and a pipeline that   *)
(* is not failed was triggered for the head of its git repository (git.go). *)
(* Pipelines that live side by side keep their inputs, their names and     *)
(* their ports apart (pipeline.go, createPipeline and deletePipeline).     *)
InputsSound == /\ part = "size" => Triggers!BytesConserved
               /\ part = "git" => Git!NotSilenced
               /\ part = "admission" => Adm!SidesApart /\ Adm!PortsApart /\ Adm!SideReposKept

(* A deletion takes what is derived with it, and keeps the rest of the     *)
(* history connected (jobs.go, deleteCommit).                              *)
DeletionClean == []Delete!DerivedGone /\ Delete!HistoryKept

(* Garbage collection and backup keep every object that is referred to     *)
(* (api.go, collectGarbage; backup.go).                                    *)
BlobsKept == part = "blobs" => Blob!ReachableReadable /\ Blob!ArchiveComplete

(* A transaction takes effect as a whole or not at all, and no commit is   *)
(* overlooked between its coordinator and the triggers (transaction.go).   *)
TransactionSound == part = "transactions" => Tx!AllOrNothing /\ Tx!HeadsScheduled

(* What a restart finds is brought back: no record dangles, background     *)
(* pipelines have jobs again (jobs.go), schedules run (cron.go).           *)
RestartSound == /\ part = "restart" => Daemon!NoDangling /\ Daemon!BackgroundBack
                /\ part = "cron" => Cron!SchedulesLive
=============================================================================
