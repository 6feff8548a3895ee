# Sandman in TLA+

Sandman is a data-versioning and pipeline daemon: clients commit files to
repositories, pipelines run containers over the commits of their input
repositories and commit the results to output repositories, which other
pipelines read. This directory models the daemon's own logic in TLA+, checks it
with TLC on small instances and proves part of it with TLAPS for all instances.
`PROJECT.json` lists every run, its properties, the source lines behind every
definition, the hazards and the findings.

## 1. Inventory

Paths are relative to `src/`. The daemon is one Go process; an API request, a
job, a ticker and a watcher is each a goroutine. State is JSON files and refs
on disk, in-memory maps under mutexes, and a few channels.

| Component | State | Operations | Interacts with | Hard behaviour | What makes it correct |
|---|---|---|---|---|---|
| Versioned store (`internal/store/store.go`) | repositories, commit records (operations, parent, flags), branch refs, default marker | create/delete repo, start/finish commit, put/overwrite/delete/copy file, set/delete branch, reparent, resolve view | everything | long histories with empty barriers and retargets; callers that make two calls of the store | refs resolve, finished commits never change, a view is the replay of its ancestry, no path is file and directory |
| Job gate and lifecycle (`jobs.go`, `execute.go`, `pipeline.go: spawnJob`) | gate (slot and linked list), running handles with atomic flags and channels, job records | spawn, enter, release, cancel, delete, timeout, panic settlement | every job, API | lock-free flag protocol, hand-off racing a cancel, panics | one job at a time, FIFO, slot never lost, every job settles, deleted means deleted |
| Placement (`hosts.go`, `execute.go`, `datum_engine.go`) | host registry with heartbeats, busy devices, pipeline state | register, drop, pick and reserve, release, mark crashed/running | jobs, triggers | devices that flap, stale hosts, restarts, polling | exclusive devices, no leak, recovery by itself |
| Output commits (`jobs.go: finishOutput, recordProvenance, settlePanicJob`) | output commit, output lock | open, reparent, upload, tombstone, finish, stamp | store, gate | several store calls under one lock, clients on the same branch, panics | output is exactly what the job wrote, the branch is linear, the lock comes back |
| Triggers and DAG (`jobs.go: triggerForCommit`, `execute.go`) | job records, branch heads, triggerMu | pair heads, dedup, defer, spawn, late heads, propagate failure | store, gate | heads read outside the lock, races on a cross, diamonds | final heads are consumed, one live job per pairing, matched revisions, failures reach everything below |
| Commit deletion (`jobs.go: deleteCommit`) | records, refs, jobs | cancel, rewrite children, move refs, remove | store, jobs | many unlocked steps, clients and jobs in between | everything derived goes, no dangling parent or ref, nothing else lost from a chain |
| Blobs, tags, garbage collection, backup (`api.go`, `backup.go`, store) | object files, tags | write, read, mark and sweep, tar | store | sweep without the store's lock, writes in place | a reachable blob is never collected |
| Datum engine (`datum_engine.go`, `datum_api.go`) | worker pool, attempts, dedup table | enumerate, union/join/group, chunk, run, retry, restart, skip, merge, list | placement, worker | retries, timeouts, restart of a datum in flight, a table that outlives jobs | each datum is processed once or skipped soundly, and the job ends |
| Waits (`wait.go`) | generation channel | signal, wait for a job, flush | triggers, jobs | missed wake-ups, a closure that still grows | flush returns the complete closure, and returns |
| Size triggers and cron (`trigger.go`, `cron.go`) | ledgers, tickers | accumulate, fire, arm, disarm, tick | store, triggers | concurrent requests, restarts, name clashes | no bytes lost or counted twice; a ticker for each declared schedule |
| Transactions (`transaction.go`) | staged operations, holds | stage, finish, roll back, coordinate | pipelines, triggers | failure between steps, commits meanwhile | all or nothing, no hold left, no head left unconsumed |
| Pipeline administration (`pipeline.go`) | pipeline records, standby counts, side repositories | validate, create, update, start, stop, delete, run, wake, mark | triggers, jobs | a stale record saved over a newer one, two mutexes, two administrators | stops and updates are not lost, no lock cycle, declarations keep apart |
| Spouts, services (`spout.go`, `service.go`) | one long-lived job each, the served directory | poll, commit, refresh, restart, settle | store, jobs, worker | half-written files, a head that moves between read and wait | no cycle lost, the head is served |
| Worker and remote attempts (`worker.go`, `datum_engine.go`) | calls, containers, devices | execute, time out, cancel | placement, datum pool | broken connections, two timers for one timeout | a job settles whatever the worker does, devices apart |
| Run sessions (`daemon.go`, `job.go`, `protocol.go`, `client.go`) | one connection, one container | frame, pump, relay, signal, exit | registry | writers without a lock, EOF against signals | no container outlives its client |
| Node registry (`registry.go`, `mdns.go`, `daemon.go`) | peers by source and age, the peers file | browse, announce, pull, prune, attach | all nodes | lost announcements, gossip that repeats the dead | a dead node is forgotten |
| Daemon start and shutdown (`daemon.go`, `jobs.go`) | records on disk, containers | prune, mark stale, respawn, drain | jobs, pipelines | crashes at every step, the start included | no dangling record, background pipelines come back |
| Git delivery (`git.go`) | commits with markers, pipeline failure | push, delta, fail, lift | store, triggers | concurrent deliveries, stale bases | the guard refuses a stale base, no failed pipeline is passed over for good |
| Self update (`update.go`) | binary on disk | download, verify, stage, rename | | two updates over one staged file, failed writes, crashes | what is installed was verified and is whole |
| API, client, CLI, web, logs, statistics, egress, customization | none of their own, or journals | decode, render, copy | all | none that a model reaches better than a test | |

## 2. Modules

| Module | Models |
|---|---|
| `FifoSlot` | what the gate promises: one slot and a line |
| `JobGate`, `JobGateProof` | the jobs of one pipeline and the cancel and delete requests |
| `Placement`, `PlacementProof` | hosts, devices and jobs that wait for them |
| `Store`, `StoreProof` | repositories, commits, refs, views |
| `Output` (extends `Store`) | one pipeline's output commits |
| `Dag` | triggers and jobs along a graph of pipelines |
| `DatumPool` | the pool that processes the datums of one job, local or remote |
| `DatumMemory` | the dedup table from job to job, and the merged output |
| `Selection` | the elements of a list that pass a test, for `Store`, `DatumMemory`, `SizeTriggers`, `GitInput` |
| `DatumSets`, `DatumProblems` | how datums are formed and listed; the bounded inputs |
| `Pipelines` | one pipeline's record, its operations, their locks |
| `Admission` | which declarations become pipelines, which repositories a deletion takes |
| `Transactions` | a transaction, its holds, its coordinator, updates beside it |
| `Waits` | flush and wait while a wave moves through a chain |
| `SizeTriggers`, `CronTickers` | ledgers and firings; tickers by repository name |
| `CommitDelete` | the steps of `deleteCommit` |
| `Blobs` | objects, references, collection, backup |
| `RemoteExec` | calls, the worker's handler, containers and devices of remote attempts |
| `Spout`, `Service` | the two kinds of background job |
| `GitInput` | concurrent deliveries and the base guard |
| `RunStream` | one `sandman run` |
| `Registry` | the fleet as each daemon sees it |
| `Restart` | crashes, the start and the orderly shutdown |
| `SelfUpdate` | `sandman update` |
| `MCJobGate`, `MCStore`, `MCOutput`, `MCDag`, `MCPipelines` | instances for TLC |
| `MCShared`, `MCProgress`, `MCNode`, `MCFlow` | suites: several models in one run |
| `NodeProof`, `ProgressProof`, `FlowProof`, `InputProof`, `TxProof` | proofs about the models of the suites: `Spout`, `Service`, `SelfUpdate`; `DatumPool`, `RemoteExec`, `Waits`, `Pipelines`; `Blobs`, `Restart`, `CronTickers`, `Dag`; `SizeTriggers`, `GitInput`, `DatumMemory`, `Admission`; `Transactions` |

A *suite* checks several models in one TLC run. `part` is chosen initially and
says which model moves; the variables of the others stay in one initial state,
so the state graph is the disjoint union of the models' graphs, each property is
guarded by its part or instantiated with its model's variables, and each
fairness condition is guarded by its part. A suite composes nothing: no model
sees another's state. The sizes of the models that proofs are about are
constants of the suite, which the configuration gives; an `ASSUME` of the suite
says what the proofs take of them.

The models meet at their edges, where each takes what its neighbour checks.
`JobGate` takes what a job does past the gate as one step; `Placement`,
`Output`, `DatumPool`, `DatumMemory` and `Dag` take the gate as "one job of a
pipeline past it at a time", which `JobGate` checks and proves. `Dag` takes a
branch as a counter, which stands on the linear history that `Output` checks.
`Output` and `Store` are one composition, the jobs calling the store's own
actions. `CommitDelete`, `Blobs` and `GitInput` take the store's calls as atomic,
which `Store` justifies: every method holds the store's lock throughout.
`DatumPool` gives the outcomes of which `DatumMemory` makes output. `Pipelines`
gives `Transactions` what an update does to a record. `Restart` takes the spawn
of a job as `JobGate` does.

The operators named "Mutant of ..." are wrong variants of the definition below
them, written to test that a property can fail; no specification uses them. A
property that is a conjunction has such a variant for each conjunct whose
failure the others would hide; `PROJECT.json` lists one per property.

### JobGate

An action is one critical section, one atomic load or store, one channel
operation or one save of the record, in program order; the exceptions are the
look-up of a delete request (record and handle in one step) and the panic
settlement (read and save in one step). `pc` is the position of a job's
goroutine, `queue` and `held` the gate, `handed` the node channels that
`release` closed, `live`, `cancelled`, `cancelCh` and `started` the running
handles, `record` the state in `job.json`, `caller` the API goroutines. `Settle`
stands for the datum run and every terminal save; `Panic` leaves through the
deferred calls in their order: release, unregister, settle. The refinement of
`FifoSlot` maps the slot's owner to the job past the gate, or handed the slot
and not yet awake, and the line to the list.

### Placement

A host is a number in name order, a heartbeat is `register` with one of the
registrations the worker may send, a TTL that passes is `GoStale`. The job past
a pipeline's gate has a phase; the jobs behind it are a count. `AttemptFails` is
a remote attempt that cannot be carried out, or that the job's cancel interrupts.
`Restart` loses the registry and the jobs and keeps the pipelines' recorded
states.

### Store and Output

Every method of the store holds its lock throughout and is one action.
`createBranch` is not such a method: its load and its `SetHead` are two actions.
A view maps every path to a sequence of pieces; `ResolveView` walks the ancestry
as the code does (it stops below an empty commit, at a missing record, and at
the root) and folds the operations over it. `pathConflict` compares neighbours
in `PathOrder`, the byte order of the path strings, in which `x.t` sorts between
`x` and `x/y`. Two constants restrict what
clients do: `MayDeleteRepo` and `RetargetOpen`; the runs and theorems that need
such a restriction say so.

`Output` adds the jobs. Each store call of `finishOutput` is one action, with its
error path; the two halves of `recordProvenance` are two. A panic may strike
between any two actions; `settlePanicJob` is the panicked job's further steps
(`PanicClose`, `PanicTimeout`, `LateLock`), concurrent with the next job.

### Dag

A commit is a repository and a number. A trigger reads one side's head per step,
then checks and creates under `triggerMu` in one step. A job that is spawned is a
goroutine that enters its pipeline's gate some time later (`Enter`), where it gets
a turn; the gate hands the slot to the lowest turn (`Start`). The job records its inputs,
picks up late heads for the sides it has none of, gives them up to a sibling, and
ends in one of the ways of `runJob`. A trigger goes through the pipelines in the
order of their list. `InOrder` says whether goroutines enter the gate in spawn
order, and `OneClient` whether client requests overlap; the code guarantees
neither. The lines are checked and proved without either, the history `crossed`
being the client repositories of which two triggers have overlapped; the diamond
is checked with both, and section 3 shows it without.

### DatumPool, DatumMemory, DatumSets

`DatumPool`: `feed` is the coordinator, `WorkerStep` a worker's next step of
`execDatum`. Everyone who stops an attempt (the datum timer, a restart request,
the kill loop of a cancel) looks up a container name in one step and kills by
name in a later one; a name is a datum and an attempt number, so it may belong
to a later run by then. The datum timer is armed before the container is started
and fires once: `early` is a timer that fired before the container was there, whose
kill is lost. `errCmd` says whether the pipeline declares an
error-handling command, and does not change. `DatumMemory` keeps for each datum the
content, the transform's version and the outcome of its last run, and the files
to carry; every change of a record rewrites the table on disk, and a crash leaves
it as it is. A killed job, a failed merge and a failed job without any output publish
`Nothing`, an empty commit with an empty view.
`DatumSets` translates the enumerating functions; its actions pose one bounded
problem each and compare the answer with a reference definition.

### Pipelines, Admission, Transactions

In `Pipelines` an operation is a goroutine with its own copy of the record; a
load, a save, taking and releasing `pipelineRecMu` and `standbyMu`, and the wait
for cancelled jobs are steps. A plan is the sequence in which operations start;
they overlap freely. In `Admission` an administrator's request is validated
against the records in one step and applied in later ones; validation is the
conjunction of the functions of `pipeline.go` in their order. In `Transactions`
`TxStep` is the goroutine of `finishTransaction` and of the coordinator it leaves
behind; triggers, settling jobs and updates outside of the transaction
interleave with it. A finished commit is shown to the pipelines one after the
other, in the order of their list, each in a step of its own; a pipeline that the
transaction holds notes that something arrived, whichever commit it was.

### Waits, SizeTriggers, CronTickers, CommitDelete, Blobs

`Waits` takes the registration on the generation channel, each reading of the
records and the sleep as steps; a write and its signal are one, in the order
`runJob` makes them. `SizeTriggers` separates the addition under the ledger's
mutex from the firings outside of it. `CronTickers` keys tickers by repository,
with the repository's name as a parameter; a declaration is a set of inputs with a
cadence, and an update replaces the one of the record while the tickers that run
go on as they are. `contested` is the history of repositories that another
pipeline's ticker already had, `loose` that of pipelines whose tickers and record were changed by
requests that overlapped or failed half way. `CommitDelete` has
one action per step of `deleteCommit`: cancel, wait, remove the jobs' records,
plan heads and parents, remove commits, write links, move refs; clients start and
finish commits and jobs run between any two of them. The histories `met` and
`stray` say which repositories and which inputs were touched meanwhile. In `Blobs` a
collection marks what commits and then what tags refer to, and sweeps object by
object, while writes go on: `WriteBlob` looks for the object, creates its file and
fills it, in three steps, before the record that refers to it is saved. A crash or a
full disk may end it in between. The history `exposed` holds the contents that
were cut short or were on their way during a collection, until they are seen whole
after it.

### RemoteExec, Spout, Service, GitInput

`RemoteExec` has the two ends of a call: the control plane's wait (answer,
deadline, cancel, broken connection) and the worker's handler and container,
which learns of none of the last three. `Spout` reads the directory file by file
while the container writes; the cycle is poll, compare, commit, take over.
`Service` takes the broadcast channel, reads the head, refreshes and sleeps.
`GitInput` makes a delivery's steps (check the base, lift a failure, write, finish,
trigger, or fail the bound pipelines) interleave with other deliveries and with
commits of the per-file API.

### RunStream, Registry, Restart, SelfUpdate

`RunStream` takes a frame as two writes, since the client's two goroutines share
the writer without a lock. The node creates the container, forks `docker start` and
writes `RUNNING`, whether the container is up yet or not (`BoxStarts`); a kill is
sent once and reaches a container that is up. The client may vanish at any of these
moments, during a pull too. `Registry` runs the maintenance loop's browse, load,
prune and sync in order, with ages counted in parts of the staleness limit.
`Restart` may crash between any two writes, during the start too; containers
outlive the process. `SelfUpdate` treats a file as an inode: opening the staged
name truncates what has it, a rename moves the name, a writer keeps its inode. Every
call of an update may fail, a write half way; an update that cannot replace the
binary removes whatever has the staged name when its rename failed, and is run
again through sudo.

## 3. Runs

Passing runs:

| Run | Properties | Models and bounds |
|---|---|---|
| `JobGateSafety` | `TypeOK`, `OneJobRuns`, `QueuedCancelNeverRuns`, `SlotConserved`, `NobodyStranded`, `ImplementsFifoSlot` | 3 jobs, 1 request, a cancel or a delete: a holder and a list of two, the shortest in which order matters |
| `StoreViews` | `ViewsCompose`, `NoTypeConflict`, `ViewsImmutable` | 2 commits, 3 writes of 2 contents, a file, a path below it and one that sorts between them, the repository may be deleted, branches are retargeted to finished commits only |
| `StoreRefs` | `RefsResolve`, `ParentsFinished`, `MarkersTellApart` | 3 commits, 2 branches, 1 write, the marker and one file, the same retargets, no repository deleted |
| `OutputContent` | `SharedSound` | `Output` with 2 jobs, 3 commits, panics, a client that deletes and authors; `Placement` with a host of changing devices and labels, drops and restarts |
| `Progress` | `PoolSound`, `DatumsApart`, `FlushComplete`, `PoolComesToItsEnd`, `EveryJobSettles`, `PlacedJobsSettle`, `JobsEnd`, `PipelineStateKept`, `RequestsEnd` | liveness of `JobGate` (2 jobs, 1 request), `DatumPool` (2 datums, 2 workers, a restart request, with and without an error command), `RemoteExec` (two jobs on two devices), `Output` (2 jobs, no panics), `Pipelines` (six plans of two or three operations), `Transactions` (four lists of one or two operations), `Waits` (two stages) |
| `Node` | `DevicesExclusive`, `NoDeviceLeak`, `PollingEnds`, `BackgroundCurrent`, `UpdatedIsWhole`, `BackgroundJobsSettle`, `NoOrphan`, `DeadForgottenAlone` | `Placement` (3 pipelines with a job each, one of which needs both devices of the labelled host and the others one device, 2 hosts of 2 devices, one of which goes stale and returns, a host without devices that leaves, restarts of the control plane), `Registry` (2 daemons, a worker, 2 deaths), `Spout` (2 files written twice), `Service` (3 heads, a failed call), `RunStream` (2 chunks, 2 signals), `SelfUpdate` (2 updates, each run again once) |
| `Flow` | `DiamondConsumed`, `DiamondPaired`, `ChainOrdered`, `DatumsComplete`, `MemorySound`, `InputsSound`, `BlobsKept`, `TransactionSound`, `RestartSound`, `DeletionClean` | `Dag` on a diamond and on a chain (2 source commits; on the chain with overlapping clients and goroutines in any order), `DatumSets`, `DatumMemory` (2 jobs, 2 datums on one path), `SizeTriggers` (3 commits around the threshold, crashes), `GitInput` (3 deliveries), `CommitDelete` (4 commits, a deletion), `Blobs` (one content, a commit, a tag and a datum), `Transactions` (with an update from outside), `CronTickers` (2 administrators, `foo` with one declaration of `x` and one of `x` at another cadence with `bar-x`, which is `foo-bar`'s repository for `x`, a restart), `Restart` (3 jobs, 2 crashes), `Admission` (14 declarations) |

What a suite's properties are:

* `SharedSound`: a finished output commit shows what its job left in the output
  directory; on a churning fleet no device leaks.
* `PoolSound`: each datum gets one outcome and none is in two workers' hands; a
  restart request alone fails none. `DatumsApart`: two attempts in flight of a
  host's jobs share no device. `FlushComplete`: a flush that returns without
  queued or failed jobs in the way has found the whole wave.
* `DevicesExclusive`, `NoDeviceLeak`, `PollingEnds`: on a fleet whose workers
  always report the same devices no two jobs hold a device, every busy device
  belongs to a job that will give it back, and a job that polls is placed or
  cancelled in the end.
* `PoolComesToItsEnd`, `EveryJobSettles`, `PlacedJobsSettle`, `JobsEnd`: a pool
  ends though commands hang, unless a command hangs whose timer went off while its
  container was being started and that no cancel's loop is killing (`Escaped`); a job that queued ends, a job on a host ends
  whatever the worker does, a job that publishes ends. `RequestsEnd`: operations
  on a pipeline return, a transaction lets its pipelines go, waits return.
* `PipelineStateKept`: the activation count of a standby pipeline is the number
  of active jobs; a stopped pipeline stays stopped until a start.
* `BackgroundCurrent`: a file that a spout holds to be committed is on the
  branch; a service that sleeps has served the head or has been woken.
  `UpdatedIsWhole`: what is installed was verified, at every instant, and is whole
  unless an update other than the installer has opened that file since and is
  writing it or was cut off, whichever calls fail or are interrupted.
* `BackgroundJobsSettle`, `NoOrphan`, `DeadForgottenAlone`: background jobs settle
  when the container is gone or the job cancelled; a client that dies takes its
  container along while its stdin is open, unless the container was not up when
  the one kill was sent; a daemon that pulls from nobody
  forgets the dead.
* `DiamondConsumed`, `DiamondPaired`, `ChainOrdered`: final heads are consumed,
  no pairing has two live jobs; along a line jobs are spawned in the order of the
  commits they read, unless triggers of a client's repository overlapped, publish in
  the order in which they entered the gate, and none succeeds on a failed output.
* `DatumsComplete`: every selected file is in a datum and every datum on a page.
  `MemorySound`: what a job publishes comes from its own input and transform or
  from records that match them; skips rest on records that hold the files.
* `InputsSound`: size triggers count every byte once; no unfailed pipeline was
  passed over for the head of its git repository; pipelines side by side keep
  inputs, names and ports apart.
* `BlobsKept`: what commits and tags refer to is whole, and archives complete, but
  for contents that are on their way, were cut short or were written while a
  collection ran, and have not been made good since. `TransactionSound`: a
  transaction is all or nothing and no head falls between it and the triggers.
* `RestartSound`: records and background pipelines come back after a crash; every
  schedule that a record declares has a ticker, and no ticker outlives its pipeline,
  but for pipelines whose requests overlapped or failed half way and repositories
  that another pipeline's ticker has. `DeletionClean`: a deletion takes the outputs
  derived from what it takes, but for inputs that finished or whose job got under
  way while it was in progress; it relinks the survivors so that nothing else is
  missing from a chain and no link or head dangles, but in a repository that others
  changed once its jobs had settled.

These exceptions are histories of the models, as narrow as TLC lets them be, and
the behaviours behind them are in the runs; each property without its exception is
in the tables of what is not kept.

Deadlock is not checked where the numbers of jobs, commits and writes are
bounded and the system stops when they are used up; `PollingEnds` is about those
commits and does not say that an unbounded stream of small jobs leaves room for a
large one. Symmetry is used for jobs, requests and commits, which no action tells
apart, and only in runs without liveness. Two revisions and a diamond are what a
stale pairing needs; three commits are a commit, its child and a commit between
them, and two are a view and the one it is built on; one content is enough for
objects, whose files do not know of each other; two operations that overlap, one before and one after a third's load, are
what a stale save needs; two crashes are one before and one during a start.

Five runs show where the code does not do what the repository says of it; the
`findings` of `PROJECT.json` quote the sentence and name the line.

| Run | What happens |
|---|---|
| `OutputPanicWedge` | the goroutine `settlePanicJob` started waits for the output lock beyond the two seconds, takes it and keeps it: the pipeline's next `finishOutput` waits for ever (`jobs.go:1656`; the comment at 1651 says "bounded so a panic under the repo lock cannot wedge this settle too") |
| `DagFailure` | a job failed by propagation publishes an empty commit and triggers nothing, so a failure stops two stages down (`execute.go:165`; `README.md:243` says "A failed stage fails every downstream stage") |
| `StandbyDeadlock` (`MCPipelines`, `NoLockCycle`) | starting a standby pipeline with a backlog takes `pipelineRecMu` and then `standbyMu`, while a settling job holds `standbyMu` and waits for `pipelineRecMu` (`pipeline.go:1033`; 1080-1081 say "no path takes pipelineRecMu before standbyMu") |
| `DeletionDetaches` (`CommitDelete`, `SurvivorsDetached`) | a commit whose parent is deleted is relinked to the nearest ancestor that is left (`jobs.go:1575`, whose comment says so too), while the doc of `deleteCommit` says "Surviving commits whose parent was removed get their parent link cleared — the survivor becomes the first commit of its branch" (`jobs.go:1456-1459`). `DeletionClean` checks what the code does |
| `CollectCarried` (`Blobs`, `CarriedReadable`) | garbage collection sweeps the objects that only a datum's record refers to, and the next skip of that datum cannot be merged (`api.go:825`; `datum_engine.go:767-768` say "the record's references stay readable for carry-forward and the output merge") |

### Stated and not kept

The modules state further promises that the code does not keep, most of them a
passing property without its restriction. To see one fail, check the property
with the module itself (`SPECIFICATION Spec`, or `FairSpec` for a temporal one)
and the constants below; `RunOrphan.cfg` is such a configuration.
Constants that are not named are as in the passing run.

`JobGate`, `Placement`, `Store`, `Output`:

| Property | Constants | What TLC finds | The promise |
|---|---|---|---|
| `JobGate.DeletedStaysDeleted` | 2 jobs, 1 request | a job deleted while queued is saved again after its stat (`execute.go:137-148`) | `jobs.go:1241` "A deleted job is no longer inspectable" |
| `Placement.DevicesExclusive` | 1 host of 2 devices, p1 and p2, 2 commits, no drops, no restarts, `ChurnReports` | a device missing from one heartbeat loses its reservation and is given to a second job (`hosts.go:80-91`) | `hosts.go:114` "parallel jobs get distinct devices" |
| `Placement.CrashHasHealer` | the same, `StableReports` | a cancelled or failed placement leaves the pipeline crashed with no job to clear it (`execute.go:221-228`) | `execute.go:99` "returns from crashed to running without recreation or manual re-trigger" |
| `Placement.EveryCommitGetsJob` | the same | a commit during a placement outage gets no job (`jobs.go:490`) | `jobs.go:467-469` "triggers exactly one job per consuming pipeline" |
| `Store.NeverFileAndDirectory` | | with `x`, `x.t`, `x/y` the conflicting paths are not neighbours in byte order (`store.go:1193`) | `store.go:1083` "finishing fails" |
| `Store.ViewsImmutable` | 1 branch, 2 commits, 1 write, `RetargetOpen` | a branch retargeted to an open commit gives a finished child that changes (`api.go:383`) | `README.md:205` "an immutable revision" |
| `Store.RefsResolve` | the same, `MayDeleteRepo` instead | the repository is deleted between the two steps of `createBranch` (`api.go:383-390`) | `store.go:307` "a captured ref can never point at a commit missing" |
| `Output.OutputLinear` | 2 jobs, 2 commits, panics only | the panicked job's commit is closed without reparenting and the next job's falls off the branch (`jobs.go:1662`) | `store.go:1003-1005` "no finished commit is orphaned off the chain" |
| `Output.NotResurrected` | 1 job, 1 commit, `MayDeleteRepo` | opening the output commit makes the deleted repository again (`execute.go:421`) | `execute.go:85` "must not silently resurrect the repo" |

`Dag` (the operators named are those of `MCDag`; a cross of two client
repositories with three overlapping commits and failures keeps `HeadsConsumed`
and `OneLivePairing`):

| Property | Constants | What TLC finds | The promise |
|---|---|---|---|
| `OneJobPerPairing` | `Cross`, `Once`, `OneClient = FALSE` | a pairing whose job has settled is run again (`jobs.go:632`) | `README.md:239-240` "never double-spawns the pairing job" |
| `MatchedRevisions` | `Diamond`, `Twice` | a late head is taken without the revision check (`execute.go:276`) | `jobs.go:687-688` "must pair at the same source revision" |
| `OutputsInOrder` | `Chain`, `InOrder = FALSE` | two goroutines enter the gate in the opposite order of their spawn (`pipeline.go:686`), and the output of the older commit is the head | `jobs.go:905` "serializes a pipeline's jobs in spawn order"; 911 "never stranded" |
| `FailureNotMasked` | `Diamond`, `Once`, `MayFail = {"b"}` | a join triggered by its healthy side succeeds on the failed side's output (`jobs.go:520`) | `README.md:243` |
| `HeadsConsumed` | `Diamond`, `OneClient = FALSE` | overlapping triggers leave a side of a diamond at an older revision for good (`jobs.go:516`) | `jobs.go:482-483` "the final head converges to completion" |
| `HeadsConsumed` | `Diamond`, `MayBeEmpty = {"b"}` | a side without datums publishes nothing and the deferred pairing is never formed (`execute.go:411`) | `jobs.go:538-539` "the catch-up trigger will form the coherent pairing" |

Pipelines, transactions and waits:

| Property | Constants | What TLC finds | The promise |
|---|---|---|---|
| `Pipelines.StandbyMeansQuiet` | `LockPlans`, no marks | a trigger that read the record while it said running does not save it when it activates the pipeline | `pipeline.go:706-707` "running job under a "standby" label" |
| `Pipelines.StoppedHoldsNoJobs` | the same | a trigger that read the record before the stop makes its job after the stop has cancelled the others | `pipeline.go:1018` "paused pipeline holds no containers" |
| `Pipelines.BacklogConsumed` | the same | a commit finished before the stop and triggered after it is taken neither then nor by the start | `pipeline.go:1025-1030` "consumed together as one job" |
| `Pipelines.OldVersionNeverRaces` | the plan commit, update | a job of the old version is made after the update has cancelled the others | `pipeline.go:833` "no old-version work may race the new head job" |
| `Admission.PortsApart`, `SideReposKept` | two administrators | both pass the check before either is saved; a derived repository is deleted while a new reader of it is created | `pipeline.go:392-394` "two services cannot share the control-plane host's bound port"; 1353-1355 "unless another pipeline still references them" |
| `Admission.SidesApart` | a cross of a file side over `a-x` and a union named `a_x` | names are compared before the implicit ones are filled in (`pipeline.go:135-148`) | `pipeline.go:89-92` "are rejected" |
| `Admission.OwnOutputNeverRead` | a git input named as its pipeline | only plain sides are compared with the pipeline's name | `pipeline.go:85-86` "may not consume the pipeline's own output" |
| `Admission.InputsExistAtCreation` | a cross over a repository that is missing | only the repository of a plain input is looked for (`pipeline.go:486`) | `pipeline.go:464-466` "Every declared input repository must exist at creation" |
| `Admission.OutputsKept` | `p` with a cron input `x`, and a pipeline `p-x` | deleting `p` takes `p-x`'s output repository for its own (`pipeline.go:1372-1380`) | a pipeline's output repository exists while it does |
| `Transactions.AbortLosesNothing` | | the triggers held by an undone transaction are dropped with the holds | `jobs.go:467-469` |
| `Transactions.OneJobEach` | `MaxJobs = 3` | an update from outside between the coordinator's claim and its schedule makes a second job | `transaction.go:144-145` "exactly one new output commit and one new job" |
| `Transactions.OutsideNeverOverwritten` | | versions are compared first and operations applied later, with no lock over both | `transaction.go:153` "applies nothing rather than silently overwriting" |
| `Waits.FlushCompleteQueued`, `FlushCompleteFailed` | | a job without an output commit is not followed; the jobs below a failed one are made after its record is terminal | `wait.go:148` "jobs of downstream stages — is terminal" |

Datums, objects and commits:

| Property | Constants | What TLC finds | The promise |
|---|---|---|---|
| `DatumPool.PoolEnds` | fair | the timer fires while the container is being started, its kill is lost and not repeated, and the command hangs (`datum_engine.go:936`, the start at 963) | `runner.go:33-34` "a kill of a not-yet-started execution can be lost; cancel retries": the timer does not |
| `DatumPool.RestartHarmless` | two requests, no error command | the second request kills the attempt that the first one caused, after its mark was used up | `datum_api.go` "the job still completes successfully" |
| `DatumMemory.CarriedReproducesParent` | 3 jobs, 2 datums on one path | a job that runs some of a path's datums leaves out what the skipped ones wrote under an older transform, and the next job brings it back | `datum_engine.go:1504` "reproduce the parent's content exactly" |
| `DatumMemory.ParentViewPreserved` | | a failed job without output publishes an empty commit, which shows nothing (`store.go:1028-1031`, 1208-1210) | `execute.go:621-622` "the empty finish (parent view preserved, no tombstones)" |
| `DatumSets.PagesEnd` | | a page beyond an empty listing is a slice out of range (`datum_api.go:202`) | `datum_api.go:154-156` "errors rather than returning an empty page" |
| `CommitDelete.HeadsKept`, `DerivedGoneEver`, `DeletionUndoesNothing` | 3 commits, 1 deletion | a client finishes the commit that is deleted after the heads were worked out; an input's job starts after the closure was taken; a survivor that a client has finished is saved again as it was read | `jobs.go:1454-1460` "every commit in any repository whose provenance includes it", "branch heads that pointed at a removed commit move" |
| `Blobs.ReachableEver`, `ArchiveEver` | | a collection sweeps an object whose record is not saved yet; an object cut short is taken for complete by the next write of that content | `api.go:810` "Reachable data is never touched"; `backup.go` "land after the snapshot" |
| `SizeTriggers.BytesSurviveRestart` | `MayCrash` | a crash between the save of the ledger and the firing loses the firing | `trigger.go:142` "restarts without losing or double-counting bytes" |
| `SizeTriggers.FiringsInOrder` | | two requests fire outside of the mutex in either order | `trigger.go:159` "the watched branch's current view" |
| `CronTickers.SchedulesExact` | | an update only adds tickers: a dropped input ticks on, and a new cadence waits until the pipeline is deleted or the daemon restarts (`pipeline.go:888-899`) | `pipeline.go:888-890` means the tickers that stay ("are left running"); of a dropped input or a new cadence it says nothing |
| `CronTickers.SchedulesLiveEver` | | a create and a delete of one pipeline overlap, or a record cannot be saved, and a ticker stays that no pipeline owns | `cron.go:64` "pipeline deletion stops it" |
| `CronTickers.SchedulesApart` | | `foo` with `bar-x` and `foo-bar` with `x` share a repository, whose ticker goes with the one that armed it first | `cron.go:99` "a "foo" cleanup must not kill "foo-bar"'s" |
| `GitInput.EditsKeepWork` | | two deltas with one base both pass the check | `git.go:328` "a stale tree onto a newer head" |
| `GitInput.PushRecovers` | | a full push does not lift a base mismatch | `git.go:436` "deliver a full push or a delta with the current base" |
| `GitInput.PushIsTheRevision` | | paths that the revision no longer has stay | `git.go:254` "each replacing the previous" |
| `GitInput.NotSilencedByFailedWrite` | | the earlier failure is lifted before a write that then fails | the comment at `git.go:448` |

Nodes, sessions and the daemon:

| Property | Constants | What TLC finds | The promise |
|---|---|---|---|
| `RemoteExec.ContainersApart` | | a call ends, and its devices are free, while the container still runs | `hosts.go:22` "parallel jobs get distinct devices" |
| `RemoteExec.TimeoutsAreSeen`, `CancelIsNotACrash` | | the call's deadline passes before the worker's answer; an interrupted call counts as a failure of the host | a remote datum ends as a local one does |
| `Spout.HeldAsOnBranch`, `NothingLost` | | a file written between the two reads of a cycle; a final cycle that is refused or cancelled | `spout.go:291` "a cycle must not be lost" |
| `Service.StoppedIsGone`, `CatchesUp`, `ExitIsSeen` | | a stop before the process has started; a refresh that fails after `lastID` moved; an exit on a host | `service.go:90` "settles when the process exits" |
| `RunStream.NoOrphanEver` | 2 of everything | the connection is lost while docker starts the container; the kill is lost and not repeated (`daemon.go:532`, `job.go:120-124`) | `daemon.go:526-527` "A dead connection means a dead client — kill the job, leave no orphans" |
| `RunStream.NoOrphanAfterEOF`, `SecondSignalKills` | 2 of everything | after the end of stdin the pump has returned, and nobody notices the client's death or its signals (`daemon.go:552`) | `daemon.go:527` "kill the job, leave no orphans"; `client.go:111-112` |
| `RunStream.OutputBeforeExit`, `FramesWhole` | the same | `cmd.Wait` closes the pipes under the relays (`job.go:95`); the client's two goroutines share the writer | `daemon.go:575` "flush remaining output before declaring the exit code" |
| `Registry.DeadForgotten` | 1 death | two daemons keep refreshing each other's row of a dead peer | `mdns.go:69-70` "a node that goes silent leaves the fleet on its own" |
| `Restart.StandbyAfterRestart` | | the daemon dies between the save of the job and that of the pipeline | `jobs.go:332` "returns to standby" |
| `Restart.InputConsumed` | | the daemon dies between the commit and its trigger (`jobs.go:438`) | `daemon.go:77` "committed data and pipeline definitions survive" |
| `Restart.ShutdownCancelsAll` | | a request in progress makes a job after the others were cancelled | `daemon.go:231` "cancel every in-flight job" |
| `SelfUpdate.AlwaysWhole` | | two updates share the staged file, and one renames it while the other fills it, or after the other's write failed half way (`update.go:365-369`) | `update.go:28-29` "atomic: temp file + rename" |

## 4. Fairness

Only weak fairness is assumed: what is waited for is a closed channel, a free
mutex, a timer or a loop that goes on, each of which stays enabled once it is.

* `JobGate`: each spawned job's next step. The Go scheduler runs every goroutine
  that can run; a waiter's channel stays closed once closed. For `Settle` this
  assumes that the user's transform ends; a cancel's kill loop and the job timeout
  are the code's own means to that. Requests need not come.
* `Placement`: the worker's heartbeat loop and the job's poll loop run for ever,
  and a placed job settles.
* `Output`: each job's goroutine, and the goroutines of `settlePanicJob`.
* `DatumPool`: the coordinator, each worker's goroutine, the datum timer, the
  goroutine of a cancel's kill loop, and the end of error commands. That a user's
  command ends is not assumed: the timer ends it, unless it fires before the
  container is there, or the loop does, unless it gives up.
* `RemoteExec`: the call's deadline, the settling and the placement of jobs.
  Nothing of the worker's is fair: `PlacedJobsSettle` holds when it hangs.
* `Pipelines`: the goroutine of each operation and the settling of its job.
* `Transactions`: the request's goroutine and the coordinator's loop.
* `Waits`: the wave of jobs (they end), the flush and the waiting request.
* `Spout`: the loop. `Service`: the loop, the delivery of a broadcast and the
  start of the process. `RunStream`: the node's handler, pump, relays and wait, which
  are goroutines; nothing of the client, nor of docker's start of the container. `Registry`: time, and each daemon's loop.

## 5. Proofs

TLAPS proves, for every value of the constants that meets the named assumptions:

| Theorem | States | For all |
|---|---|---|
| `TypeCorrect`, `SlotIsConserved`, `NoWaiterIsStranded`, `AtMostOneJobRuns`, `QueuedCancelIsFinal` (`JobGateProof`) | the safety properties of the gate | jobs, requests |
| `GateIsFifo` (`JobGateProof`) | the gate implements `FifoSlot`: every step is a step of the slot and its line, or none | jobs, requests |
| `PlacementTypes`, `DevicesDoNotLeak`, `StableFleetIsExclusive` (`PlacementProof`) | types, no leak on any fleet, exclusive devices on a stable fleet | fleets |
| `RefsAlwaysResolve`, `ParentsAlwaysFinished`, `HistoryIsFrozen` (`StoreProof`) | refs resolve while no repository is deleted; parents are finished, and a finished record and what it builds on never change, while besides no branch is retargeted to an open commit | commits, branches, contents |
| `ViewsAlwaysCompose` (`StoreProof`) | a view is the parent's with the commit's operations applied, an empty commit is a barrier, a path holds the appends since its last overwrite | commits, paths, writes; no hypothesis |
| `FinishedViewsNeverChange`, `ConflictsAreApart`, `MarkersAlwaysTellApart` (`StoreProof`) | while no branch is retargeted to an open commit: finished views never change, one that shows a path as file and directory shows a path that sorts between the two and is not below the file, and a commit shows no marker of one it builds on | commits, paths in any order, writes |
| `NodeInductive`, `BackgroundIsCurrent`, `UpdatesLeaveWhole` (`NodeProof`) | a spout's and a service's view of the branch is right; what is installed was verified, and is whole but for a file that another update has opened since | files, writes, commits, failures, updates, runs through sudo, failing calls |
| `DatumsProcessedOnce`, `RestartFailsNone`, `PoolIsSound` (`ProgressProof`) | every datum is in one place; one restart request fails none | datums, workers, channel bounds, attempts |
| `DatumsAreApart` (`ProgressProof`) | attempts in flight on a host share no device | jobs, slots, devices |
| `FlushIsComplete` (`ProgressProof`) | a flush that returns has the whole wave | chains, states of pipelines, ends of jobs |
| `PipelineStateIsKept` (`ProgressProof`) | the activation count is exact, and a stop lasts until a start | plans of operations |
| `BlobsAreKept` (`FlowProof`) | reachable objects are whole and archives complete, but for contents cut short, on their way, or written during a collection | objects, commits, tags, datums; no hypothesis |
| `RestartIsSound` (`FlowProof`) | no record dangles, background pipelines come back, declared schedules tick and none outlives its pipeline, but where requests on a pipeline overlapped or failed, or two pipelines share a repository | pipelines, jobs, crashes, declarations, names, administrators |
| `PairingsAreApart` (`FlowProof`) | no pairing has two live jobs, but while one that took a late head has not looked at its siblings | graphs, commits |
| `LinesAreOrdered` (`FlowProof`) | along lines of pipelines jobs are spawned in the order of their inputs, publish in the order in which they entered the gate, and none succeeds on a failed output | lines, commits, clients, orders of the goroutines, failures |
| `PublishedIsCurrent` (`InputProof`) | what a job publishes is of its own input and transform; skips are earned | datums, contents, versions, jobs, crashes |
| `InputsKept` (`InputProof`) | bytes count once, no git head is overlooked, pipelines side by side keep apart | commits and sizes; deliveries and bindings; declarations |
| `TransactionsAreSound` (`TxProof`) | all or nothing, and no head overlooked | pipelines, operations, commits, jobs |

Each argument is an inductive invariant; the property alone is not inductive in
any of them.

*Gate.* That a cancelled waiter which finds its node gone may pass the slot on
depends on which waiters were handed it. `GateIInv` adds to the properties the
types, that the list holds exactly the jobs that wait and were not handed the
slot, that every request past its look-up names a job, and the flag protocol: a
request past `MarkCancelled` has set the flag, and a job past `StoreStarted` has
set its own, so of the job and the request at least one sees the other's.
`OneJobRuns` follows from the slot being conserved. For the refinement the slot's
owner is the job past the gate or handed the slot (`SlotOwner`), of which the
invariant allows one; a hand-off is the slot's release and the next one's turn,
and the awakening of a job that was handed the slot is a stutter.

*Placement.* `NoDeviceLeak` is inductive with the types. `DevicesExclusive`
needs that the devices of every placed job are marked busy at its host, which a
heartbeat preserves only if it reports them, and a `drop` only if the host has
none: the stable-fleet assumption.

*Store.* `RefsResolve` is strengthened by: every present commit's repository
exists, and the commit a retarget has loaded is present in the repository it
names. For the parents, heads and retargets are finished besides; where
repositories may be deleted they are `Settled` (`SInv`), finished or gone for
good. That a commit is no ancestor of its own is a rank that falls from every
commit to its parent (`RInv`), whatever clients do.

*Views.* `ResolveView` is a walk up the parents and a fold over what they wrote.
`ReplaySteps` turns the fold into a sequence of intermediate values, from which
`ReplayAppend` and `ReplayConcat` follow; `WalksAgree` says that two walks over
records that agree below some commit are the same walk, which gives
`LineageKept`: a step that changes no record of an ancestry leaves its view. So
views compose in every state, by the walk alone, and a finished view never
changes because nothing in its ancestry does. Between a
file and a path below it in the sorted listing there is a first path that is not
shown as below the file; `ConflictsAreApart` says that such a path exists, since
otherwise two neighbours of the listing conflict, and `FinishCommit` compares
neighbours. With `x`, `x.t`, `x/y` it does exist, and the conflict is finished
(`NeverFileAndDirectory`, section 3). For the markers,
what is finished has had its marker settled against its parent's view.

*Background jobs.* For the spout: what a cycle is about to commit is in the
directory and was read there, and once it is committed it is on the branch, unless
the job is being replaced. For the service: a head that moved is unsaid or has
woken the loop, and as long as no refresh failed the revision that is served lies
between the one the loop takes as served and the head. For the updates: what an
update stages was verified, whatever run of it this is; an inode that was staged is
as its last opener has left it, whole once that one has filled it; and one that
the opener was cut off from stays cut until somebody opens it anew. So what is
installed is whole, or is in the hands of a later opener, which
`UpdatesLeaveWhole` states and by which `AlwaysWhole` fails.

*Pool.* `PoolInv` says where a datum is: not fed, in one channel once, in one
worker's hands, or settled, each excluding the others; the cardinalities of the
property come only at the end. `HarmInv` is about calm runs: an attempt that
failed belongs to a datum whose restart mark is set, and what a request is about
to kill is a command of the datum it found, settled by now or still in a
container's hands. It assumes one request, which is a limit of the code and not of
the proof: with two, the second kills the attempt that the first one caused, and
`RestartHarmless` fails (section 3).

*Host, waits, pipelines.* A placed job has `Parallelism` times `Per` devices, all
different and none that another job has, and a call is under way for placed jobs
only; the slots of a job take disjoint intervals of its devices. A consumer is
owed to a stage that is done, and is spawned once; from the read of the records on
what the flush has read is done, and from its look at what is owed on nothing more
comes of it. For the
administration: who has read the record to write it back holds `pipelineRecMu`, a
stop writes back a stopped record, and an operation launches a job at most once,
so that nobody is counted twice.

*Objects.* A write that is under way has its object short or whole as its step
says; of what it has stored, and nothing has exposed, nobody else is in the middle.
At each step of a collection what it has found covers the references of the kinds
it has gone through, but for contents that a write has brought in since, which are
in `exposed`; those that are whole at its end have escaped it. There is no
hypothesis on who writes or crashes when.

*Start.* `LifeInv` and `BackInv`: goroutines and requests die with the process; from
the visit of the records on, a job that is pending is on the start's list or has a
goroutine, and what has a container runs; background pipelines that the start has
visited, and that were not stopped, have a job of this life. For the schedules: a
request that is between its tickers and its record has armed, or kept, a ticker for
every input it is to save, unless another request on that pipeline has come in
between, which makes the pipeline `loose`; a ticker is of a pipeline that has a
record, is about to, or is loose; and what the start has still to arm is in `boot`.
It has no hypothesis on names or administrators.

*Pairings.* `PairInv` adds that a job is live until it has published, and that the
heads a job took late are of a side that its other inputs do not cover: a job that
gives them up has an incomplete pairing again. A trigger creates only under
`triggerMu`, in the step that has looked for a live job with the same inputs.

*Lines.* A job has a turn once its goroutine is in the gate, different from those
of its pipeline's other jobs and at most the gate's count; one past the gate has
the lowest turn of those that have not published (`InTurn`, `Apart`), whence
outputs in turn. A job triggers the next stage while it holds its slot, so the
inputs of the next stage's jobs are in the order of their spawn; those of the first
stage are as long as no two of its triggers overlap. A failure is passed to the
next stage with the commit it was recorded for. Each pipeline reads one repository
(`OneSided`); the order of a join's outputs is not defined by any one of its
inputs.

*Inputs.* `SizeInv`: a ledger and the firings still owed are together the bytes
counted, as a sum over commits of which one changes at a time. `GitInv`: each
pipeline bound to a repository was triggered for its head, has failed, or is in
the hands of a request that is going to (`Announces`, `Brings`), which hands
over to another in the step in which it ends. `AdmInv`:
what an administrator holds was checked against the records and still passes,
for which administrators act in turn (`AdminsInTurn`; section 3 shows the
property fail for two at a time). Its other hypotheses are about names:
declarations are well shaped (`DeclaredWell`: unions stand alone or in a cross,
and no unnamed git side of a cross is called like a union beside it, since
names are compared before they are filled in), and no derived repository is
called like a pipeline (`DerivedApart`; `OutputsKept` in section 3 is
what happens otherwise). The declarations of the run `Flow` meet them.

*Datum records.* `MemoryInv`: a record of a success holds the files its content
gives under the transform it names, and what a job has done or skipped rests on
such a record. What is published then follows datum by datum, along the order in
which outputs are merged.

*Transactions.* `WholeInv`, as long as nobody updates from outside: each
pipeline's version is what it was before plus the number of its operations among
those applied, the archive has the version to go back to, and the roll-back has
brought back the pipelines it is through with. `HeadInv` lists who answers for a
head (`Noticed`): a job made for it, a commit not yet shown to the pipeline, a
job above that has still to publish a later head, or the transaction, which owes
the pipeline a job while it applies its operations and until the coordinator has
looked at the note of arrivals for the last time. Each hands over to another in
the step in which it ends; a job that was cancelled is followed by one that was
not (`Renewed`), and triggers are held only where a job is owed (`HoldInv`).

What the proofs assume besides is named in the modules and checked by TLC in the
runs (`JobsAssumption`, `PlacementAssumption`, `StoreAssumption`,
`PoolAssumption`, `DagAssumption`, and those of the suites): bounds are natural
numbers, the holders that are tags or datums are among the holders, a background
pipeline is not in standby, a marker such as "nobody" is no pipeline's name. None
restricts what the code does.

Only model-checked:

* liveness under fairness, which is out of this prover's reach
  (`EveryJobSettles`, `PollingEnds`, `JobsEnd`, `PoolComesToItsEnd`,
  `PlacedJobsSettle`, `RequestsEnd`, `BackgroundJobsSettle`, `NoOrphan`,
  `DeadForgottenAlone`);
* `SharedSound`, of which the part about devices is `DevicesDoNotLeak`;
* `DatumsComplete`, a fact about recursive listings that are checked over bounded
  inputs; `DiamondConsumed`, which needs of every head without a job that some
  trigger is still to come, along both sides of the diamond; and `DeletionClean`,
  the closure over provenance and what is linked to what survives.

Induction over data takes the form of a least counterexample: the numbers for
which a formula holds are a set (`AllNumbers`), or the subsets of a finite set
have a smallest one (`SmallestSubset`), where the library's induction rules take
the formula itself as a parameter. What is folded is then a sequence of
intermediate values (`ReplaySteps`, `SelectedSteps`), and what is summed a partial sum over
subsets (`PartialSumsExist`). For this the models select the elements of a list
by `Selection`, a fold from the left.

## 6. Abstractions

* Content is a sequence of opaque pieces, a number, or a hash that is the content
  itself. Empty files, legacy records and I/O errors other than the ones named
  are left out of `Store`.
* `Dag` leaves out unions, joins, groups, manual runs, size triggers,
  transactions, services, cancels and changes of pipelines, most of which have a
  module of their own; `Placement` leaves out stopping and updating a pipeline.
* A propagated job in `Dag` is recorded failed and publishes its empty commit in
  one step; nothing reads the record in between but the duplicate check, which
  takes it for terminal in both.
* `CommitDelete` has one input and one output repository, so the closure over
  provenance takes one hop; `Transactions` one input per pipeline; `Waits` a
  chain; `Pipelines` and `Admission` leave out spec commits and version archives.
* `Restart` takes a request's commit, trigger, save and spawn as steps, but each
  file's write as atomic; `Blobs` is where it is not.
* Names are model values or short strings; where the code makes names of names
  (cron repositories, environment variables) the function is a parameter.
* Times are nondeterministic: a timeout may fire whenever it is pending. Ages in
  `Registry` are counted in parts of the limit.

Not modelled, and why: case-insensitive file systems (`casefs.go`: probing of the
host's file system), logs and statistics (formatting, sampling), egress (I/O; its
failure is an outcome in `Dag`), the HTTP surface, the client library and the
web pages (decoding and rendering), the command line with its transfer of trees
and patches (the guard it relies on is in `GitInput`), customization and platform
glue, restoring a backup, detection of devices, reading of git objects.

## 7. Plan

Done: `JobGate` with `FifoSlot`, `Placement`, `Store`, `Output`, `Dag`, then
`DatumPool`, `DatumMemory`, `DatumSets`, `Pipelines`, `Transactions`, `Waits`,
`SizeTriggers`, `CronTickers`, `CommitDelete`, `Blobs`, `RemoteExec`, `Spout`,
`Service`, `GitInput`, `RunStream`, `Registry`, `Restart`, `SelfUpdate`,
`Admission`, and the suites.

Theorems worth proving next, in this order:

1. `MCShared.SharedSound`: a finished output commit shows what its job left. The
   invariant says what of the upload is in the commit at each step of
   `finishOutput`, under one holder of the output lock, on top of `SInv` and
   `TInv` of `StoreProof`.
2. `DiamondConsumed`: for a head without a job some trigger is still to come.
3. `DeletionClean`: the links written for the survivors, and the one hop of the
   closure.
