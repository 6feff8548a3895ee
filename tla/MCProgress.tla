----------------------------- MODULE MCProgress -----------------------------
(***************************************************************************)
(* What jobs and requests wait for, checked in one run: a job for its      *)
(* pipeline's slot (JobGate), the pool that processes its datums           *)
(* (DatumPool, whose constants the configuration gives), the host it was   *)
(* placed on (RemoteExec) and its output commit (Output); a request for    *)
(* the jobs it cancels and the mutexes of the pipelines (Pipelines), a     *)
(* transaction (Transactions) and a flush (Waits) for the jobs of others.  *)
(* A behaviour is one of these models, as part says, and the variables of  *)
(* the others stay as they are.                                            *)
(***************************************************************************)
EXTENDS DatumPool, TLC

CONSTANTS
  j1, j2, c1, c2, api, out, master, NoJob, NoCommit, NoBranch, NoRec, Free,
  HostJobs, HostParallelism, Per, Devices,                           \* RemoteExec
  HasErrCmd, HasTimeout, MaxAttempts,
  Plans, PlainInput, MaxMarks,                                       \* Pipelines
  ChainLength, Modes, Outcomes                                       \* Waits

(* A placed job has its pool's slots, each with its share of the devices,  *)
(* which are numbered, and a chain its pipelines, each in one of the       *)
(* states of a pipeline and each job with one of the ends of a job; a plan *)
(* is a sequence of operations, and who holds a mutex is a thread.         *)
ASSUME ProgressAssumption ==
  /\ HostParallelism \in [HostJobs -> Nat] /\ Per \in Nat /\ Devices \subseteq Int
  /\ ChainLength \in Nat /\ Modes \subseteq {"running", "standby", "stopped"}
  /\ Outcomes \subseteq {"success", "failure", "killed"}
  /\ \A p \in Plans : p \in Seq({"commit", "run", "stop", "start", "update", "delete"})
  /\ Free \notin {"op", "job"} \X Nat

VARIABLES
  part,
  \* JobGate
  pc, queue, held, handed, live, gateCancelled, cancelCh, started, record, caller,
  \* RemoteExec
  gpus, state, call, run, crashed,
  \* Output, with the store
  repos, commitRec, heads, default, retarget, written, job, lock, deleted,
  \* Pipelines
  plan, standby, disk, head, standbyActive, recMu, standbyMu, op, pipeJob,
  \* Transactions
  version, archive, txHead, signal, hold, pending, tx, coord, txJob, outside, before,
  \* Waits
  queues, mode, waveJob, owed, flush, waiter

gateVars == <<pc, queue, held, handed, live, gateCancelled, cancelCh, started, record, caller>>
hostVars == <<gpus, state, call, run, crashed>>
outVars == <<repos, commitRec, heads, default, retarget, written, job, lock, deleted>>
pipeVars == <<plan, standby, disk, head, standbyActive, recMu, standbyMu, op, pipeJob>>
txVars == <<version, archive, txHead, signal, hold, pending, tx, coord, txJob, outside, before>>
waitVars == <<queues, mode, waveJob, owed, flush, waiter>>
progressVars == <<part, vars, gateVars, hostVars, outVars, pipeVars, txVars, waitVars>>

Gate == INSTANCE JobGate WITH Jobs <- {j1, j2}, Callers <- {api}, cancelled <- gateCancelled

(* A job of two slots and one of one.                                      *)
MCHostParallelism == j1 :> 2 @@ j2 :> 1
Host == INSTANCE RemoteExec WITH Jobs <- HostJobs, Parallelism <- HostParallelism

(* A job leaves the file x or nothing at all, and clients may put the      *)
(* delivery marker on the output branch.                                   *)
X == <<"x">>
Git == <<".git", "HEAD">>
Nothing == [p \in {X, Git} |-> <<>>]

Out == INSTANCE Output WITH
  Repos <- {out}, Branches <- {master}, Commits <- {c1, c2},
  Names <- {"x", ".git", "HEAD"}, PathOrder <- <<Git, X>>, Marker <- Git, Contents <- {"v"},
  Protected <- {}, MayDeleteRepo <- TRUE, RetargetOpen <- FALSE, MaxOps <- 0,
  Jobs <- {j1, j2}, OutRepo <- out, OutBranch <- master,
  OutDirs <- {Nothing, [Nothing EXCEPT ![X] = <<"v">>]}, MayAuthor <- TRUE, MayPanic <- FALSE,
  rec <- commitRec

(* A commit that makes a job, with each of the operations beside it.       *)
MCPlans == {<<"commit", "stop">>, <<"stop", "commit", "start">>, <<"commit", "update">>,
            <<"commit", "delete">>, <<"delete", "update">>, <<"commit", "run">>}
Pipe == INSTANCE Pipelines WITH job <- pipeJob

(* b reads the output of a, which exists and reads src.                    *)
Create(p) == [kind |-> "create", pipe |-> p]
Update(p) == [kind |-> "update", pipe |-> p]
Tx == INSTANCE Transactions WITH
  PipeList <- <<"a", "b">>, Source <- "src", Existing <- {"a"},
  Consumes <- [p \in {"a", "b"} |-> IF p = "a" THEN "src" ELSE "a"],
  OpLists <- {<<Update("a"), Create("b")>>, <<Update("a"), Update("a")>>,
              <<Create("b"), Update("b")>>, <<Create("a")>>},
  MaxCommits <- 1, MaxOutputs <- [p \in {"a", "b"} |-> IF p = "a" THEN 2 ELSE 1],
  MaxOutside <- 0, MaxJobs <- 1, head <- txHead, job <- txJob

Wait == INSTANCE Waits WITH N <- ChainLength, job <- waveJob

(* Which of several initial states the parts that do not run stay in; a    *)
(* placed job's error-handling command is the host's.                      *)
AtRest ==
  /\ part # "pool" => placed
  /\ placed => errCmd
  /\ part # "pipelines" => plan = <<"commit", "run">> /\ standby
  /\ part # "transactions" => tx.ops = <<Create("a")>>
  /\ part # "waits" => ~queues /\ mode = [i \in Wait!Stages |-> "running"]

ProgressInit ==
  /\ part \in {"gate", "pool", "host", "output", "pipelines", "transactions", "waits"}
  /\ Init /\ Gate!Init /\ Host!Init /\ Out!OutInit
  /\ Pipe!Init /\ Tx!Init /\ Wait!Init
  /\ AtRest

ProgressNext ==
  \/ /\ part = "gate" /\ Gate!Next
     /\ UNCHANGED <<part, vars, hostVars, outVars, pipeVars, txVars, waitVars>>
  \/ /\ part = "pool" /\ Next
     /\ UNCHANGED <<part, gateVars, hostVars, outVars, pipeVars, txVars, waitVars>>
  \/ /\ part = "host" /\ Host!Next
     /\ UNCHANGED <<part, vars, gateVars, outVars, pipeVars, txVars, waitVars>>
  \/ /\ part = "output" /\ Out!OutNext
     /\ UNCHANGED <<part, vars, gateVars, hostVars, pipeVars, txVars, waitVars>>
  \/ /\ part = "pipelines" /\ Pipe!Next
     /\ UNCHANGED <<part, vars, gateVars, hostVars, outVars, txVars, waitVars>>
  \/ /\ part = "transactions" /\ Tx!Next
     /\ UNCHANGED <<part, vars, gateVars, hostVars, outVars, pipeVars, waitVars>>
  \/ /\ part = "waits" /\ Wait!Next
     /\ UNCHANGED <<part, vars, gateVars, hostVars, outVars, pipeVars, txVars>>

(* The fairness of the parts, each guarded by its part.                    *)
ProgressFairness ==
  /\ \A j \in {j1, j2} :
       /\ WF_gateVars(part = "gate" /\ Gate!JobNext(j) /\ pc[j] # "unborn")
       /\ WF_outVars(part = "output" /\ Out!JobNext(j))
  /\ \A j \in HostJobs :
       /\ WF_hostVars(part = "host" /\ Host!Settle(j))
       /\ WF_hostVars(part = "host" /\ Host!Place(j))
  /\ WF_vars(part = "pool" /\ feed)
  /\ \A w \in Workers :
       /\ WF_vars(part = "pool" /\ WorkerStep(w))
       /\ WF_vars(part = "pool" /\ DatumTimeout(w))
       /\ WF_vars(part = "pool" /\ \E ok \in BOOLEAN : ErrCmdEnds(w, ok))
  /\ WF_vars(part = "pool" /\ KillRound)
  /\ \A a \in Host!Attempts : WF_hostVars(part = "host" /\ Host!Deadline(a))
  /\ \A i \in Pipe!AllOps :
       /\ WF_pipeVars(part = "pipelines" /\ i \in Pipe!Ops /\ Pipe!OpStep(i))
       /\ WF_pipeVars(part = "pipelines" /\ i \in Pipe!Ops /\ Pipe!SettleStep(i))
  /\ WF_txVars(part = "transactions" /\ Tx!TxStep)
  /\ WF_waitVars(part = "waits" /\ Wait!WaveStep)
  /\ WF_waitVars(part = "waits" /\ Wait!FlushStep)
  /\ WF_waitVars(part = "waits" /\ Wait!WaiterStep)

ProgressSpec == ProgressInit /\ [][ProgressNext]_progressVars /\ ProgressFairness

----------------------------------------------------------------------------
(* No datum is lost or processed twice, and a restart request alone fails  *)
(* none (datum_engine.go, datum_api.go).                                   *)
PoolSound == part = "pool" => EachDatumOnce /\ RestartHarmless

(* The pool comes to its end, though commands hang, but for a command      *)
(* whose timer went off before its container was there (datum_engine.go).  *)
PoolComesToItsEnd == []<>(part = "pool" => Over \/ \E w \in Workers : Escaped(w))

(* Two attempts in flight on a host share no device (datum_engine.go).     *)
DatumsApart == Host!DatumsApart

(* A job that has asked for its pipeline's slot gets it or gives up, and   *)
(* its goroutine comes to its end (execute.go).                            *)
EveryJobSettles == Gate!EveryJobSettles

(* A job on a host settles whatever the worker does (worker.go).           *)
PlacedJobsSettle == Host!PlacedJobsSettle

(* A job that publishes comes to its end (execute.go, finishOutput).       *)
JobsEnd == Out!JobsEnd

(* The activation count of a standby pipeline is exact, and a stop lasts   *)
(* until a start (pipeline.go).                                            *)
PipelineStateKept == []Pipe!StandbyCountExact /\ Pipe!StopIsDurable

(* A flush that returns has the whole wave (wait.go).                      *)
FlushComplete == part = "waits" => Wait!FlushComplete

(* Every operation on a pipeline returns (pipeline.go), a transaction lets *)
(* go of its pipelines (transaction.go), and the waits return (wait.go).   *)
RequestsEnd ==
  /\ Pipe!OperationsReturn
  /\ Tx!HoldsReleased
  /\ []<>(part = "waits" => Wait!FlushOver)
  /\ []<>(part = "waits" => Wait!WaiterOver)
=============================================================================
