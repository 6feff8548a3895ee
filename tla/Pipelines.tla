----------------------------- MODULE Pipelines -----------------------------
(***************************************************************************)
(* The record of ONE pipeline and the operations on it: stop, start,       *)
(* create or update, delete, run, the trigger of a finished input commit   *)
(* (pipeline.go, jobs.go), and the jobs they spawn, which change the       *)
(* record again when they cannot be placed and when they settle.           *)
(*                                                                         *)
(* Every operation is a goroutine of its own, and reads the record from    *)
(* disk long before it writes it back.  Two process-wide mutexes guard     *)
(* some of these sequences: pipelineRecMu the load-modify-save of stop,    *)
(* start and the state marks, standbyMu the count of active jobs of a      *)
(* standby pipeline.  An update, a delete and the wake-up of a standby     *)
(* pipeline write the record without pipelineRecMu.                        *)
(*                                                                         *)
(* An operation spawns at most one job, which has its number.  What a job  *)
(* does in between is JobGate, DatumPool and Output.                       *)
(***************************************************************************)
EXTENDS Integers, Sequences, FiniteSets

CONSTANTS
  Plans,      \* the operations there are, started in this order, one plan of these
  MaxMarks,   \* how often a job marks the pipeline's state
  PlainInput, \* the input is one repository (and not a cross, union, join, group)
  NoRec,      \* the pipeline does not exist
  Free        \* a mutex nobody holds

VARIABLES
  plan,          \* the kinds of the operations
  standby,       \* the pipeline's Standby flag
  disk,          \* the pipeline record on disk
  head,          \* the input branch's head: commits are numbered
  standbyActive, \* the activation count
  recMu,         \* who holds pipelineRecMu
  standbyMu,     \* who holds standbyMu
  op,            \* each operation: its step, its copy of the record
  job            \* each job: its step, its input, its version, whether cancelled

vars == <<plan, standby, disk, head, standbyActive, recMu, standbyMu, op, job>>

Ops == DOMAIN plan
MaxOps == Len(plan)
NoOp == [step |-> "idle", rec |-> NoRec, waits |-> {}]
NotSpawned == [step |-> "none", head |-> 0, version |-> 0, cancelled |-> FALSE,
          mark |-> "none", marks |-> 0, rec |-> NoRec]

States == {"running", "standby", "paused", "crashed", "failure"}
Record == [state : States, stopped : BOOLEAN, stoppedAt : 0 .. MaxOps, version : 1 .. MaxOps + 1]
OpThreads == {<<"op", i>> : i \in Ops}
JobThreads == {<<"job", i>> : i \in Ops}

TypeOK ==
  /\ plan \in Plans /\ standby \in BOOLEAN
  /\ disk \in Record \cup {NoRec}
  /\ head \in 0 .. MaxOps /\ standbyActive \in 0 .. MaxOps
  /\ recMu \in OpThreads \cup JobThreads \cup {Free} /\ standbyMu \in JobThreads \cup {Free}
  /\ op \in [Ops -> [rec : Record \cup {NoRec}, waits : SUBSET Ops,
                     step : {"idle", "list", "load", "pair", "lock", "save", "cancel", "wait", "late",
                             "chain", "activate", "launch", "park", "parkSave", "remove", "unlock",
                             "done"}]]
  /\ job \in [Ops -> [step : {"none", "record", "running", "mark", "settle", "settleRec",
                              "settleSave", "unregister", "gone"},
                      head : 0 .. MaxOps, version : 0 .. MaxOps + 1, cancelled : BOOLEAN,
                      mark : {"none", "crashed", "running", "failure"}, marks : 0 .. MaxMarks,
                      rec : Record \cup {NoRec}]]

Init ==
  /\ plan \in Plans /\ standby \in BOOLEAN
  /\ disk = [state |-> IF standby THEN "standby" ELSE "running", stopped |-> FALSE,
             stoppedAt |-> 0, version |-> 1]
  /\ head = 0 /\ standbyActive = 0
  /\ recMu = Free /\ standbyMu = Free
  /\ op = [i \in Ops |-> NoOp]
  /\ job = [i \in Ops |-> NotSpawned]

----------------------------------------------------------------------------
At(i, kind, step) == plan[i] = kind /\ op[i].step = step
To(i, step) == op' = [op EXCEPT ![i].step = step]
ToWith(i, step, rec) == op' = [op EXCEPT ![i].step = step, ![i].rec = rec]

(* The jobs in the registry of running jobs, and those whose record says   *)
(* queued or running.                                                      *)
Registered(i) == job[i].step \in {"running", "mark", "settle", "settleRec", "settleSave", "unregister"}
Live(i) == job[i].step \in {"record", "running", "mark"}

(* Operations start in the order of their numbers.                         *)
Begin(i, step) ==
  /\ op[i] = NoOp
  /\ \A k \in Ops : k < i => op[k] # NoOp
  /\ To(i, step)
  /\ UNCHANGED <<plan, standby, disk, standbyActive, recMu, standbyMu, job>>

(* An input commit is finished; its trigger is still to come.              *)
Commit(i) == plan[i] = "commit" /\ Begin(i, "list") /\ head' = head + 1
Request(i) ==
  /\ plan[i] # "commit" /\ head' = head
  /\ Begin(i, IF plan[i] \in {"stop", "start"} THEN "lock" ELSE "load")

----------------------------------------------------------------------------
(* triggerForCommit: the pipelines are listed, failed and crashed ones are *)
(* passed over; the record is loaded; a stopped pipeline ignores commits;  *)
(* a pairing that a live job has already gets no second job.               *)
TriggerList(i) ==
  /\ At(i, "commit", "list")
  /\ To(i, IF disk # NoRec /\ disk.state \notin {"failure", "crashed"} THEN "load" ELSE "done")
  /\ UNCHANGED <<plan, standby, disk, head, standbyActive, recMu, standbyMu, job>>

TriggerLoad(i) ==
  /\ At(i, "commit", "load")
  /\ IF disk # NoRec /\ ~disk.stopped THEN ToWith(i, "pair", disk) ELSE To(i, "done")
  /\ UNCHANGED <<plan, standby, disk, head, standbyActive, recMu, standbyMu, job>>

Spawned(i, step) ==
  job' = [job EXCEPT ![i] = [NotSpawned EXCEPT !.step = step, !.head = head, !.version = op[i].rec.version]]

TriggerPair(i) ==
  /\ At(i, "commit", "pair")
  /\ IF \E k \in Ops : Live(k) /\ job[k].head = head
       THEN To(i, "done") /\ job' = job
       ELSE To(i, "activate") /\ Spawned(i, "record")
  /\ UNCHANGED <<plan, standby, disk, head, standbyActive, recMu, standbyMu>>

(* runPipeline: by hand, whatever the state of the pipeline.               *)
RunLoad(i) ==
  /\ At(i, "run", "load")
  /\ IF disk # NoRec /\ head > 0
       THEN ToWith(i, "activate", disk)
            /\ job' = [job EXCEPT ![i] = [NotSpawned EXCEPT !.step = "record", !.head = head,
                                                       !.version = disk.version]]
       ELSE To(i, "done") /\ job' = job
  /\ UNCHANGED <<plan, standby, disk, head, standbyActive, recMu, standbyMu>>

(* spawnJob: a standby pipeline is activated, by saving the record the     *)
(* caller had loaded ...                                                   *)
Activate(i) ==
  /\ op[i].step = "activate"
  /\ To(i, "launch")
  /\ IF standby
       THEN /\ standbyMu = Free
            /\ standbyActive' = standbyActive + 1
            /\ disk' = IF op[i].rec.state = "running" THEN disk
                       ELSE [op[i].rec EXCEPT !.state = "running"]
       ELSE UNCHANGED <<standbyActive, disk>>
  /\ UNCHANGED <<plan, standby, head, recMu, standbyMu, job>>

(* ... then the job is registered and its goroutine started.               *)
Launch(i) ==
  /\ op[i].step = "launch"
  /\ To(i, CASE plan[i] = "start" -> "unlock" [] plan[i] = "update" -> "park" [] OTHER -> "done")
  /\ IF job[i].step = "none" THEN Spawned(i, "running")
                             ELSE job' = [job EXCEPT ![i].step = "running"]
  /\ UNCHANGED <<plan, standby, disk, head, standbyActive, recMu, standbyMu>>

----------------------------------------------------------------------------
(* cancelPipelineJobs: the registered jobs are cancelled, and waited for   *)
(* until they have left the registry or the settle budget is used up.      *)
CancelJobs(i, rec) ==
  /\ op' = [op EXCEPT ![i].step = "wait", ![i].rec = rec, ![i].waits = {k \in Ops : Registered(k)}]
  /\ job' = [k \in Ops |-> IF Registered(k) THEN [job[k] EXCEPT !.cancelled = TRUE] ELSE job[k]]

AfterWait(i) == CASE plan[i] = "stop" -> "save" [] plan[i] = "update" -> "save"
                  [] plan[i] = "delete" -> "late"

(* Mutant of Waited: the wait has no budget.                               *)
WaitedForAll(i) == op[i].step = "wait" /\ \A k \in op[i].waits : ~Registered(k)

(* The wait ends when every cancelled job has left, or when the budget is  *)
(* used up, which is possible at any time.                                 *)
Waited(i) == op[i].step = "wait"

WaitEnds(i) ==
  /\ Waited(i)
  /\ op' = [op EXCEPT ![i].step = AfterWait(i), ![i].waits = {}]
  /\ UNCHANGED <<plan, standby, disk, head, standbyActive, recMu, standbyMu, job>>

----------------------------------------------------------------------------
(* stopPipeline: all of it under pipelineRecMu, the wait for the jobs too. *)
StopLock(i) ==
  /\ At(i, "stop", "lock") /\ recMu = Free
  /\ IF disk = NoRec THEN To(i, "done") /\ UNCHANGED <<recMu, job>>
     ELSE /\ recMu' = <<"op", i>>
          /\ CancelJobs(i, [disk EXCEPT !.stopped = TRUE, !.state = "paused",
                              !.stoppedAt = IF PlainInput /\ head > 0 THEN head ELSE @])
  /\ UNCHANGED <<plan, standby, disk, head, standbyActive, standbyMu>>

StopSave(i) ==
  /\ At(i, "stop", "save")
  /\ disk' = op[i].rec /\ recMu' = Free
  /\ To(i, "done")
  /\ UNCHANGED <<plan, standby, head, standbyActive, standbyMu, job>>

(* startPipeline: the record is saved first; then the backlog, the commits *)
(* after the watermark, gets one job unless the head had one already.      *)
StartLock(i) ==
  /\ At(i, "start", "lock") /\ recMu = Free
  /\ IF disk = NoRec \/ ~disk.stopped THEN To(i, "done") /\ recMu' = recMu
     ELSE recMu' = <<"op", i>> /\ ToWith(i, "save", disk)
  /\ UNCHANGED <<plan, standby, disk, head, standbyActive, standbyMu, job>>

StartSave(i) ==
  /\ At(i, "start", "save")
  /\ disk' = [op[i].rec EXCEPT !.stopped = FALSE, !.state = "running", !.stoppedAt = 0]
  /\ op' = [op EXCEPT ![i].step = "chain",
                      ![i].rec = [@ EXCEPT !.stopped = FALSE, !.state = "running"]]
  /\ UNCHANGED <<plan, standby, head, standbyActive, recMu, standbyMu, job>>

hasJob(h) == \E k \in Ops : job[k].step # "none" /\ job[k].head = h
StartChain(i) ==
  /\ At(i, "start", "chain")
  /\ To(i, IF PlainInput /\ head > op[i].rec.stoppedAt /\ ~hasJob(head) THEN "activate" ELSE "unlock")
  /\ UNCHANGED <<plan, standby, disk, head, standbyActive, recMu, standbyMu, job>>

Unlock(i) ==
  /\ op[i].step = "unlock"
  /\ recMu' = Free
  /\ To(i, "done")
  /\ UNCHANGED <<plan, standby, disk, head, standbyActive, standbyMu, job>>

----------------------------------------------------------------------------
(* createPipeline and updatePipeline: an update of a pipeline that exists  *)
(* cancels its jobs first; the new record keeps Stopped of the one loaded. *)
UpdateLoad(i) ==
  /\ At(i, "update", "load")
  /\ IF disk = NoRec
       THEN ToWith(i, "save", NoRec) /\ job' = job
       ELSE CancelJobs(i, disk)
  /\ UNCHANGED <<plan, standby, disk, head, standbyActive, recMu, standbyMu>>

applyUpdate(old) ==
  IF old = NoRec THEN [state |-> "running", stopped |-> FALSE, stoppedAt |-> 0, version |-> 1]
  ELSE [old EXCEPT !.state = IF old.stopped THEN "paused" ELSE "running", !.version = @ + 1]

(* The new version is saved, and the head processed under it unless the    *)
(* pipeline is stopped (scheduleHeadJob).                                  *)
UpdateSave(i) ==
  LET rec == applyUpdate(op[i].rec) IN
  /\ At(i, "update", "save")
  /\ disk' = rec
  /\ ToWith(i, IF ~rec.stopped /\ head > 0 THEN "activate" ELSE "park", rec)
  /\ UNCHANGED <<plan, standby, head, standbyActive, recMu, standbyMu, job>>

(* standbyIdle: without a finished head the pipeline is parked.            *)
Park(i) ==
  /\ op[i].step = "park"
  /\ To(i, IF standby /\ ~op[i].rec.stopped /\ head = 0 THEN "parkSave" ELSE "done")
  /\ UNCHANGED <<plan, standby, disk, head, standbyActive, recMu, standbyMu, job>>

ParkSave(i) ==
  /\ op[i].step = "parkSave"
  /\ disk' = [op[i].rec EXCEPT !.state = "standby"]
  /\ To(i, "done")
  /\ UNCHANGED <<plan, standby, head, standbyActive, recMu, standbyMu, job>>

----------------------------------------------------------------------------
(* deletePipeline: cancel, wait, wait again for late jobs, remove the job  *)
(* records and the pipeline's.                                             *)
DeleteLoad(i) ==
  /\ At(i, "delete", "load")
  /\ IF disk = NoRec THEN To(i, "done") /\ job' = job ELSE CancelJobs(i, disk)
  /\ UNCHANGED <<plan, standby, disk, head, standbyActive, recMu, standbyMu>>

(* The second wait is over when the registry is empty, or after 30 s.      *)
DeleteLate(i) ==
  /\ At(i, "delete", "late")
  /\ To(i, "remove")
  /\ UNCHANGED <<plan, standby, disk, head, standbyActive, recMu, standbyMu, job>>

DeleteRemove(i) ==
  /\ At(i, "delete", "remove")
  /\ disk' = NoRec
  /\ job' = [k \in Ops |-> IF job[k].step = "gone" THEN NotSpawned ELSE job[k]]
  /\ To(i, "done")
  /\ UNCHANGED <<plan, standby, head, standbyActive, recMu, standbyMu>>

----------------------------------------------------------------------------
(* A job while it runs: it may mark the pipeline crashed, failed, or       *)
(* running again.  Load and save are under pipelineRecMu.                  *)
StepJob(j, step) == job' = [job EXCEPT ![j].step = step]
MarkApplies(rec, mark) ==
  /\ rec # NoRec
  /\ IF mark = "running" THEN rec.state = "crashed" ELSE ~rec.stopped

(* Mutant of MarkLoad: the record is read without the mutex.               *)
MarkLoadUnlocked(j, mark) ==
  /\ job[j].step = "running" /\ job[j].marks < MaxMarks /\ recMu \notin JobThreads
  /\ MarkApplies(disk, mark)
  /\ job' = [job EXCEPT ![j].step = "mark", ![j].mark = mark, ![j].marks = @ + 1, ![j].rec = disk]
  /\ recMu' = recMu
  /\ UNCHANGED <<plan, standby, disk, head, standbyActive, standbyMu, op>>

MarkLoad(j, mark) ==
  /\ job[j].step = "running" /\ job[j].marks < MaxMarks /\ recMu = Free
  /\ MarkApplies(disk, mark)
  /\ recMu' = <<"job", j>>
  /\ job' = [job EXCEPT ![j].step = "mark", ![j].mark = mark, ![j].marks = @ + 1, ![j].rec = disk]
  /\ UNCHANGED <<plan, standby, disk, head, standbyActive, standbyMu, op>>

MarkSave(j) ==
  /\ job[j].step = "mark"
  /\ disk' = [job[j].rec EXCEPT !.state = job[j].mark]
  /\ recMu' = IF recMu = <<"job", j>> THEN Free ELSE recMu
  /\ job' = [job EXCEPT ![j].step = "running", ![j].mark = "none", ![j].rec = NoRec]
  /\ UNCHANGED <<plan, standby, head, standbyActive, standbyMu, op>>

(* Mutant of JobEnds: a cancelled job returns before the deferred calls    *)
(* are registered.                                                         *)
JobEndsEarly(j) ==
  /\ job[j].step = "running"
  /\ StepJob(j, IF job[j].cancelled THEN "unregister" ELSE "settle")
  /\ UNCHANGED <<plan, standby, disk, head, standbyActive, recMu, standbyMu, op>>

(* It ends, or is cancelled and ends: its record is terminal, its slot of  *)
(* the gate passed on, and the deferred calls follow.                      *)
JobEnds(j) ==
  /\ job[j].step = "running"
  /\ StepJob(j, "settle")
  /\ UNCHANGED <<plan, standby, disk, head, standbyActive, recMu, standbyMu, op>>

(* standbySettle, under standbyMu: the count goes down, not below zero ... *)
SettleCount(j) ==
  LET left == IF standbyActive = 0 THEN 0 ELSE standbyActive - 1 IN
  /\ job[j].step = "settle" /\ standbyMu = Free
  /\ standbyActive' = left
  /\ IF left > 0 THEN StepJob(j, "unregister") /\ standbyMu' = standbyMu
                 ELSE StepJob(j, "settleRec") /\ standbyMu' = <<"job", j>>
  /\ UNCHANGED <<plan, standby, disk, head, recMu, op>>

(* ... and after the last job the record goes back to standby, under       *)
(* pipelineRecMu as well.                                                  *)
SettleLoad(j) ==
  /\ job[j].step = "settleRec" /\ recMu = Free
  /\ recMu' = <<"job", j>>
  /\ job' = [job EXCEPT ![j].step = "settleSave", ![j].rec = disk]
  /\ UNCHANGED <<plan, standby, disk, head, standbyActive, standbyMu, op>>

SettleSave(j) ==
  LET rec == job[j].rec IN
  /\ job[j].step = "settleSave"
  /\ disk' = IF standby /\ rec # NoRec /\ ~rec.stopped /\ rec.state = "running"
               THEN [rec EXCEPT !.state = "standby"] ELSE disk
  /\ recMu' = Free /\ standbyMu' = Free
  /\ job' = [job EXCEPT ![j].step = "unregister", ![j].rec = NoRec]
  /\ UNCHANGED <<plan, standby, head, standbyActive, op>>

Unregister(j) ==
  /\ job[j].step = "unregister"
  /\ StepJob(j, "gone")
  /\ UNCHANGED <<plan, standby, disk, head, standbyActive, recMu, standbyMu, op>>

----------------------------------------------------------------------------
OpStep(i) ==
  \/ TriggerList(i) \/ TriggerLoad(i) \/ TriggerPair(i) \/ RunLoad(i)
  \/ Activate(i) \/ Launch(i) \/ WaitEnds(i)
  \/ StopLock(i) \/ StopSave(i)
  \/ StartLock(i) \/ StartSave(i) \/ StartChain(i) \/ Unlock(i)
  \/ UpdateLoad(i) \/ UpdateSave(i) \/ Park(i) \/ ParkSave(i)
  \/ DeleteLoad(i) \/ DeleteLate(i) \/ DeleteRemove(i)

SettleStep(j) == MarkSave(j) \/ SettleCount(j) \/ SettleLoad(j) \/ SettleSave(j) \/ Unregister(j)

Next ==
  \E i \in Ops :
    \/ Commit(i) \/ Request(i)
    \/ OpStep(i)
    \/ \E mark \in {"crashed", "running", "failure"} : MarkLoad(i, mark)
    \/ JobEnds(i) \/ SettleStep(i)

Spec == Init /\ [][Next]_vars

(* The goroutines run and the budgets run out; a mutex is taken only so    *)
(* often, so who waits for one gets it.  Jobs need not end by themselves.  *)
AllOps == UNION {DOMAIN p : p \in Plans}
Fairness == \A i \in AllOps : /\ WF_vars(i \in Ops /\ OpStep(i))
                              /\ WF_vars(i \in Ops /\ SettleStep(i))
FairSpec == Spec /\ Fairness

----------------------------------------------------------------------------
Counted(i) == \/ op[i].step = "launch"
              \/ job[i].step \in {"running", "mark", "settle"}

(* The activation count is the number of jobs that were activated and have *)
(* not settled, whatever stops, updates, deletes and ends interleave: so   *)
(* the pipeline returns to standby after its last job and not before       *)
(* (pipeline.go: "a settling predecessor can never observe quiescence      *)
(* while a new job is on its way").                                        *)
StandbyCountExact == standby => standbyActive = Cardinality({i \in Ops : Counted(i)})

(* A stop lasts until a start: no other operation and no job clears the    *)
(* stopped flag, if the pipeline is not a standby one and not updated or   *)
(* deleted at the same time (pipeline.go: "The stopped condition is        *)
(* durable", "an unserialized sequence loses updates").                    *)
StopIsDurable ==
  [][/\ ~standby /\ disk # NoRec /\ disk.stopped
     /\ \A i \in Ops : plan[i] \notin {"update", "delete"}
     => disk'.stopped \/ \E i \in Ops : StartSave(i)]_vars

(* Every operation on a pipeline that is not a standby one returns, though *)
(* a stop waits, with pipelineRecMu, for jobs that need pipelineRecMu to   *)
(* settle (jobs.go: the budget of waitJobsSettled).                        *)
Asked(i) == ~standby /\ i \in Ops /\ op[i] # NoOp
Answered(i) == i \in Ops => op[i].step = "done"
OperationsReturn == \A i \in AllOps : []<>(Asked(i) => Answered(i))

(* Nobody holds one of the mutexes for ever while waiting for the other    *)
(* (pipeline.go: "no path takes pipelineRecMu before standbyMu"). It       *)
(* fails: startPipeline takes pipelineRecMu and then, to activate a        *)
(* standby pipeline, standbyMu, while a job that settles has standbyMu and *)
(* waits for pipelineRecMu.                                                *)
NoLockCycle ==
  ~ \E i \in Ops, j \in Ops : /\ recMu = <<"op", i>> /\ standby /\ op[i].step = "activate"
                              /\ standbyMu = <<"job", j>> /\ job[j].step = "settleRec"

(* The standby label means that no job is active (pipeline.go: a race      *)
(* "would otherwise leave a running job under a standby label"). It fails: *)
(* a trigger that read the record while it said running does not save it   *)
(* when it activates the pipeline, though a job that settles has put it on *)
(* standby meanwhile.                                                      *)
StandbyMeansQuiet == disk # NoRec /\ disk.state = "standby" => standbyActive = 0

(* A stop makes the pipeline quiet: nothing is left that was not cancelled *)
(* (pipeline.go: "the paused pipeline holds no containers"). It fails: a   *)
(* trigger that read the record before the stop makes its job after the    *)
(* stop has cancelled the others.                                          *)
StoppedHoldsNoJobs ==
  disk # NoRec /\ disk.stopped =>
    \A j \in Ops : plan[j] # "run" /\ job[j].step = "running" => job[j].cancelled

(* Only the update in progress may have jobs of another version beside     *)
(* those of the newest (pipeline.go: "no old-version work may race the new *)
(* head job"). It fails in the same way: a job of the old version is made  *)
(* after the update has cancelled the others.                              *)
OldVersionNeverRaces ==
  \A j, k \in Ops :
    job[j].step = "running" /\ job[k].step = "running" /\ job[k].version > job[j].version => job[j].cancelled

(* When everything is at rest and the pipeline runs, the head has had a    *)
(* job (pipeline.go: the backlog is "consumed together as one job"). It    *)
(* fails: a commit that finished before the stop and is triggered after it *)
(* is neither taken then nor by the start.                                 *)
BacklogConsumed ==
  /\ \A i \in Ops : op[i].step \in {"idle", "done"} /\ job[i].step \in {"none", "gone"}
  /\ disk # NoRec /\ ~disk.stopped /\ disk.state \in {"running", "standby"} /\ head > 0
  => hasJob(head)
=============================================================================
