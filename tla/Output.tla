------------------------------- MODULE Output -------------------------------
(***************************************************************************)
(* How the jobs of ONE pipeline write their output commits to the store    *)
(* (execute.go: the part of runJob that opens and closes the output        *)
(* commit; jobs.go: finishOutput, recordProvenance, settlePanicJob).       *)
(*                                                                         *)
(* The module composes the store with the jobs.  finishOutput makes        *)
(* several calls of the store, each under the store's own lock, and holds  *)
(* the pipeline's output lock around them.  The pipeline's gate lets one   *)
(* job at a time through (see JobGate); a job that panics frees the gate   *)
(* before its output commit is closed, by a goroutine that waits for the   *)
(* output lock for two seconds.  Meanwhile a client may delete the output  *)
(* repository or finish commits of its own on the output branch.           *)
(*                                                                         *)
(* What the transform leaves in the output directory is a view.            *)
(***************************************************************************)
EXTENDS Store

CONSTANTS
  Jobs, NoJob,
  OutRepo, OutBranch,  \* the pipeline's name and its output branch
  OutDirs,             \* what a job may leave in its output directory
  MayAuthor,           \* clients commit to the output branch too
  MayPanic             \* a job's goroutine may panic

ASSUME OutputAssumption ==
  /\ NoJob \notin Jobs
  /\ OutRepo \in Repos /\ OutBranch \in Branches
  /\ OutDirs \subseteq [Paths -> Seq(Contents)]
  /\ MayAuthor \in BOOLEAN /\ MayPanic \in BOOLEAN

VARIABLES
  job,     \* each job: its step and the locals of runJob and finishOutput
  lock,    \* outputMu[pipeline]: the job whose goroutine holds it
  deleted  \* history: a client deleted the output repository

outVars == <<vars, job, lock, deleted>>

Steps == {"queued", "working", "locking", "locked", "reparenting", "reparented",
          "uploaded", "tombstoned", "finished", "stamping", "done",
          "panicked", "expired", "holding"}

(* commit, parent: outCommit and the parent it was started on; dir, empty: *)
(* what finishOutput is called with; head: the head it read; stamp: the    *)
(* record recordProvenance loaded.                                         *)
NewJob == [step |-> "queued", commit |-> NoCommit, parent |-> NoCommit,
           dir |-> NoFiles, empty |-> FALSE, head |-> NoCommit, stamp |-> NoRecord]

OutTypeOK ==
  /\ TypeOK
  /\ job \in [Jobs -> [step : Steps, commit : Commits \cup {NoCommit},
                       parent : Commits \cup {NoCommit}, dir : OutDirs \cup {NoFiles},
                       empty : BOOLEAN, head : Commits \cup {NoCommit}, stamp : Records]]
  /\ lock \in Jobs \cup {NoJob}
  /\ deleted \in BOOLEAN

(* The output repository is created with the pipeline.                     *)
OutInit ==
  /\ Empty({OutRepo})
  /\ job = [j \in Jobs |-> NewJob]
  /\ lock = NoJob
  /\ deleted = FALSE

Running(j) == job[j].step \notin {"queued", "done", "panicked", "expired", "holding"}
At(j, step) == job[j].step = step
Goto(j, step) == job' = [job EXCEPT ![j].step = step]
Commit(j) == job[j].commit

(* A call of the store that leaves everything alone but commit records.    *)
OnlyRecords == UNCHANGED <<repos, heads, default, retarget, written>>
AddOps(c, ops) == rec' = [rec EXCEPT ![c].ops = @ \o ops]

----------------------------------------------------------------------------
(* The job.                                                                *)

(* Past the gate, runJob starts the output commit on the output branch.    *)
OpenOutput(j, c) ==
  /\ At(j, "queued")
  /\ \A i \in Jobs : ~Running(i)
  /\ StartCommit(OutRepo, OutBranch, c)
  /\ job' = [job EXCEPT ![j].step = "working", ![j].commit = c,
                        ![j].parent = heads[OutRepo][OutBranch]]
  /\ UNCHANGED <<lock, deleted>>

(* The work is done: finishOutput is called with the output directory, or  *)
(* with the empty flag when the job failed or was killed.                  *)
Work(j, dir, empty) ==
  /\ At(j, "working")
  /\ job' = [job EXCEPT ![j].step = "locking", ![j].dir = dir, ![j].empty = empty]
  /\ UNCHANGED <<vars, lock, deleted>>

(* Mutant of LockOutput: the lock is kept by commit.                       *)
LockCommit(j) ==
  /\ At(j, "locking") /\ lock = NoJob
  /\ lock' = Commit(j)
  /\ Goto(j, "locked")
  /\ UNCHANGED <<vars, deleted>>

(* finishOutput takes the output lock ...                                  *)
LockOutput(j) ==
  /\ At(j, "locking") /\ lock = NoJob
  /\ lock' = j
  /\ Goto(j, "locked")
  /\ UNCHANGED <<vars, deleted>>

(* ... reads the branch's head ...                                         *)
ReadHead(j) ==
  LET head == heads[OutRepo][OutBranch] IN
  /\ At(j, "locked")
  /\ job' = [job EXCEPT ![j].head = head,
                        ![j].step = IF head \in {NoCommit, job[j].parent}
                                      THEN "reparented" ELSE "reparenting"]
  /\ UNCHANGED <<vars, lock, deleted>>

(* finishOutput returns: the deferred unlock.                              *)
Return(j, step) == lock' = NoJob /\ Goto(j, step)

(* ... reparents the commit to it; a commit that is missing is an error.   *)
Reparent(j) ==
  /\ At(j, "reparenting")
  /\ \/ /\ Open(Commit(j))
        /\ rec' = [rec EXCEPT ![Commit(j)].parent = job[j].head]
        /\ Goto(j, "reparented") /\ lock' = lock
     \/ ~Open(Commit(j)) /\ Return(j, "done") /\ rec' = rec
  /\ OnlyRecords /\ UNCHANGED deleted

(* The files of the output directory, each replacing its path.             *)
Uploads(dir) ==
  LET files == SetToSeq(Files(dir))
  IN  [i \in DOMAIN files |-> Op("overwrite", files[i], dir[files[i]])]

(* Mutant of AddFilesFromDir: the error path does not unlock.              *)
AddFilesKeepsLock(j) ==
  /\ At(j, "reparented") /\ ~job[j].empty
  /\ \/ /\ Open(Commit(j))
        /\ AddOps(Commit(j), Uploads(job[j].dir))
        /\ Goto(j, "uploaded")
     \/ ~Open(Commit(j)) /\ Goto(j, "done") /\ rec' = rec
  /\ OnlyRecords /\ UNCHANGED <<lock, deleted>>

(* ... uploads the output directory ...                                    *)
AddFilesFromDir(j) ==
  /\ At(j, "reparented") /\ ~job[j].empty
  /\ \/ /\ Open(Commit(j))
        /\ AddOps(Commit(j), Uploads(job[j].dir))
        /\ Goto(j, "uploaded") /\ lock' = lock
     \/ ~Open(Commit(j)) /\ Return(j, "done") /\ rec' = rec
  /\ OnlyRecords /\ UNCHANGED deleted

(* ... or fails to, and closes the commit empty, if that is possible ...   *)
CloseEmpty(c) ==
  \/ FinishCommit(c, TRUE)
  \/ (~Open(c) \/ pathConflict(ResolveView(c))) /\ UNCHANGED vars

UploadFails(j) ==
  /\ At(j, "reparented") /\ ~job[j].empty
  /\ CloseEmpty(Commit(j))
  /\ Return(j, "done")
  /\ UNCHANGED deleted

(* The paths of the parent's view that the output directory does not have. *)
Removed(c, dir) ==
  LET parent == rec[c].parent
      gone == IF parent \in Commits /\ Present(parent)
                THEN SetToSeq(Files(ResolveView(parent)) \ Files(dir)) ELSE <<>>
  IN  [i \in DOMAIN gone |-> Op("delete", gone[i], <<>>)]

(* Mutant of TombstoneRemoved: the parent is the one the job started on.   *)
TombstoneStale(j) ==
  LET parent == job[j].parent
      gone == IF parent \in Commits /\ Present(parent)
                THEN SetToSeq(Files(ResolveView(parent)) \ Files(job[j].dir)) ELSE <<>>
  IN  /\ At(j, "uploaded")
      /\ \/ /\ Present(Commit(j))
            /\ AddOps(Commit(j), [i \in DOMAIN gone |-> Op("delete", gone[i], <<>>)])
         \/ ~Present(Commit(j)) /\ rec' = rec
      /\ Goto(j, "tombstoned")
      /\ OnlyRecords /\ UNCHANGED <<lock, deleted>>

(* ... deletes what the parent had and the output does not have ...        *)
TombstoneRemoved(j) ==
  /\ At(j, "uploaded")
  /\ \/ Present(Commit(j)) /\ AddOps(Commit(j), Removed(Commit(j), job[j].dir))
     \/ ~Present(Commit(j)) /\ rec' = rec
  /\ Goto(j, "tombstoned")
  /\ OnlyRecords /\ UNCHANGED <<lock, deleted>>

(* ... and finishes the commit.                                            *)
Finish(j) ==
  /\ At(j, "tombstoned") \/ (At(j, "reparented") /\ job[j].empty)
  /\ \/ FinishCommit(Commit(j), job[j].empty) /\ Return(j, "finished")
     \/ /\ ~Open(Commit(j)) \/ pathConflict(ResolveView(Commit(j)))
        /\ Return(j, "done") /\ UNCHANGED vars
  /\ UNCHANGED deleted

(* recordProvenance, without any lock: load the finished record ...        *)
LoadStamp(j) ==
  /\ At(j, "finished")
  /\ job' = [job EXCEPT ![j].stamp = rec[Commit(j)],
                        ![j].step = IF Present(Commit(j)) THEN "stamping" ELSE "done"]
  /\ UNCHANGED <<vars, lock, deleted>>

(* ... and save it, making the directories that saving needs.              *)
SaveStamp(j) ==
  /\ At(j, "stamping")
  /\ rec' = [rec EXCEPT ![Commit(j)] = job[j].stamp]
  /\ repos' = repos \cup {OutRepo}
  /\ Goto(j, "done")
  /\ UNCHANGED <<heads, default, retarget, written, lock, deleted>>

----------------------------------------------------------------------------
(* A panic.                                                                *)

(* The deferred calls give back the output lock, if it is held, and the    *)
(* gate.                                                                   *)
Panic(j) ==
  /\ MayPanic /\ Running(j)
  /\ lock' = IF lock = j THEN NoJob ELSE lock
  /\ Goto(j, "panicked")
  /\ UNCHANGED <<vars, deleted>>

(* settlePanicJob: nothing to close is recorded, or the job was terminal.  *)
NothingToClose(j) ==
  /\ At(j, "panicked")
  /\ Goto(j, "done")
  /\ UNCHANGED <<vars, lock, deleted>>

(* Its goroutine gets the lock, closes the commit empty and unlocks.       *)
PanicClose(j) ==
  /\ At(j, "panicked") /\ lock = NoJob
  /\ CloseEmpty(Commit(j))
  /\ Goto(j, "done")
  /\ UNCHANGED <<lock, deleted>>

(* Two seconds pass and the lock is still taken: the goroutine returns ... *)
PanicTimeout(j) ==
  /\ At(j, "panicked") /\ lock # NoJob
  /\ Goto(j, "expired")
  /\ UNCHANGED <<vars, lock, deleted>>

(* ... but the one it started to wait for the lock goes on, and gets it.   *)
LateLock(j) ==
  /\ At(j, "expired") /\ lock = NoJob
  /\ lock' = j
  /\ Goto(j, "holding")
  /\ UNCHANGED <<vars, deleted>>

----------------------------------------------------------------------------
(* Clients.                                                                *)

DeleteOutput ==
  /\ DeleteRepo(OutRepo)
  /\ deleted' = TRUE
  /\ UNCHANGED <<job, lock>>

(* A client's commit on the output branch, while the repository is there.  *)
Author(c) ==
  /\ MayAuthor /\ OutRepo \in repos
  /\ \A j \in Jobs : Commit(j) # c
  /\ \/ StartCommit(OutRepo, OutBranch, c)
     \/ \E p \in Paths, x \in Contents : PutFile(c, p, x)
     \/ FinishCommit(c, FALSE)
  /\ UNCHANGED <<job, lock, deleted>>

----------------------------------------------------------------------------
JobNext(j) ==
  \/ \E c \in Commits : OpenOutput(j, c)
  \/ \E dir \in OutDirs, empty \in BOOLEAN : Work(j, dir, empty)
  \/ LockOutput(j) \/ ReadHead(j) \/ Reparent(j)
  \/ AddFilesFromDir(j) \/ UploadFails(j) \/ TombstoneRemoved(j) \/ Finish(j)
  \/ LoadStamp(j) \/ SaveStamp(j)
  \/ NothingToClose(j) \/ PanicClose(j) \/ PanicTimeout(j) \/ LateLock(j)

OutNext ==
  \/ \E j \in Jobs : JobNext(j) \/ Panic(j)
  \/ DeleteOutput
  \/ \E c \in Commits : Author(c)

OutSpec == OutInit /\ [][OutNext]_outVars

(* The goroutines are scheduled while they can take a step, and the        *)
(* transform of a job ends.  Panics and clients need not come.             *)
OutFairness == \A j \in Jobs : WF_outVars(JobNext(j))
OutFairSpec == OutSpec /\ OutFairness

----------------------------------------------------------------------------
(* Correctness.                                                            *)

(* The output revision is exactly what the job produced: added files are   *)
(* there, replaced ones carry the new content and removed ones are absent  *)
(* (the TombstoneRemoved comment), whatever head the commit was reparented *)
(* to meanwhile and whatever was committed, deleted or left by a panic.    *)
OutputIsWhatTheJobWrote ==
  \A j \in Jobs : LET c == Commit(j) IN
    c # NoCommit /\ Finished(c) /\ ~rec[c].empty => ResolveView(c) = job[j].dir

(* ChainFromHead: a commit and its ancestors, through empty commits too.   *)
Ancestry(c) ==
  LET up[n \in 0 .. Cardinality(Commits)] ==
        IF n = 0 THEN {c} \cap Commits
        ELSE LET parents == {rec[d].parent : d \in {e \in up[n - 1] : Present(e)}}
             IN  up[n - 1] \cup (parents \cap Commits)
  IN  up[Cardinality(Commits)]

(* "The branch stays linear and no finished commit is orphaned off the     *)
(* chain" (the Reparent comment): every finished commit of the branch is   *)
(* an ancestor of its head. It fails after a panic: the job's commit is    *)
(* closed without being reparented, and the next job's falls off the       *)
(* branch.                                                                 *)
OutputLinear ==
  \A c \in Commits :
    Finished(c) /\ rec[c].repo = OutRepo /\ rec[c].branch = OutBranch =>
      c \in Ancestry(heads[OutRepo][OutBranch])

(* "The job must not silently resurrect the repo" (the runJob comment): a  *)
(* deleted output repository stays deleted. It fails: the repository is    *)
(* looked for first and recreated by the commit.                           *)
NotResurrected == deleted => OutRepo \notin repos

(* A job that opened its output commit ends, so the slot passes on: the    *)
(* output lock always comes back, on every error path and after a panic    *)
(* ("bounded so a panic under the repo lock cannot wedge").                *)
JobsEnd == \A j \in Jobs : []<>~Running(j)
=============================================================================
