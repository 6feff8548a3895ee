------------------------------ MODULE JobGate ------------------------------
(***************************************************************************)
(* The jobs of ONE pipeline between their spawn and their settlement       *)
(* (jobs.go: runningJob, jobGate, cancelJob, deleteJob; execute.go: the    *)
(* first and the last steps of runJob).                                    *)
(*                                                                         *)
(* Every job runs in a goroutine of its own and must pass the pipeline's   *)
(* gate, a FIFO hand-off lock built from a linked list of channels.        *)
(* Cancel and delete requests arrive from API goroutines at any time.      *)
(* One action is one critical section or one atomic load/store, so the     *)
(* interleavings are those of the code.                                    *)
(*                                                                         *)
(* What a job does while it holds the slot is one step here (Settle): the  *)
(* module is about who may do it, when, and what becomes of its record.    *)
(***************************************************************************)
EXTENDS Naturals, Sequences, FiniteSets

CONSTANTS Jobs,     \* job ids of the pipeline, each spawned at most once
          Callers,  \* API goroutines, each serving one cancel or delete request
          NoJob     \* not a job

ASSUME JobsAssumption == NoJob \notin Jobs

VARIABLES
  pc,         \* where each job's goroutine is
  queue,      \* the gate's linked list of waiting jobs, head first
  held,       \* gate.held: the slot is taken
  handed,     \* jobs whose node channel release() has closed
  live,       \* d.running: jobs with a live handle
  cancelled,  \* rj.cancelled
  cancelCh,   \* jobs whose rj.cancelCh is closed
  started,    \* rj.started
  record,     \* the state in jobs/<id>/job.json, "none" when there is no file
  caller      \* each API goroutine: its step, its job and what it was asked

gateVars == <<queue, held, handed>>
handleVars == <<live, cancelled, cancelCh, started>>
vars == <<pc, gateVars, handleVars, record, caller>>

Terminal == {"success", "failure", "killed"}
RecordStates == {"none", "queued", "running"} \cup Terminal

JobSteps ==
  {"unborn", "recorded", "spawned", "entering", "waiting", "removing",
   "granted", "started", "passing", "won", "running", "settled", "released",
   "declined", "killing", "panicking", "panicReleased", "panicGone",
   "gone", "unstagedExit", "unstaged"}

CallerSteps ==
  {"idle", "found", "marked", "closed", "waitDone", "nowait", "removing",
   "done", "deleted", "failed"}

TypeOK ==
  /\ pc \in [Jobs -> JobSteps]
  /\ queue \in Seq(Jobs)
  /\ held \in BOOLEAN
  /\ handed \subseteq Jobs
  /\ live \subseteq Jobs
  /\ cancelled \subseteq Jobs
  /\ cancelCh \subseteq Jobs
  /\ started \subseteq Jobs
  /\ record \in [Jobs -> RecordStates]
  /\ caller \in [Callers -> [step : CallerSteps, job : Jobs \cup {NoJob},
                             delete : BOOLEAN]]

Init ==
  /\ pc = [j \in Jobs |-> "unborn"]
  /\ queue = <<>>
  /\ held = FALSE
  /\ handed = {}
  /\ live = {}
  /\ cancelled = {}
  /\ cancelCh = {}
  /\ started = {}
  /\ record = [j \in Jobs |-> "none"]
  /\ caller = [c \in Callers |-> [step |-> "idle", job |-> NoJob, delete |-> FALSE]]

----------------------------------------------------------------------------
(* Spawning.                                                               *)

Goto(j, step) == pc' = [pc EXCEPT ![j] = step]

(* triggerForCommit saves the queued record before it spawns the job.      *)
Create(j) ==
  /\ pc[j] = "unborn"
  /\ Goto(j, "recorded")
  /\ record' = [record EXCEPT ![j] = "queued"]
  /\ UNCHANGED <<gateVars, handleVars, caller>>

(* spawnJob registers the running handle, then starts the goroutine.       *)
registerRunning(j) ==
  /\ pc[j] = "recorded"
  /\ Goto(j, "spawned")
  /\ live' = live \cup {j}
  /\ UNCHANGED <<gateVars, cancelled, cancelCh, started, record, caller>>

(* runJob creates the job's directory and saves the record again.          *)
Stage(j) ==
  /\ pc[j] = "spawned"
  /\ Goto(j, "entering")
  /\ record' = [record EXCEPT ![j] = "queued"]
  /\ UNCHANGED <<gateVars, handleVars, caller>>

(* The directory cannot be created: runJob returns with the record as it is. *)
StageFails(j) ==
  /\ pc[j] = "spawned"
  /\ Goto(j, "unstagedExit")
  /\ UNCHANGED <<gateVars, handleVars, record, caller>>

----------------------------------------------------------------------------
(* The gate.                                                               *)

(* Mutant of enter: a gate nobody waits at is taken for a free one.        *)
enterByQueue(j) ==
  /\ pc[j] = "entering"
  /\ IF queue # <<>>
       THEN /\ queue' = Append(queue, j)
            /\ Goto(j, "waiting")
            /\ held' = held
       ELSE /\ queue' = <<>>
            /\ Goto(j, "granted")
            /\ held' = TRUE
  /\ UNCHANGED <<handed, handleVars, record, caller>>

(* jobGate.enter, under the gate's mutex: the node goes to the tail; on a  *)
(* free gate it is popped at once and the list is its (nil) successor.     *)
enter(j) ==
  /\ pc[j] = "entering"
  /\ IF held
       THEN /\ queue' = Append(queue, j)
            /\ Goto(j, "waiting")
            /\ held' = held
       ELSE /\ queue' = <<>>
            /\ Goto(j, "granted")
            /\ held' = TRUE
  /\ UNCHANGED <<handed, handleVars, record, caller>>

(* The select of enter: the node's channel is closed.                      *)
Wake(j) ==
  /\ pc[j] = "waiting"
  /\ j \in handed
  /\ Goto(j, "granted")
  /\ UNCHANGED <<gateVars, handleVars, record, caller>>

(* The select of enter: the cancel channel is closed.  When both channels  *)
(* are ready the choice is the scheduler's.                                *)
WakeCancelled(j) ==
  /\ pc[j] = "waiting"
  /\ j \in cancelCh
  /\ Goto(j, "removing")
  /\ UNCHANGED <<gateVars, handleVars, record, caller>>

(* Mutant of Unlink: the successors go with the node.                      *)
UnlinkTail(q, k) == SubSeq(q, 1, k - 1)

(* The list without its k-th node.                                         *)
Unlink(q, k) == [i \in 1 .. (Len(q) - 1) |-> IF i < k THEN q[i] ELSE q[i + 1]]

(* Mutant of remove: a node that is not queued has nothing to pass on.     *)
removeKeepsSlot(j) ==
  /\ pc[j] = "removing"
  /\ \/ \E k \in DOMAIN queue : queue[k] = j /\ queue' = Unlink(queue, k)
     \/ (\A k \in DOMAIN queue : queue[k] # j) /\ queue' = queue
  /\ Goto(j, "declined")
  /\ UNCHANGED <<held, handed, handleVars, record, caller>>

(* jobGate.remove: unlink a node that is still queued; one that is not was *)
(* popped by release and owns the slot, which it must pass on.             *)
remove(j) ==
  /\ pc[j] = "removing"
  /\ \/ \E k \in DOMAIN queue :
          /\ queue[k] = j
          /\ queue' = Unlink(queue, k)
          /\ Goto(j, "declined")
     \/ /\ \A k \in DOMAIN queue : queue[k] # j
        /\ queue' = queue
        /\ Goto(j, "passing")
  /\ UNCHANGED <<held, handed, handleVars, record, caller>>

(* Mutants of release: the slot is freed and nobody woken; the last waiter *)
(* gets it.                                                                *)
releaseOnly == held' = FALSE /\ UNCHANGED <<handed, queue>>

releaseLast ==
  IF queue # <<>>
    THEN /\ handed' = handed \cup {queue[Len(queue)]}
         /\ queue' = SubSeq(queue, 1, Len(queue) - 1)
         /\ held' = held
    ELSE /\ held' = FALSE
         /\ UNCHANGED <<handed, queue>>

(* jobGate.release, under the gate's mutex: pop the head and close its     *)
(* channel, the slot staying taken; or free the slot.                      *)
release ==
  IF queue # <<>>
    THEN /\ handed' = handed \cup {Head(queue)}
         /\ queue' = Tail(queue)
         /\ held' = held
    ELSE /\ held' = FALSE
         /\ UNCHANGED <<handed, queue>>

(* rj.started.Store(true)                                                  *)
StoreStarted(j) ==
  /\ pc[j] = "granted"
  /\ Goto(j, "started")
  /\ started' = started \cup {j}
  /\ UNCHANGED <<gateVars, live, cancelled, cancelCh, record, caller>>

(* Mutant of LoadCancelled: no second look after the hand-off.             *)
LoadNothing(j) ==
  /\ pc[j] = "started"
  /\ Goto(j, "won")
  /\ UNCHANGED <<gateVars, handleVars, record, caller>>

(* rj.cancelled.Load(): a cancel that raced the hand-off declines the slot. *)
LoadCancelled(j) ==
  /\ pc[j] = "started"
  /\ Goto(j, IF j \in cancelled THEN "passing" ELSE "won")
  /\ UNCHANGED <<gateVars, handleVars, record, caller>>

(* A job that declined passes the slot on.                                 *)
PassOn(j) ==
  /\ pc[j] = "passing"
  /\ release
  /\ Goto(j, "declined")
  /\ UNCHANGED <<handleVars, record, caller>>

----------------------------------------------------------------------------
(* The rest of runJob.                                                     *)

(* The queued record becomes running.                                      *)
SaveRunning(j) ==
  /\ pc[j] = "won"
  /\ Goto(j, "running")
  /\ record' = [record EXCEPT ![j] = "running"]
  /\ UNCHANGED <<gateVars, handleVars, caller>>

(* The work ends and the terminal state is saved.  Only a cancelled job is *)
(* recorded killed, and a cancelled job may still have finished its work.  *)
Settle(j) ==
  /\ pc[j] = "running"
  /\ Goto(j, "settled")
  /\ \E s \in Terminal :
       /\ s = "killed" => j \in cancelled
       /\ record' = [record EXCEPT ![j] = s]
  /\ UNCHANGED <<gateVars, handleVars, caller>>

(* The job's deadline passes: the job is marked cancelled and its work is  *)
(* killed, but the cancel channel stays open.                              *)
JobTimeout(j) ==
  /\ pc[j] = "running"
  /\ j \notin cancelled
  /\ cancelled' = cancelled \cup {j}
  /\ UNCHANGED <<pc, gateVars, live, cancelCh, started, record, caller>>

(* The work panics: the deferred calls run, no terminal state was saved.   *)
Panic(j) ==
  /\ pc[j] = "running"
  /\ Goto(j, "panicking")
  /\ UNCHANGED <<gateVars, handleVars, record, caller>>

(* The deferred gate.release of runJob.                                    *)
ReleaseSlot(j) ==
  /\ pc[j] \in {"settled", "panicking"}
  /\ release
  /\ Goto(j, IF pc[j] = "settled" THEN "released" ELSE "panicReleased")
  /\ UNCHANGED <<handleVars, record, caller>>

(* A job cancelled at the gate looks whether its record is still there ... *)
StatRecord(j) ==
  /\ pc[j] = "declined"
  /\ Goto(j, IF record[j] = "none" THEN "released" ELSE "killing")
  /\ UNCHANGED <<gateVars, handleVars, record, caller>>

(* ... and then saves it as killed.                                        *)
SaveKilled(j) ==
  /\ pc[j] = "killing"
  /\ Goto(j, "released")
  /\ record' = [record EXCEPT ![j] = "killed"]
  /\ UNCHANGED <<gateVars, handleVars, caller>>

(* The deferred unregisterRunning: the handle leaves d.running and done is *)
(* closed.                                                                 *)
unregisterRunning(j) ==
  /\ pc[j] \in {"released", "panicReleased", "unstagedExit"}
  /\ live' = live \ {j}
  /\ Goto(j, CASE pc[j] = "released" -> "gone"
               [] pc[j] = "panicReleased" -> "panicGone"
               [] pc[j] = "unstagedExit" -> "unstaged")
  /\ UNCHANGED <<gateVars, cancelled, cancelCh, started, record, caller>>

(* Mutants of settlePanicJob: the record stays as it is; the record gets a *)
(* state that no reader of records knows.                                  *)
settleNothing(j) ==
  /\ pc[j] = "panicGone"
  /\ Goto(j, "gone")
  /\ UNCHANGED <<gateVars, handleVars, record, caller>>

settlePanicked(j) ==
  /\ pc[j] = "panicGone"
  /\ Goto(j, "gone")
  /\ record' = [record EXCEPT ![j] = "panicked"]
  /\ UNCHANGED <<gateVars, handleVars, caller>>

(* settlePanicJob: a record that is not terminal yet is saved as failed.   *)
settlePanicJob(j) ==
  /\ pc[j] = "panicGone"
  /\ Goto(j, "gone")
  /\ record' = [record EXCEPT ![j] =
                  IF @ \in {"queued", "running"} THEN "failure" ELSE @]
  /\ UNCHANGED <<gateVars, handleVars, caller>>

----------------------------------------------------------------------------
(* Cancel and delete requests.                                             *)

Serve(c, step) == caller' = [caller EXCEPT ![c].step = step]

(* cancelJobNoWait looks the handle up; without one the job is terminal if *)
(* its record is there, and unknown otherwise.  deleteJob wants the record *)
(* to be there in any case.                                                *)
LookupOutcome(j, delete) ==
  CASE record[j] = "none" /\ (delete \/ j \notin live) -> "failed"
    [] j \in live /\ ~(delete /\ record[j] = "none") -> "found"
    [] j \notin live /\ record[j] # "none" /\ delete -> "removing"
    [] j \notin live /\ record[j] # "none" /\ ~delete -> "done"

Lookup(c, j, delete) ==
  /\ caller[c].step = "idle"
  /\ caller' = [caller EXCEPT ![c] =
                  [step |-> LookupOutcome(j, delete), job |-> j, delete |-> delete]]
  /\ UNCHANGED <<pc, gateVars, handleVars, record>>

(* rj.cancelled.Store(true)                                                *)
MarkCancelled(c) ==
  /\ caller[c].step = "found"
  /\ cancelled' = cancelled \cup {caller[c].job}
  /\ Serve(c, "marked")
  /\ UNCHANGED <<pc, gateVars, live, cancelCh, started, record>>

(* rj.cancelOnce closes the cancel channel.                                *)
CloseCancelCh(c) ==
  /\ caller[c].step = "marked"
  /\ cancelCh' = cancelCh \cup {caller[c].job}
  /\ Serve(c, "closed")
  /\ UNCHANGED <<pc, gateVars, live, cancelled, started, record>>

(* rj.started.Load(): a started job gets a kill loop and is waited for; a  *)
(* queued one is left to settle at the gate, and nobody waits for it.      *)
LoadStarted(c) ==
  /\ caller[c].step = "closed"
  /\ Serve(c, CASE caller[c].job \in started -> "waitDone"
                [] caller[c].job \notin started /\ caller[c].delete -> "removing"
                [] caller[c].job \notin started /\ ~caller[c].delete -> "nowait")
  /\ UNCHANGED <<pc, gateVars, handleVars, record>>

(* cancelJob waits for done ...                                            *)
WaitDone(c) ==
  /\ caller[c].step = "waitDone"
  /\ caller[c].job \notin live
  /\ Serve(c, IF caller[c].delete THEN "removing" ELSE "done")
  /\ UNCHANGED <<pc, gateVars, handleVars, record>>

(* ... for 30 seconds, and gives up.                                       *)
WaitTimeout(c) ==
  /\ caller[c].step = "waitDone"
  /\ Serve(c, "failed")
  /\ UNCHANGED <<pc, gateVars, handleVars, record>>

(* deleteJob removes the job's directory.                                  *)
RemoveJobDir(c) ==
  /\ caller[c].step = "removing"
  /\ record' = [record EXCEPT ![caller[c].job] = "none"]
  /\ Serve(c, "deleted")
  /\ UNCHANGED <<pc, gateVars, handleVars>>

----------------------------------------------------------------------------
JobNext(j) ==
  \/ Create(j) \/ registerRunning(j) \/ Stage(j) \/ StageFails(j)
  \/ enter(j) \/ Wake(j) \/ WakeCancelled(j) \/ remove(j)
  \/ StoreStarted(j) \/ LoadCancelled(j) \/ PassOn(j)
  \/ SaveRunning(j) \/ JobTimeout(j) \/ Settle(j) \/ Panic(j) \/ ReleaseSlot(j)
  \/ StatRecord(j) \/ SaveKilled(j) \/ unregisterRunning(j) \/ settlePanicJob(j)

CallerNext(c) ==
  \/ \E j \in Jobs, delete \in BOOLEAN : Lookup(c, j, delete)
  \/ MarkCancelled(c) \/ CloseCancelCh(c) \/ LoadStarted(c)
  \/ WaitDone(c) \/ WaitTimeout(c) \/ RemoveJobDir(c)

Next == (\E j \in Jobs : JobNext(j)) \/ (\E c \in Callers : CallerNext(c))

Spec == Init /\ [][Next]_vars

(* A job's goroutine is scheduled by the Go runtime as long as it can take *)
(* a step; that a job which holds the slot settles is the assumption that  *)
(* its transform ends.  Requests need not come.                            *)
Fairness == \A j \in Jobs : WF_vars(JobNext(j) /\ pc[j] # "unborn")
FairSpec == Spec /\ Fairness

----------------------------------------------------------------------------
(* Correctness.                                                            *)

(* The jobs that own the slot: past the gate and not yet released, or      *)
(* handed the slot by release and not yet awake.                           *)
PastGate == {"granted", "started", "passing", "won", "running", "settled", "panicking"}
Owns(j) == pc[j] \in PastGate \/ (pc[j] \in {"waiting", "removing"} /\ j \in handed)
Owners == {j \in Jobs : Owns(j)}
Waits(j) == pc[j] \in {"waiting", "removing"} /\ j \notin handed

(* The pipeline runs strictly one job at a time, whatever cancels and      *)
(* deletes race the hand-off (the jobGate comment in jobs.go).             *)
OneJobRuns ==
  \A i, j \in Jobs : pc[i] \in {"won", "running", "settled"}
                     /\ pc[j] \in {"won", "running", "settled"} => i = j

(* The slot is never lost and never duplicated: it is taken exactly when   *)
(* one job owns it, although a cancelled waiter may have been handed it in *)
(* the same instant (the remove/release pair in enter).                    *)
SlotConserved ==
  /\ held <=> Owners # {}
  /\ \A i, j \in Owners : i = j

(* Nobody waits at a free gate, and the list holds each waiting job once   *)
(* and no other job: a waiter is never stranded by an unlink.              *)
NobodyStranded ==
  /\ ~held => queue = <<>>
  /\ \A j \in Jobs : Waits(j) <=> \E k \in DOMAIN queue : queue[k] = j
  /\ \A k, l \in DOMAIN queue : queue[k] = queue[l] => k = l

(* A cancel that found the job queued returns without waiting because the  *)
(* job has no work to kill; the job then never starts any (the started and *)
(* cancelled flags are read and written in opposite orders).               *)
QueuedCancelNeverRuns ==
  \A c \in Callers : caller[c].step = "nowait" =>
    pc[caller[c].job] \notin {"won", "running", "settled", "panicking"}

(* A job that is gone left a terminal record or none: no later flush waits *)
(* for it (settlePanicJob, and the killed save of a declined job).         *)
GoneIsTerminal ==
  \A j \in Jobs : pc[j] = "gone" => record[j] \in Terminal \cup {"none"}

(* Who owns the slot, when one job at most does.                           *)
SlotOwner == IF Owners = {} THEN NoJob ELSE CHOOSE j \in Jobs : Owns(j)

(* The slot passes in the order of the list: who gets it is its head.      *)
Slot == INSTANCE FifoSlot WITH owner <- SlotOwner, line <- queue
ImplementsFifoSlot == Slot!SlotSpec

(* Every job is settled in the end, unless its directory could not be      *)
(* created and it never came to the gate.                                  *)
EveryJobSettles == \A j \in Jobs : []<>(pc[j] \in {"unborn", "unstaged", "gone"})

(* deleteJob's promise: "A deleted job is no longer inspectable". It       *)
(* fails: a job that is cancelled at the gate saves its record after the   *)
(* deletion.                                                               *)
DeletedStaysDeleted ==
  \A c \in Callers : caller[c].step = "deleted" => record[caller[c].job] = "none"
=============================================================================
