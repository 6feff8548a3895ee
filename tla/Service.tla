------------------------------ MODULE Service ------------------------------
(***************************************************************************)
(* A service's job (service.go: runServiceJob): one long-lived process     *)
(* serves the input's head from a directory; the loop waits for the state  *)
(* broadcast, and serves a new head without restarting the process.  The   *)
(* process runs here, or on an execution host through the worker's service *)
(* endpoints (worker.go).                                                  *)
(*                                                                         *)
(* A revision is its number, 0 for none, and a directory is the revision   *)
(* whose files it holds.  The secrets, the proxied bytes and the pipeline's*)
(* slot (JobGate) are left out; placement is a wait for a host.            *)
(***************************************************************************)
EXTENDS Integers

CONSTANTS
  MaxCommits,
  MaxFailures  \* materializations or calls that fail

VARIABLES
  remote,    \* the pipeline is placed on an execution host
  head,      \* the input branch's finished head
  unsaid,    \* a head has moved and the broadcast has not been signalled yet
  woken,     \* the channel the loop holds has been closed
  step,      \* where runServiceJob is
  last,      \* lastID
  served,    \* the revision in the served directory
  call,      \* a refresh on its way to the worker: the revision it ships, or 0
  process,   \* none, starting, up, gone
  listed,    \* the service is registered, and the external port is bound
  cancelled,
  job,       \* the job's record
  failures

vars == <<remote, head, unsaid, woken, step, last, served, call, process, listed, cancelled, job,
          failures>>

Revisions == 0 .. MaxCommits

TypeOK ==
  /\ {head, last, served, call} \subseteq Revisions
  /\ step \in {"place", "materialize", "start", "bind", "grab", "check", "clear", "fill",
              "select", "stop", "end"}
  /\ process \in {"none", "starting", "up", "gone"}
  /\ {remote, unsaid, woken, listed, cancelled} \subseteq BOOLEAN
  /\ job \in {"running", "success", "failure", "killed"} /\ failures \in 0 .. MaxFailures

Init ==
  /\ remote \in BOOLEAN
  /\ head = 0 /\ last = 0 /\ served = 0 /\ call = 0
  /\ unsaid = FALSE /\ woken = FALSE /\ listed = FALSE /\ cancelled = FALSE
  /\ step = "place" /\ process = "none" /\ job = "running" /\ failures = 0

----------------------------------------------------------------------------
(* The rest of the daemon: a commit finishes and then signals the          *)
(* broadcast; a stop or a delete cancels the job.                          *)

FinishCommit ==
  /\ head < MaxCommits /\ head' = head + 1 /\ unsaid' = TRUE
  /\ UNCHANGED <<remote, woken, step, last, served, call, process, listed, cancelled, job, failures>>

Signal ==
  /\ unsaid /\ unsaid' = FALSE /\ woken' = TRUE
  /\ UNCHANGED <<remote, head, step, last, served, call, process, listed, cancelled, job, failures>>

Cancel ==
  /\ job = "running" /\ ~cancelled /\ cancelled' = TRUE
  /\ UNCHANGED <<remote, head, unsaid, woken, step, last, served, call, process, listed, job, failures>>

(* The process comes up, and may exit.                                     *)
ProcessStarts ==
  /\ process = "starting" /\ process' = "up"
  /\ UNCHANGED <<remote, head, unsaid, woken, step, last, served, call, listed, cancelled, job,
                 failures>>

ProcessExits ==
  /\ process = "up" /\ process' = "gone"
  /\ UNCHANGED <<remote, head, unsaid, woken, step, last, served, call, listed, cancelled, job,
                 failures>>

----------------------------------------------------------------------------
(* The job.                                                                *)

(* The job's deferred calls: the record is taken from the list and the     *)
(* external port is closed.                                                *)
Settle(state) == job' = state /\ step' = "end" /\ listed' = FALSE

(* The job waits at the gate and, where it is placed, for a host; it can   *)
(* be cancelled at either.                                                 *)
Placed ==
  /\ step = "place" /\ step' = "materialize"
  /\ UNCHANGED <<remote, head, unsaid, woken, last, served, call, process, listed, cancelled, job,
                 failures>>

CancelledUnplaced ==
  /\ step = "place" /\ cancelled /\ Settle("killed")
  /\ UNCHANGED <<remote, head, unsaid, woken, last, served, call, process, cancelled, failures>>

(* The head is served from the beginning, here or, read again by           *)
(* remoteServiceStart, on the host.                                        *)
Materialize ==
  /\ step = "materialize" /\ step' = "start"
  /\ last' = head /\ served' = head
  /\ UNCHANGED <<remote, head, unsaid, woken, call, process, listed, cancelled, job, failures>>

(* The service is listed, and its process starts here ...                  *)
StartProcess ==
  /\ step = "start" /\ ~remote /\ step' = "bind" /\ listed' = TRUE
  /\ process' = "starting"
  /\ UNCHANGED <<remote, head, unsaid, woken, last, served, call, cancelled, job, failures>>

(* ... or on the host, with the head of now; runRemoteService returns when *)
(* the container is up.                                                    *)
StartRemote ==
  /\ step = "start" /\ remote /\ step' = "bind" /\ listed' = TRUE
  /\ process' = "up" /\ served' = head
  /\ UNCHANGED <<remote, head, unsaid, woken, last, call, cancelled, job, failures>>

(* A secret is missing.                                                    *)
SecretMissing ==
  /\ step = "start" /\ failures < MaxFailures
  /\ failures' = failures + 1 /\ Settle("failure")
  /\ UNCHANGED <<remote, head, unsaid, woken, last, served, call, process, cancelled>>

(* The worker refuses, and what it may have begun is removed.              *)
HostRefuses ==
  /\ step = "start" /\ remote /\ failures < MaxFailures
  /\ failures' = failures + 1 /\ Settle("failure")
  /\ UNCHANGED <<remote, head, unsaid, woken, last, served, call, process, cancelled>>

(* stop: runner.Kill finds no process that is still starting; the worker   *)
(* removes the container.                                                  *)
Stopped == IF process = "up" THEN "gone" ELSE process

BindFails ==
  /\ step = "bind" /\ failures < MaxFailures
  /\ failures' = failures + 1 /\ process' = Stopped /\ Settle("failure")
  /\ UNCHANGED <<remote, head, unsaid, woken, last, served, call, cancelled>>

Bind ==
  /\ step = "bind" /\ step' = "grab"
  /\ UNCHANGED <<remote, head, unsaid, woken, last, served, call, process, listed, cancelled, job,
                 failures>>

Grab ==
  /\ step = "grab" /\ step' = "check" /\ woken' = FALSE
  /\ UNCHANGED <<remote, head, unsaid, last, served, call, process, listed, cancelled, job, failures>>

(* Mutant of Check: the channel is taken after the head was read.          *)
CheckThenGrab ==
  /\ \/ /\ step = "check" /\ last' = head
        /\ step' = IF head = last THEN "late" ELSE "clear"
        /\ woken' = woken
     \/ /\ step = "late" /\ step' = "select"
        /\ woken' = FALSE /\ last' = last
  /\ UNCHANGED <<remote, head, unsaid, served, call, process, listed, cancelled, job, failures>>

(* A new head is taken as served before it is.                             *)
Check ==
  /\ step = "check"
  /\ last' = head
  /\ step' = IF head = last THEN "select" ELSE "clear"
  /\ UNCHANGED <<remote, head, unsaid, woken, served, call, process, listed, cancelled, job, failures>>

(* The directory is emptied and filled: with lastID here (syncServeDir);   *)
(* on the host with the head that remoteServiceRefresh reads again and     *)
(* ships.                                                                  *)
Clear ==
  /\ step = "clear" /\ step' = "fill"
  /\ IF remote THEN call' = head /\ served' = served ELSE call' = call /\ served' = 0
  /\ UNCHANGED <<remote, head, unsaid, woken, last, process, listed, cancelled, job, failures>>

Fill ==
  /\ step = "fill" /\ step' = "grab"
  /\ served' = IF remote THEN call ELSE last
  /\ call' = 0
  /\ UNCHANGED <<remote, head, unsaid, woken, last, process, listed, cancelled, job, failures>>

(* The revision cannot be materialized, or the call fails, before or after *)
(* the worker has emptied the directory: the error is logged.              *)
FillFails ==
  /\ step = "fill" /\ step' = "grab" /\ failures < MaxFailures
  /\ failures' = failures + 1 /\ call' = 0 /\ served' \in {served, 0}
  /\ UNCHANGED <<remote, head, unsaid, woken, last, process, listed, cancelled, job>>

Woken ==
  /\ step = "select" /\ woken /\ step' = "grab"
  /\ UNCHANGED <<remote, head, unsaid, woken, last, served, call, process, listed, cancelled, job,
                 failures>>

(* Mutant of SeesCancel: the process is waited for.                        *)
SeesExitOnly ==
  /\ step = "select" /\ cancelled /\ process = "gone" /\ Settle("killed")
  /\ UNCHANGED <<remote, head, unsaid, woken, last, served, call, process, cancelled, failures>>

SeesCancel ==
  /\ step = "select" /\ cancelled
  /\ process' = Stopped /\ Settle("killed")
  /\ UNCHANGED <<remote, head, unsaid, woken, last, served, call, cancelled, failures>>

(* exited: the local process; a process on a host is never watched, only   *)
(* the cancellation ends the job.                                          *)
SeesExit ==
  /\ step = "select" /\ (IF remote THEN cancelled ELSE process = "gone")
  /\ \E state \in {"success", "failure"} : Settle(IF cancelled THEN "killed" ELSE state)
  /\ UNCHANGED <<remote, head, unsaid, woken, last, served, call, process, cancelled, failures>>

Environment == FinishCommit \/ Cancel \/ ProcessExits

Loop ==
  \/ Placed \/ CancelledUnplaced \/ Materialize \/ StartProcess \/ StartRemote
  \/ SecretMissing \/ HostRefuses \/ BindFails \/ Bind
  \/ Grab \/ Check \/ Clear \/ Fill \/ FillFails \/ Woken \/ SeesCancel \/ SeesExit

Next == Environment \/ Signal \/ ProcessStarts \/ Loop

Spec == Init /\ [][Next]_vars

(* The job's goroutine goes on, a host registers in the end, and a commit  *)
(* that has finished is signalled.                                         *)
Fairness == WF_vars(Loop) /\ WF_vars(Signal) /\ WF_vars(ProcessStarts)

FairSpec == Spec /\ Fairness

----------------------------------------------------------------------------
(* A job that sleeps, with no signal on its way, has seen the head, and    *)
(* serves it unless a refresh failed ("a refresh must not miss a           *)
(* revision").                                                             *)
SleepsCurrent ==
  step = "select" /\ ~woken /\ ~unsaid => last = head /\ (failures = 0 => served = head)

(* A cancelled service settles, wherever the cancellation finds it.        *)
ServiceSettles == []<>(cancelled => job # "running")

(* What a settled job leaves behind: no process (runServiceJob: "settles   *)
(* when the process exits or the job is cancelled").  It fails when stop   *)
(* comes before the process has started: Kill finds nothing.               *)
StoppedIsGone == job = "killed" => process \in {"none", "gone"}

(* A head that stays is served in the end, or the job is over.  It fails   *)
(* after one refresh that fails: lastID was moved first.                   *)
CatchesUp == []<>(served = head \/ job # "running")

(* A process that has exited does not leave its job running.  It fails on  *)
(* an execution host.                                                      *)
ExitIsSeen == []<>(process = "gone" => job # "running")
=============================================================================
