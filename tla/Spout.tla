------------------------------- MODULE Spout -------------------------------
(***************************************************************************)
(* A spout's job (spout.go: runSpoutJob): a container writes files into a  *)
(* directory, and a loop polls the directory, commits what has changed     *)
(* since the last commit, and settles when the container is gone.  Nothing *)
(* tells the loop that a file is complete; it compares two reads.          *)
(*                                                                         *)
(* A file's content is a number, 0 when the file is not there; each write  *)
(* of the container makes a new one, so a file written in two pieces is a  *)
(* file written twice.  The marker directory is polled by the same steps   *)
(* onto a branch of its own, and is left out.                              *)
(***************************************************************************)
EXTENDS Integers, FiniteSets

CONSTANTS
  Files,
  MaxWrites,   \* how often each file is written
  MaxFailures  \* commits the store refuses

VARIABLES
  dir,       \* the output directory
  container, \* the container: none, up, exited
  committed, \* committedOut: the content of each file the loop holds to be committed
  branch,    \* what the output branch really has
  poll,      \* the loop: its step, and the cycle it is in
  job,       \* the job's record
  cancelled,
  failures

vars == <<dir, container, committed, branch, poll, job, cancelled, failures>>

Contents == 0 .. MaxWrites
Nothing == [f \in Files |-> 0]
Idle == [step |-> "inspect", final |-> "no", seen |-> Nothing, changed |-> {}, deferred |-> {},
         left |-> {}]

Polls ==
  [step : {"start", "inspect", "snapshot", "verify", "commit", "write", "refresh", "end"},
   final : {"no", "success", "failure"}, seen : [Files -> Contents],
   changed : SUBSET Files, deferred : SUBSET Files, left : SUBSET Files]

TypeOK ==
  /\ {dir, committed, branch} \subseteq [Files -> Contents]
  /\ container \in {"none", "up", "exited"} /\ job \in {"running", "success", "failure", "killed"}
  /\ poll \in Polls
  /\ cancelled \in BOOLEAN /\ failures \in 0 .. MaxFailures

Init ==
  /\ dir = Nothing /\ committed = Nothing /\ branch = Nothing
  /\ container = "none" /\ job = "running" /\ poll = [Idle EXCEPT !.step = "start"]
  /\ cancelled = FALSE /\ failures = 0

----------------------------------------------------------------------------
(* The container, and a request that cancels the job.                      *)

Write(f) ==
  /\ container = "up" /\ dir[f] < MaxWrites
  /\ dir' = [dir EXCEPT ![f] = @ + 1]
  /\ UNCHANGED <<container, committed, branch, poll, job, cancelled, failures>>

Exit ==
  /\ container = "up" /\ container' = "exited"
  /\ UNCHANGED <<dir, committed, branch, poll, job, cancelled, failures>>

Cancel ==
  /\ job = "running" /\ ~cancelled /\ cancelled' = TRUE
  /\ UNCHANGED <<dir, container, committed, branch, poll, job, failures>>

----------------------------------------------------------------------------
(* The loop.                                                               *)

At(step) == poll.step = step
Goto(step) == poll' = [poll EXCEPT !.step = step]
Settle(state) == job' = state /\ poll' = [Idle EXCEPT !.step = "end"]

(* docker run answers, or the job fails before the loop begins.            *)
Start ==
  /\ At("start") /\ container' = "up" /\ poll' = Idle
  /\ UNCHANGED <<dir, committed, branch, job, cancelled, failures>>

StartFails ==
  /\ At("start") /\ Settle("failure")
  /\ UNCHANGED <<dir, container, committed, branch, cancelled, failures>>

(* A cancelled job ends at the gate, or at the top of the loop, where      *)
(* docker kill stops the container.                                        *)
Killed ==
  /\ At("start") \/ At("inspect")
  /\ cancelled /\ Settle("killed")
  /\ container' = IF At("start") THEN container ELSE "exited"
  /\ UNCHANGED <<dir, committed, branch, cancelled, failures>>

(* docker inspect: the container is up, a cycle, or gone, the final one.   *)
(* A call that times out is made again.                                    *)
Inspect ==
  /\ At("inspect") /\ ~cancelled
  /\ poll' = [Idle EXCEPT !.step = "snapshot", !.final = IF container = "up" THEN "no" ELSE "success"]
  /\ UNCHANGED <<dir, container, committed, branch, job, cancelled, failures>>

(* docker inspect keeps failing: a final cycle, whatever the container     *)
(* does meanwhile.                                                         *)
InspectFails ==
  /\ At("inspect") /\ ~cancelled /\ failures < MaxFailures
  /\ failures' = failures + 1
  /\ poll' = [Idle EXCEPT !.step = "snapshot", !.final = "failure"]
  /\ UNCHANGED <<dir, container, committed, branch, job, cancelled>>

(* spoutDiffVerify: what is not as committed ...                           *)
Snapshot ==
  /\ At("snapshot")
  /\ poll' = [poll EXCEPT !.step = IF poll.final = "no" THEN "verify" ELSE "commit", !.seen = dir,
                          !.changed = {f \in Files : dir[f] # 0 /\ dir[f] # committed[f]}]
  /\ UNCHANGED <<dir, container, committed, branch, job, cancelled, failures>>

(* ... and, read again, has not changed; the rest waits for the next poll. *)
Verify ==
  /\ At("verify")
  /\ LET moving == {f \in poll.changed : dir[f] # poll.seen[f]}
     IN  poll' = [poll EXCEPT !.step = "commit", !.changed = @ \ moving, !.deferred = moving]
  /\ UNCHANGED <<dir, container, committed, branch, job, cancelled, failures>>

(* spoutCommit: nothing to commit, or the job is being replaced and the    *)
(* cycle is dropped; else the files are read one by one.                   *)
StartCycle ==
  /\ At("commit")
  /\ poll' = [poll EXCEPT !.step = IF poll.changed = {} \/ cancelled THEN "refresh" ELSE "write",
                          !.left = poll.changed]
  /\ UNCHANGED <<dir, container, committed, branch, job, cancelled, failures>>

OverwriteFile(f) ==
  /\ At("write") /\ f \in poll.left
  /\ poll' = [poll EXCEPT !.left = @ \ {f}, !.seen[f] = dir[f]]
  /\ UNCHANGED <<dir, container, committed, branch, job, cancelled, failures>>

FinishCommit ==
  /\ At("write") /\ poll.left = {}
  /\ branch' = [f \in Files |-> IF f \in poll.changed THEN poll.seen[f] ELSE branch[f]]
  /\ Goto("refresh")
  /\ UNCHANGED <<dir, container, committed, job, cancelled, failures>>

(* After the cycle: the next poll, or, after the final one, docker rm -f   *)
(* and the job's end.                                                      *)
EndCycle ==
  IF poll.final = "no" THEN poll' = Idle /\ UNCHANGED <<container, job>>
  ELSE Settle(poll.final) /\ container' = "exited"

(* The store refuses: the files stay uncommitted, for the next poll to try *)
(* again; after the final cycle there is none.                             *)
CycleFails ==
  /\ At("write") /\ poll.left = {} /\ failures < MaxFailures
  /\ failures' = failures + 1
  /\ EndCycle
  /\ UNCHANGED <<dir, committed, branch, cancelled>>

(* Mutant of Committed: the raw snapshot after the commit.                 *)
CommittedRaw == dir

(* The snapshot after the commit, of the files committed now or before,    *)
(* the deferred ones left out.                                             *)
Committed ==
  [f \in Files |-> IF (committed[f] # 0 \/ f \in poll.changed) /\ f \notin poll.deferred
                     THEN dir[f] ELSE 0]

Refresh ==
  /\ At("refresh")
  /\ committed' = IF poll.changed = {} THEN committed ELSE Committed
  /\ EndCycle
  /\ UNCHANGED <<dir, branch, cancelled, failures>>

Next ==
  \/ \E f \in Files : Write(f) \/ OverwriteFile(f)
  \/ Exit \/ Cancel \/ Start \/ StartFails \/ Killed \/ Inspect \/ InspectFails \/ Snapshot \/ Verify
  \/ StartCycle \/ FinishCommit \/ CycleFails \/ Refresh

Spec == Init /\ [][Next]_vars

(* The loop goes on; docker answers in the end.                            *)
Loop == \/ \E f \in Files : OverwriteFile(f)
        \/ Start \/ StartFails \/ Killed \/ Inspect \/ InspectFails \/ Snapshot \/ Verify
        \/ StartCycle \/ FinishCommit
        \/ CycleFails \/ Refresh
Fairness == WF_vars(Loop)

FairSpec == Spec /\ Fairness

----------------------------------------------------------------------------
(* A file the loop holds to be committed is on the branch: one that        *)
(* appeared while a cycle was being committed, or was left out of it, is   *)
(* found by the next poll (spout.go: marking it committed "would silently  *)
(* drop its cycle").                                                       *)
HeldIsOnBranch == At("inspect") /\ ~cancelled => \A f \in Files : committed[f] # 0 => branch[f] # 0

(* The same of a file's content.  It fails when a file is written again    *)
(* between the read of OverwriteFile and the snapshot of Refresh.          *)
HeldAsOnBranch == At("inspect") /\ ~cancelled => \A f \in Files : committed[f] \in {0, branch[f]}

(* When the job has succeeded, the branch has every file as the container  *)
(* left it (spout.go: "a cycle must not be lost").  It fails when the job  *)
(* is cancelled, or the store refuses, in the final cycle: the record says *)
(* success all the same.                                                   *)
NothingLost == job = "success" => branch = dir

(* A container that exits, or a job that is cancelled, ends in a settled   *)
(* record.                                                                 *)
SpoutSettles == []<>(container = "exited" \/ cancelled => job # "running")
=============================================================================
