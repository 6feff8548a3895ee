---------------------------- MODULE CommitDelete ----------------------------
(***************************************************************************)
(* Deleting a commit (jobs.go: deleteCommit) while clients commit and jobs *)
(* run.  The request holds no lock: it closes the set of commits derived   *)
(* from the one named, cancels the jobs that consumed them, waits for the  *)
(* running ones, removes their records, works out where the heads and the  *)
(* parent links of the survivors go, removes the commit records, and only  *)
(* then writes the links and the heads it worked out.                      *)
(*                                                                         *)
(* One pipeline reads the repository "in" and writes "out"; each has one   *)
(* branch.  The store's own operations are those of Store, the output      *)
(* commit's those of Output; here a commit is only its links.              *)
(***************************************************************************)
EXTENDS Integers, FiniteSets

CONSTANTS
  MaxCommit,   \* the ids of commits are 1 .. MaxCommit, handed out in order
  Deletes      \* how many commits are deleted

VARIABLES
  rec,     \* the commit records
  head,    \* the branch head of each repository
  job,     \* the job of each input commit
  issued,  \* how many ids have been handed out
  del,     \* the deletion: its step and what it has worked out
  met,     \* history: repositories others changed once the jobs of a deletion had settled
  stray    \* history: inputs that finished, or whose job opened its output, during a deletion

vars == <<rec, head, job, issued, del, met, stray>>

Ids == 1 .. MaxCommit
NoCommit == 0
Repos == {"in", "out"}
NoRecord == [repo |-> "none", parent |-> NoCommit, open |-> FALSE]
NotSpawned == [state |-> "none", out |-> NoCommit, parent |-> NoCommit, cancelled |-> FALSE]
NoDelete == [step |-> "idle", set |-> {}, heads |-> <<>>, fixes |-> {}, was |-> <<>>, left |-> Deletes]

Exists(c) == rec[c] # NoRecord
(* A commit and what it is built on, along the records there are.          *)
Chain(c) ==
  LET up[b \in Ids \cup {NoCommit}] == IF b = NoCommit \/ ~Exists(b) THEN {} ELSE {b} \cup up[rec[b].parent]
  IN  up[c]
Chains == [c \in Ids |-> Chain(c)]
Live(c) == job[c].state \in {"queued", "running"}

TypeOK ==
  /\ rec \in [Ids -> [repo : Repos \cup {"none"}, parent : Ids \cup {NoCommit}, open : BOOLEAN]]
  /\ head \in [Repos -> Ids \cup {NoCommit}] /\ issued \in 0 .. MaxCommit
  /\ job \in [Ids -> [state : {"none", "queued", "running", "done", "removed"},
                      out : Ids \cup {NoCommit}, parent : Ids \cup {NoCommit}, cancelled : BOOLEAN]]
  /\ del.step \in {"idle", "cancel", "settle", "jobs", "heads", "parents", "records", "links", "refs"}
  /\ del.set \subseteq Ids /\ del.left \in 0 .. Deletes
  /\ met \subseteq Repos /\ stray \subseteq Ids

Init ==
  /\ rec = [c \in Ids |-> NoRecord] /\ head = [r \in Repos |-> NoCommit]
  /\ job = [c \in Ids |-> NotSpawned] /\ issued = 0 /\ del = NoDelete
  /\ met = {} /\ stray = {}

----------------------------------------------------------------------------
(* The rest of the system, which a deletion does not keep from anything.   *)

Touch(r) ==
  met' = IF del.step \in {"idle", "cancel", "settle"} THEN met ELSE met \cup {r}
Stray(c) == stray' = IF del.step = "idle" THEN stray ELSE stray \cup {c}

(* A commit is opened on the head; a branch may have several open.         *)
Open(r) ==
  /\ issued < MaxCommit
  /\ issued' = issued + 1
  /\ rec' = [rec EXCEPT ![issued + 1] = [repo |-> r, parent |-> head[r], open |-> TRUE]]

StartCommit == Open("in") /\ Touch("in") /\ UNCHANGED <<head, job, del, stray>>

Finish(c) == /\ rec' = [rec EXCEPT ![c].open = FALSE]
             /\ head' = [head EXCEPT ![rec[c].repo] = c]

(* The finished commit triggers the pipeline.                              *)
FinishCommit(c) ==
  /\ rec[c].repo = "in" /\ rec[c].open
  /\ Finish(c) /\ Touch("in") /\ Stray(c)
  /\ job' = [job EXCEPT ![c] = [NotSpawned EXCEPT !.state = "queued"]]
  /\ UNCHANGED <<issued, del>>

(* The gate lets one job run at a time (their order is not of interest     *)
(* here): it opens its output, or, cancelled while queued, settles.        *)
GateFree == \A c \in Ids : job[c].state # "running"
OpenOutput(c) ==
  /\ job[c].state = "queued" /\ GateFree /\ ~job[c].cancelled
  /\ Open("out") /\ Touch("out") /\ Stray(c)
  /\ job' = [job EXCEPT ![c].state = "running", ![c].out = issued + 1,
                        ![c].parent = head["out"]]
  /\ UNCHANGED <<head, del>>

CancelledAtGate(c) ==
  /\ job[c].state = "queued" /\ GateFree /\ job[c].cancelled
  /\ job' = [job EXCEPT ![c].state = "done"]
  /\ UNCHANGED <<rec, head, issued, del, met, stray>>

(* finishOutput: reparented if the head is not the parent it started on,   *)
(* then finished; an error when the record is gone.                        *)
JobEnds(c) ==
  /\ job[c].state = "running"
  /\ IF rec[job[c].out].open
       THEN /\ rec' = [rec EXCEPT ![job[c].out].open = FALSE,
                                  ![job[c].out].parent = IF head["out"] \in {NoCommit, job[c].parent} THEN @
                                                         ELSE head["out"]]
            /\ head' = [head EXCEPT !["out"] = job[c].out]
       ELSE UNCHANGED <<rec, head>>
  /\ job' = [job EXCEPT ![c].state = "done"]
  /\ Touch("out")
  /\ UNCHANGED <<issued, del, stray>>

----------------------------------------------------------------------------
(* deleteCommit.                                                           *)

(* Mutant of Derived: the outputs of the jobs that have ended.             *)
DerivedEnded(c) == {c} \cup {o \in Ids : job[c].out = o /\ job[c].state = "done"}

(* The commit and every output of a job that consumed one of them; with    *)
(* one pipeline the closure takes one hop.                                 *)
Derived(c) == {c} \cup {o \in Ids : job[c].out = o /\ job[c].state # "removed"}

Choose(c) ==
  /\ del.step = "idle" /\ del.left > 0 /\ Exists(c)
  /\ del' = [del EXCEPT !.step = "cancel", !.set = Derived(c), !.left = @ - 1]
  /\ UNCHANGED <<rec, head, job, issued, met, stray>>

(* Cancel what is in flight; running jobs are waited for, queued ones are  *)
(* not.                                                                    *)
CancelJobs ==
  /\ del.step = "cancel"
  /\ job' = [c \in Ids |-> IF c \in del.set /\ Live(c)
                         THEN [job[c] EXCEPT !.cancelled = TRUE] ELSE job[c]]
  /\ del' = [del EXCEPT !.step = "settle"]
  /\ UNCHANGED <<rec, head, issued, met, stray>>

(* Mutant of waitJobsSettled: no wait.                                     *)
waitNothing ==
  /\ del.step = "settle"
  /\ del' = [del EXCEPT !.step = "jobs", !.was = Chains]
  /\ UNCHANGED <<rec, head, job, issued, met, stray>>

waitJobsSettled ==
  /\ del.step = "settle"
  /\ \A c \in Ids : ~(job[c].cancelled /\ job[c].state = "running")
  /\ del' = [del EXCEPT !.step = "jobs", !.was = Chains]
  /\ UNCHANGED <<rec, head, job, issued, met, stray>>

(* The records of the jobs go; a queued one keeps its place at the gate.   *)
RemoveJobs ==
  /\ del.step = "jobs"
  /\ job' = [c \in Ids |-> IF c \in del.set /\ job[c].state = "done"
                         THEN [job[c] EXCEPT !.state = "removed"]
                           ELSE job[c]]
  /\ del' = [del EXCEPT !.step = "heads"]
  /\ UNCHANGED <<rec, head, issued, met, stray>>

(* Mutant of Survivor: the parent, deleted or not.                         *)
SurvivorParent(c) == rec[c].parent

(* The nearest ancestor that is not deleted, along the records there are.  *)
Survivor(c) ==
  LET up[b \in Ids \cup {NoCommit}] == IF b = NoCommit \/ b \notin del.set THEN b ELSE up[rec[b].parent]
  IN  up[rec[c].parent]

HeadFixes ==
  /\ del.step = "heads"
  /\ del' = [del EXCEPT !.step = "parents",
                        !.heads = [r \in {r \in Repos : head[r] \in del.set} |-> Survivor(head[r])]]
  /\ UNCHANGED <<rec, head, job, issued, met, stray>>

(* The survivors' whole records are captured, to be saved later.           *)
ParentFixes ==
  /\ del.step = "parents"
  /\ del' = [del EXCEPT !.step = "records",
       !.fixes = {[id |-> c, saved |-> [rec[c] EXCEPT !.parent = Survivor(c)]]
                    : c \in {c \in Ids : Exists(c) /\ c \notin del.set /\ rec[c].parent \in del.set}}]
  /\ UNCHANGED <<rec, head, job, issued, met, stray>>

RemoveRecords ==
  /\ del.step = "records"
  /\ rec' = [c \in Ids |-> IF c \in del.set THEN NoRecord ELSE rec[c]]
  /\ del' = [del EXCEPT !.step = "links"]
  /\ UNCHANGED <<head, job, issued, met, stray>>

SaveLinks ==
  /\ del.step = "links"
  /\ rec' = [c \in Ids |-> IF \E f \in del.fixes : f.id = c
                             THEN (CHOOSE f \in del.fixes : f.id = c).saved ELSE rec[c]]
  /\ del' = [del EXCEPT !.step = "refs"]
  /\ UNCHANGED <<head, job, issued, met, stray>>

MoveHeads ==
  /\ del.step = "refs"
  /\ head' = [r \in Repos |-> IF r \in DOMAIN del.heads THEN del.heads[r] ELSE head[r]]
  /\ del' = [NoDelete EXCEPT !.left = del.left]
  /\ UNCHANGED <<rec, job, issued, met, stray>>

Next ==
  \/ StartCommit
  \/ \E c \in Ids : \/ FinishCommit(c) \/ OpenOutput(c) \/ CancelledAtGate(c) \/ JobEnds(c)
                    \/ Choose(c)
  \/ CancelJobs \/ waitJobsSettled \/ RemoveJobs \/ HeadFixes \/ ParentFixes
  \/ RemoveRecords \/ SaveLinks \/ MoveHeads

Spec == Init /\ [][Next]_vars

----------------------------------------------------------------------------
(* When a deletion ends, every surviving commit, and every branch, is      *)
(* built on what it was built on before, without the commits deleted:      *)
(* nothing else is lost from a chain, and no link or head dangles (jobs.go:*)
(* "relinked to the nearest surviving ancestor ..., so the branch chain    *)
(* stays connected"). It says nothing of a repository in which a commit    *)
(* was started or finished after the jobs had settled: the deletion writes *)
(* heads and records it worked out before.                                 *)
HistoryKept ==
  [][MoveHeads =>
       /\ \A c \in Ids : Exists(c) /\ rec[c].repo \notin met =>
            /\ rec[c].parent = NoCommit \/ Exists(rec[c].parent)
            /\ Chain(c)' = del.was[c] \ del.set
       /\ \A r \in Repos \ met : head'[r] = NoCommit \/ Exists(head'[r])
       /\ \A r \in DOMAIN del.heads \ met : Chain(head[r])' = del.was[head[r]] \ del.set]_vars

(* With no deletion in progress, no output is left of an input that is     *)
(* gone (jobs.go: "every commit in any repository whose provenance         *)
(* includes it"), but for inputs that finished, or whose job got under     *)
(* way, while one was in progress.                                         *)
DerivedGone ==
  del.step = "idle" =>
    \A c \in Ids \ stray : job[c].out # NoCommit /\ Exists(job[c].out) => Exists(c)

(* The same without exceptions: not kept, the deletion holds no lock.      *)
DerivedGoneEver ==
  del.step = "idle" => \A c \in Ids : job[c].out # NoCommit /\ Exists(job[c].out) => Exists(c)

(* No branch is left on a commit that is gone (jobs.go: "branch heads that *)
(* pointed at a removed commit move"): not kept, a client may finish the   *)
(* commit that is deleted after the heads were worked out.                 *)
HeadsKept == [][MoveHeads => \A r \in Repos : head'[r] = NoCommit \/ Exists(head'[r])]_vars

(* A finished commit stays finished: the deletion of another one does not  *)
(* bring back a record it read before. Not kept, where clients go on: the  *)
(* deletion saves whole records it read before.                            *)
DeletionUndoesNothing ==
  [][\A c \in Ids : Exists(c) /\ ~rec[c].open => ~rec'[c].open]_vars

(* What the comment on deleteCommit says of the survivors (jobs.go:        *)
(* "Surviving commits whose parent was removed get their parent link       *)
(* cleared - the survivor becomes the first commit of its branch"): not    *)
(* so, they are relinked to the nearest ancestor that is left.             *)
SurvivorsDetached ==
  [][MoveHeads => \A f \in del.fixes : rec[f.id].parent = NoCommit]_vars
=============================================================================
