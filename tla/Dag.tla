-------------------------------- MODULE Dag --------------------------------
(***************************************************************************)
(* How finished commits become jobs and jobs become commits along a graph  *)
(* of pipelines (jobs.go: triggerForCommit and what it calls; execute.go:  *)
(* the input resolution of runJob and its ways to end).                    *)
(*                                                                         *)
(* A pipeline reads the branch heads of its input sides, repositories of   *)
(* clients or outputs of other pipelines, and its output repository bears  *)
(* its name.  A branch is linear, so a commit is its repository and its    *)
(* number.  A trigger runs in the goroutine that finished the commit: of a *)
(* client's request or of a job, which passes its pipeline's slot on only  *)
(* after it.  A trigger reads the heads of one side after the other, then  *)
(* checks and creates the job in one critical section (triggerMu).         *)
(*                                                                         *)
(* Pipelines here are running, take a cross of plain sides, and are not    *)
(* created, stopped or updated meanwhile; cancels, manual runs, size       *)
(* triggers, transactions and services are left out.                       *)
(***************************************************************************)
EXTENDS Naturals, SequencesExt

CONSTANTS
  Sources,     \* repositories that clients commit to
  PipelineList,\* the pipelines, in the order of their names
  Sides,       \* [Pipelines -> Seq(Repos)]: the input sides, as declared
  MaxCommits,  \* [Sources -> Nat]: bound on the commits of each client repository
  OneClient,   \* a single client, whose requests follow one another
  InOrder,     \* the goroutines of jobs enter their gate in the order of their spawn
  MayFail,     \* pipelines whose transform may fail
  MayFailSetup,\* pipelines whose jobs may fail around their transform
  MayBeEmpty   \* pipelines whose inputs may have no datums

Pipelines == ToSet(PipelineList)
Repos == Sources \cup Pipelines

ASSUME DagAssumption ==
  /\ IsInjective(PipelineList) /\ Sources \cap Pipelines = {}
  /\ Sides \in [Pipelines -> Seq(Repos)]
  /\ MaxCommits \in [Sources -> Nat] /\ OneClient \in BOOLEAN /\ InOrder \in BOOLEAN
  /\ MayFail \subseteq Pipelines /\ MayFailSetup \subseteq Pipelines
  /\ MayBeEmpty \subseteq Pipelines

VARIABLES
  head,   \* the number of each repository's finished head, 0 for none
  jobs,   \* the job records, oldest first, and where their goroutines are
  trigs,  \* the triggers under way, one per commit
  gate,   \* how many jobs have entered each pipeline's gate
  crossed \* the client repositories whose triggers have overlapped (history)

vars == <<head, jobs, trigs, gate, crossed>>

Commits == [repo : Repos, n : Nat \ {0}]
Commit(r, n) == [repo |-> r, n |-> n]

JobSteps == {"spawned", "queued", "running", "resolved", "checked", "published",
             "failed", "triggering", "done"}

(* inputs: InputCommits; late: the heads found when the job ran; turn: its *)
(* place in the order of arrival at the gate, 0 before it; out: the number *)
(* of its output commit, or 0.                                             *)
JobRecords ==
  [pipeline : Pipelines, inputs : SUBSET Commits, late : SUBSET Commits,
   state : {"queued", "running", "success", "failure"}, step : JobSteps,
   propagated : BOOLEAN, turn : Nat, out : Nat]

TypeOK ==
  /\ head \in [Repos -> Nat]
  /\ jobs \in Seq(JobRecords)
  /\ \A t \in trigs : t \in [commit : Commits, todo : SUBSET DOMAIN PipelineList, pair : Seq(Nat)]
  /\ gate \in [Pipelines -> Nat] /\ crossed \subseteq Sources

Init ==
  /\ head = [r \in Repos |-> 0]
  /\ jobs = <<>>
  /\ trigs = {}
  /\ gate = [p \in Pipelines |-> 0] /\ crossed = {}

----------------------------------------------------------------------------
(* Triggers.                                                               *)

SideSet(p) == ToSet(Sides[p])

(* The pipelines that consume the repository, by their place in the list.  *)
Consumers(r) == {k \in DOMAIN PipelineList : r \in SideSet(PipelineList[k])}

(* todo: the pipelines still to look at; pair: the heads read for the first. *)
NewTrigger(c) == [commit |-> c, todo |-> Consumers(c.repo), pair |-> <<>>]

(* A client finishes a commit, and its request goes on to the trigger.     *)
ClientCommit(s) ==
  /\ head[s] < MaxCommits[s]
  /\ OneClient => \A t \in trigs : t.commit.repo \notin Sources
  /\ head' = [head EXCEPT ![s] = @ + 1]
  /\ trigs' = trigs \cup {NewTrigger(Commit(s, head[s] + 1))}
  /\ crossed' = IF \E t \in trigs : t.commit.repo = s THEN crossed \cup {s} ELSE crossed
  /\ UNCHANGED <<jobs, gate>>

(* The trigger looks at the pipelines in the order of the list.            *)
IsNext(t, k) == \A l \in t.todo : k <= l

(* pairHeads: the finished head of the next side.                          *)
ReadSide(t, k) ==
  LET sides == Sides[PipelineList[k]] IN
  /\ IsNext(t, k) /\ Len(t.pair) < Len(sides)
  /\ trigs' = (trigs \ {t})
       \cup {[t EXCEPT !.pair = Append(t.pair, head[sides[Len(t.pair) + 1]])]}
  /\ UNCHANGED <<head, jobs, gate, crossed>>

(* The commits of a pairing; a side without a head gives none.             *)
Paired(p, pair) == {Commit(Sides[p][i], pair[i]) : i \in {k \in DOMAIN pair : pair[k] > 0}}

(* jobByOutput                                                             *)
Producers(c) == {i \in DOMAIN jobs : jobs[i].pipeline = c.repo /\ jobs[i].out = c.n}

(* provenanceOf: the client commits a commit derives from.                 *)
provenanceOf(c) ==
  LET inputs(d) == IF Producers(d) = {} THEN {d}
                   ELSE UNION {jobs[i].inputs : i \in Producers(d)}
      expand[n \in 0 .. Cardinality(Pipelines)] ==
        IF n = 0 THEN {c} ELSE UNION {inputs(d) : d \in expand[n - 1]}
  IN  expand[Cardinality(Pipelines)]

(* crossPairingConsistent: each source at one revision.                    *)
crossPairingConsistent(inputs) ==
  LET leaves == UNION {provenanceOf(c) : c \in inputs}
  IN  \A c, d \in leaves : c.repo = d.repo => c = d

(* Mutant of hasRunningJobWithInputs: a queued job is not looked at.       *)
hasRunningJobOnly(p, inputs) ==
  \E i \in DOMAIN jobs : /\ jobs[i].pipeline = p /\ jobs[i].inputs = inputs
                         /\ jobs[i].state = "running"

(* Mutant of hasRunningJobWithInputs: the sizes are not compared.          *)
hasRunningJobWithSome(p, inputs) ==
  \E i \in DOMAIN jobs : /\ jobs[i].pipeline = p /\ jobs[i].inputs \subseteq inputs
                         /\ jobs[i].state \in {"queued", "running"}

(* hasRunningJobWithInputs: a queued or running job with these inputs.     *)
hasRunningJobWithInputs(p, inputs) ==
  \E i \in DOMAIN jobs : /\ jobs[i].pipeline = p /\ jobs[i].inputs = inputs
                         /\ jobs[i].state \in {"queued", "running"}

(* newJobRec and its save.  A commit of a failed job passes the failure on. *)
NewJob(p, pair, c) ==
  [pipeline |-> p, inputs |-> Paired(p, pair), late |-> {},
   state |-> "queued", step |-> "spawned",
   propagated |-> \E i \in Producers(c) : jobs[i].state = "failure", turn |-> 0, out |-> 0]

(* Under triggerMu: no job for a pairing that is live or not consistent.   *)
Spawn(t, k) ==
  LET p == PipelineList[k]
      inputs == Paired(p, t.pair)
  IN
  /\ IsNext(t, k) /\ Len(t.pair) = Len(Sides[p])
  /\ jobs' = IF hasRunningJobWithInputs(p, inputs) \/ ~crossPairingConsistent(inputs)
               THEN jobs ELSE Append(jobs, NewJob(p, t.pair, t.commit))
  /\ trigs' = (trigs \ {t}) \cup {[t EXCEPT !.todo = t.todo \ {k}, !.pair = <<>>]}
  /\ UNCHANGED <<head, gate, crossed>>

(* The trigger returns.                                                    *)
Return(t) ==
  /\ t.todo = {}
  /\ trigs' = trigs \ {t}
  /\ jobs' = [i \in DOMAIN jobs |->
                IF i \in Producers(t.commit) THEN [jobs[i] EXCEPT !.step = "done"] ELSE jobs[i]]
  /\ UNCHANGED <<head, gate, crossed>>

----------------------------------------------------------------------------
(* Jobs.                                                                   *)

(* The goroutine of job i enters its pipeline's gate, behind those there.  *)
Enter(i) ==
  LET p == jobs[i].pipeline IN
  /\ jobs[i].step = "spawned"
  /\ InOrder => \A k \in DOMAIN jobs : k < i /\ jobs[k].pipeline = p => jobs[k].step # "spawned"
  /\ gate' = [gate EXCEPT ![p] = @ + 1]
  /\ jobs' = [jobs EXCEPT ![i].step = "queued", ![i].turn = gate[p] + 1]
  /\ UNCHANGED <<head, trigs, crossed>>

PastGate(i) == jobs[i].step \notin {"spawned", "queued", "done"}

(* Mutant of Start: any waiter gets the slot.                              *)
StartAny(i) ==
  /\ jobs[i].step = "queued"
  /\ \A k \in DOMAIN jobs : jobs[k].pipeline = jobs[i].pipeline => ~PastGate(k)
  /\ jobs' = [jobs EXCEPT ![i].step = "running", ![i].state = "running"]
  /\ UNCHANGED <<head, trigs, gate, crossed>>

(* The gate hands the slot of the pipeline to the oldest waiter.           *)
Start(i) ==
  /\ jobs[i].step = "queued"
  /\ \A k \in DOMAIN jobs : jobs[k].pipeline = jobs[i].pipeline =>
       ~PastGate(k) /\ (jobs[k].step = "queued" => jobs[i].turn <= jobs[k].turn)
  /\ jobs' = [jobs EXCEPT ![i].step = "running", ![i].state = "running"]
  /\ UNCHANGED <<head, trigs, gate, crossed>>

(* An output commit lands on the pipeline's output branch.                 *)
Publish(i, step, state) ==
  LET p == jobs[i].pipeline IN
  /\ head' = [head EXCEPT ![p] = @ + 1]
  /\ jobs' = [jobs EXCEPT ![i].out = head[p] + 1, ![i].step = step, ![i].state = state]

(* The propagated branch of runJob: recorded failed, an empty output       *)
(* commit, and no trigger for it.                                          *)
FailPropagated(i) ==
  /\ jobs[i].step = "running" /\ jobs[i].propagated
  /\ Publish(i, "done", "failure")
  /\ UNCHANGED <<trigs, gate, crossed>>

(* The heads of the sides that the pairing does not cover.                 *)
LateHeads(i) ==
  LET covered == {c.repo : c \in jobs[i].inputs}
  IN  {Commit(r, head[r]) : r \in {s \in SideSet(jobs[i].pipeline) \ covered : head[s] > 0}}

(* resolve: the job's record grows by them, and is saved ...               *)
Resolve(i) ==
  /\ jobs[i].step = "running" /\ ~jobs[i].propagated
  /\ jobs' = [jobs EXCEPT ![i].inputs = @ \cup LateHeads(i), ![i].late = LateHeads(i),
                          ![i].step = IF LateHeads(i) = {} THEN "checked" ELSE "resolved"]
  /\ UNCHANGED <<head, trigs, gate, crossed>>

(* hasJobWithExactInputs: another job, in any state, with the same inputs. *)
hasJobWithExactInputs(i) ==
  \E k \in DOMAIN jobs \ {i} :
    jobs[k].pipeline = jobs[i].pipeline /\ jobs[k].inputs = jobs[i].inputs

(* ... and gives them up, under triggerMu, when a sibling has them all.    *)
CheckSibling(i) ==
  /\ jobs[i].step = "resolved"
  /\ jobs' = [jobs EXCEPT
       ![i].step = "checked",
       ![i].inputs = IF hasJobWithExactInputs(i) THEN @ \ jobs[i].late ELSE @,
       ![i].late = {}]
  /\ UNCHANGED <<head, trigs, gate, crossed>>

Full(i) == {c.repo : c \in jobs[i].inputs} = SideSet(jobs[i].pipeline)

(* No datums: success, and no output commit.                               *)
NoDatums(i) ==
  /\ jobs[i].step = "checked"
  /\ Full(i) => jobs[i].pipeline \in MayBeEmpty
  /\ jobs' = [jobs EXCEPT ![i].state = "success", ![i].step = "done"]
  /\ UNCHANGED <<head, trigs, gate, crossed>>

(* The transform succeeds and the output commit is finished ...            *)
FinishOutput(i) ==
  /\ jobs[i].step = "checked" /\ Full(i)
  /\ Publish(i, "published", "running")
  /\ UNCHANGED <<trigs, gate, crossed>>

(* ... the job is recorded successful and triggers ...                     *)
Succeed(i) ==
  /\ jobs[i].step = "published"
  /\ jobs' = [jobs EXCEPT ![i].state = "success", ![i].step = "triggering"]
  /\ trigs' = trigs \cup {NewTrigger(Commit(jobs[i].pipeline, jobs[i].out))}
  /\ UNCHANGED <<head, gate, crossed>>

(* ... or the egress fails: recorded failed, and no trigger.               *)
FailLate(i) ==
  /\ jobs[i].step = "published" /\ jobs[i].pipeline \in MayFailSetup
  /\ jobs' = [jobs EXCEPT ![i].state = "failure", ![i].step = "done"]
  /\ UNCHANGED <<head, trigs, gate, crossed>>

(* The transform fails, or cannot be set up: recorded failed before ...    *)
Fail(i) ==
  /\ jobs[i].step = "checked" /\ Full(i) /\ jobs[i].pipeline \in MayFail \cup MayFailSetup
  /\ jobs' = [jobs EXCEPT ![i].state = "failure", ![i].step = "failed"]
  /\ UNCHANGED <<head, trigs, gate, crossed>>

(* ... its output commit is finished and triggers ...                      *)
FinishFailed(i) ==
  /\ jobs[i].step = "failed" /\ jobs[i].pipeline \in MayFail
  /\ Publish(i, "triggering", "failure")
  /\ trigs' = trigs \cup {NewTrigger(Commit(jobs[i].pipeline, head[jobs[i].pipeline] + 1))}
  /\ UNCHANGED <<gate, crossed>>

(* ... or does not: a customization, a secret or the merge of the outputs  *)
(* failed.                                                                 *)
FinishQuietly(i) ==
  /\ jobs[i].step = "failed" /\ jobs[i].pipeline \in MayFailSetup
  /\ Publish(i, "done", "failure")
  /\ UNCHANGED <<trigs, gate, crossed>>

(* An input cannot be read, or the output commit not be made or filled:    *)
(* recorded failed, without one.                                           *)
FailEarly(i) ==
  /\ jobs[i].step = "checked" /\ Full(i) /\ jobs[i].pipeline \in MayFailSetup
  /\ jobs' = [jobs EXCEPT ![i].state = "failure", ![i].step = "done"]
  /\ UNCHANGED <<head, trigs, gate, crossed>>

----------------------------------------------------------------------------
TrigNext(t) == Return(t) \/ \E k \in t.todo : ReadSide(t, k) \/ Spawn(t, k)

JobNext(i) ==
  \/ Enter(i) \/ Start(i) \/ FailPropagated(i) \/ Resolve(i) \/ CheckSibling(i) \/ NoDatums(i)
  \/ FinishOutput(i) \/ Succeed(i) \/ FailLate(i) \/ Fail(i) \/ FinishFailed(i)
  \/ FinishQuietly(i) \/ FailEarly(i)

Next ==
  \/ \E s \in Sources : ClientCommit(s)
  \/ \E t \in trigs : TrigNext(t)
  \/ \E i \in DOMAIN jobs : JobNext(i)

Spec == Init /\ [][Next]_vars

----------------------------------------------------------------------------
(* Correctness.                                                            *)

(* Nothing is under way.                                                   *)
Quiescent == trigs = {} /\ \A i \in DOMAIN jobs : jobs[i].step = "done"

(* A pairing is never run by two jobs at once: the check and the creation  *)
(* are atomic under triggerMu, and a job that grew into a pairing of a     *)
(* sibling gives it up before it works.                                    *)
OneLivePairing ==
  \A i, k \in DOMAIN jobs :
    /\ i # k /\ jobs[i].pipeline = jobs[k].pipeline
    /\ Full(i) /\ jobs[i].inputs = jobs[k].inputs
    /\ jobs[i].state \in {"queued", "running"} /\ jobs[k].state \in {"queued", "running"}
    => jobs[i].step = "resolved" \/ jobs[k].step = "resolved"

(* "A racing pair of input commits on the two sides of a cross never       *)
(* double-spawns the pairing job" (README). It fails: a pairing whose job  *)
(* has settled can be run again.                                           *)
OneJobPerPairing ==
  \A i, k \in DOMAIN jobs :
    i # k /\ jobs[i].pipeline = jobs[k].pipeline /\ Full(i) /\ jobs[i].inputs = jobs[k].inputs
    => jobs[i].step = "resolved" \/ jobs[k].step = "resolved"

(* "The final head converges to completion" (triggerForCommit): when       *)
(* everything is still, the heads every pipeline now reads have been       *)
(* consumed by one of its jobs, whichever triggers were deferred, skipped  *)
(* or paired with a stale side on the way.                                 *)
HeadsConsumed ==
  Quiescent => \A p \in Pipelines :
    (\A r \in SideSet(p) : head[r] > 0) =>
      \E i \in DOMAIN jobs : jobs[i].pipeline = p
                             /\ jobs[i].inputs = {Commit(r, head[r]) : r \in SideSet(p)}

(* "Two sides deriving from the same source must pair at the same source   *)
(* revision" (crossPairingConsistent): no job works on a mixed pairing. It *)
(* fails: a job that waited for its inputs takes late heads without the    *)
(* check.                                                                  *)
MatchedRevisions ==
  \A i \in DOMAIN jobs : jobs[i].step # "resolved" => crossPairingConsistent(jobs[i].inputs)

(* "Keeps its output commits strictly ordered" (jobGate): the jobs of a    *)
(* pipeline publish in the order in which they entered the gate, whatever  *)
(* fails in between.                                                       *)
OutputsInTurn ==
  \A i, k \in DOMAIN jobs :
    /\ jobs[i].pipeline = jobs[k].pipeline /\ 0 < jobs[i].turn /\ jobs[i].turn < jobs[k].turn
    /\ jobs[i].out > 0 /\ jobs[k].out > 0
    => jobs[i].out < jobs[k].out

(* Along a line the jobs of a pipeline are spawned in the order of the     *)
(* commits they read: a job triggers while it holds its own pipeline's     *)
(* slot.  Triggers of a client repository have no such order once two of   *)
(* them have overlapped.                                                   *)
SpawnedInOrder ==
  \A i, k \in DOMAIN jobs :
    i < k /\ jobs[i].pipeline = jobs[k].pipeline =>
      \A c \in jobs[i].inputs, d \in jobs[k].inputs :
        c.repo = d.repo /\ c.repo \notin crossed => c.n <= d.n

(* "A later commit's content is never stranded under an earlier commit's   *)
(* output", since the gate takes jobs "in spawn order" (jobGate).  It      *)
(* fails: the goroutines of two jobs enter the gate in either order.       *)
OutputsInOrder ==
  \A i, k \in DOMAIN jobs :
    /\ jobs[i].pipeline = jobs[k].pipeline /\ 0 < jobs[i].out /\ jobs[i].out < jobs[k].out
    => \A c \in jobs[i].inputs, d \in jobs[k].inputs : c.repo = d.repo => c.n <= d.n

(* The other half of "a failed stage fails every downstream stage": no job *)
(* succeeds on the output of a failed one.                                 *)
FailureNotMasked ==
  \A i, k \in DOMAIN jobs :
    jobs[k].out > 0 /\ jobs[k].state = "failure" /\ jobs[i].state = "success"
    => Commit(jobs[k].pipeline, jobs[k].out) \notin jobs[i].inputs

(* "A failed stage fails every downstream stage" (README): when everything *)
(* is still, every pipeline that reads the output of a failed job has a    *)
(* failed job for it. It fails: a job that failed by propagation publishes *)
(* an empty commit and triggers nobody.                                    *)
FailureReachesAll ==
  Quiescent => \A i \in DOMAIN jobs :
    jobs[i].state = "failure" =>
      \A l \in Consumers(jobs[i].pipeline) :
        \E k \in DOMAIN jobs : /\ jobs[k].pipeline = PipelineList[l] /\ jobs[k].state = "failure"
                               /\ Commit(jobs[i].pipeline, jobs[i].out) \in jobs[k].inputs
=============================================================================
