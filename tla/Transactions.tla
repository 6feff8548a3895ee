---------------------------- MODULE Transactions ----------------------------
(***************************************************************************)
(* One pipeline transaction (transaction.go): operations are staged, then  *)
(* finishTransaction validates them all, holds the event triggers of the   *)
(* staged pipelines, applies the operations one by one, undoing them when  *)
(* one fails, and leaves a coordinator behind that schedules one head job  *)
(* per pipeline, upstream first.                                           *)
(*                                                                         *)
(* Meanwhile commits arrive, jobs end, and requests outside of the         *)
(* transaction update the same pipelines.  A pipeline consumes one         *)
(* repository, which may be the output of another; commits are numbered,   *)
(* and a job is started on the number its input's head has.                *)
(***************************************************************************)
EXTENDS Integers, Sequences, FiniteSets

CONSTANTS
  PipeList,      \* the pipelines, in the order of their names
  Source,        \* the one repository no pipeline writes
  Consumes,      \* the repository each pipeline reads
  Existing,      \* the pipelines there are at the beginning
  OpLists,       \* what may be staged: sequences of operations on pipelines
  MaxCommits,    \* bound: the commits of the source
  MaxOutputs,    \* bound: the output commits of each pipeline
  MaxOutside,    \* bound: the updates outside of the transaction, ...
  MaxJobs        \* ... which come while there are fewer jobs than this

VARIABLES
  version,   \* the version of each pipeline's record; 0 when there is none
  archive,   \* the archived versions
  head,      \* the head of each repository; 0 when it has none
  signal,    \* the triggers on their way
  hold,      \* txHold
  pending,   \* txPending
  tx,        \* the transaction: its step, its operations, how many are applied
  coord,     \* the coordinator: its step, its order, how far it is, its jobs
  job,       \* all jobs, in the order they were spawned
  outside,   \* how many updates outside of the transaction there were
  before     \* history: the versions when the transaction began to apply

vars == <<version, archive, head, signal, hold, pending, tx, coord, job, outside, before>>

Pipes == {PipeList[k] : k \in DOMAIN PipeList}
Repos == Pipes \cup {Source}
Operations == [kind : {"create", "update"}, pipe : Pipes]
Staged == {tx.ops[n].pipe : n \in DOMAIN tx.ops}
Deps(p) == Staged \cap {Consumes[p]}

(* topoOrder: an order of the staged pipelines with the consumed ones      *)
(* first; which one depends on the iteration order of a map.  There is     *)
(* none when they form a cycle.                                            *)
topoOrder(final) ==
  {order \in [1 .. Cardinality(final) -> final] :
     /\ \A p \in final : \E n \in DOMAIN order : order[n] = p
     /\ \A n, m \in DOMAIN order : Consumes[order[m]] = order[n] => n < m}

Job == [pipe : Pipes, input : Nat, version : Nat, byTx : BOOLEAN, cancelled : BOOLEAN,
        step : {"live", "published", "terminal", "over"}]

TypeOK ==
  /\ version \in [Pipes -> Nat] /\ before \in [Pipes -> Nat]
  /\ archive \in [Pipes -> SUBSET Nat]
  /\ head \in [Repos -> Nat] /\ signal \subseteq [repo : Repos, n : Nat, k : DOMAIN PipeList]
  /\ hold \in [Pipes -> BOOLEAN] /\ pending \in [Pipes -> BOOLEAN]
  /\ tx.step \in {"staging", "staged", "valid", "apply", "cancelled", "rollback", "done",
                "aborted", "refused"}
  /\ tx.ops \in Seq(Operations) /\ DOMAIN tx.baseline = DOMAIN tx.ops /\ tx.n \in 0 .. Len(tx.ops) + 1
  /\ coord.step \in {"off", "wait", "claim", "schedule", "check", "over"}
  /\ job \in Seq(Job) /\ outside \in 0 .. MaxOutside

Init ==
  /\ version = [p \in Pipes |-> IF p \in Existing THEN 1 ELSE 0]
  /\ archive = [p \in Pipes |-> IF p \in Existing THEN {1} ELSE {}]
  /\ head = [r \in Repos |-> 0]
  /\ signal = {}
  /\ hold = [p \in Pipes |-> FALSE] /\ pending = [p \in Pipes |-> FALSE]
  /\ \E ops \in OpLists :
       tx = [step |-> "staging", ops |-> ops, baseline |-> [n \in DOMAIN ops |-> 0], n |-> 1,
             loaded |-> 0]
  /\ coord = [step |-> "off", order |-> <<>>, n |-> 1, loaded |-> 0,
              scheduled |-> [p \in Pipes |-> 0]]
  /\ job = <<>>
  /\ outside = 0
  /\ before = version

----------------------------------------------------------------------------
(* Commits, triggers and jobs.                                             *)

Live(j) == job[j].step \in {"live", "published"}
NewJob(p, byTx) == [pipe |-> p, input |-> head[Consumes[p]], version |-> version[p],
                    byTx |-> byTx, cancelled |-> FALSE, step |-> "live"]

(* triggerForCommit shows a finished commit to one pipeline after another; *)
(* k: the next one.                                                        *)
Signal(r, n) == [repo |-> r, n |-> n, k |-> 1]

SourceCommit ==
  /\ head[Source] < MaxCommits
  /\ head' = [head EXCEPT ![Source] = @ + 1]
  /\ signal' = signal \cup {Signal(Source, head[Source] + 1)}
  /\ UNCHANGED <<version, archive, hold, pending, tx, coord, job, outside, before>>

(* A held pipeline has the arrival noted, whether it consumes the commit   *)
(* or not (txNoteTrigger); a consumer gets a job, but no second one for    *)
(* the pairing of a live one.                                              *)
Trigger(s) ==
  LET p == PipeList[s.k]
      current == \E j \in DOMAIN job : /\ job[j].pipe = p /\ Live(j)
                                       /\ job[j].input = head[Consumes[p]]
  IN
  /\ signal' = (signal \ {s})
       \cup (IF s.k < Len(PipeList) THEN {[s EXCEPT !.k = @ + 1]} ELSE {})
  /\ IF hold[p]
       THEN pending' = [pending EXCEPT ![p] = TRUE] /\ job' = job
       ELSE /\ pending' = pending
            /\ job' = IF version[p] = 0 \/ Consumes[p] # s.repo \/ current
                        THEN job ELSE Append(job, NewJob(p, FALSE))
  /\ UNCHANGED <<version, archive, head, hold, tx, coord, outside, before>>

(* A job ends in three steps: its output is finished, its record becomes   *)
(* terminal, the consumers are triggered (a killed job's are not, but the  *)
(* kill may come too late).  The jobs of a pipeline run one after another. *)
JobStep(j, from, to) ==
  /\ j \in DOMAIN job /\ job[j].step = from
  /\ job' = [job EXCEPT ![j].step = to]
  /\ UNCHANGED <<version, archive, hold, pending, tx, coord, outside, before>>

JobPublishes(j) ==
  /\ JobStep(j, "live", "published")
  /\ \A k \in DOMAIN job : k < j /\ job[k].pipe = job[j].pipe => job[k].step = "over"
  /\ head[job[j].pipe] < MaxOutputs[job[j].pipe]
  /\ head' = [head EXCEPT ![job[j].pipe] = @ + 1]
  /\ signal' = signal
JobSettles(j) == JobStep(j, "published", "terminal") /\ UNCHANGED <<head, signal>>
JobTriggers(j) ==
  /\ JobStep(j, "terminal", "over")
  /\ \/ job[j].cancelled /\ signal' = signal
     \/ signal' = signal \cup {Signal(job[j].pipe, head[job[j].pipe])}
  /\ head' = head

(* An update outside of the transaction: the jobs are cancelled, the       *)
(* version saved, a head job spawned.                                      *)
Cancelled(p) == [j \in DOMAIN job |-> IF job[j].pipe = p /\ Live(j)
                                        THEN [job[j] EXCEPT !.cancelled = TRUE] ELSE job[j]]
OutsideUpdate(p) ==
  /\ outside < MaxOutside /\ version[p] > 0 /\ Len(job) < MaxJobs
  /\ outside' = outside + 1
  /\ version' = [version EXCEPT ![p] = @ + 1]
  /\ archive' = [archive EXCEPT ![p] = @ \cup {version[p] + 1}]
  /\ job' = IF head[Consumes[p]] = 0 THEN Cancelled(p)
            ELSE Append(Cancelled(p), [NewJob(p, FALSE) EXCEPT !.version = @ + 1])
  /\ UNCHANGED <<head, signal, hold, pending, tx, coord, before>>

----------------------------------------------------------------------------
(* The transaction.                                                        *)

(* stageTxOp notes the version an update is based on.                      *)
stageTxOp ==
  /\ tx.step = "staging"
  /\ tx' = [tx EXCEPT !.baseline[tx.n] =
                        IF tx.ops[tx.n].kind = "update" THEN version[tx.ops[tx.n].pipe] ELSE 0,
                      !.n = IF @ = Len(tx.ops) THEN 1 ELSE @ + 1,
                      !.step = IF tx.n = Len(tx.ops) THEN "staged" ELSE "staging"]
  /\ UNCHANGED <<version, archive, head, signal, hold, pending, coord, job, outside, before>>

(* The checks of phase 1.  An operation on a pipeline that an earlier one  *)
(* of the transaction touches is judged by what that one leaves.           *)
Touched(n) == \E m \in DOMAIN tx.ops : m < n /\ tx.ops[m].pipe = tx.ops[n].pipe
ValidOp(n) ==
  LET p == tx.ops[n].pipe IN
  /\ IF tx.ops[n].kind = "create"
       THEN ~Touched(n) /\ version[p] = 0
       ELSE Touched(n) \/ (version[p] > 0 /\ version[p] = tx.baseline[n])
  /\ Consumes[p] \in {Source} \cup Staged \cup {q \in Pipes : version[q] > 0}
Valid == (\A n \in DOMAIN tx.ops : ValidOp(n)) /\ topoOrder(Staged) # {}

Validate ==
  /\ tx.step = "staged"
  /\ tx' = [tx EXCEPT !.step = IF Valid THEN "valid" ELSE "refused"]
  /\ UNCHANGED <<version, archive, head, signal, hold, pending, coord, job, outside, before>>

(* Phase 2 begins: the staged pipelines are held.                          *)
HoldAll ==
  /\ tx.step = "valid"
  /\ tx' = [tx EXCEPT !.step = "apply"]
  /\ hold' = [p \in Pipes |-> hold[p] \/ p \in Staged]
  /\ before' = version
  /\ UNCHANGED <<version, archive, head, signal, pending, coord, job, outside>>

Op == tx.ops[tx.n]
Applied(p, v) ==
  /\ version' = [version EXCEPT ![p] = v]
  /\ archive' = [archive EXCEPT ![p] = @ \cup {v}]
  /\ tx' = [tx EXCEPT !.n = @ + 1, !.step = "apply"]
  /\ UNCHANGED <<head, signal, hold, pending, coord, outside, before>>

applyCreate ==
  /\ tx.step = "apply" /\ tx.n <= Len(tx.ops) /\ Op.kind = "create"
  /\ Applied(Op.pipe, 1) /\ job' = job

(* An update loads the record, then cancels the pipeline's jobs and waits  *)
(* for them (or for its budget); the new version is based on the record.   *)
CancelJobs ==
  /\ tx.step = "apply" /\ tx.n <= Len(tx.ops) /\ Op.kind = "update"
  /\ tx' = [tx EXCEPT !.step = "cancelled", !.loaded = version[Op.pipe]]
  /\ job' = Cancelled(Op.pipe)
  /\ UNCHANGED <<version, archive, head, signal, hold, pending, coord, outside, before>>

applyUpdate ==
  /\ tx.step = "cancelled"
  /\ Applied(Op.pipe, tx.loaded + 1) /\ job' = job

(* An operation cannot be applied: the holds are released, what came in    *)
(* while held is forgotten, and the applied operations are undone.         *)
txAbortHolds ==
  /\ tx.step \in {"apply", "cancelled"} /\ tx.n <= Len(tx.ops)
  /\ hold' = [p \in Pipes |-> hold[p] /\ p \notin Staged]
  /\ pending' = [p \in Pipes |-> pending[p] /\ p \notin Staged]
  /\ tx' = [tx EXCEPT !.step = "rollback", !.n = @ - 1]
  /\ UNCHANGED <<version, archive, head, signal, coord, job, outside, before>>

(* Mutant of Restored: one version back is taken for the state before.     *)
RestoredPrevious(n) == IF tx.ops[n].kind = "create" THEN 0 ELSE tx.baseline[n] + 1

(* A created pipeline is removed; an updated one gets the archived version *)
(* its operation was based on, if there is one.                            *)
Restored(n) ==
  LET p == tx.ops[n].pipe IN
  IF tx.ops[n].kind = "create" THEN 0
  ELSE IF tx.baseline[n] \in archive[p] THEN tx.baseline[n] ELSE version[p]

rollbackTx ==
  /\ tx.step = "rollback"
  /\ IF tx.n = 0
       THEN tx' = [tx EXCEPT !.step = "aborted"] /\ UNCHANGED <<version, archive>>
       ELSE /\ tx' = [tx EXCEPT !.n = @ - 1]
            /\ version' = [version EXCEPT ![Op.pipe] = Restored(tx.n)]
            /\ archive' = IF Op.kind = "create" THEN [archive EXCEPT ![Op.pipe] = {}] ELSE archive
  /\ UNCHANGED <<head, signal, hold, pending, coord, job, outside, before>>

(* All is applied: the coordinator takes over.                             *)
FinishTransaction ==
  /\ tx.step = "apply" /\ tx.n = Len(tx.ops) + 1
  /\ tx' = [tx EXCEPT !.step = "done"]
  /\ \E order \in topoOrder(Staged) : coord' = [coord EXCEPT !.step = "wait", !.order = order]
  /\ UNCHANGED <<version, archive, head, signal, hold, pending, job, outside, before>>

----------------------------------------------------------------------------
(* txCoordinate.                                                           *)
Current == coord.order[coord.n]
CoordStep(step) == coord' = [coord EXCEPT !.step = step]
NextPipe(c) == [c EXCEPT !.n = @ + 1, !.step = IF c.n = Len(c.order) THEN "over" ELSE "wait"]

(* Mutant of waitJobSettled: without the bound of five minutes.            *)
waitJobSettledForever(j) == j \in DOMAIN job => ~Live(j)

(* The wait for an upstream head job ends when its record is terminal, or  *)
(* after five minutes: at any time.                                        *)
waitJobSettled(j) == TRUE

WaitForDeps ==
  /\ coord.step = "wait"
  /\ \A d \in Deps(Current) : waitJobSettled(coord.scheduled[d])
  /\ IF version[Current] = 0
       THEN /\ hold' = [hold EXCEPT ![Current] = FALSE]
            /\ pending' = [pending EXCEPT ![Current] = FALSE]
            /\ coord' = NextPipe(coord)
       ELSE /\ coord' = [coord EXCEPT !.step = "claim", !.loaded = version[Current]]
            /\ UNCHANGED <<hold, pending>>
  /\ UNCHANGED <<version, archive, head, signal, tx, job, outside, before>>

(* The pipeline is held, earlier arrivals are cleared: the head job is     *)
(* about to take them in.                                                  *)
Claim ==
  /\ coord.step = "claim"
  /\ hold' = [hold EXCEPT ![Current] = TRUE]
  /\ pending' = [pending EXCEPT ![Current] = FALSE]
  /\ CoordStep("schedule")
  /\ UNCHANGED <<version, archive, head, signal, tx, job, outside, before>>

scheduleHeadJob ==
  /\ coord.step = "schedule"
  /\ IF head[Consumes[Current]] = 0
       THEN job' = job /\ CoordStep("check")
       ELSE /\ job' = Append(job, [NewJob(Current, TRUE) EXCEPT !.version = coord.loaded])
            /\ coord' = [coord EXCEPT !.step = "check", !.scheduled[Current] = Len(job) + 1]
  /\ UNCHANGED <<version, archive, head, signal, hold, pending, tx, outside, before>>

(* Mutant of Again: arrivals while held are not looked for.                *)
AgainNever(p) == FALSE

(* A commit that arrived while the head job was scheduled: once more.      *)
Again(p) == pending[p]

CheckPending ==
  /\ coord.step = "check"
  /\ hold' = [hold EXCEPT ![Current] = FALSE]
  /\ coord' = IF Again(Current) THEN [coord EXCEPT !.step = "claim"] ELSE NextPipe(coord)
  /\ UNCHANGED <<version, archive, head, signal, pending, tx, job, outside, before>>

----------------------------------------------------------------------------
TxStep == \/ stageTxOp \/ Validate \/ HoldAll \/ applyCreate \/ CancelJobs \/ applyUpdate
          \/ rollbackTx \/ FinishTransaction
          \/ WaitForDeps \/ Claim \/ scheduleHeadJob \/ CheckPending

Next ==
  \/ SourceCommit \/ TxStep \/ txAbortHolds
  \/ \E s \in signal : Trigger(s)
  \/ \E j \in DOMAIN job : JobPublishes(j) \/ JobSettles(j) \/ JobTriggers(j)
  \/ \E p \in Pipes : OutsideUpdate(p)

Spec == Init /\ [][Next]_vars

(* The request's goroutine and the coordinator run; jobs may hang.         *)
Fairness == WF_vars(TxStep)
FairSpec == Spec /\ Fairness

----------------------------------------------------------------------------
AtRest == /\ signal = {} /\ \A j \in DOMAIN job : job[j].step = "over"
          /\ tx.step \in {"refused", "aborted"} \/ coord.step = "over"

(* No commit is overlooked between the triggers and the coordinator: when  *)
(* everything is at rest, the head of every pipeline's input has had a     *)
(* job, unless the transaction was undone (transaction.go: "so the         *)
(* coordinator re-schedules rather than missing it").                      *)
HeadsScheduled ==
  AtRest /\ tx.step # "aborted" =>
    \A p \in Pipes : version[p] > 0 /\ head[Consumes[p]] > 0 =>
      \E j \in DOMAIN job : job[j].pipe = p /\ job[j].input = head[Consumes[p]]

Count(p) == Cardinality({n \in DOMAIN tx.ops : tx.ops[n].pipe = p})

(* A transaction is applied as a whole or undone as a whole, if nobody     *)
(* updates the pipelines at the same time (transaction.go: "either every   *)
(* staged operation takes effect or none does").                           *)
AllOrNothing ==
  outside = 0 =>
    /\ tx.step \in {"aborted", "refused"} => version = before
    /\ tx.step = "done" => \A p \in Pipes : version[p] = before[p] + Count(p)

(* The triggers of a pipeline are not held for ever, though a job hangs    *)
(* (transaction.go: a wedged job "must not hold the transaction's trigger  *)
(* suppression forever").                                                  *)
HoldsReleased == \A p \in Pipes : []<>~hold[p]

(* What arrived while an undone transaction held the pipeline is processed *)
(* all the same (jobs.go: "Every finished commit on a watched branch ...   *)
(* triggers exactly one job per consuming pipeline"). It fails: the        *)
(* triggers that were held are dropped with the holds.                     *)
AbortLosesNothing ==
  AtRest => \A p \in Pipes : version[p] > 0 /\ head[Consumes[p]] > 0 =>
    \E j \in DOMAIN job : job[j].pipe = p /\ job[j].input = head[Consumes[p]]

(* Every staged pipeline gets one job for an input (transaction.go: "each  *)
(* updated pipeline produces exactly one new output commit and one new     *)
(* job"). It fails: an update from outside that comes between the claim of *)
(* the coordinator and its schedule makes a job for the same input.        *)
OneJobEach ==
  \A i, j \in DOMAIN job :
    i # j /\ job[i].byTx /\ job[j].pipe = job[i].pipe /\ job[j].version = job[i].version
      => job[i].input # job[j].input

(* A modification outside of the transaction is never overwritten          *)
(* (transaction.go: "applies nothing rather than silently overwriting").   *)
(* It fails: the versions are compared first and the operations applied    *)
(* later, without a lock over both.                                        *)
OutsideNeverOverwritten ==
  [][FinishTransaction =>
       \A n \in DOMAIN tx.ops : tx.ops[n].kind = "update" /\ ~Touched(n) =>
         version[tx.ops[n].pipe] = tx.baseline[n] + Count(tx.ops[n].pipe)]_vars
=============================================================================
