------------------------------ MODULE TxProof ------------------------------
(***************************************************************************)
(* Proofs about pipeline transactions (Transactions, as MCFlow puts it     *)
(* together with the other models): a transaction takes effect as a whole  *)
(* or not at all, and no commit is overlooked between its coordinator and  *)
(* the triggers, for every list of operations and every graph of pipelines *)
(* in which each consumes one repository.                                  *)
(***************************************************************************)
EXTENDS MCFlow, TLAPS, FiniteSetTheorems

(* Where the request that finishes the transaction may be.                 *)
EarlySteps == {"staging", "staged", "valid", "refused"}
UndoSteps == {"rollback", "aborted"}
TxSteps == EarlySteps \cup UndoSteps \cup {"apply", "cancelled", "done"}
CoordSteps == {"wait", "claim", "schedule", "check"}

TxTypes ==
  /\ txVersion \in [Tx!Pipes -> Nat] /\ before \in [Tx!Pipes -> Nat]
  /\ versions \in [Tx!Pipes -> SUBSET Nat]
  /\ txHead \in [Tx!Repos -> Nat]
  /\ signal \subseteq [repo : Tx!Repos, n : Nat, k : DOMAIN TxPipes]
  /\ hold \in [Tx!Pipes -> BOOLEAN] /\ pending \in [Tx!Pipes -> BOOLEAN]
  /\ tx \in [step : TxSteps, ops : TxOpLists, baseline : [DOMAIN tx.ops -> Nat], n : Nat, loaded : Nat]
  /\ coord \in [step : CoordSteps \cup {"off", "over"}, order : Seq(Tx!Pipes), n : Nat \ {0},
                loaded : Nat, scheduled : [Tx!Pipes -> Nat]]
  /\ txJob \in Seq(Tx!Job) /\ outside \in Nat

(* Where the transaction and its coordinator are in their lists.           *)
PlaceInv ==
  /\ tx.step \in {"staging", "cancelled"} => tx.n \in DOMAIN tx.ops
  /\ tx.step \in {"staged", "valid"} => tx.n = 1
  /\ tx.step = "apply" => tx.n \in 1 .. Len(tx.ops) + 1
  /\ tx.step = "rollback" => tx.n \in 0 .. Len(tx.ops)
  /\ tx.step = "done" <=> coord.step # "off"
  /\ coord.step = "off" => coord.n = 1
  /\ coord.step \in CoordSteps => coord.n \in DOMAIN coord.order
  /\ coord.step = "over" => coord.n = Len(coord.order) + 1
  /\ coord.step # "off" => \A m \in DOMAIN coord.order : coord.order[m] \in Tx!Staged

(* The operations that touched a pipeline among the first.                 *)
Before(n, p) == {m \in DOMAIN tx.ops : m < n /\ tx.ops[m].pipe = p}

(* An update notes the version it is based on.                             *)
Baselines ==
  \A n \in DOMAIN tx.ops : tx.step # "staging" \/ n < tx.n =>
    tx.baseline[n] = IF tx.ops[n].kind = "update" THEN before[tx.ops[n].pipe] ELSE 0

(* What validation has established of the versions before.                 *)
Valids ==
  tx.step \in {"valid", "apply", "cancelled", "rollback"} => \A n \in DOMAIN tx.ops :
    /\ tx.ops[n].kind = "create" => ~Tx!Touched(n) /\ before[tx.ops[n].pipe] = 0
    /\ tx.ops[n].kind = "update" /\ ~Tx!Touched(n) => before[tx.ops[n].pipe] > 0

(* Rollback finds the version to go back to in the archive.                *)
Archived == \A p \in Tx!Pipes : before[p] > 0 => before[p] \in versions[p]

(* How far each pipeline's version has come, or has been taken back: an    *)
(* operation counts for its pipeline once it is among those applied.       *)
Extent ==
  /\ tx.step \in EarlySteps \cup {"aborted"} => txVersion = before
  /\ tx.step \in {"apply", "cancelled"} =>
       \A p \in Tx!Pipes : txVersion[p] = before[p] + Cardinality(Before(tx.n, p))
  /\ tx.step = "cancelled" => tx.loaded = txVersion[Tx!Op.pipe]
  /\ tx.step = "done" => \A p \in Tx!Pipes : txVersion[p] = before[p] + Cardinality(Before(Len(tx.ops) + 1, p))
  /\ tx.step = "rollback" =>
       \A p \in Tx!Pipes : (\A m \in 1 .. tx.n : tx.ops[m].pipe # p) => txVersion[p] = before[p]

WholeInv == outside = 0 => Baselines /\ Valids /\ Archived /\ Extent

(* The coordinator has still to schedule p's head job, or will look at its *)
(* arrivals once more.                                                     *)
Left(p) ==
  \E m \in DOMAIN coord.order :
    /\ coord.order[m] = p
    /\ \/ m > coord.n
       \/ m = coord.n /\ (coord.step = "check" => pending[p])
(* The coordinator has not moved past p.                                   *)
Due(p) == \E m \in DOMAIN coord.order : coord.order[m] = p /\ m >= coord.n
Applying(p) == tx.step \in {"apply", "cancelled"} /\ p \in Tx!Staged
(* A head job of p is bound to come from the transaction.                  *)
Owed(p) == Applying(p) \/ (tx.step = "done" /\ Left(p))

(* Triggers are held only where a head job is bound to come.               *)
HoldInv ==
  /\ \A p \in Tx!Pipes : hold[p] => Applying(p) \/ (tx.step = "done" /\ Due(p))
  /\ tx.step \in {"apply", "cancelled"} =>
       \A m \in DOMAIN tx.ops : m < tx.n => txVersion[tx.ops[m].pipe] > 0
  /\ tx.step = "done" => \A p \in Tx!Staged : txVersion[p] > 0

(* Every trigger and every job has a commit behind it.                     *)
Positive ==
  /\ \A s \in signal : txHead[s.repo] > 0
  /\ \A j \in DOMAIN txJob : /\ txHead[TxConsumes[txJob[j].pipe]] > 0
                             /\ txJob[j].step \in {"published", "terminal"} => txHead[txJob[j].pipe] > 0

Working(j) == txJob[j].step # "over" /\ ~txJob[j].cancelled
(* A cancelled job of which the consumers may still hear nothing is        *)
(* followed by a job that is not.                                          *)
Renewed ==
  \A j \in DOMAIN txJob : txJob[j].cancelled /\ txJob[j].step # "over" =>
    \/ Owed(txJob[j].pipe)
    \/ \E k \in DOMAIN txJob : /\ k > j /\ txJob[k].pipe = txJob[j].pipe
                               /\ txJob[k].step = "live" /\ ~txJob[k].cancelled

Fresh(p) == \E j \in DOMAIN txJob : txJob[j].pipe = p /\ txJob[j].input = txHead[TxConsumes[p]]
Announced(p) ==
  \E s \in signal : s.repo = TxConsumes[p] /\ \E k \in DOMAIN TxPipes : s.k <= k /\ TxPipes[k] = p
Coming(r) == \/ \E j \in DOMAIN txJob : txJob[j].pipe = r /\ Working(j)
             \/ r \in Tx!Pipes /\ Owed(r) /\ txHead[TxConsumes[r]] > 0
(* Whatever a pipeline's input has at its head is processed, on its way to *)
(* the pipeline, about to be replaced by a later head, or left to the      *)
(* coordinator.                                                            *)
Noticed ==
  \A p \in Tx!Pipes : txVersion[p] > 0 /\ txHead[TxConsumes[p]] > 0 =>
    Fresh(p) \/ Announced(p) \/ Coming(TxConsumes[p]) \/ Owed(p)

HeadInv == tx.step \notin UndoSteps => HoldInv /\ Renewed /\ Noticed

TxInv == TxTypes /\ PlaceInv /\ WholeInv /\ Positive /\ HeadInv

LEMMA TxConstants ==
  /\ DOMAIN TxPipes = 1 .. Len(TxPipes) /\ Len(TxPipes) \in Nat
  /\ \A k \in DOMAIN TxPipes : TxPipes[k] \in Tx!Pipes
  /\ \A p \in Tx!Pipes : p \in Tx!Repos /\ TxConsumes[p] \in Tx!Repos
  /\ TxOpLists \subseteq Seq(Tx!Operations) \ {<<>>}
  /\ TxSource \in Tx!Repos
<1>1. Tx!Pipes = Range(TxPipes)
  BY DEF Tx!Pipes, Range
<1>2. /\ TxPipes \in Seq(Tx!Pipes) /\ TxConsumes \in [Tx!Pipes -> Tx!Pipes \cup {TxSource}]
      /\ TxOpLists \subseteq Seq([kind : {"create", "update"}, pipe : Tx!Pipes]) \ {<<>>}
  BY <1>1, FlowAssumption
<1>3. DOMAIN TxPipes = 1 .. Len(TxPipes) /\ Len(TxPipes) \in Nat
  BY <1>2
<1>4. \A k \in DOMAIN TxPipes : TxPipes[k] \in Tx!Pipes
  BY DEF Tx!Pipes
<1>5. \A p \in Tx!Pipes : p \in Tx!Repos /\ TxConsumes[p] \in Tx!Repos
  BY <1>2 DEF Tx!Repos
<1> QED
  BY <1>2, <1>3, <1>4, <1>5 DEF Tx!Repos, Tx!Operations

LEMMA OpTyped ==
  ASSUME TxTypes
  PROVE  /\ tx.ops \in Seq(Tx!Operations) /\ tx.ops # <<>> /\ Len(tx.ops) \in Nat \ {0}
         /\ DOMAIN tx.ops = 1 .. Len(tx.ops)
         /\ \A n \in DOMAIN tx.ops : /\ tx.ops[n].pipe \in Tx!Pipes
                                     /\ tx.ops[n].kind \in {"create", "update"}
                                     /\ tx.baseline[n] \in Nat
<1>1. tx.ops \in TxOpLists /\ tx.baseline \in [DOMAIN tx.ops -> Nat]
  BY DEF TxTypes
<1>2. tx.ops \in Seq(Tx!Operations) /\ tx.ops # <<>>
  BY <1>1, TxConstants
<1>3. Len(tx.ops) \in Nat \ {0} /\ DOMAIN tx.ops = 1 .. Len(tx.ops)
  BY <1>2
<1>4. \A n \in DOMAIN tx.ops : tx.ops[n] \in Tx!Operations
  BY <1>2
<1> QED
  BY <1>1, <1>2, <1>3, <1>4 DEF Tx!Operations

LEMMA JobTyped ==
  ASSUME TxTypes, NEW j \in DOMAIN txJob
  PROVE  /\ txJob[j] \in Tx!Job /\ j \in 1 .. Len(txJob) /\ Len(txJob) \in Nat
         /\ txJob[j].pipe \in Tx!Pipes /\ TxConsumes[txJob[j].pipe] \in Tx!Repos
         /\ txJob[j].cancelled \in BOOLEAN
<1>1. txJob \in Seq(Tx!Job)
  BY DEF TxTypes
<1>2. txJob[j] \in Tx!Job /\ j \in 1 .. Len(txJob) /\ Len(txJob) \in Nat
  BY <1>1
<1> QED
  BY <1>2, TxConstants DEF Tx!Job

(* A new job, and what becomes of a job that is cancelled.                 *)
LEMMA NewJobTyped ==
  ASSUME TxTypes, NEW p \in Tx!Pipes, NEW q \in BOOLEAN
  PROVE  /\ Tx!NewJob(p, q) \in Tx!Job
         /\ Tx!NewJob(p, q).pipe = p /\ Tx!NewJob(p, q).input = txHead[TxConsumes[p]]
         /\ Tx!NewJob(p, q).step = "live" /\ ~Tx!NewJob(p, q).cancelled
<1>1. txHead[TxConsumes[p]] \in Nat /\ txVersion[p] \in Nat
  BY TxConstants DEF TxTypes
<1> QED
  BY <1>1 DEF Tx!NewJob, Tx!Job

LEMMA CancelledTyped ==
  ASSUME TxTypes, NEW p \in Tx!Pipes
  PROVE  /\ Tx!Cancelled(p) \in Seq(Tx!Job) /\ DOMAIN Tx!Cancelled(p) = DOMAIN txJob
         /\ Len(Tx!Cancelled(p)) = Len(txJob)
         /\ \A j \in DOMAIN txJob :
              /\ Tx!Cancelled(p)[j].pipe = txJob[j].pipe /\ Tx!Cancelled(p)[j].input = txJob[j].input
              /\ Tx!Cancelled(p)[j].step = txJob[j].step
              /\ Tx!Cancelled(p)[j].cancelled =>
                   txJob[j].cancelled \/ (txJob[j].pipe = p /\ txJob[j].step \in {"live", "published"})
              /\ txJob[j].cancelled => Tx!Cancelled(p)[j].cancelled
<1>1. txJob \in Seq(Tx!Job) /\ DOMAIN txJob = 1 .. Len(txJob) /\ Len(txJob) \in Nat
  BY DEF TxTypes
<1>2. Tx!Cancelled(p) = [j \in 1 .. Len(txJob) |->
        IF txJob[j].pipe = p /\ Tx!Live(j) THEN [txJob[j] EXCEPT !.cancelled = TRUE] ELSE txJob[j]]
  BY <1>1 DEF Tx!Cancelled
<1>3. ASSUME NEW j \in 1 .. Len(txJob)
      PROVE  /\ Tx!Cancelled(p)[j] \in Tx!Job
             /\ Tx!Cancelled(p)[j].pipe = txJob[j].pipe /\ Tx!Cancelled(p)[j].input = txJob[j].input
             /\ Tx!Cancelled(p)[j].step = txJob[j].step
             /\ Tx!Cancelled(p)[j].cancelled =>
                  txJob[j].cancelled \/ (txJob[j].pipe = p /\ txJob[j].step \in {"live", "published"})
             /\ txJob[j].cancelled => Tx!Cancelled(p)[j].cancelled
  <2>1. txJob[j] \in Tx!Job
    BY <1>1
  <2>2. CASE txJob[j].pipe = p /\ Tx!Live(j)
    <3>1. Tx!Cancelled(p)[j] = [txJob[j] EXCEPT !.cancelled = TRUE]
      BY <1>2, <2>2
    <3> QED
      BY <2>1, <2>2, <3>1 DEF Tx!Job, Tx!Live
  <2>3. CASE ~(txJob[j].pipe = p /\ Tx!Live(j))
    <3>1. Tx!Cancelled(p)[j] = txJob[j]
      BY <1>2, <2>3
    <3> QED
      BY <2>1, <3>1
  <2> QED
    BY <2>2, <2>3
<1>4. Tx!Cancelled(p) \in [1 .. Len(txJob) -> Tx!Job]
  BY <1>2, <1>3
<1>5. Tx!Cancelled(p) \in Seq(Tx!Job)
  BY <1>1, <1>4
<1>6. DOMAIN Tx!Cancelled(p) = 1 .. Len(txJob)
  BY <1>4
<1>7. Len(Tx!Cancelled(p)) = Len(txJob)
  BY <1>1, <1>5, <1>6
<1> QED
  BY <1>1, <1>3, <1>5, <1>6, <1>7

----------------------------------------------------------------------------
(* Types and places.                                                       *)

LEMMA TxInitial == ASSUME Tx!Init PROVE TxInv
<1>i. /\ txVersion = [p \in Tx!Pipes |-> IF p \in TxExisting THEN 1 ELSE 0]
      /\ versions = [p \in Tx!Pipes |-> IF p \in TxExisting THEN {1} ELSE {}]
      /\ txHead = [r \in Tx!Repos |-> 0] /\ signal = {}
      /\ hold = [p \in Tx!Pipes |-> FALSE] /\ pending = [p \in Tx!Pipes |-> FALSE]
      /\ txJob = <<>> /\ outside = 0 /\ before = txVersion
      /\ coord = [step |-> "off", order |-> <<>>, n |-> 1, loaded |-> 0,
                  scheduled |-> [p \in Tx!Pipes |-> 0]]
  BY DEF Tx!Init
<1>o. PICK ops \in TxOpLists :
        tx = [step |-> "staging", ops |-> ops, baseline |-> [n \in DOMAIN ops |-> 0], n |-> 1,
              loaded |-> 0]
  BY DEF Tx!Init
<1>1. txVersion \in [Tx!Pipes -> Nat] /\ versions \in [Tx!Pipes -> SUBSET Nat]
  BY <1>i
<1>2. /\ txHead \in [Tx!Repos -> Nat] /\ txJob \in Seq(Tx!Job) /\ outside \in Nat
      /\ hold \in [Tx!Pipes -> BOOLEAN] /\ pending \in [Tx!Pipes -> BOOLEAN]
  BY <1>i
<1>3. coord \in [step : CoordSteps \cup {"off", "over"}, order : Seq(Tx!Pipes), n : Nat \ {0},
                 loaded : Nat, scheduled : [Tx!Pipes -> Nat]]
  BY <1>i
<1>4. /\ tx \in [step : TxSteps, ops : TxOpLists, baseline : [DOMAIN tx.ops -> Nat], n : Nat, loaded : Nat]
      /\ tx.step = "staging" /\ tx.n = 1 /\ tx.ops = ops
  BY <1>o DEF TxSteps, EarlySteps
<1>5. TxTypes
  BY <1>i, <1>1, <1>2, <1>3, <1>4 DEF TxTypes
<1>6. tx.n \in DOMAIN tx.ops
  BY <1>4, <1>5, OpTyped
<1>7. PlaceInv
  BY <1>4, <1>6, <1>i DEF PlaceInv, CoordSteps
<1>8. WholeInv
  <2>1. Baselines
    BY <1>4, <1>5, OpTyped DEF Baselines
  <2>2. Valids /\ Extent
    BY <1>4, <1>i DEF Valids, Extent, EarlySteps
  <2>3. Archived
    BY <1>i DEF Archived
  <2> QED
    BY <2>1, <2>2, <2>3 DEF WholeInv
<1>9. Positive /\ HoldInv /\ Renewed /\ Noticed
  <2>1. DOMAIN txJob = {}
    BY <1>i
  <2>2. HoldInv
    BY <1>i, <1>4 DEF HoldInv
  <2>3. Positive /\ Renewed
    BY <1>i, <2>1 DEF Positive, Renewed
  <2>4. \A p \in Tx!Pipes : txHead[TxConsumes[p]] = 0
    BY <1>i, TxConstants
  <2> QED
    BY <2>2, <2>3, <2>4 DEF Noticed
<1> QED
  BY <1>5, <1>7, <1>8, <1>9 DEF TxInv, HeadInv

(* The steps of clients, triggers and jobs.                                *)
World ==
  \/ Tx!SourceCommit \/ \E s \in signal : Tx!Trigger(s)
  \/ \E j \in DOMAIN txJob : Tx!JobPublishes(j) \/ Tx!JobSettles(j) \/ Tx!JobTriggers(j)

LEMMA JobStepTyped ==
  ASSUME TxTypes, NEW j \in DOMAIN txJob, NEW from,
         NEW to \in {"live", "published", "terminal", "over"}, Tx!JobStep(j, from, to)
  PROVE  /\ txJob' \in Seq(Tx!Job) /\ DOMAIN txJob' = DOMAIN txJob /\ txJob[j].step = from /\ txJob'[j].step = to
         /\ \A k \in DOMAIN txJob :
              /\ txJob'[k].pipe = txJob[k].pipe /\ txJob'[k].input = txJob[k].input
              /\ txJob'[k].cancelled = txJob[k].cancelled
              /\ k # j => txJob'[k].step = txJob[k].step
<1>1. txJob \in Seq(Tx!Job) /\ txJob[j] \in Tx!Job
  BY JobTyped DEF TxTypes
<1>2. txJob' = [txJob EXCEPT ![j] = [txJob[j] EXCEPT !.step = to]] /\ txJob[j].step = from
  BY <1>1 DEF Tx!JobStep, Tx!Job
<1>3. [txJob[j] EXCEPT !.step = to] \in Tx!Job
  BY <1>1 DEF Tx!Job
<1>4. /\ [txJob[j] EXCEPT !.step = to].step = to
      /\ [txJob[j] EXCEPT !.step = to].pipe = txJob[j].pipe
      /\ [txJob[j] EXCEPT !.step = to].input = txJob[j].input
      /\ [txJob[j] EXCEPT !.step = to].cancelled = txJob[j].cancelled
  BY <1>1 DEF Tx!Job
<1>5. txJob'[j] = [txJob[j] EXCEPT !.step = to] /\ \A k \in DOMAIN txJob : k # j => txJob'[k] = txJob[k]
  BY <1>1, <1>2
<1>6. txJob' \in Seq(Tx!Job) /\ DOMAIN txJob' = DOMAIN txJob
  BY <1>1, <1>2, <1>3
<1>7. \A k \in DOMAIN txJob :
        /\ txJob'[k].pipe = txJob[k].pipe /\ txJob'[k].input = txJob[k].input
        /\ txJob'[k].cancelled = txJob[k].cancelled
        /\ k # j => txJob'[k].step = txJob[k].step
  BY <1>4, <1>5
<1> QED
  BY <1>2, <1>4, <1>5, <1>6, <1>7

LEMMA SignalTyped ==
  ASSUME TxTypes, NEW s \in signal
  PROVE  /\ s.repo \in Tx!Repos /\ s.k \in DOMAIN TxPipes /\ TxPipes[s.k] \in Tx!Pipes
         /\ s.k < Len(TxPipes) =>
              /\ [s EXCEPT !.k = s.k + 1] \in [repo : Tx!Repos, n : Nat, k : DOMAIN TxPipes]
              /\ [s EXCEPT !.k = s.k + 1].repo = s.repo /\ [s EXCEPT !.k = s.k + 1].k = s.k + 1
<1>1. s \in [repo : Tx!Repos, n : Nat, k : DOMAIN TxPipes]
  BY DEF TxTypes
<1>2. DOMAIN TxPipes = 1 .. Len(TxPipes) /\ Len(TxPipes) \in Nat /\ TxPipes[s.k] \in Tx!Pipes
  BY <1>1, TxConstants
<1>3. s.k < Len(TxPipes) => s.k + 1 \in DOMAIN TxPipes
  BY <1>1, <1>2
<1> HIDE <1>2
<1> QED
  BY <1>1, <1>2, <1>3

LEMMA WorldTypes ==
  ASSUME TxTypes, PlaceInv, World
  PROVE  TxTypes' /\ PlaceInv' /\ UNCHANGED <<txVersion, versions, tx, coord, before, outside, hold>>
<1>t. /\ txHead \in [Tx!Repos -> Nat] /\ txJob \in Seq(Tx!Job)
      /\ signal \subseteq [repo : Tx!Repos, n : Nat, k : DOMAIN TxPipes]
      /\ pending \in [Tx!Pipes -> BOOLEAN]
  BY DEF TxTypes
<1>s. ASSUME NEW r \in Tx!Repos, NEW n \in Nat
      PROVE  Tx!Pipes # {} => Tx!Signal(r, n) \in [repo : Tx!Repos, n : Nat, k : DOMAIN TxPipes]
  BY TxConstants DEF Tx!Signal, Tx!Pipes
<1>p. Tx!Pipes # {}
  BY OpTyped
<1>u. ASSUME txHead' \in [Tx!Repos -> Nat], txJob' \in Seq(Tx!Job),
             signal' \subseteq [repo : Tx!Repos, n : Nat, k : DOMAIN TxPipes],
             pending' \in [Tx!Pipes -> BOOLEAN],
             UNCHANGED <<txVersion, versions, tx, coord, before, outside, hold>>
      PROVE  TxTypes' /\ PlaceInv'
  BY <1>u DEF TxTypes, PlaceInv, Tx!Staged
<1>1. CASE Tx!SourceCommit
  <2>1. txHead[TxSource] + 1 \in Nat /\ TxSource \in Tx!Repos
    BY <1>t, TxConstants
  <2>2. /\ txHead' = [txHead EXCEPT ![TxSource] = txHead[TxSource] + 1]
        /\ signal' = signal \cup {Tx!Signal(TxSource, txHead[TxSource] + 1)}
        /\ UNCHANGED <<txVersion, versions, hold, pending, tx, coord, txJob, outside, before>>
    BY <1>1 DEF Tx!SourceCommit
  <2>3. Tx!Signal(TxSource, txHead[TxSource] + 1) \in [repo : Tx!Repos, n : Nat, k : DOMAIN TxPipes]
    BY <2>1, <1>s, <1>p
  <2> QED
    BY <1>t, <1>u, <2>1, <2>2, <2>3
<1>2. ASSUME NEW s \in signal, Tx!Trigger(s)
      PROVE  TxTypes' /\ PlaceInv' /\ UNCHANGED <<txVersion, versions, tx, coord, before, outside, hold>>
  <2>1. /\ signal' = (signal \ {s})
             \cup (IF s.k < Len(TxPipes) THEN {[s EXCEPT !.k = s.k + 1]} ELSE {})
        /\ UNCHANGED <<txVersion, versions, txHead, hold, tx, coord, outside, before>>
        /\ pending' = pending \/ pending' = [pending EXCEPT ![TxPipes[s.k]] = TRUE]
        /\ txJob' = txJob \/ txJob' = Append(txJob, Tx!NewJob(TxPipes[s.k], FALSE))
    BY <1>2 DEF Tx!Trigger
  <2>2. signal' \subseteq [repo : Tx!Repos, n : Nat, k : DOMAIN TxPipes] /\ TxPipes[s.k] \in Tx!Pipes
    BY <2>1, <1>t, SignalTyped
  <2>3. txJob' \in Seq(Tx!Job)
    <3>1. Tx!NewJob(TxPipes[s.k], FALSE) \in Tx!Job
      BY <2>2, NewJobTyped
    <3>2. \A e \in Tx!Job : Append(txJob, e) \in Seq(Tx!Job)
      BY <1>t
    <3> QED
      BY <2>1, <3>1, <3>2, <1>t, Zenon
  <2>4. pending' \in [Tx!Pipes -> BOOLEAN]
    BY <2>1, <1>t
  <2> QED
    BY <1>t, <1>u, <2>1, <2>2, <2>3, <2>4
<1>3. ASSUME NEW j \in DOMAIN txJob, Tx!JobPublishes(j) \/ Tx!JobSettles(j) \/ Tx!JobTriggers(j)
      PROVE  TxTypes' /\ PlaceInv' /\ UNCHANGED <<txVersion, versions, tx, coord, before, outside, hold>>
  <2>1. \E from \in {"live", "published", "terminal"}, to \in {"published", "terminal", "over"} :
          Tx!JobStep(j, from, to)
    BY <1>3 DEF Tx!JobPublishes, Tx!JobSettles, Tx!JobTriggers
  <2>2. txJob' \in Seq(Tx!Job) /\ UNCHANGED <<txVersion, versions, hold, pending, tx, coord, outside, before>>
    BY <2>1, JobStepTyped DEF Tx!JobStep
  <2>3. txJob[j].pipe \in Tx!Repos /\ txHead[txJob[j].pipe] \in Nat
    BY JobTyped, TxConstants, <1>t
  <2>4. txHead' \in [Tx!Repos -> Nat]
    BY <1>3, <1>t, <2>3 DEF Tx!JobPublishes, Tx!JobSettles, Tx!JobTriggers
  <2>5. Tx!Signal(txJob[j].pipe, txHead[txJob[j].pipe]) \in [repo : Tx!Repos, n : Nat, k : DOMAIN TxPipes]
    BY <2>3, <1>s, <1>p
  <2>6. signal' = signal \/ signal' = signal \cup {Tx!Signal(txJob[j].pipe, txHead[txJob[j].pipe])}
    BY <1>3 DEF Tx!JobPublishes, Tx!JobSettles, Tx!JobTriggers
  <2> QED
    BY <1>t, <1>u, <2>2, <2>4, <2>5, <2>6
<1> QED
  BY <1>1, <1>2, <1>3 DEF World, Tx!SourceCommit

(* The steps of the request that finishes the transaction.                 *)
Request ==
  \/ Tx!stageTxOp \/ Tx!Validate \/ Tx!HoldAll \/ Tx!applyCreate \/ Tx!CancelJobs \/ Tx!applyUpdate
  \/ Tx!txAbortHolds \/ Tx!rollbackTx

(* A step of the request changes the step, the place and what is noted.    *)
Moved(st, n, base, l) ==
  tx' = [tx EXCEPT !.step = st, !.n = n, !.baseline = base, !.loaded = l]

LEMMA RequestMoves ==
  ASSUME TxTypes, PlaceInv, NEW st \in TxSteps \ {"done"}, NEW n \in Nat, NEW l \in Nat,
         NEW base \in [DOMAIN tx.ops -> Nat], tx.step # "done",
         Moved(st, n, base, l),
         st \in {"staging", "cancelled"} => n \in DOMAIN tx.ops,
         st \in {"staged", "valid"} => n = 1,
         st = "apply" => n \in 1 .. Len(tx.ops) + 1,
         st = "rollback" => n \in 0 .. Len(tx.ops),
         UNCHANGED <<txHead, signal, coord>>,
         txVersion' \in [Tx!Pipes -> Nat], before' \in [Tx!Pipes -> Nat], versions' \in [Tx!Pipes -> SUBSET Nat],
         hold' \in [Tx!Pipes -> BOOLEAN], pending' \in [Tx!Pipes -> BOOLEAN],
         txJob' \in Seq(Tx!Job), outside' \in Nat
  PROVE  /\ TxTypes' /\ PlaceInv'
         /\ tx'.step = st /\ tx'.n = n /\ tx'.ops = tx.ops /\ tx'.baseline = base /\ tx'.loaded = l
<1>1. tx \in [step : TxSteps, ops : TxOpLists, baseline : [DOMAIN tx.ops -> Nat], n : Nat, loaded : Nat]
  BY DEF TxTypes
<1>2. tx'.step = st /\ tx'.n = n /\ tx'.ops = tx.ops /\ tx'.baseline = base /\ tx'.loaded = l
  BY <1>1 DEF Moved
<1>3. tx' \in [step : TxSteps, ops : TxOpLists, baseline : [DOMAIN tx'.ops -> Nat], n : Nat, loaded : Nat]
  BY <1>1, <1>2 DEF Moved
<1>4. TxTypes'
  BY <1>3 DEF TxTypes
<1>5. coord.step = "off"
  BY DEF PlaceInv
<1>6. PlaceInv'
  BY <1>2, <1>5 DEF PlaceInv, CoordSteps
<1> QED
  BY <1>2, <1>4, <1>6

LEMMA RequestTypes ==
  ASSUME TxTypes, PlaceInv, Request
  PROVE  TxTypes' /\ PlaceInv' /\ tx'.ops = tx.ops
         /\ tx.step # "done" /\ tx'.step # "done" /\ UNCHANGED <<txHead, signal, coord, outside>>
<1>t. /\ txVersion \in [Tx!Pipes -> Nat] /\ before \in [Tx!Pipes -> Nat] /\ versions \in [Tx!Pipes -> SUBSET Nat]
      /\ hold \in [Tx!Pipes -> BOOLEAN] /\ pending \in [Tx!Pipes -> BOOLEAN]
      /\ txJob \in Seq(Tx!Job) /\ outside \in Nat
      /\ tx \in [step : TxSteps, ops : TxOpLists, baseline : [DOMAIN tx.ops -> Nat], n : Nat, loaded : Nat]
  BY DEF TxTypes
<1>o. /\ Len(tx.ops) \in Nat \ {0} /\ DOMAIN tx.ops = 1 .. Len(tx.ops)
      /\ \A n \in DOMAIN tx.ops : tx.ops[n].pipe \in Tx!Pipes /\ tx.baseline[n] \in Nat
  BY OpTyped
<1>1. CASE Tx!stageTxOp
  <2>1. tx.step = "staging" /\ tx.n \in DOMAIN tx.ops
    BY <1>1 DEF Tx!stageTxOp, PlaceInv
  <2>2. PICK v \in Nat : v = IF tx.ops[tx.n].kind = "update" THEN txVersion[tx.ops[tx.n].pipe] ELSE 0
    BY <2>1, <1>o, <1>t
  <2>3. PICK n \in DOMAIN tx.ops : n = IF tx.n = Len(tx.ops) THEN 1 ELSE tx.n + 1
    BY <2>1, <1>o
  <2>4. PICK st \in {"staged", "staging"} : st = IF tx.n = Len(tx.ops) THEN "staged" ELSE "staging"
    OBVIOUS
  <2>5. PICK base \in [DOMAIN tx.ops -> Nat] : base = [tx.baseline EXCEPT ![tx.n] = v]
    BY <1>t
  <2>6. /\ tx' = [tx EXCEPT !.baseline = base, !.n = n, !.step = st]
        /\ UNCHANGED <<txVersion, versions, txHead, signal, hold, pending, coord, txJob, outside, before>>
    BY <1>1, <1>t, <2>2, <2>3, <2>4, <2>5 DEF Tx!stageTxOp
  <2>7. Moved(st, n, base, tx.loaded)
    BY <1>t, <2>6 DEF Moved
  <2>8. st \in TxSteps \ {"done"} /\ n \in Nat /\ tx.loaded \in Nat
    BY <1>o, <1>t DEF TxSteps, EarlySteps
  <2>9. st = "staged" => n = 1
    BY <2>3, <2>4
  <2> QED
    BY <1>t, <2>1, <2>6, <2>7, <2>8, <2>9, RequestMoves
<1>2. CASE Tx!Validate
  <2>1. tx.step = "staged" /\ tx.n = 1
    BY <1>2 DEF Tx!Validate, PlaceInv
  <2>2. PICK st \in {"valid", "refused"} : st = IF Tx!Valid THEN "valid" ELSE "refused"
    OBVIOUS
  <2>3. /\ tx' = [tx EXCEPT !.step = st]
        /\ UNCHANGED <<txVersion, versions, txHead, signal, hold, pending, coord, txJob, outside, before>>
    BY <1>2, <2>2 DEF Tx!Validate
  <2>4. Moved(st, tx.n, tx.baseline, tx.loaded)
    BY <1>t, <2>3 DEF Moved
  <2>5. st \in TxSteps \ {"done"} /\ tx.n \in Nat /\ tx.loaded \in Nat /\ tx.baseline \in [DOMAIN tx.ops -> Nat]
    BY <1>t DEF TxSteps, EarlySteps
  <2> QED
    BY <1>t, <2>1, <2>3, <2>4, <2>5, RequestMoves
<1>3. CASE Tx!HoldAll
  <2>1. tx.step = "valid" /\ tx.n = 1
    BY <1>3 DEF Tx!HoldAll, PlaceInv
  <2>2. /\ tx' = [tx EXCEPT !.step = "apply"] /\ before' = txVersion
        /\ hold' = [p \in Tx!Pipes |-> hold[p] \/ p \in Tx!Staged]
        /\ UNCHANGED <<txVersion, versions, txHead, signal, pending, coord, txJob, outside>>
    BY <1>3 DEF Tx!HoldAll
  <2>3. hold' \in [Tx!Pipes -> BOOLEAN]
    BY <2>2, Zenon
  <2>4. Moved("apply", tx.n, tx.baseline, tx.loaded)
    BY <1>t, <2>2 DEF Moved
  <2>5. /\ "apply" \in TxSteps \ {"done"} /\ tx.n \in Nat /\ tx.loaded \in Nat
        /\ tx.baseline \in [DOMAIN tx.ops -> Nat] /\ tx.n \in 1 .. Len(tx.ops) + 1
    BY <1>o, <1>t, <2>1 DEF TxSteps
  <2> QED
    BY <1>t, <2>1, <2>2, <2>3, <2>4, <2>5, RequestMoves
<1>4. CASE Tx!applyCreate \/ Tx!applyUpdate
  <2>1. tx.step \in {"apply", "cancelled"} /\ tx.n \in DOMAIN tx.ops
    BY <1>4, <1>o DEF Tx!applyCreate, Tx!applyUpdate, PlaceInv
  <2>2. PICK v \in Nat : Tx!Applied(Tx!Op.pipe, v) /\ txJob' = txJob
    <3>1. tx.loaded + 1 \in Nat
      BY <1>t
    <3> QED
      BY <1>4, <3>1 DEF Tx!applyCreate, Tx!applyUpdate
  <2>3. Tx!Op.pipe \in Tx!Pipes
    BY <1>o, <2>1 DEF Tx!Op
  <2>4. /\ txVersion' = [txVersion EXCEPT ![Tx!Op.pipe] = v]
        /\ versions' = [versions EXCEPT ![Tx!Op.pipe] = versions[Tx!Op.pipe] \cup {v}]
        /\ tx' = [tx EXCEPT !.n = tx.n + 1, !.step = "apply"]
        /\ UNCHANGED <<txHead, signal, hold, pending, coord, outside, before>>
    BY <2>2 DEF Tx!Applied
  <2>5. txVersion' \in [Tx!Pipes -> Nat] /\ versions' \in [Tx!Pipes -> SUBSET Nat]
    BY <1>t, <2>3, <2>4
  <2>6. Moved("apply", tx.n + 1, tx.baseline, tx.loaded)
    BY <1>t, <2>4 DEF Moved
  <2>7. /\ "apply" \in TxSteps \ {"done"} /\ tx.n + 1 \in Nat /\ tx.loaded \in Nat
        /\ tx.baseline \in [DOMAIN tx.ops -> Nat] /\ tx.n + 1 \in 1 .. Len(tx.ops) + 1
    BY <1>o, <1>t, <2>1 DEF TxSteps
  <2> QED
    BY <1>t, <2>1, <2>2, <2>4, <2>5, <2>6, <2>7, RequestMoves
<1>5. CASE Tx!CancelJobs
  <2>1. tx.step = "apply" /\ tx.n \in DOMAIN tx.ops
    BY <1>5, <1>o DEF Tx!CancelJobs, PlaceInv
  <2>2. Tx!Op.pipe \in Tx!Pipes /\ txVersion[Tx!Op.pipe] \in Nat
    BY <1>o, <1>t, <2>1 DEF Tx!Op
  <2>3. /\ tx' = [tx EXCEPT !.step = "cancelled", !.loaded = txVersion[Tx!Op.pipe]]
        /\ txJob' = Tx!Cancelled(Tx!Op.pipe)
        /\ UNCHANGED <<txVersion, versions, txHead, signal, hold, pending, coord, outside, before>>
    BY <1>5 DEF Tx!CancelJobs
  <2>4. txJob' \in Seq(Tx!Job)
    BY <2>2, <2>3, CancelledTyped
  <2>5. Moved("cancelled", tx.n, tx.baseline, txVersion[Tx!Op.pipe])
    BY <1>t, <2>3 DEF Moved
  <2>6. "cancelled" \in TxSteps \ {"done"} /\ tx.n \in Nat /\ tx.baseline \in [DOMAIN tx.ops -> Nat]
    BY <1>t DEF TxSteps
  <2> QED
    BY <1>t, <2>1, <2>2, <2>3, <2>4, <2>5, <2>6, RequestMoves
<1>6. CASE Tx!txAbortHolds
  <2>1. tx.step \in {"apply", "cancelled"} /\ tx.n \in DOMAIN tx.ops
    BY <1>6, <1>o DEF Tx!txAbortHolds, PlaceInv
  <2>2. /\ tx' = [tx EXCEPT !.step = "rollback", !.n = tx.n - 1]
        /\ hold' = [p \in Tx!Pipes |-> hold[p] /\ p \notin Tx!Staged]
        /\ pending' = [p \in Tx!Pipes |-> pending[p] /\ p \notin Tx!Staged]
        /\ UNCHANGED <<txVersion, versions, txHead, signal, coord, txJob, outside, before>>
    BY <1>6 DEF Tx!txAbortHolds
  <2>3. hold' \in [Tx!Pipes -> BOOLEAN] /\ pending' \in [Tx!Pipes -> BOOLEAN]
    BY <2>2, Zenon
  <2>4. Moved("rollback", tx.n - 1, tx.baseline, tx.loaded)
    BY <1>t, <2>2 DEF Moved
  <2>5. /\ "rollback" \in TxSteps \ {"done"} /\ tx.n - 1 \in Nat /\ tx.loaded \in Nat
        /\ tx.baseline \in [DOMAIN tx.ops -> Nat] /\ tx.n - 1 \in 0 .. Len(tx.ops)
    BY <1>o, <1>t, <2>1 DEF TxSteps, UndoSteps
  <2> QED
    BY <1>t, <2>1, <2>2, <2>3, <2>4, <2>5, RequestMoves
<1>7. CASE Tx!rollbackTx
  <2>1. tx.step = "rollback" /\ tx.n \in 0 .. Len(tx.ops)
    BY <1>7 DEF Tx!rollbackTx, PlaceInv
  <2>2. UNCHANGED <<txHead, signal, hold, pending, coord, txJob, outside, before>>
    BY <1>7 DEF Tx!rollbackTx
  <2>3. CASE tx.n = 0
    <3>1. tx' = [tx EXCEPT !.step = "aborted"] /\ UNCHANGED <<txVersion, versions>>
      BY <1>7, <2>3 DEF Tx!rollbackTx
    <3>2. Moved("aborted", tx.n, tx.baseline, tx.loaded)
      BY <1>t, <3>1 DEF Moved
    <3>3. /\ "aborted" \in TxSteps \ {"done"} /\ tx.n \in Nat /\ tx.loaded \in Nat
          /\ tx.baseline \in [DOMAIN tx.ops -> Nat]
      BY <1>t DEF TxSteps, UndoSteps
    <3> QED
      BY <1>t, <2>1, <2>2, <3>1, <3>2, <3>3, RequestMoves
  <2>4. CASE tx.n # 0
    <3>1. /\ tx' = [tx EXCEPT !.n = tx.n - 1]
          /\ txVersion' = [txVersion EXCEPT ![Tx!Op.pipe] = Tx!Restored(tx.n)]
          /\ versions' = versions \/ versions' = [versions EXCEPT ![Tx!Op.pipe] = {}]
      BY <1>7, <2>4 DEF Tx!rollbackTx
    <3>2. tx.n \in DOMAIN tx.ops /\ Tx!Op.pipe \in Tx!Pipes
      BY <1>o, <2>1, <2>4 DEF Tx!Op
    <3>3. Tx!Restored(tx.n) \in Nat
      BY <1>o, <1>t, <3>2 DEF Tx!Restored, Tx!Op
    <3>4. txVersion' \in [Tx!Pipes -> Nat] /\ versions' \in [Tx!Pipes -> SUBSET Nat]
      BY <1>t, <3>1, <3>2, <3>3
    <3>5. Moved("rollback", tx.n - 1, tx.baseline, tx.loaded)
      BY <1>t, <2>1, <3>1 DEF Moved
    <3>6. /\ "rollback" \in TxSteps \ {"done"} /\ tx.n - 1 \in Nat /\ tx.loaded \in Nat
          /\ tx.baseline \in [DOMAIN tx.ops -> Nat] /\ tx.n - 1 \in 0 .. Len(tx.ops)
      BY <1>o, <1>t, <2>1, <2>4 DEF TxSteps, UndoSteps
    <3> QED
      BY <1>t, <2>1, <2>2, <3>1, <3>4, <3>5, <3>6, RequestMoves
  <2> QED
    BY <2>3, <2>4
<1> QED
  BY <1>1, <1>2, <1>3, <1>4, <1>5, <1>6, <1>7 DEF Request

(* The steps of the coordinator.                                           *)
LEMMA OrderTyped ==
  ASSUME TxTypes, NEW order \in Tx!topoOrder(Tx!Staged)
  PROVE  /\ order \in Seq(Tx!Pipes) /\ Len(order) \in Nat \ {0} /\ DOMAIN order = 1 .. Len(order)
         /\ \A m \in DOMAIN order : order[m] \in Tx!Staged
         /\ \A p \in Tx!Staged : \E m \in DOMAIN order : order[m] = p
<1>o. /\ Len(tx.ops) \in Nat \ {0} /\ DOMAIN tx.ops = 1 .. Len(tx.ops)
      /\ \A n \in DOMAIN tx.ops : tx.ops[n].pipe \in Tx!Pipes
  BY OpTyped
<1> DEFINE f == [n \in 1 .. Len(tx.ops) |-> tx.ops[n].pipe]
<1>w. 1 \in DOMAIN tx.ops
  BY <1>o
<1>1. Tx!Staged \subseteq Tx!Pipes /\ Tx!Staged # {}
  BY <1>o, <1>w DEF Tx!Staged
<1>a. f \in [1 .. Len(tx.ops) -> Tx!Staged] /\ \A p \in Tx!Staged : \E n \in 1 .. Len(tx.ops) : f[n] = p
  BY <1>o DEF Tx!Staged
<1>b. f \in Surjection(1 .. Len(tx.ops), Tx!Staged)
  BY <1>a DEF Surjection
<1>2. IsFiniteSet(1 .. Len(tx.ops))
  <2>1. PICK len \in Int : len = Len(tx.ops)
    BY <1>o
  <2> QED
    BY <2>1, FS_Interval
<1>3. IsFiniteSet(Tx!Staged)
  BY <1>b, <1>2, FS_Surjection
<1>4. Cardinality(Tx!Staged) \in Nat
  BY <1>3, FS_CardinalityType
<1>5. /\ order \in [1 .. Cardinality(Tx!Staged) -> Tx!Staged]
      /\ \A p \in Tx!Staged : \E m \in DOMAIN order : order[m] = p
  BY DEF Tx!topoOrder, Tx!Cardinality, Cardinality
<1>6. PICK c \in Nat : order \in [1 .. c -> Tx!Staged]
  BY <1>4, <1>5
<1>7. order \in [1 .. c -> Tx!Pipes] /\ order \in Seq(Tx!Pipes) /\ DOMAIN order = 1 .. c
  BY <1>1, <1>6
<1>8. Len(order) = c
  BY <1>7
<1>9. c # 0
  BY <1>1, <1>5, <1>7
<1> QED
  BY <1>5, <1>6, <1>7, <1>8, <1>9

Coordinate ==
  Tx!FinishTransaction \/ Tx!WaitForDeps \/ Tx!Claim \/ Tx!scheduleHeadJob \/ Tx!CheckPending

(* A step of the coordinator changes its step, its place and what it notes. *)
Placed(st, n, l, sch) ==
  coord' = [coord EXCEPT !.step = st, !.n = n, !.loaded = l, !.scheduled = sch]

LEMMA CoordMoves ==
  ASSUME TxTypes, PlaceInv, coord.step \in CoordSteps,
         NEW st \in CoordSteps \cup {"over"}, NEW n \in Nat \ {0}, NEW l \in Nat,
         NEW sch \in [Tx!Pipes -> Nat], Placed(st, n, l, sch),
         st \in CoordSteps => n \in DOMAIN coord.order,
         st = "over" => n = Len(coord.order) + 1,
         UNCHANGED <<txVersion, versions, txHead, signal, tx, outside, before>>,
         hold' \in [Tx!Pipes -> BOOLEAN], pending' \in [Tx!Pipes -> BOOLEAN], txJob' \in Seq(Tx!Job)
  PROVE  /\ TxTypes' /\ PlaceInv' /\ coord'.step = st /\ coord'.n = n /\ coord'.order = coord.order
<1>1. coord \in [step : CoordSteps \cup {"off", "over"}, order : Seq(Tx!Pipes), n : Nat \ {0},
                 loaded : Nat, scheduled : [Tx!Pipes -> Nat]]
  BY DEF TxTypes
<1>2. coord'.step = st /\ coord'.n = n /\ coord'.order = coord.order
  BY <1>1 DEF Placed
<1>3. coord' \in [step : CoordSteps \cup {"off", "over"}, order : Seq(Tx!Pipes), n : Nat \ {0},
                  loaded : Nat, scheduled : [Tx!Pipes -> Nat]]
  BY <1>1 DEF Placed
<1>4. TxTypes'
  BY <1>3 DEF TxTypes
<1>5. tx.step = "done" /\ \A m \in DOMAIN coord.order : coord.order[m] \in Tx!Staged
  BY DEF PlaceInv, CoordSteps
<1>6. Tx!Staged' = Tx!Staged
  BY DEF Tx!Staged
<1>7. PlaceInv'
  BY <1>2, <1>5, <1>6 DEF PlaceInv, CoordSteps
<1> QED
  BY <1>2, <1>4, <1>7

LEMMA CoordTypes ==
  ASSUME TxTypes, PlaceInv, Coordinate
  PROVE  /\ TxTypes' /\ PlaceInv' /\ tx'.ops = tx.ops /\ tx'.step = "done"
         /\ tx' = tx \/ Tx!FinishTransaction
         /\ UNCHANGED <<txVersion, versions, txHead, signal, before, outside>>
         /\ Tx!FinishTransaction =>
              /\ coord'.n = 1 /\ coord'.step = "wait"
              /\ \A p \in Tx!Staged : \E m \in DOMAIN coord'.order : coord'.order[m] = p
         /\ ~Tx!FinishTransaction =>
              /\ coord'.order = coord.order /\ coord.n \in DOMAIN coord.order
              /\ coord.step \in CoordSteps /\ Tx!Current \in Tx!Pipes
         /\ Tx!WaitForDeps => txVersion[Tx!Current] = 0 \/ (coord'.step = "claim" /\ coord'.n = coord.n)
         /\ Tx!Claim => coord'.step = "schedule" /\ coord'.n = coord.n
         /\ Tx!scheduleHeadJob => coord'.step = "check" /\ coord'.n = coord.n
         /\ Tx!CheckPending =>
              \/ pending[Tx!Current] /\ coord'.step = "claim" /\ coord'.n = coord.n
              \/ ~pending[Tx!Current] /\ coord'.step \in {"wait", "over"} /\ coord'.n = coord.n + 1
<1>t. /\ txVersion \in [Tx!Pipes -> Nat] /\ before \in [Tx!Pipes -> Nat] /\ versions \in [Tx!Pipes -> SUBSET Nat]
      /\ hold \in [Tx!Pipes -> BOOLEAN] /\ pending \in [Tx!Pipes -> BOOLEAN]
      /\ txJob \in Seq(Tx!Job) /\ outside \in Nat
      /\ tx \in [step : TxSteps, ops : TxOpLists, baseline : [DOMAIN tx.ops -> Nat], n : Nat, loaded : Nat]
      /\ coord \in [step : CoordSteps \cup {"off", "over"}, order : Seq(Tx!Pipes), n : Nat \ {0},
                    loaded : Nat, scheduled : [Tx!Pipes -> Nat]]
  BY DEF TxTypes
<1>1. CASE Tx!FinishTransaction
  <2>1. PICK order \in Tx!topoOrder(Tx!Staged) : coord' = [coord EXCEPT !.step = "wait", !.order = order]
    BY <1>1 DEF Tx!FinishTransaction
  <2>2. /\ tx.step = "apply" /\ tx' = [tx EXCEPT !.step = "done"]
        /\ UNCHANGED <<txVersion, versions, txHead, signal, hold, pending, txJob, outside, before>>
    BY <1>1 DEF Tx!FinishTransaction
  <2>3. /\ order \in Seq(Tx!Pipes) /\ Len(order) \in Nat \ {0} /\ DOMAIN order = 1 .. Len(order)
        /\ \A m \in DOMAIN order : order[m] \in Tx!Staged
        /\ \A p \in Tx!Staged : \E m \in DOMAIN order : order[m] = p
    BY OrderTyped
  <2>4. tx'.ops = tx.ops /\ tx'.step = "done" /\ tx'.n = tx.n /\ tx'.baseline = tx.baseline
    BY <1>t, <2>2
  <2>5. tx' \in [step : TxSteps, ops : TxOpLists, baseline : [DOMAIN tx'.ops -> Nat], n : Nat, loaded : Nat]
    BY <1>t, <2>2, <2>4 DEF TxSteps
  <2>6. coord.step = "off" /\ coord.n = 1
    BY <2>2 DEF PlaceInv
  <2>7. /\ coord'.step = "wait" /\ coord'.order = order /\ coord'.n = 1
        /\ coord' \in [step : CoordSteps \cup {"off", "over"}, order : Seq(Tx!Pipes), n : Nat \ {0},
                       loaded : Nat, scheduled : [Tx!Pipes -> Nat]]
    BY <1>t, <2>1, <2>3, <2>6 DEF CoordSteps
  <2>8. TxTypes'
    BY <2>2, <2>5, <2>7 DEF TxTypes
  <2>9. PlaceInv'
    BY <2>3, <2>4, <2>7 DEF PlaceInv, CoordSteps, Tx!Staged
  <2>10. coord.step \notin CoordSteps
    BY <2>6 DEF CoordSteps
  <2>11. ~Tx!WaitForDeps /\ ~Tx!Claim /\ ~Tx!scheduleHeadJob /\ ~Tx!CheckPending
    BY <2>6 DEF Tx!WaitForDeps, Tx!Claim, Tx!scheduleHeadJob, Tx!CheckPending
  <2> QED
    BY <1>1, <2>2, <2>3, <2>4, <2>7, <2>8, <2>9, <2>11
<1>2. CASE Tx!WaitForDeps \/ Tx!Claim \/ Tx!scheduleHeadJob \/ Tx!CheckPending
  <2>1. coord.step \in CoordSteps /\ coord.n \in DOMAIN coord.order /\ tx.step = "done" /\ ~Tx!FinishTransaction
    BY <1>2 DEF Tx!WaitForDeps, Tx!Claim, Tx!scheduleHeadJob, Tx!CheckPending, Tx!FinishTransaction, PlaceInv, CoordSteps
  <2>2. /\ Tx!Current \in Tx!Pipes /\ coord.n \in 1 .. Len(coord.order) /\ Len(coord.order) \in Nat
        /\ DOMAIN coord.order = 1 .. Len(coord.order)
    BY <1>t, <2>1 DEF Tx!Current
  <2>3. coord.loaded \in Nat /\ coord.scheduled \in [Tx!Pipes -> Nat] /\ coord.n \in Nat \ {0}
    BY <1>t
  <2>4. UNCHANGED <<txVersion, versions, txHead, signal, tx, outside, before>>
    BY <1>2 DEF Tx!WaitForDeps, Tx!Claim, Tx!scheduleHeadJob, Tx!CheckPending
  <2>n. ASSUME coord' = Tx!NextPipe(coord), hold' \in [Tx!Pipes -> BOOLEAN], pending' \in [Tx!Pipes -> BOOLEAN],
               txJob' \in Seq(Tx!Job)
        PROVE  /\ TxTypes' /\ PlaceInv' /\ coord'.order = coord.order
               /\ coord'.step \in {"wait", "over"} /\ coord'.n = coord.n + 1
    <3>1. PICK st \in {"wait", "over"} : st = IF coord.n = Len(coord.order) THEN "over" ELSE "wait"
      OBVIOUS
    <3>2. coord' = [coord EXCEPT !.n = coord.n + 1, !.step = st]
      BY <1>t, <2>n, <3>1 DEF Tx!NextPipe
    <3>3. Placed(st, coord.n + 1, coord.loaded, coord.scheduled)
      BY <1>t, <3>2 DEF Placed
    <3>4. st \in CoordSteps \cup {"over"} /\ coord.n + 1 \in Nat \ {0}
      BY <2>3 DEF CoordSteps
    <3>5. /\ st \in CoordSteps => coord.n + 1 \in DOMAIN coord.order
          /\ st = "over" => coord.n + 1 = Len(coord.order) + 1
      BY <2>2, <3>1 DEF CoordSteps
    <3> QED
      BY <2>1, <2>3, <2>4, <2>n, <3>3, <3>4, <3>5, CoordMoves
  <2>s. ASSUME NEW st \in CoordSteps, NEW l \in Nat, NEW sch \in [Tx!Pipes -> Nat], Placed(st, coord.n, l, sch),
               hold' \in [Tx!Pipes -> BOOLEAN], pending' \in [Tx!Pipes -> BOOLEAN], txJob' \in Seq(Tx!Job)
        PROVE  /\ TxTypes' /\ PlaceInv' /\ coord'.order = coord.order
               /\ coord'.step = st /\ coord'.n = coord.n
    <3>1. st \in CoordSteps \cup {"over"} /\ st # "over"
      BY DEF CoordSteps
    <3> QED
      BY <2>1, <2>3, <2>4, <2>s, <3>1, CoordMoves
  <2>w. CASE Tx!WaitForDeps
    <3>1. coord.step = "wait" /\ txJob' = txJob
      BY <2>w DEF Tx!WaitForDeps
    <3>2. ~Tx!Claim /\ ~Tx!scheduleHeadJob /\ ~Tx!CheckPending
      BY <3>1 DEF Tx!Claim, Tx!scheduleHeadJob, Tx!CheckPending
    <3>3. CASE txVersion[Tx!Current] = 0
      <4>1. /\ hold' = [hold EXCEPT ![Tx!Current] = FALSE]
            /\ pending' = [pending EXCEPT ![Tx!Current] = FALSE]
            /\ coord' = Tx!NextPipe(coord)
        BY <2>w, <3>3 DEF Tx!WaitForDeps
      <4>2. hold' \in [Tx!Pipes -> BOOLEAN] /\ pending' \in [Tx!Pipes -> BOOLEAN]
        BY <1>t, <4>1
      <4> QED
        BY <1>t, <2>1, <2>2, <2>4, <2>n, <3>1, <3>2, <3>3, <4>1, <4>2
    <3>4. CASE txVersion[Tx!Current] # 0
      <4>1. /\ coord' = [coord EXCEPT !.step = "claim", !.loaded = txVersion[Tx!Current]]
            /\ UNCHANGED <<hold, pending>>
        BY <2>w, <3>4 DEF Tx!WaitForDeps
      <4>2. Placed("claim", coord.n, txVersion[Tx!Current], coord.scheduled)
        BY <1>t, <4>1 DEF Placed
      <4>3. txVersion[Tx!Current] \in Nat /\ "claim" \in CoordSteps
        BY <1>t, <2>2 DEF CoordSteps
      <4>4. hold' \in [Tx!Pipes -> BOOLEAN] /\ pending' \in [Tx!Pipes -> BOOLEAN] /\ txJob' \in Seq(Tx!Job)
        BY <1>t, <3>1, <4>1
      <4> QED
        BY <2>1, <2>2, <2>3, <2>4, <2>s, <3>2, <4>2, <4>3, <4>4
    <3> QED
      BY <3>3, <3>4
  <2>c. CASE Tx!Claim
    <3>1. /\ coord.step = "claim" /\ txJob' = txJob
          /\ hold' = [hold EXCEPT ![Tx!Current] = TRUE] /\ pending' = [pending EXCEPT ![Tx!Current] = FALSE]
          /\ coord' = [coord EXCEPT !.step = "schedule"]
      BY <2>c DEF Tx!Claim, Tx!CoordStep
    <3>2. ~Tx!WaitForDeps /\ ~Tx!scheduleHeadJob /\ ~Tx!CheckPending
      BY <3>1 DEF Tx!WaitForDeps, Tx!scheduleHeadJob, Tx!CheckPending
    <3>3. Placed("schedule", coord.n, coord.loaded, coord.scheduled) /\ "schedule" \in CoordSteps
      BY <1>t, <3>1 DEF Placed, CoordSteps
    <3>4. hold' \in [Tx!Pipes -> BOOLEAN] /\ pending' \in [Tx!Pipes -> BOOLEAN] /\ txJob' \in Seq(Tx!Job)
      BY <1>t, <3>1
    <3> QED
      BY <2>1, <2>2, <2>3, <2>4, <2>s, <3>2, <3>3, <3>4
  <2>h. CASE Tx!scheduleHeadJob
    <3>1. coord.step = "schedule" /\ UNCHANGED <<hold, pending>>
      BY <2>h DEF Tx!scheduleHeadJob
    <3>2. ~Tx!WaitForDeps /\ ~Tx!Claim /\ ~Tx!CheckPending
      BY <3>1 DEF Tx!WaitForDeps, Tx!Claim, Tx!CheckPending
    <3>3. PICK len \in Nat : len = Len(txJob) + 1
      BY <1>t
    <3>a. [coord.scheduled EXCEPT ![Tx!Current] = len] \in [Tx!Pipes -> Nat]
      BY <2>3
    <3>b. Tx!NewJob(Tx!Current, TRUE) \in Tx!Job
      BY <2>2, NewJobTyped
    <3>4. [Tx!NewJob(Tx!Current, TRUE) EXCEPT !.version = coord.loaded] \in Tx!Job
      BY <2>3, <3>b DEF Tx!Job
    <3>5. \A e \in Tx!Job : Append(txJob, e) \in Seq(Tx!Job)
      BY <1>t
    <3>6. txJob' \in Seq(Tx!Job)
      <4>1. txJob' = txJob \/ txJob' = Append(txJob, [Tx!NewJob(Tx!Current, TRUE) EXCEPT !.version = coord.loaded])
        BY <2>h DEF Tx!scheduleHeadJob
      <4> QED
        BY <1>t, <3>4, <3>5, <4>1, Zenon
    <3>7. PICK sch \in [Tx!Pipes -> Nat] : coord' = [coord EXCEPT !.step = "check", !.scheduled = sch]
      <4>1. CASE txHead[TxConsumes[Tx!Current]] = 0
        <5>1. coord' = [coord EXCEPT !.step = "check"]
          BY <2>h, <4>1 DEF Tx!scheduleHeadJob, Tx!CoordStep
        <5> QED
          BY <1>t, <2>3, <5>1
      <4>2. CASE txHead[TxConsumes[Tx!Current]] # 0
        <5>1. coord' = [coord EXCEPT !.step = "check", !.scheduled[Tx!Current] = Len(txJob) + 1]
          BY <2>h, <4>2 DEF Tx!scheduleHeadJob
        <5>2. coord' = [coord EXCEPT !.step = "check", !.scheduled = [coord.scheduled EXCEPT ![Tx!Current] = len]]
          BY <1>t, <3>3, <5>1
        <5> QED
          BY <3>a, <5>2
      <4> QED
        BY <4>1, <4>2
    <3>8. Placed("check", coord.n, coord.loaded, sch) /\ "check" \in CoordSteps
      BY <1>t, <3>7 DEF Placed, CoordSteps
    <3> QED
      BY <1>t, <2>1, <2>2, <2>3, <2>4, <2>s, <3>1, <3>2, <3>6, <3>8
  <2>k. CASE Tx!CheckPending
    <3>1. /\ coord.step = "check" /\ txJob' = txJob /\ pending' = pending
          /\ hold' = [hold EXCEPT ![Tx!Current] = FALSE]
      BY <2>k DEF Tx!CheckPending
    <3>2. ~Tx!WaitForDeps /\ ~Tx!Claim /\ ~Tx!scheduleHeadJob
      BY <3>1 DEF Tx!WaitForDeps, Tx!Claim, Tx!scheduleHeadJob
    <3>3. hold' \in [Tx!Pipes -> BOOLEAN] /\ pending' \in [Tx!Pipes -> BOOLEAN] /\ txJob' \in Seq(Tx!Job)
      BY <1>t, <3>1
    <3>4. CASE pending[Tx!Current]
      <4>1. coord' = [coord EXCEPT !.step = "claim"]
        BY <2>k, <3>4 DEF Tx!CheckPending, Tx!Again
      <4>2. Placed("claim", coord.n, coord.loaded, coord.scheduled) /\ "claim" \in CoordSteps
        BY <1>t, <4>1 DEF Placed, CoordSteps
      <4> QED
        BY <2>1, <2>2, <2>3, <2>4, <2>s, <3>2, <3>3, <3>4, <4>2
    <3>5. CASE ~pending[Tx!Current]
      <4>1. coord' = Tx!NextPipe(coord)
        BY <2>k, <3>5 DEF Tx!CheckPending, Tx!Again
      <4> QED
        BY <2>1, <2>2, <2>4, <2>n, <3>2, <3>3, <3>5, <4>1
    <3> QED
      BY <3>4, <3>5
  <2> QED
    BY <1>2, <2>w, <2>c, <2>h, <2>k
<1> QED
  BY <1>1, <1>2 DEF Coordinate

LEMMA OutsideTypes ==
  ASSUME TxTypes, PlaceInv, NEW p \in Tx!Pipes, Tx!OutsideUpdate(p)
  PROVE  /\ TxTypes' /\ PlaceInv' /\ outside' > 0 /\ UNCHANGED <<txHead, signal, hold, pending, tx, coord, before>>
         /\ txVersion' = [txVersion EXCEPT ![p] = txVersion[p] + 1]
         /\ txVersion[p] > 0
<1>t. /\ txVersion \in [Tx!Pipes -> Nat] /\ versions \in [Tx!Pipes -> SUBSET Nat]
      /\ txJob \in Seq(Tx!Job) /\ outside \in Nat
  BY DEF TxTypes
<1>1. /\ outside' = outside + 1 /\ txVersion[p] > 0
      /\ txVersion' = [txVersion EXCEPT ![p] = txVersion[p] + 1]
      /\ versions' = [versions EXCEPT ![p] = versions[p] \cup {txVersion[p] + 1}]
      /\ UNCHANGED <<txHead, signal, hold, pending, tx, coord, before>>
  BY DEF Tx!OutsideUpdate
<1>2. txVersion' \in [Tx!Pipes -> Nat] /\ versions' \in [Tx!Pipes -> SUBSET Nat] /\ outside' \in Nat /\ outside' > 0
  BY <1>t, <1>1
<1>a. Tx!NewJob(p, FALSE) \in Tx!Job
  BY NewJobTyped
<1>3. Tx!Cancelled(p) \in Seq(Tx!Job)
  BY CancelledTyped
<1>b. \A e \in Tx!Job : [e EXCEPT !.version = e.version + 1] \in Tx!Job
  BY DEF Tx!Job
<1>4. [Tx!NewJob(p, FALSE) EXCEPT !.version = @ + 1] \in Tx!Job
  BY <1>a, <1>b
<1>5. \A e \in Tx!Job : Append(Tx!Cancelled(p), e) \in Seq(Tx!Job)
  BY <1>3
<1>6. txJob' \in Seq(Tx!Job)
  BY <1>3, <1>4, <1>5, Zenon DEF Tx!OutsideUpdate
<1>7. TxTypes'
  BY <1>1, <1>2, <1>6 DEF TxTypes
<1>8. PlaceInv'
  BY <1>1 DEF PlaceInv, Tx!Staged
<1> QED
  BY <1>1, <1>2, <1>7, <1>8

----------------------------------------------------------------------------
(* As a whole or not at all.                                               *)

LEMMA BeforeNext ==
  ASSUME TxTypes, NEW n \in DOMAIN tx.ops, NEW p \in Tx!Pipes
  PROVE  /\ Cardinality(Before(n, p)) \in Nat
         /\ Cardinality(Before(n + 1, p)) =
              Cardinality(Before(n, p)) + (IF tx.ops[n].pipe = p THEN 1 ELSE 0)
         /\ (\A m \in DOMAIN tx.ops : m < n => tx.ops[m].pipe # p) => Cardinality(Before(n, p)) = 0
         /\ Cardinality(Before(1, p)) = 0
<1>o. Len(tx.ops) \in Nat \ {0} /\ DOMAIN tx.ops = 1 .. Len(tx.ops)
  BY OpTyped
<1>1. PICK len \in Int : len = Len(tx.ops)
  BY <1>o
<1>2. IsFiniteSet(1 .. len) /\ Before(n, p) \in SUBSET (1 .. len)
  BY <1>o, <1>1, FS_Interval DEF Before
<1>3. IsFiniteSet(Before(n, p))
  BY <1>2, FS_Subset
<1>4. Cardinality(Before(n, p)) \in Nat
  BY <1>3, FS_CardinalityType
<1>5. n \notin Before(n, p)
  BY <1>o DEF Before
<1>6. Before(n + 1, p) = IF tx.ops[n].pipe = p THEN Before(n, p) \cup {n} ELSE Before(n, p)
  BY <1>o DEF Before
<1>7. Cardinality(Before(n, p) \cup {n}) = Cardinality(Before(n, p)) + 1
  BY <1>3, <1>5, FS_AddElement
<1>8. Before(1, p) = {} /\ ((\A m \in DOMAIN tx.ops : m < n => tx.ops[m].pipe # p) => Before(n, p) = {})
  BY <1>o DEF Before
<1>9. Cardinality({}) = 0
  BY FS_EmptySet
<1> QED
  BY <1>4, <1>6, <1>7, <1>8, <1>9

LEMMA WholeKept ==
  ASSUME WholeInv, UNCHANGED <<txVersion, versions, tx, before, outside>>
  PROVE  WholeInv'
BY DEF WholeInv, Baselines, Valids, Archived, Extent, Before, Tx!Touched, Tx!Op

LEMMA WholeRequest ==
  ASSUME TxTypes, PlaceInv, WholeInv, Request, outside = 0
  PROVE  (Baselines /\ Valids /\ Archived /\ Extent)'
<1>t. /\ txVersion \in [Tx!Pipes -> Nat] /\ before \in [Tx!Pipes -> Nat] /\ versions \in [Tx!Pipes -> SUBSET Nat]
      /\ tx \in [step : TxSteps, ops : TxOpLists, baseline : [DOMAIN tx.ops -> Nat], n : Nat, loaded : Nat]
  BY DEF TxTypes
<1>o. /\ Len(tx.ops) \in Nat \ {0} /\ DOMAIN tx.ops = 1 .. Len(tx.ops)
      /\ \A n \in DOMAIN tx.ops : /\ tx.ops[n].pipe \in Tx!Pipes /\ tx.baseline[n] \in Nat
                                  /\ tx.ops[n].kind \in {"create", "update"}
  BY OpTyped
<1>w. Baselines /\ Valids /\ Archived /\ Extent
  BY DEF WholeInv
<1>p. tx'.ops = tx.ops /\ TxTypes'
  BY RequestTypes
<1>u. \A n : Tx!Touched(n)' <=> Tx!Touched(n)
  BY <1>p DEF Tx!Touched
<1>b. ASSUME tx'.baseline = tx.baseline, before' = before, tx.step # "staging"
      PROVE  Baselines'
  BY <1>b, <1>p, <1>w DEF Baselines
<1>v. ASSUME before' = before, tx.step \in {"valid", "apply", "cancelled", "rollback"}
      PROVE  Valids'
  BY <1>v, <1>p, <1>u, <1>w DEF Valids
<1>1. CASE Tx!stageTxOp
  <2>1. tx.step = "staging" /\ tx.n \in DOMAIN tx.ops /\ txVersion = before
    BY <1>1, <1>w DEF Tx!stageTxOp, PlaceInv, Extent, EarlySteps
  <2>2. UNCHANGED <<txVersion, versions, before>>
    BY <1>1 DEF Tx!stageTxOp
  <2>3. /\ tx'.step = IF tx.n = Len(tx.ops) THEN "staged" ELSE "staging"
        /\ tx'.n = IF tx.n = Len(tx.ops) THEN 1 ELSE tx.n + 1
        /\ tx'.baseline = [tx.baseline EXCEPT ![tx.n] =
             IF tx.ops[tx.n].kind = "update" THEN txVersion[tx.ops[tx.n].pipe] ELSE 0]
    BY <1>1, <1>t DEF Tx!stageTxOp
  <2>4. /\ tx'.baseline[tx.n] = IF tx.ops[tx.n].kind = "update" THEN before[tx.ops[tx.n].pipe] ELSE 0
        /\ \A n \in DOMAIN tx.ops : n # tx.n => tx'.baseline[n] = tx.baseline[n]
    BY <1>t, <2>1, <2>3
  <2>5. \A n \in DOMAIN tx.ops : tx'.step # "staging" \/ n < tx'.n => n < tx.n \/ n = tx.n
    BY <1>o, <2>1, <2>3
  <2>6. Baselines'
    BY <1>w, <1>p, <2>1, <2>2, <2>4, <2>5 DEF Baselines
  <2>7. Valids' /\ Archived' /\ Extent'
    BY <1>w, <2>1, <2>2, <2>3 DEF Valids, Archived, Extent, EarlySteps
  <2> QED
    BY <2>6, <2>7
<1>2. CASE Tx!Validate
  <2>1. tx.step = "staged" /\ txVersion = before
    BY <1>2, <1>w DEF Tx!Validate, Extent, EarlySteps
  <2>2. UNCHANGED <<txVersion, versions, before>>
    BY <1>2 DEF Tx!Validate
  <2>3. /\ tx'.step = IF Tx!Valid THEN "valid" ELSE "refused"
        /\ tx'.baseline = tx.baseline /\ tx'.n = tx.n
    BY <1>2, <1>t DEF Tx!Validate
  <2>4. Valids'
    <3>1. CASE Tx!Valid
      <4>1. \A n \in DOMAIN tx.ops :
              /\ tx.ops[n].kind = "create" => ~Tx!Touched(n) /\ before[tx.ops[n].pipe] = 0
              /\ tx.ops[n].kind = "update" /\ ~Tx!Touched(n) => before[tx.ops[n].pipe] > 0
        BY <2>1, <3>1 DEF Tx!Valid, Tx!ValidOp
      <4> QED
        BY <1>p, <1>u, <2>2, <4>1 DEF Valids
    <3>2. CASE ~Tx!Valid
      BY <2>3, <3>2 DEF Valids
    <3> QED
      BY <3>1, <3>2
  <2>5. Archived' /\ Extent'
    BY <1>w, <2>1, <2>2, <2>3 DEF Archived, Extent, EarlySteps
  <2> QED
    BY <1>b, <2>1, <2>2, <2>3, <2>4, <2>5
<1>3. CASE Tx!HoldAll
  <2>1. tx.step = "valid" /\ txVersion = before /\ tx.n = 1
    BY <1>3, <1>w DEF Tx!HoldAll, Extent, EarlySteps, PlaceInv
  <2>2. UNCHANGED <<txVersion, versions>> /\ before' = before
    BY <1>3, <2>1 DEF Tx!HoldAll
  <2>3. tx'.step = "apply" /\ tx'.baseline = tx.baseline /\ tx'.n = 1
    BY <1>3, <1>t, <2>1 DEF Tx!HoldAll
  <2>4. \A p \in Tx!Pipes : txVersion'[p] = before'[p] + Cardinality(Before(1, p))
    <3>1. 1 \in DOMAIN tx.ops
      BY <1>o
    <3> QED
      BY <1>t, <2>1, <2>2, <3>1, BeforeNext
  <2>5. Archived' /\ Extent'
    BY <1>w, <1>p, <2>2, <2>3, <2>4 DEF Archived, Extent, EarlySteps, Before
  <2> QED
    BY <1>b, <1>v, <2>1, <2>2, <2>3, <2>5
<1>4. CASE Tx!applyCreate \/ Tx!applyUpdate
  <2>1. tx.step \in {"apply", "cancelled"} /\ tx.n \in DOMAIN tx.ops
    BY <1>4, <1>o DEF Tx!applyCreate, Tx!applyUpdate, PlaceInv
  <2>2. Tx!Op = tx.ops[tx.n] /\ Tx!Op.pipe \in Tx!Pipes
    BY <1>o, <2>1 DEF Tx!Op
  <2>3. txVersion[Tx!Op.pipe] = before[Tx!Op.pipe] + Cardinality(Before(tx.n, Tx!Op.pipe))
    BY <1>w, <2>1, <2>2 DEF Extent
  <2>4. Tx!Applied(Tx!Op.pipe, txVersion[Tx!Op.pipe] + 1)
    <3>1. CASE Tx!applyCreate
      <4>1. tx.ops[tx.n].kind = "create" /\ Tx!Applied(Tx!Op.pipe, 1)
        BY <3>1, <2>2 DEF Tx!applyCreate
      <4>2. ~Tx!Touched(tx.n) /\ before[Tx!Op.pipe] = 0
        BY <1>w, <2>1, <2>2, <4>1 DEF Valids
      <4>3. Cardinality(Before(tx.n, Tx!Op.pipe)) = 0
        BY <2>1, <2>2, <4>2, BeforeNext DEF Tx!Touched
      <4> QED
        BY <2>3, <4>1, <4>2, <4>3
    <3>2. CASE Tx!applyUpdate
      <4>1. tx.loaded = txVersion[Tx!Op.pipe]
        BY <1>w, <3>2 DEF Tx!applyUpdate, Extent
      <4> QED
        BY <3>2, <4>1 DEF Tx!applyUpdate
    <3> QED
      BY <1>4, <3>1, <3>2
  <2>5. PICK v \in Nat : v = txVersion[Tx!Op.pipe] + 1
    BY <1>t, <2>2
  <2>6. /\ txVersion' = [txVersion EXCEPT ![Tx!Op.pipe] = v]
        /\ versions' = [versions EXCEPT ![Tx!Op.pipe] = versions[Tx!Op.pipe] \cup {v}]
        /\ tx' = [tx EXCEPT !.n = tx.n + 1, !.step = "apply"] /\ before' = before
    BY <2>4, <2>5 DEF Tx!Applied
  <2>7. tx'.step = "apply" /\ tx'.n = tx.n + 1 /\ tx'.baseline = tx.baseline
    BY <1>t, <2>6
  <2>8. ASSUME NEW p \in Tx!Pipes
        PROVE  txVersion'[p] = before[p] + Cardinality(Before(tx.n + 1, p))
    <3>1. txVersion[p] = before[p] + Cardinality(Before(tx.n, p))
      BY <1>w, <2>1 DEF Extent
    <3>2. /\ Cardinality(Before(tx.n, p)) \in Nat
          /\ Cardinality(Before(tx.n + 1, p)) =
               Cardinality(Before(tx.n, p)) + (IF tx.ops[tx.n].pipe = p THEN 1 ELSE 0)
      BY <2>1, BeforeNext
    <3>3. txVersion'[p] = IF Tx!Op.pipe = p THEN txVersion[p] + 1 ELSE txVersion[p]
      BY <1>t, <2>2, <2>5, <2>6
    <3>4. before[p] \in Nat
      BY <1>t
    <3> QED
      BY <2>2, <3>1, <3>2, <3>3, <3>4
  <2>9. Extent'
    BY <1>p, <2>6, <2>7, <2>8 DEF Extent, EarlySteps, Before
  <2>10. Archived'
    BY <1>t, <1>w, <2>2, <2>6 DEF Archived
  <2> QED
    BY <1>b, <1>v, <2>1, <2>6, <2>7, <2>9, <2>10
<1>5. CASE Tx!CancelJobs
  <2>1. tx.step = "apply" /\ UNCHANGED <<txVersion, versions, before>>
    BY <1>5 DEF Tx!CancelJobs
  <2>2. /\ tx'.step = "cancelled" /\ tx'.n = tx.n /\ tx'.baseline = tx.baseline
        /\ tx'.loaded = txVersion[Tx!Op.pipe]
    BY <1>5, <1>t DEF Tx!CancelJobs
  <2>3. Tx!Op' = Tx!Op
    BY <1>p, <2>2 DEF Tx!Op
  <2>4. Archived' /\ Extent'
    BY <1>p, <1>w, <2>1, <2>2, <2>3 DEF Archived, Extent, EarlySteps, Before
  <2> QED
    BY <1>b, <1>v, <2>1, <2>2, <2>4
<1>6. CASE Tx!txAbortHolds
  <2>1. /\ tx.step \in {"apply", "cancelled"} /\ tx.n \in DOMAIN tx.ops
        /\ UNCHANGED <<txVersion, versions, before>>
    BY <1>6, <1>o DEF Tx!txAbortHolds, PlaceInv
  <2>2. tx'.step = "rollback" /\ tx'.n = tx.n - 1 /\ tx'.baseline = tx.baseline
    BY <1>6, <1>t DEF Tx!txAbortHolds
  <2>3. ASSUME NEW p \in Tx!Pipes, \A m \in 1 .. tx.n - 1 : tx.ops[m].pipe # p
        PROVE  txVersion[p] = before[p]
    <3>1. \A m \in DOMAIN tx.ops : m < tx.n => tx.ops[m].pipe # p
      BY <1>o, <2>1, <2>3
    <3>2. Cardinality(Before(tx.n, p)) = 0
      BY <2>1, <3>1, BeforeNext
    <3>3. txVersion[p] = before[p] + Cardinality(Before(tx.n, p)) /\ before[p] \in Nat
      BY <1>t, <1>w, <2>1 DEF Extent
    <3> QED
      BY <3>2, <3>3
  <2>4. Archived' /\ Extent'
    BY <1>p, <1>w, <2>1, <2>2, <2>3 DEF Archived, Extent, EarlySteps
  <2> QED
    BY <1>b, <1>v, <2>1, <2>2, <2>4
<1>7. CASE Tx!rollbackTx
  <2>1. tx.step = "rollback" /\ tx.n \in 0 .. Len(tx.ops) /\ before' = before
    BY <1>7 DEF Tx!rollbackTx, PlaceInv
  <2>2. CASE tx.n = 0
    <3>1. UNCHANGED <<txVersion, versions>> /\ tx'.step = "aborted" /\ tx'.baseline = tx.baseline
      BY <1>7, <1>t, <2>2 DEF Tx!rollbackTx
    <3>2. \A p \in Tx!Pipes : txVersion[p] = before[p]
      BY <1>w, <2>1, <2>2 DEF Extent
    <3>3. txVersion = before
      BY <1>t, <3>2
    <3>4. Archived' /\ Extent'
      BY <1>w, <2>1, <3>1, <3>3 DEF Archived, Extent, EarlySteps
    <3> QED
      BY <1>b, <1>v, <2>1, <3>1, <3>4
  <2>3. CASE tx.n # 0
    <3>1. tx.n \in DOMAIN tx.ops
      BY <1>o, <2>1, <2>3
    <3>2. Tx!Op = tx.ops[tx.n] /\ Tx!Op.pipe \in Tx!Pipes
      BY <1>o, <3>1 DEF Tx!Op
    <3>3. /\ tx'.n = tx.n - 1 /\ tx'.step = "rollback" /\ tx'.baseline = tx.baseline
          /\ txVersion' = [txVersion EXCEPT ![Tx!Op.pipe] = Tx!Restored(tx.n)]
          /\ versions' = IF Tx!Op.kind = "create" THEN [versions EXCEPT ![Tx!Op.pipe] = {}] ELSE versions
      BY <1>7, <1>t, <2>1, <2>3 DEF Tx!rollbackTx
    <3>4. Tx!Touched(tx.n) \/ Tx!Restored(tx.n) = before[Tx!Op.pipe]
      <4>1. CASE Tx!Op.kind = "create"
        <5>1. before[Tx!Op.pipe] = 0
          BY <1>w, <2>1, <3>1, <3>2, <4>1 DEF Valids
        <5> QED
          BY <3>2, <4>1, <5>1 DEF Tx!Restored
      <4>2. CASE Tx!Op.kind = "update"
        <5>1. tx.baseline[tx.n] = before[Tx!Op.pipe]
          BY <1>w, <2>1, <3>1, <3>2, <4>2 DEF Baselines
        <5>2. Tx!Touched(tx.n) \/ before[Tx!Op.pipe] > 0
          BY <1>w, <2>1, <3>1, <3>2, <4>2 DEF Valids
        <5>3. before[Tx!Op.pipe] > 0 => before[Tx!Op.pipe] \in versions[Tx!Op.pipe]
          BY <1>w, <3>2 DEF Archived
        <5> QED
          BY <3>2, <4>2, <5>1, <5>2, <5>3 DEF Tx!Restored
      <4> QED
        BY <1>o, <3>1, <3>2, <4>1, <4>2
    <3>5. ASSUME NEW p \in Tx!Pipes, \A m \in 1 .. tx.n - 1 : tx.ops[m].pipe # p
          PROVE  txVersion'[p] = before[p]
      <4>1. CASE p = Tx!Op.pipe
        <5>1. ~Tx!Touched(tx.n)
          BY <1>o, <2>1, <3>1, <3>2, <3>5, <4>1 DEF Tx!Touched
        <5> QED
          BY <1>t, <3>2, <3>3, <3>4, <4>1, <5>1
      <4>2. CASE p # Tx!Op.pipe
        <5>1. \A m \in 1 .. tx.n : tx.ops[m].pipe # p
          BY <2>1, <3>2, <3>5, <4>2
        <5>2. txVersion[p] = before[p]
          BY <1>w, <2>1, <5>1 DEF Extent
        <5> QED
          BY <1>t, <3>2, <3>3, <4>2, <5>2
      <4> QED
        BY <4>1, <4>2
    <3>6. Extent'
      BY <1>p, <2>1, <3>3, <3>5 DEF Extent, EarlySteps
    <3>7. Archived'
      <4>1. Tx!Op.kind = "create" => before[Tx!Op.pipe] = 0
        BY <1>w, <2>1, <3>1, <3>2 DEF Valids
      <4> QED
        BY <1>t, <1>w, <2>1, <3>2, <3>3, <4>1 DEF Archived
    <3> QED
      BY <1>b, <1>v, <2>1, <3>3, <3>6, <3>7
  <2> QED
    BY <2>2, <2>3
<1> QED
  BY <1>1, <1>2, <1>3, <1>4, <1>5, <1>6, <1>7 DEF Request

LEMMA WholeStep ==
  ASSUME TxTypes, PlaceInv, WholeInv, [Tx!Next]_txVars
  PROVE  WholeInv'
<1>1. CASE UNCHANGED txVars
  BY <1>1, WholeKept DEF txVars
<1>2. CASE World
  BY <1>2, WorldTypes, WholeKept
<1>3. CASE Request
  <2>1. outside' = outside
    BY <1>3, RequestTypes
  <2> QED
    BY <1>3, <2>1, WholeRequest DEF WholeInv
<1>4. CASE Coordinate
  <2>1. UNCHANGED <<txVersion, versions, before, outside>>
    BY <1>4, CoordTypes
  <2>2. CASE Tx!FinishTransaction
    <3>1. /\ tx.step = "apply" /\ tx.n = Len(tx.ops) + 1
          /\ tx' = [tx EXCEPT !.step = "done"]
      BY <2>2 DEF Tx!FinishTransaction
    <3>2. tx'.step = "done" /\ tx'.ops = tx.ops /\ tx'.baseline = tx.baseline
      BY <3>1 DEF TxTypes
    <3>3. WholeInv => (Baselines /\ Valids /\ Archived /\ Extent)' \/ outside' # 0
      <4> SUFFICES ASSUME outside = 0 PROVE (Baselines /\ Valids /\ Archived /\ Extent)'
        BY <2>1
      <4>1. Baselines /\ Archived /\ Extent
        BY DEF WholeInv
      <4>2. Baselines'
        BY <2>1, <3>1, <3>2, <4>1 DEF Baselines
      <4>3. Valids' /\ Archived'
        BY <2>1, <3>2, <4>1 DEF Valids, Archived
      <4>4. Extent'
        BY <2>1, <3>1, <3>2, <4>1 DEF Extent, EarlySteps, Before
      <4> QED
        BY <4>2, <4>3, <4>4
    <3> QED
      BY <3>3 DEF WholeInv
  <2>3. CASE ~Tx!FinishTransaction
    BY <1>4, <2>1, <2>3, CoordTypes, WholeKept
  <2> QED
    BY <2>2, <2>3
<1>5. ASSUME NEW p \in Tx!Pipes, Tx!OutsideUpdate(p) PROVE WholeInv'
  BY <1>5, OutsideTypes DEF WholeInv
<1> QED
  BY <1>1, <1>2, <1>3, <1>4, <1>5 DEF Tx!Next, Tx!TxStep, World, Request, Coordinate

----------------------------------------------------------------------------
(* No commit is overlooked.                                                *)

LEMMA AppendJob ==
  ASSUME NEW s \in Seq(Tx!Job), NEW e \in Tx!Job
  PROVE  /\ DOMAIN Append(s, e) = DOMAIN s \cup {Len(s) + 1}
         /\ Append(s, e)[Len(s) + 1] = e /\ Len(s) \in Nat
         /\ \A j \in DOMAIN s : Append(s, e)[j] = s[j] /\ j < Len(s) + 1
<1>1. Len(s) \in Nat /\ DOMAIN s = 1 .. Len(s)
  OBVIOUS
<1>2. DOMAIN Append(s, e) = 1 .. Len(s) + 1
  OBVIOUS
<1> QED
  BY <1>1, <1>2

(* The jobs there are keep their pipeline and their input.                 *)
Tracks ==
  \A j \in DOMAIN txJob : /\ j \in DOMAIN txJob'
                          /\ txJob'[j].pipe = txJob[j].pipe /\ txJob'[j].input = txJob[j].input

(* A step that adds one job at most.                                       *)
Spawned(s, p) ==
  \E e \in Tx!Job : /\ txJob' = Append(s, e)
                    /\ e.pipe = p /\ e.input = txHead[TxConsumes[p]]
                    /\ e.step = "live" /\ ~e.cancelled

LEMMA SpawnedJob ==
  ASSUME TxTypes, NEW s \in Seq(Tx!Job), NEW p \in Tx!Pipes, Spawned(s, p)
  PROVE  /\ DOMAIN txJob' = DOMAIN s \cup {Len(s) + 1} /\ \A j \in DOMAIN s : txJob'[j] = s[j] /\ j < Len(s) + 1
         /\ txJob'[Len(s) + 1].pipe = p /\ txJob'[Len(s) + 1].input = txHead[TxConsumes[p]]
         /\ txJob'[Len(s) + 1].step = "live" /\ ~txJob'[Len(s) + 1].cancelled
<1>1. PICK e \in Tx!Job : /\ txJob' = Append(s, e)
                          /\ e.pipe = p /\ e.input = txHead[TxConsumes[p]]
                          /\ e.step = "live" /\ ~e.cancelled
  BY DEF Spawned
<1>2. /\ DOMAIN Append(s, e) = DOMAIN s \cup {Len(s) + 1}
      /\ Append(s, e)[Len(s) + 1] = e
      /\ \A j \in DOMAIN s : Append(s, e)[j] = s[j] /\ j < Len(s) + 1
  BY AppendJob
<1> QED
  BY <1>1, <1>2, Zenon

LEMMA TriggerSpawns ==
  ASSUME TxTypes, NEW s \in signal, Tx!Trigger(s)
  PROVE  \/ txJob' = txJob
         \/ TxConsumes[TxPipes[s.k]] = s.repo /\ Spawned(txJob, TxPipes[s.k])
<1>1. TxPipes[s.k] \in Tx!Pipes
  BY SignalTyped
<1>2. /\ Tx!NewJob(TxPipes[s.k], FALSE) \in Tx!Job
      /\ Tx!NewJob(TxPipes[s.k], FALSE).pipe = TxPipes[s.k]
      /\ Tx!NewJob(TxPipes[s.k], FALSE).input = txHead[TxConsumes[TxPipes[s.k]]]
      /\ Tx!NewJob(TxPipes[s.k], FALSE).step = "live" /\ ~Tx!NewJob(TxPipes[s.k], FALSE).cancelled
  BY <1>1, NewJobTyped
<1>4. \/ txJob' = txJob
      \/ TxConsumes[TxPipes[s.k]] = s.repo /\ txJob' = Append(txJob, Tx!NewJob(TxPipes[s.k], FALSE))
  BY DEF Tx!Trigger
<1> QED
  BY <1>2, <1>4, Zenon DEF Spawned

LEMMA OutsideSpawns ==
  ASSUME TxTypes, NEW p \in Tx!Pipes, Tx!OutsideUpdate(p)
  PROVE  IF txHead[TxConsumes[p]] = 0 THEN txJob' = Tx!Cancelled(p) ELSE Spawned(Tx!Cancelled(p), p)
<1>1. /\ Tx!NewJob(p, FALSE) \in Tx!Job
      /\ Tx!NewJob(p, FALSE).pipe = p /\ Tx!NewJob(p, FALSE).input = txHead[TxConsumes[p]]
      /\ Tx!NewJob(p, FALSE).step = "live" /\ ~Tx!NewJob(p, FALSE).cancelled
  BY NewJobTyped
<1>3. PICK e : e = [Tx!NewJob(p, FALSE) EXCEPT !.version = Tx!NewJob(p, FALSE).version + 1]
  OBVIOUS
<1>b. \A x \in Tx!Job : LET y == [x EXCEPT !.version = x.version + 1] IN
        /\ y \in Tx!Job /\ y.pipe = x.pipe /\ y.input = x.input /\ y.step = x.step
        /\ y.cancelled = x.cancelled
  BY DEF Tx!Job
<1>4. /\ e \in Tx!Job /\ e.pipe = p /\ e.input = txHead[TxConsumes[p]] /\ e.step = "live" /\ ~e.cancelled
  BY <1>1, <1>3, <1>b
<1>5. txJob' = IF txHead[TxConsumes[p]] = 0 THEN Tx!Cancelled(p) ELSE Append(Tx!Cancelled(p), e)
  BY <1>3 DEF Tx!OutsideUpdate
<1> QED
  BY <1>4, <1>5, Zenon DEF Spawned

LEMMA ScheduleSpawns ==
  ASSUME TxTypes, Tx!scheduleHeadJob, Tx!Current \in Tx!Pipes
  PROVE  IF txHead[TxConsumes[Tx!Current]] = 0 THEN txJob' = txJob ELSE Spawned(txJob, Tx!Current)
<1>1. /\ Tx!NewJob(Tx!Current, TRUE) \in Tx!Job
      /\ Tx!NewJob(Tx!Current, TRUE).pipe = Tx!Current
      /\ Tx!NewJob(Tx!Current, TRUE).input = txHead[TxConsumes[Tx!Current]]
      /\ Tx!NewJob(Tx!Current, TRUE).step = "live" /\ ~Tx!NewJob(Tx!Current, TRUE).cancelled
  BY NewJobTyped
<1>3. PICK e : e = [Tx!NewJob(Tx!Current, TRUE) EXCEPT !.version = coord.loaded]
  OBVIOUS
<1>l. coord.loaded \in Nat
  BY DEF TxTypes
<1>b. \A x \in Tx!Job, n \in Nat : LET y == [x EXCEPT !.version = n] IN
        /\ y \in Tx!Job /\ y.pipe = x.pipe /\ y.input = x.input /\ y.step = x.step
        /\ y.cancelled = x.cancelled
  BY DEF Tx!Job
<1>4. /\ e \in Tx!Job /\ e.pipe = Tx!Current /\ e.input = txHead[TxConsumes[Tx!Current]]
      /\ e.step = "live" /\ ~e.cancelled
  BY <1>1, <1>3, <1>l, <1>b
<1>5. IF txHead[TxConsumes[Tx!Current]] = 0 THEN txJob' = txJob ELSE txJob' = Append(txJob, e)
  BY <1>3 DEF Tx!scheduleHeadJob
<1> QED
  BY <1>4, <1>5, Zenon DEF Spawned

(* The heads never go back, and what is on its way has a head behind it.   *)
LEMMA PositiveKept ==
  ASSUME Positive, UNCHANGED <<txHead, signal, txJob>>
  PROVE  Positive'
BY DEF Positive

LEMMA PositiveSpawned ==
  ASSUME TxTypes, Positive, NEW p \in Tx!Pipes, Spawned(txJob, p), txHead[TxConsumes[p]] > 0,
         UNCHANGED txHead, \A s \in signal' : s \in signal \/ \E o \in signal : s.repo = o.repo
  PROVE  Positive'
<1>1. txJob \in Seq(Tx!Job)
  BY DEF TxTypes
<1>2. /\ DOMAIN txJob' = DOMAIN txJob \cup {Len(txJob) + 1} /\ \A j \in DOMAIN txJob : txJob'[j] = txJob[j]
      /\ txJob'[Len(txJob) + 1].pipe = p /\ txJob'[Len(txJob) + 1].step = "live"
  BY <1>1, SpawnedJob
<1> QED
  BY <1>2 DEF Positive

LEMMA PositiveStep ==
  ASSUME TxTypes, PlaceInv, Positive, [Tx!Next]_txVars
  PROVE  Positive'
<1>t. txHead \in [Tx!Repos -> Nat] /\ txJob \in Seq(Tx!Job)
  BY DEF TxTypes
<1>0. CASE UNCHANGED txVars
  BY <1>0, PositiveKept DEF txVars
<1>1. CASE Tx!SourceCommit
  <2>1. /\ txHead' = [txHead EXCEPT ![TxSource] = txHead[TxSource] + 1] /\ txJob' = txJob
        /\ signal' = signal \cup {Tx!Signal(TxSource, txHead[TxSource] + 1)}
    BY <1>1 DEF Tx!SourceCommit
  <2>2. txHead'[TxSource] > 0 /\ \A r \in Tx!Repos : txHead[r] > 0 => txHead'[r] > 0
    BY <1>t, <2>1, TxConstants
  <2>3. ASSUME NEW s \in signal' PROVE txHead'[s.repo] > 0
    <3>1. CASE s \in signal
      BY <2>2, <3>1, SignalTyped DEF Positive
    <3>2. CASE s = Tx!Signal(TxSource, txHead[TxSource] + 1)
      BY <2>2, <3>2 DEF Tx!Signal
    <3> QED
      BY <2>1, <3>1, <3>2
  <2>4. ASSUME NEW j \in DOMAIN txJob
        PROVE  /\ txHead'[TxConsumes[txJob[j].pipe]] > 0
               /\ txJob[j].step \in {"published", "terminal"} => txHead'[txJob[j].pipe] > 0
    <3>1. txJob[j].pipe \in Tx!Repos /\ TxConsumes[txJob[j].pipe] \in Tx!Repos
      BY JobTyped, TxConstants
    <3>2. /\ txHead[TxConsumes[txJob[j].pipe]] > 0
          /\ txJob[j].step \in {"published", "terminal"} => txHead[txJob[j].pipe] > 0
      BY DEF Positive
    <3> QED
      BY <2>2, <3>1, <3>2
  <2> QED
    BY <2>1, <2>3, <2>4 DEF Positive
<1>2. ASSUME NEW s \in signal, Tx!Trigger(s) PROVE Positive'
  <2>1. /\ txHead' = txHead
        /\ signal' = (signal \ {s}) \cup (IF s.k < Len(TxPipes) THEN {[s EXCEPT !.k = s.k + 1]} ELSE {})
    BY <1>2 DEF Tx!Trigger
  <2>2. TxPipes[s.k] \in Tx!Pipes /\ txHead[s.repo] > 0 /\ (s.k < Len(TxPipes) => [s EXCEPT !.k = s.k + 1].repo = s.repo)
    BY SignalTyped DEF Positive
  <2>3. \A o \in signal' : o \in signal \/ \E x \in signal : o.repo = x.repo
    BY <2>1, <2>2
  <2>4. CASE txJob' = txJob
    BY <2>1, <2>3, <2>4 DEF Positive
  <2>5. CASE TxConsumes[TxPipes[s.k]] = s.repo /\ Spawned(txJob, TxPipes[s.k])
    BY <2>1, <2>2, <2>3, <2>5, PositiveSpawned
  <2> QED
    BY <1>2, <2>4, <2>5, TriggerSpawns
<1>3. ASSUME NEW j \in DOMAIN txJob, Tx!JobPublishes(j) PROVE Positive'
  <2>1. /\ txHead' = [txHead EXCEPT ![txJob[j].pipe] = txHead[txJob[j].pipe] + 1] /\ signal' = signal
        /\ Tx!JobStep(j, "live", "published")
    BY <1>3 DEF Tx!JobPublishes
  <2>2. /\ DOMAIN txJob' = DOMAIN txJob
        /\ \A k \in DOMAIN txJob : /\ txJob'[k].pipe = txJob[k].pipe
                                   /\ k # j => txJob'[k].step = txJob[k].step
    BY <2>1, JobStepTyped
  <2>3. \A k \in DOMAIN txJob : txJob[k].pipe \in Tx!Repos /\ TxConsumes[txJob[k].pipe] \in Tx!Repos
    BY JobTyped, TxConstants
  <2>4. txHead'[txJob[j].pipe] > 0 /\ \A r \in Tx!Repos : txHead[r] > 0 => txHead'[r] > 0
    BY <1>t, <2>1, <2>3
  <2>5. \A s \in signal : s.repo \in Tx!Repos
    BY SignalTyped
  <2>6. \A s \in signal' : txHead'[s.repo] > 0
    BY <2>1, <2>4, <2>5 DEF Positive
  <2>7. \A k \in DOMAIN txJob : /\ txHead[TxConsumes[txJob[k].pipe]] > 0
                                /\ txJob[k].step \in {"published", "terminal"} => txHead[txJob[k].pipe] > 0
    BY DEF Positive
  <2>8. ASSUME NEW k \in DOMAIN txJob
        PROVE  /\ txHead'[TxConsumes[txJob'[k].pipe]] > 0
               /\ txJob'[k].step \in {"published", "terminal"} => txHead'[txJob'[k].pipe] > 0
    <3>p. PICK p \in Tx!Repos : p = txJob[k].pipe
      BY <2>3
    <3>1. txJob'[k].pipe = p /\ TxConsumes[p] \in Tx!Repos /\ txHead[TxConsumes[p]] > 0
      BY <2>2, <2>3, <2>7, <3>p
    <3>a. txHead'[TxConsumes[p]] > 0
      BY <2>4, <3>1
    <3>2. CASE k = j
      BY <2>4, <3>p, <3>1, <3>a, <3>2
    <3>3. CASE k # j
      <4>1. txJob'[k].step = txJob[k].step
        BY <2>2, <3>3
      <4>2. txJob[k].step \in {"published", "terminal"} => txHead[p] > 0
        BY <2>7, <3>p
      <4>3. txHead[p] > 0 => txHead'[p] > 0
        BY <2>4
      <4> QED
        BY <3>1, <3>a, <4>1, <4>2, <4>3
    <3> QED
      BY <3>2, <3>3
  <2> QED
    BY <2>2, <2>6, <2>8 DEF Positive
<1>4. ASSUME NEW j \in DOMAIN txJob, Tx!JobSettles(j) \/ Tx!JobTriggers(j) PROVE Positive'
  <2>1. PICK from \in {"published", "terminal"}, to \in {"terminal", "over"} :
          /\ Tx!JobStep(j, from, to) /\ txHead' = txHead
          /\ \/ signal' = signal
             \/ signal' = signal \cup {Tx!Signal(txJob[j].pipe, txHead[txJob[j].pipe])}
    BY <1>4 DEF Tx!JobSettles, Tx!JobTriggers
  <2>2. /\ DOMAIN txJob' = DOMAIN txJob /\ txJob[j].step = from
        /\ \A k \in DOMAIN txJob : /\ txJob'[k].pipe = txJob[k].pipe
                                   /\ k # j => txJob'[k].step = txJob[k].step
    BY <2>1, JobStepTyped
  <2>3. /\ \A s \in signal : txHead[s.repo] > 0
        /\ \A k \in DOMAIN txJob : /\ txHead[TxConsumes[txJob[k].pipe]] > 0
                                   /\ txJob[k].step \in {"published", "terminal"} => txHead[txJob[k].pipe] > 0
    BY DEF Positive
  <2>4. txHead[txJob[j].pipe] > 0
    BY <2>2, <2>3
  <2>5. \A s \in signal' : txHead'[s.repo] > 0
    BY <2>1, <2>3, <2>4 DEF Tx!Signal
  <2>6. ASSUME NEW k \in DOMAIN txJob
        PROVE  /\ txHead'[TxConsumes[txJob'[k].pipe]] > 0
               /\ txJob'[k].step \in {"published", "terminal"} => txHead'[txJob'[k].pipe] > 0
    BY <2>1, <2>2, <2>3, <2>4
  <2> QED
    BY <2>2, <2>5, <2>6 DEF Positive
<1>5. ASSUME NEW p \in Tx!Pipes, Tx!OutsideUpdate(p) PROVE Positive'
  <2>1. txHead' = txHead /\ signal' = signal
    BY <1>5, OutsideTypes
  <2>2. /\ Tx!Cancelled(p) \in Seq(Tx!Job) /\ DOMAIN Tx!Cancelled(p) = DOMAIN txJob
        /\ \A j \in DOMAIN txJob : /\ Tx!Cancelled(p)[j].pipe = txJob[j].pipe
                                   /\ Tx!Cancelled(p)[j].step = txJob[j].step
    BY CancelledTyped
  <2>3. CASE txHead[TxConsumes[p]] = 0
    <3>1. txJob' = Tx!Cancelled(p)
      BY <1>5, <2>3, OutsideSpawns
    <3> QED
      BY <2>1, <2>2, <3>1 DEF Positive
  <2>4. CASE txHead[TxConsumes[p]] # 0
    <3>1. Spawned(Tx!Cancelled(p), p)
      BY <1>5, <2>4, OutsideSpawns
    <3>2. /\ DOMAIN txJob' = DOMAIN Tx!Cancelled(p) \cup {Len(Tx!Cancelled(p)) + 1}
          /\ \A j \in DOMAIN Tx!Cancelled(p) : txJob'[j] = Tx!Cancelled(p)[j]
          /\ txJob'[Len(Tx!Cancelled(p)) + 1].pipe = p /\ txJob'[Len(Tx!Cancelled(p)) + 1].step = "live"
      BY <2>2, <3>1, SpawnedJob
    <3>3. txHead[TxConsumes[p]] > 0
      BY <1>t, <2>4, TxConstants
    <3> QED
      BY <2>1, <2>2, <3>2, <3>3 DEF Positive
  <2> QED
    BY <2>3, <2>4
<1>6. CASE Request
  <2>1. txHead' = txHead /\ signal' = signal
    BY <1>6, RequestTypes
  <2>2. CASE Tx!CancelJobs
    <3>1. txJob' = Tx!Cancelled(Tx!Op.pipe) /\ tx.step = "apply" /\ tx.n <= Len(tx.ops)
      BY <2>2 DEF Tx!CancelJobs
    <3>2. Tx!Op.pipe \in Tx!Pipes
      BY <3>1, OpTyped DEF Tx!Op, PlaceInv
    <3> QED
      BY <2>1, <3>1, <3>2, CancelledTyped DEF Positive
  <2>3. CASE ~Tx!CancelJobs
    <3>1. txJob' = txJob
      BY <1>6, <2>3 DEF Request, Tx!stageTxOp, Tx!Validate, Tx!HoldAll, Tx!applyCreate, Tx!applyUpdate,
                        Tx!txAbortHolds, Tx!rollbackTx
    <3> QED
      BY <2>1, <3>1, PositiveKept
  <2> QED
    BY <2>2, <2>3
<1>7. CASE Coordinate
  <2>1. txHead' = txHead /\ signal' = signal
    BY <1>7, CoordTypes
  <2>2. CASE Tx!scheduleHeadJob
    <3>1. Tx!Current \in Tx!Pipes
      BY <1>7, <2>2, CoordTypes DEF Tx!FinishTransaction, Tx!scheduleHeadJob, PlaceInv
    <3>2. CASE txHead[TxConsumes[Tx!Current]] = 0
      BY <2>1, <2>2, <3>1, <3>2, ScheduleSpawns, PositiveKept
    <3>3. CASE txHead[TxConsumes[Tx!Current]] # 0
      <4>1. txHead[TxConsumes[Tx!Current]] > 0
        BY <1>t, <3>1, <3>3, TxConstants
      <4>2. Spawned(txJob, Tx!Current)
        BY <2>2, <3>1, <3>3, ScheduleSpawns
      <4> QED
        BY <2>1, <3>1, <4>1, <4>2, PositiveSpawned
    <3> QED
      BY <3>2, <3>3
  <2>3. CASE ~Tx!scheduleHeadJob
    <3>1. txJob' = txJob
      BY <1>7, <2>3 DEF Coordinate, Tx!FinishTransaction, Tx!WaitForDeps, Tx!Claim, Tx!CheckPending
    <3> QED
      BY <2>1, <3>1, PositiveKept
  <2> QED
    BY <2>2, <2>3
<1> QED
  BY <1>0, <1>1, <1>2, <1>3, <1>4, <1>5, <1>6, <1>7 DEF Tx!Next, Tx!TxStep, Request, Coordinate

LEMMA FreshKept ==
  ASSUME Tracks, NEW p \in Tx!Pipes, txHead'[TxConsumes[p]] = txHead[TxConsumes[p]], Fresh(p)
  PROVE  Fresh(p)'
BY DEF Tracks, Fresh

(* What is owed stays owed while the transaction and the coordinator rest. *)
LEMMA OwedKept ==
  ASSUME UNCHANGED <<tx, coord>>, NEW p \in Tx!Pipes, pending[p] => pending'[p], Owed(p)
  PROVE  Owed(p)'
BY DEF Owed, Applying, Left, Tx!Staged

LEMMA HoldKept ==
  ASSUME UNCHANGED <<tx, coord, hold, txVersion>>, HoldInv
  PROVE  HoldInv'
BY DEF HoldInv, Applying, Due, Tx!Staged

LEMMA WorldHead ==
  ASSUME TxTypes, PlaceInv, Positive, HoldInv, Renewed, Noticed, World
  PROVE  HoldInv' /\ Renewed' /\ Noticed'
<1>t. txHead \in [Tx!Repos -> Nat] /\ txJob \in Seq(Tx!Job) /\ pending \in [Tx!Pipes -> BOOLEAN]
  BY DEF TxTypes
<1>u. UNCHANGED <<txVersion, tx, coord, hold>>
  BY WorldTypes
<1>h. HoldInv'
  BY <1>u, HoldKept
<1>j. \A j \in DOMAIN txJob : txJob[j].pipe \in Tx!Pipes /\ txHead[TxConsumes[txJob[j].pipe]] > 0
  BY JobTyped DEF Positive
<1>1. CASE Tx!SourceCommit
  <2>1. /\ txHead' = [txHead EXCEPT ![TxSource] = txHead[TxSource] + 1] /\ txJob' = txJob /\ pending' = pending
        /\ signal' = signal \cup {Tx!Signal(TxSource, txHead[TxSource] + 1)}
    BY <1>1 DEF Tx!SourceCommit
  <2>2. \A r \in Tx!Repos : /\ r # TxSource => txHead'[r] = txHead[r]
                            /\ txHead[r] > 0 => txHead'[r] > 0
    BY <1>t, <2>1, TxConstants
  <2>3. \A p \in Tx!Pipes : Owed(p) => Owed(p)'
    BY <1>u, <2>1, OwedKept
  <2>4. Renewed'
    BY <1>j, <2>1, <2>3 DEF Renewed
  <2>5. ASSUME NEW p \in Tx!Pipes, txVersion[p] > 0, txHead'[TxConsumes[p]] > 0
        PROVE  Fresh(p)' \/ Announced(p)' \/ Coming(TxConsumes[p])' \/ Owed(p)'
    <3>1. CASE TxConsumes[p] = TxSource
      <4>1. PICK k \in DOMAIN TxPipes : TxPipes[k] = p
        BY DEF Tx!Pipes
      <4>2. 1 <= k /\ Tx!Signal(TxSource, txHead[TxSource] + 1) \in signal'
        BY <2>1, TxConstants
      <4>3. Announced(p)'
        BY <3>1, <4>1, <4>2 DEF Announced, Tx!Signal
      <4> QED
        BY <4>3
    <3>2. CASE TxConsumes[p] # TxSource
      <4>1. txHead'[TxConsumes[p]] = txHead[TxConsumes[p]]
        BY <2>2, <3>2, TxConstants
      <4>2. Fresh(p) \/ Announced(p) \/ Coming(TxConsumes[p]) \/ Owed(p)
        BY <2>5, <4>1 DEF Noticed
      <4>3. Fresh(p) => Fresh(p)'
        BY <2>1, <4>1 DEF Fresh
      <4>4. Announced(p) => Announced(p)'
        BY <2>1 DEF Announced
      <4>5. Coming(TxConsumes[p]) => Coming(TxConsumes[p])'
        BY <2>1, <2>2, <2>3, TxConstants DEF Coming, Working
      <4> QED
        BY <2>3, <4>2, <4>3, <4>4, <4>5
    <3> QED
      BY <3>1, <3>2
  <2> QED
    BY <1>h, <1>u, <2>4, <2>5 DEF Noticed
<1>2. ASSUME NEW s \in signal, Tx!Trigger(s)
      PROVE  HoldInv' /\ Renewed' /\ Noticed'
  <2>p. PICK q \in Tx!Pipes : q = TxPipes[s.k]
    BY SignalTyped
  <2>s. /\ s.repo \in Tx!Repos /\ s.k \in DOMAIN TxPipes
        /\ s.k < Len(TxPipes) =>
             [s EXCEPT !.k = s.k + 1].repo = s.repo /\ [s EXCEPT !.k = s.k + 1].k = s.k + 1
    BY SignalTyped
  <2>1. /\ txHead' = txHead
        /\ signal' = (signal \ {s}) \cup (IF s.k < Len(TxPipes) THEN {[s EXCEPT !.k = s.k + 1]} ELSE {})
    BY <1>2 DEF Tx!Trigger
  <2>2. \/ hold[q] /\ pending' = [pending EXCEPT ![q] = TRUE] /\ txJob' = txJob
        \/ ~hold[q] /\ pending' = pending
    BY <1>2, <2>p DEF Tx!Trigger
  <2>3. \A p \in Tx!Pipes : pending[p] => pending'[p]
    BY <1>t, <2>2
  <2>4. \A p \in Tx!Pipes : Owed(p) => Owed(p)'
    BY <1>u, <2>3, OwedKept
  <2>5. /\ \A j \in DOMAIN txJob : j \in DOMAIN txJob' /\ txJob'[j] = txJob[j]
        /\ \A j \in DOMAIN txJob' : j \in DOMAIN txJob \/ ~txJob'[j].cancelled
    <3>1. CASE txJob' = txJob
      BY <3>1
    <3>2. CASE Spawned(txJob, q)
      <4>1. /\ DOMAIN txJob' = DOMAIN txJob \cup {Len(txJob) + 1} /\ \A j \in DOMAIN txJob : txJob'[j] = txJob[j]
            /\ ~txJob'[Len(txJob) + 1].cancelled
        BY <1>t, <3>2, SpawnedJob
      <4> QED
        BY <4>1, Zenon
    <3> QED
      BY <1>2, <2>p, <3>1, <3>2, TriggerSpawns
  <2>6. Tracks
    BY <2>5 DEF Tracks
  <2>7. Renewed'
    BY <1>j, <2>4, <2>5 DEF Renewed
  <2>8. hold[q] => Owed(q)'
    <3> SUFFICES ASSUME hold[q] PROVE Owed(q)'
      OBVIOUS
    <3>1. pending'[q]
      BY <1>t, <2>2
    <3>2. Applying(q) \/ (tx.step = "done" /\ Due(q))
      BY DEF HoldInv
    <3>3. Applying(q) => Owed(q)'
      BY <2>4 DEF Owed
    <3>4. Due(q) /\ tx.step = "done" => Owed(q)'
      <4> SUFFICES ASSUME Due(q), tx.step = "done" PROVE Owed(q)'
        OBVIOUS
      <4>1. PICK m \in DOMAIN coord.order : coord.order[m] = q /\ m >= coord.n
        BY DEF Due
      <4>a. coord.order \in Seq(Tx!Pipes) /\ coord.n \in Nat
        BY DEF TxTypes
      <4>2. m \in Nat /\ coord.n \in Nat
        BY <4>a
      <4>3. m > coord.n \/ m = coord.n
        BY <4>1, <4>2
      <4>4. Left(q)'
        BY <1>u, <3>1, <4>1, <4>3 DEF Left
      <4> QED
        BY <1>u, <4>4 DEF Owed
    <3> QED
      BY <3>2, <3>3, <3>4
  <2>9. ~hold[q] /\ txVersion[q] > 0 /\ TxConsumes[q] = s.repo => Fresh(q)'
    <3> SUFFICES ASSUME ~hold[q], txVersion[q] > 0, TxConsumes[q] = s.repo PROVE Fresh(q)'
      OBVIOUS
    <3>1. CASE txJob' = txJob
      <4>1. \E j \in DOMAIN txJob : txJob[j].pipe = q /\ txJob[j].input = txHead[TxConsumes[q]]
        <5>1. ~(txVersion[q] = 0 \/ TxConsumes[q] # s.repo)
          BY DEF TxTypes
        <5>2. ASSUME ~\E j \in DOMAIN txJob : /\ txJob[j].pipe = q /\ Tx!Live(j)
                                              /\ txJob[j].input = txHead[TxConsumes[q]]
              PROVE  FALSE
          <6>1. txJob' = Append(txJob, Tx!NewJob(q, FALSE))
            BY <1>2, <2>p, <5>1, <5>2 DEF Tx!Trigger
          <6>2. Tx!NewJob(q, FALSE) \in Tx!Job
            BY NewJobTyped
          <6>3. DOMAIN Append(txJob, Tx!NewJob(q, FALSE)) = DOMAIN txJob \cup {Len(txJob) + 1}
            BY <1>t, <6>2, AppendJob
          <6>4. Len(txJob) + 1 \notin DOMAIN txJob
            BY <1>t
          <6> QED
            BY <3>1, <6>1, <6>3, <6>4
        <5> QED
          BY <5>2
      <4> QED
        BY <2>1, <3>1, <4>1 DEF Fresh
    <3>2. CASE Spawned(txJob, q)
      <4>1. /\ DOMAIN txJob' = DOMAIN txJob \cup {Len(txJob) + 1}
            /\ txJob'[Len(txJob) + 1].pipe = q /\ txJob'[Len(txJob) + 1].input = txHead[TxConsumes[q]]
        BY <1>t, <3>2, SpawnedJob
      <4> QED
        BY <2>1, <4>1 DEF Fresh
    <3> QED
      BY <1>2, <2>p, <3>1, <3>2, TriggerSpawns
  <2>10. ASSUME NEW p \in Tx!Pipes, txVersion[p] > 0, txHead'[TxConsumes[p]] > 0
         PROVE  Fresh(p)' \/ Announced(p)' \/ Coming(TxConsumes[p])' \/ Owed(p)'
    <3>1. Fresh(p) \/ Announced(p) \/ Coming(TxConsumes[p]) \/ Owed(p)
      BY <2>1, <2>10 DEF Noticed
    <3>2. Fresh(p) => Fresh(p)'
      BY <2>1, <2>6, FreshKept
    <3>3. Coming(TxConsumes[p]) => Coming(TxConsumes[p])'
      BY <2>1, <2>4, <2>5 DEF Coming, Working
    <3>4. Announced(p) => Announced(p)' \/ Fresh(p)' \/ Owed(p)'
      <4> SUFFICES ASSUME Announced(p) PROVE Announced(p)' \/ Fresh(p)' \/ Owed(p)'
        OBVIOUS
      <4>1. PICK o \in signal : o.repo = TxConsumes[p] /\ \E k \in DOMAIN TxPipes : o.k <= k /\ TxPipes[k] = p
        BY DEF Announced
      <4>2. PICK k \in DOMAIN TxPipes : o.k <= k /\ TxPipes[k] = p
        BY <4>1
      <4>3. CASE o # s
        <5>1. o \in signal'
          BY <2>1, <4>3
        <5> QED
          BY <4>1, <5>1 DEF Announced
      <4>4. CASE o = s /\ k = s.k
        BY <2>8, <2>9, <2>10, <2>p, <4>1, <4>2, <4>4
      <4>5. CASE o = s /\ k # s.k
        <5>1. s.k \in Nat /\ k \in Nat /\ k <= Len(TxPipes) /\ Len(TxPipes) \in Nat
          BY <2>s, TxConstants
        <5>2. s.k < Len(TxPipes) /\ s.k + 1 <= k
          BY <4>2, <4>5, <5>1
        <5>3. [s EXCEPT !.k = s.k + 1] \in signal'
          BY <2>1, <5>2
        <5>4. PICK x \in signal' : x.repo = s.repo /\ x.k = s.k + 1
          BY <2>s, <5>2, <5>3
        <5> QED
          BY <4>1, <4>2, <4>5, <5>2, <5>4 DEF Announced
      <4> QED
        BY <4>3, <4>4, <4>5
    <3> QED
      BY <2>4, <3>1, <3>2, <3>3, <3>4
  <2> QED
    BY <1>h, <1>u, <2>7, <2>10 DEF Noticed
<1>3. ASSUME NEW i \in DOMAIN txJob, Tx!JobPublishes(i) \/ Tx!JobSettles(i) \/ Tx!JobTriggers(i)
      PROVE  HoldInv' /\ Renewed' /\ Noticed'
  <2>1. PICK from \in {"live", "published", "terminal"}, to \in {"published", "terminal", "over"} :
          /\ Tx!JobStep(i, from, to) /\ pending' = pending /\ (to = "over" => Tx!JobTriggers(i))
          /\ from = "live" => Tx!JobPublishes(i)
    BY <1>3 DEF Tx!JobPublishes, Tx!JobSettles, Tx!JobTriggers, Tx!JobStep
  <2>2. /\ DOMAIN txJob' = DOMAIN txJob /\ txJob[i].step = from /\ txJob'[i].step = to
        /\ \A k \in DOMAIN txJob :
             /\ txJob'[k].pipe = txJob[k].pipe /\ txJob'[k].input = txJob[k].input
             /\ txJob'[k].cancelled = txJob[k].cancelled
             /\ k # i => txJob'[k].step = txJob[k].step
    BY <2>1, JobStepTyped
  <2>3. \A p \in Tx!Pipes : Owed(p) => Owed(p)'
    BY <1>u, <2>1, OwedKept
  <2>4. \A j \in DOMAIN txJob : txJob'[j].step # "over" => txJob[j].step # "over"
    BY <2>1, <2>2
  <2>5. ASSUME NEW j \in DOMAIN txJob, NEW k \in DOMAIN txJob, k > j, txJob[k].pipe = txJob[j].pipe,
               txJob[k].step = "live", txJob[j].step # "over"
        PROVE  txJob'[k].step = "live"
    <3>1. ASSUME k = i PROVE FALSE
      <4>1. Tx!JobPublishes(i)
        BY <2>1, <2>2, <2>5, <3>1
      <4>2. j < i
        BY <1>t, <2>5, <3>1
      <4> QED
        BY <2>5, <3>1, <4>1, <4>2 DEF Tx!JobPublishes
    <3> QED
      BY <2>2, <2>5, <3>1
  <2>6. Renewed'
    <3> SUFFICES ASSUME NEW j \in DOMAIN txJob, txJob[j].cancelled, txJob'[j].step # "over"
                 PROVE  \/ Owed(txJob[j].pipe)'
                        \/ \E k \in DOMAIN txJob : /\ k > j /\ txJob[k].pipe = txJob[j].pipe
                                                   /\ txJob'[k].step = "live" /\ ~txJob[k].cancelled
      BY <2>2 DEF Renewed
    <3>1. txJob[j].step # "over"
      BY <2>4
    <3>2. \/ Owed(txJob[j].pipe)
          \/ \E k \in DOMAIN txJob : /\ k > j /\ txJob[k].pipe = txJob[j].pipe
                                     /\ txJob[k].step = "live" /\ ~txJob[k].cancelled
      BY <3>1 DEF Renewed
    <3>3. Owed(txJob[j].pipe) => Owed(txJob[j].pipe)'
      BY <1>j, <2>2, <2>3
    <3> QED
      BY <2>5, <3>1, <3>2, <3>3
  <2>7. /\ \A r \in Tx!Repos : txHead[r] > 0 => txHead'[r] > 0
        /\ \A r \in Tx!Repos : r # txJob[i].pipe => txHead'[r] = txHead[r]
        /\ from # "live" => txHead' = txHead
    <3>1. CASE Tx!JobPublishes(i)
      <4>1. txHead' = [txHead EXCEPT ![txJob[i].pipe] = txHead[txJob[i].pipe] + 1] /\ from = "live"
        BY <2>2, <3>1 DEF Tx!JobPublishes, Tx!JobStep
      <4> QED
        BY <1>t, <4>1
    <3>2. CASE Tx!JobSettles(i) \/ Tx!JobTriggers(i)
      BY <3>2 DEF Tx!JobSettles, Tx!JobTriggers
    <3> QED
      BY <1>3, <3>1, <3>2
  <2>8. signal \subseteq signal'
    BY <1>3 DEF Tx!JobPublishes, Tx!JobSettles, Tx!JobTriggers
  <2>9. ASSUME NEW r \in Tx!Repos, Coming(r)
        PROVE  Coming(r)' \/ (r = txJob[i].pipe /\ Tx!Signal(r, txHead[r]) \in signal')
    <3>1. CASE r \in Tx!Pipes /\ Owed(r) /\ txHead[TxConsumes[r]] > 0
      <4>1. Owed(r)' /\ txHead'[TxConsumes[r]] > 0
        BY <2>3, <2>7, <3>1, TxConstants
      <4> QED
        BY <3>1, <4>1 DEF Coming
    <3>2. ASSUME NEW j \in DOMAIN txJob, txJob[j].pipe = r, Working(j), txJob'[j].step # "over"
          PROVE  Coming(r)'
      BY <2>2, <3>2 DEF Coming, Working
    <3>3. ASSUME NEW j \in DOMAIN txJob, txJob[j].pipe = r, Working(j), txJob'[j].step = "over"
          PROVE  r = txJob[i].pipe /\ Tx!Signal(r, txHead[r]) \in signal'
      <4>1. j = i /\ Tx!JobTriggers(i)
        BY <2>1, <2>2, <3>3 DEF Working
      <4> QED
        BY <3>3, <4>1 DEF Working, Tx!JobTriggers
    <3> QED
      BY <2>9, <3>1, <3>2, <3>3 DEF Coming
  <2>10. ASSUME NEW p \in Tx!Pipes, txVersion[p] > 0, txHead'[TxConsumes[p]] > 0
         PROVE  Fresh(p)' \/ Announced(p)' \/ Coming(TxConsumes[p])' \/ Owed(p)'
    <3>c. PICK r \in Tx!Repos : r = TxConsumes[p]
      BY TxConstants
    <3>1. CASE r = txJob[i].pipe /\ from = "live"
      <4>1. to # "over"
        BY <2>1, <2>2, <3>1 DEF Tx!JobPublishes, Tx!JobTriggers, Tx!JobStep
      <4>2. r \in Tx!Pipes /\ txHead[TxConsumes[r]] > 0
        BY <1>j, <3>1
      <4>3. txHead'[TxConsumes[r]] > 0
        BY <2>7, <4>2, TxConstants
      <4>4. CASE ~txJob[i].cancelled
        <5>1. Coming(r)'
          BY <2>2, <3>1, <4>1, <4>4 DEF Coming, Working
        <5> QED
          BY <3>c, <5>1
      <4>5. CASE txJob[i].cancelled
        <5>1. \/ Owed(r)
              \/ \E k \in DOMAIN txJob : /\ k > i /\ txJob[k].pipe = r
                                         /\ txJob[k].step = "live" /\ ~txJob[k].cancelled
          BY <2>2, <3>1, <4>5 DEF Renewed
        <5>2. Owed(r) => Coming(r)'
          BY <2>3, <4>2, <4>3 DEF Coming
        <5>3. ASSUME NEW k \in DOMAIN txJob, k > i, txJob[k].pipe = r, txJob[k].step = "live", ~txJob[k].cancelled
              PROVE  Coming(r)'
          <6>1. txJob'[k].step = "live"
            BY <2>2, <2>5, <3>1, <5>3
          <6> QED
            BY <2>2, <5>3, <6>1 DEF Coming, Working
        <5> QED
          BY <3>c, <5>1, <5>2, <5>3
      <4> QED
        BY <4>4, <4>5
    <3>2. CASE ~(r = txJob[i].pipe /\ from = "live")
      <4>1. txHead'[r] = txHead[r]
        BY <2>7, <3>2
      <4>2. Fresh(p) \/ Announced(p) \/ Coming(r) \/ Owed(p)
        BY <2>10, <3>c, <4>1 DEF Noticed
      <4>3. Fresh(p) => Fresh(p)'
        BY <2>2, <3>c, <4>1, FreshKept DEF Tracks
      <4>4. Announced(p) => Announced(p)'
        BY <2>8 DEF Announced
      <4>5. Tx!Signal(r, txHead[r]) \in signal' => Announced(p)'
        <5>1. PICK k \in DOMAIN TxPipes : TxPipes[k] = p
          BY DEF Tx!Pipes
        <5>2. 1 <= k
          BY TxConstants
        <5> QED
          BY <3>c, <5>1, <5>2 DEF Announced, Tx!Signal
      <4> QED
        BY <2>3, <2>9, <3>c, <4>2, <4>3, <4>4, <4>5
    <3> QED
      BY <3>1, <3>2
  <2> QED
    BY <1>h, <1>u, <2>6, <2>10 DEF Noticed
<1> QED
  BY <1>1, <1>2, <1>3 DEF World

(* A step of the request or the coordinator that leaves the jobs alone.    *)
LEMMA RestHead ==
  ASSUME TxTypes, Renewed, Noticed, UNCHANGED <<txHead, signal, txJob>>,
         \A p \in Tx!Pipes : Owed(p) => Owed(p)',
         \A p \in Tx!Pipes : txVersion'[p] > 0 => txVersion[p] > 0 \/ Owed(p)'
  PROVE  Renewed' /\ Noticed'
<1>j. \A j \in DOMAIN txJob : txJob[j].pipe \in Tx!Pipes
  BY JobTyped
<1>1. Renewed'
  BY <1>j DEF Renewed
<1>2. ASSUME NEW p \in Tx!Pipes, txVersion'[p] > 0, txHead'[TxConsumes[p]] > 0
      PROVE  Fresh(p)' \/ Announced(p)' \/ Coming(TxConsumes[p])' \/ Owed(p)'
  <2>1. CASE txVersion[p] > 0
    <3>1. Fresh(p) \/ Announced(p) \/ Coming(TxConsumes[p]) \/ Owed(p)
      BY <1>2, <2>1 DEF Noticed
    <3>2. Fresh(p) => Fresh(p)'
      BY DEF Fresh
    <3>3. Announced(p) => Announced(p)'
      BY DEF Announced
    <3>4. Coming(TxConsumes[p]) => Coming(TxConsumes[p])'
      BY DEF Coming, Working
    <3> QED
      BY <3>1, <3>2, <3>3, <3>4
  <2>2. CASE ~(txVersion[p] > 0)
    BY <1>2, <2>2
  <2> QED
    BY <2>1, <2>2
<1> QED
  BY <1>1, <1>2 DEF Noticed

(* What is cancelled with an update is owed a job, or has a new one.       *)
LEMMA OutsideHead ==
  ASSUME TxTypes, PlaceInv, Positive, HoldInv, Renewed, Noticed, NEW q \in Tx!Pipes, Tx!OutsideUpdate(q)
  PROVE  HoldInv' /\ Renewed' /\ Noticed'
<1>t. txVersion \in [Tx!Pipes -> Nat] /\ txHead \in [Tx!Repos -> Nat] /\ txJob \in Seq(Tx!Job)
  BY DEF TxTypes
<1>1. /\ UNCHANGED <<txHead, signal, hold, pending, tx, coord>>
      /\ txVersion' = [txVersion EXCEPT ![q] = txVersion[q] + 1] /\ txVersion[q] > 0
  BY OutsideTypes
<1>2. \A p \in Tx!Pipes : txVersion'[p] > 0 <=> txVersion[p] > 0
  BY <1>t, <1>1
<1>h. HoldInv'
  <2>1. \A m \in DOMAIN tx.ops : tx.ops[m].pipe \in Tx!Pipes
    BY OpTyped
  <2>2. Tx!Staged' = Tx!Staged /\ Tx!Staged \subseteq Tx!Pipes
    BY <1>1, <2>1 DEF Tx!Staged
  <2> QED
    BY <1>1, <1>2, <2>1, <2>2 DEF HoldInv, Applying, Due
<1>o. \A p \in Tx!Pipes : Owed(p) => Owed(p)'
  BY <1>1, OwedKept
<1>3. /\ Tx!Cancelled(q) \in Seq(Tx!Job) /\ DOMAIN Tx!Cancelled(q) = DOMAIN txJob /\ Len(Tx!Cancelled(q)) = Len(txJob)
      /\ \A j \in DOMAIN txJob :
           /\ Tx!Cancelled(q)[j].pipe = txJob[j].pipe /\ Tx!Cancelled(q)[j].input = txJob[j].input
           /\ Tx!Cancelled(q)[j].step = txJob[j].step
           /\ Tx!Cancelled(q)[j].cancelled => txJob[j].cancelled \/ txJob[j].pipe = q
           /\ txJob[j].pipe # q => Tx!Cancelled(q)[j] = txJob[j]
  <2>1. \A j \in DOMAIN txJob : txJob[j].pipe # q => Tx!Cancelled(q)[j] = txJob[j]
    BY DEF Tx!Cancelled
  <2> QED
    BY <2>1, CancelledTyped
<1>4. ASSUME NEW j \in DOMAIN txJob, txJob[j].pipe = q
      PROVE  /\ DOMAIN txJob' = DOMAIN txJob \cup {Len(txJob) + 1} /\ j < Len(txJob) + 1
             /\ txJob'[Len(txJob) + 1].pipe = q /\ txJob'[Len(txJob) + 1].step = "live"
             /\ ~txJob'[Len(txJob) + 1].cancelled
  <2>1. txHead[TxConsumes[q]] > 0
    BY <1>4 DEF Positive
  <2>2. Spawned(Tx!Cancelled(q), q)
    BY <2>1, OutsideSpawns
  <2>3. /\ DOMAIN txJob' = DOMAIN Tx!Cancelled(q) \cup {Len(Tx!Cancelled(q)) + 1}
        /\ \A k \in DOMAIN Tx!Cancelled(q) : k < Len(Tx!Cancelled(q)) + 1
        /\ txJob'[Len(Tx!Cancelled(q)) + 1].pipe = q /\ txJob'[Len(Tx!Cancelled(q)) + 1].step = "live"
        /\ ~txJob'[Len(Tx!Cancelled(q)) + 1].cancelled
    BY <1>3, <2>2, SpawnedJob
  <2>4. DOMAIN Tx!Cancelled(q) = DOMAIN txJob /\ Len(Tx!Cancelled(q)) = Len(txJob)
    BY <1>3
  <2> QED
    BY <2>3, <2>4, Zenon
<1>5. \A j \in DOMAIN txJob : j \in DOMAIN txJob' /\ txJob'[j] = Tx!Cancelled(q)[j]
  <2>1. CASE txHead[TxConsumes[q]] = 0
    BY <1>3, <2>1, OutsideSpawns
  <2>2. CASE txHead[TxConsumes[q]] # 0
    <3>1. Spawned(Tx!Cancelled(q), q)
      BY <2>2, OutsideSpawns
    <3> QED
      BY <1>3, <3>1, SpawnedJob
  <2> QED
    BY <2>1, <2>2
<1>6. \A j \in DOMAIN txJob' : j \in DOMAIN txJob \/ ~txJob'[j].cancelled
  <2>1. CASE txHead[TxConsumes[q]] = 0
    BY <1>3, <2>1, OutsideSpawns
  <2>2. CASE txHead[TxConsumes[q]] # 0
    <3>1. Spawned(Tx!Cancelled(q), q)
      BY <2>2, OutsideSpawns
    <3>2. DOMAIN txJob' = DOMAIN txJob \cup {Len(txJob) + 1} /\ ~txJob'[Len(txJob) + 1].cancelled
      BY <1>3, <3>1, SpawnedJob
    <3> QED
      BY <3>2, Zenon
  <2> QED
    BY <2>1, <2>2
<1>7. Renewed'
  <2> SUFFICES ASSUME NEW j \in DOMAIN txJob, txJob'[j].cancelled, txJob'[j].step # "over"
               PROVE  \/ Owed(txJob[j].pipe)'
                      \/ \E k \in DOMAIN txJob' : /\ k > j /\ txJob'[k].pipe = txJob'[j].pipe
                                                  /\ txJob'[k].step = "live" /\ ~txJob'[k].cancelled
    BY <1>6 DEF Renewed
  <2>p. PICK p \in Tx!Pipes : p = txJob[j].pipe
    BY JobTyped
  <2>1. txJob'[j].pipe = p /\ txJob[j].step # "over"
    BY <1>3, <1>5, <2>p
  <2>2. CASE p = q
    <3>1. /\ DOMAIN txJob' = DOMAIN txJob \cup {Len(txJob) + 1} /\ j < Len(txJob) + 1
          /\ txJob'[Len(txJob) + 1].pipe = q /\ txJob'[Len(txJob) + 1].step = "live"
          /\ ~txJob'[Len(txJob) + 1].cancelled
      BY <1>4, <2>2, <2>p
    <3>2. j \in Nat /\ Len(txJob) + 1 \in Nat
      BY <1>t
    <3>3. Len(txJob) + 1 > j
      BY <3>1, <3>2
    <3>4. Len(txJob) + 1 \in DOMAIN txJob'
      BY <3>1
    <3> QED
      BY <2>1, <2>2, <3>1, <3>3, <3>4, Zenon
  <2>3. CASE p # q
    <3>1. txJob[j].cancelled
      BY <1>3, <1>5, <2>3, <2>p
    <3>2. \/ Owed(p)
          \/ \E k \in DOMAIN txJob : /\ k > j /\ txJob[k].pipe = p
                                     /\ txJob[k].step = "live" /\ ~txJob[k].cancelled
      BY <2>1, <2>p, <3>1 DEF Renewed
    <3>3. Owed(p) => Owed(txJob[j].pipe)'
      BY <1>o, <2>1
    <3>4. ASSUME NEW k \in DOMAIN txJob, txJob[k].pipe = p
          PROVE  k \in DOMAIN txJob' /\ txJob'[k] = txJob[k]
      BY <1>3, <1>5, <2>3, <3>4
    <3> QED
      BY <2>1, <3>2, <3>3, <3>4, Zenon
  <2> QED
    BY <2>2, <2>3
<1>8. ASSUME NEW p \in Tx!Pipes, txVersion'[p] > 0, txHead'[TxConsumes[p]] > 0
      PROVE  Fresh(p)' \/ Announced(p)' \/ Coming(TxConsumes[p])' \/ Owed(p)'
  <2>1. Fresh(p) \/ Announced(p) \/ Coming(TxConsumes[p]) \/ Owed(p)
    BY <1>1, <1>2, <1>8 DEF Noticed
  <2>2. Tracks
    BY <1>3, <1>5 DEF Tracks
  <2>3. (Fresh(p) => Fresh(p)') /\ (Announced(p) => Announced(p)')
    BY <1>1, <2>2, FreshKept DEF Announced
  <2>4. ASSUME NEW r \in Tx!Repos, Coming(r) PROVE Coming(r)'
    <3>1. CASE r \in Tx!Pipes /\ Owed(r) /\ txHead[TxConsumes[r]] > 0
      BY <1>1, <1>o, <3>1 DEF Coming
    <3>2. ASSUME NEW j \in DOMAIN txJob, txJob[j].pipe = r, Working(j) PROVE Coming(r)'
      <4>1. CASE r = q
        <5>1. /\ DOMAIN txJob' = DOMAIN txJob \cup {Len(txJob) + 1}
              /\ txJob'[Len(txJob) + 1].pipe = q /\ txJob'[Len(txJob) + 1].step = "live"
              /\ ~txJob'[Len(txJob) + 1].cancelled
          BY <1>4, <3>2, <4>1
        <5>2. PICK k \in DOMAIN txJob' : txJob'[k].pipe = q /\ txJob'[k].step = "live" /\ ~txJob'[k].cancelled
          BY <5>1, Zenon
        <5> QED
          BY <4>1, <5>2 DEF Coming, Working
      <4>2. CASE r # q
        <5>1. j \in DOMAIN txJob' /\ txJob'[j] = txJob[j]
          BY <1>3, <1>5, <3>2, <4>2
        <5> QED
          BY <3>2, <5>1 DEF Coming, Working
      <4> QED
        BY <4>1, <4>2
    <3> QED
      BY <2>4, <3>1, <3>2 DEF Coming
  <2> QED
    BY <1>o, <2>1, <2>3, <2>4, TxConstants
<1> QED
  BY <1>h, <1>7, <1>8 DEF Noticed

LEMMA RequestHead ==
  ASSUME TxTypes, PlaceInv, Positive, HoldInv, Renewed, Noticed, Request, tx'.step \notin UndoSteps
  PROVE  HoldInv' /\ Renewed' /\ Noticed'
<1>t. /\ txVersion \in [Tx!Pipes -> Nat] /\ txJob \in Seq(Tx!Job)
      /\ tx \in [step : TxSteps, ops : TxOpLists, baseline : [DOMAIN tx.ops -> Nat], n : Nat, loaded : Nat]
  BY DEF TxTypes
<1>o. /\ Len(tx.ops) \in Nat \ {0} /\ DOMAIN tx.ops = 1 .. Len(tx.ops)
      /\ \A n \in DOMAIN tx.ops : tx.ops[n].pipe \in Tx!Pipes
  BY OpTyped
<1>u. tx'.ops = tx.ops /\ UNCHANGED <<txHead, signal, coord>> /\ tx.step # "done" /\ tx'.step # "done"
  BY RequestTypes
<1>s. Tx!Staged' = Tx!Staged
  BY <1>u DEF Tx!Staged
<1>e. \A p : Owed(p) <=> Applying(p)
  BY <1>u DEF Owed
<1>1. CASE Tx!stageTxOp \/ Tx!Validate
  <2>1. tx.step \in EarlySteps /\ tx'.step \in EarlySteps /\ UNCHANGED <<txVersion, hold, txJob>>
    BY <1>1, <1>t DEF Tx!stageTxOp, Tx!Validate, EarlySteps
  <2>2. \A p : ~Owed(p)
    BY <1>e, <2>1 DEF Applying, EarlySteps
  <2>3. HoldInv'
    BY <1>u, <2>1, <2>2 DEF HoldInv, Owed, EarlySteps
  <2> QED
    BY <1>u, <2>1, <2>2, <2>3, RestHead
<1>2. CASE Tx!HoldAll
  <2>1. /\ tx.step = "valid" /\ tx.n = 1 /\ UNCHANGED <<txVersion, txJob>>
        /\ hold' = [p \in Tx!Pipes |-> hold[p] \/ p \in Tx!Staged]
    BY <1>2 DEF Tx!HoldAll, PlaceInv
  <2>2. tx'.step = "apply" /\ tx'.n = 1
    BY <1>2, <1>t, <2>1 DEF Tx!HoldAll
  <2>3. \A p \in Tx!Pipes : ~Owed(p) /\ ~hold[p]
    BY <1>e, <2>1 DEF HoldInv, Applying
  <2>4. \A p \in Tx!Pipes : hold'[p] => p \in Tx!Staged
    BY <2>1, <2>3, Zenon
  <2>5. HoldInv'
    BY <1>o, <1>s, <1>u, <2>2, <2>4 DEF HoldInv, Applying
  <2> QED
    BY <1>u, <2>1, <2>3, <2>5, RestHead
<1>3. CASE Tx!applyCreate \/ Tx!applyUpdate
  <2>1. tx.step \in {"apply", "cancelled"} /\ tx.n \in DOMAIN tx.ops /\ txJob' = txJob
    BY <1>3, <1>o DEF Tx!applyCreate, Tx!applyUpdate, PlaceInv
  <2>2. Tx!Op = tx.ops[tx.n] /\ Tx!Op.pipe \in Tx!Pipes
    BY <1>o, <2>1 DEF Tx!Op
  <2>3. PICK v \in Nat \ {0} : Tx!Applied(Tx!Op.pipe, v)
    <3>1. tx.loaded + 1 \in Nat \ {0}
      BY <1>t
    <3> QED
      BY <1>3, <3>1 DEF Tx!applyCreate, Tx!applyUpdate
  <2>4. /\ txVersion' = [txVersion EXCEPT ![Tx!Op.pipe] = v] /\ hold' = hold
        /\ tx' = [tx EXCEPT !.n = tx.n + 1, !.step = "apply"]
    BY <2>3 DEF Tx!Applied
  <2>5. tx'.step = "apply" /\ tx'.n = tx.n + 1
    BY <1>t, <2>4
  <2>6. /\ \A p \in Tx!Pipes : txVersion[p] > 0 => txVersion'[p] > 0
        /\ \A p \in Tx!Pipes : txVersion'[p] > 0 => txVersion[p] > 0 \/ p = Tx!Op.pipe
        /\ txVersion'[Tx!Op.pipe] > 0
    BY <1>t, <2>2, <2>4
  <2>7. Tx!Op.pipe \in Tx!Staged
    BY <2>1, <2>2 DEF Tx!Staged
  <2>8. \A p \in Tx!Pipes : Applying(p) <=> Applying(p)'
    BY <1>s, <2>1, <2>5 DEF Applying
  <2>9. \A p \in Tx!Pipes : (Owed(p) => Owed(p)') /\ (p \in Tx!Staged => Owed(p)')
    BY <1>e, <1>s, <2>5, <2>8 DEF Owed, Applying
  <2>10. \A m \in DOMAIN tx.ops : m < tx'.n => txVersion'[tx.ops[m].pipe] > 0
    <3> SUFFICES ASSUME NEW m \in DOMAIN tx.ops, m < tx.n + 1 PROVE txVersion'[tx.ops[m].pipe] > 0
      BY <2>5
    <3>1. m < tx.n \/ m = tx.n
      BY <1>o, <2>1
    <3>2. CASE m < tx.n
      BY <1>o, <2>1, <2>6, <3>2 DEF HoldInv
    <3>3. CASE m = tx.n
      BY <2>2, <2>6, <3>3
    <3> QED
      BY <3>1, <3>2, <3>3
  <2>11. HoldInv'
    <3>1. \A p \in Tx!Pipes : hold'[p] => Applying(p)'
      BY <1>u, <2>4, <2>8 DEF HoldInv
    <3> QED
      BY <1>u, <2>10, <3>1 DEF HoldInv
  <2> QED
    BY <1>u, <2>1, <2>6, <2>7, <2>9, <2>11, RestHead
<1>4. CASE Tx!CancelJobs
  <2>1. tx.step = "apply" /\ tx.n \in DOMAIN tx.ops /\ UNCHANGED <<txVersion, hold>>
    BY <1>4, <1>o DEF Tx!CancelJobs, PlaceInv
  <2>2. Tx!Op = tx.ops[tx.n] /\ Tx!Op.pipe \in Tx!Pipes /\ Tx!Op.pipe \in Tx!Staged
    BY <1>o, <2>1 DEF Tx!Op, Tx!Staged
  <2>p. PICK q \in Tx!Pipes : q = Tx!Op.pipe
    BY <2>2
  <2>3. tx'.step = "cancelled" /\ tx'.n = tx.n /\ txJob' = Tx!Cancelled(q)
    BY <1>4, <1>t, <2>p DEF Tx!CancelJobs
  <2>4. /\ DOMAIN txJob' = DOMAIN txJob
        /\ \A j \in DOMAIN txJob :
             /\ txJob'[j].pipe = txJob[j].pipe /\ txJob'[j].input = txJob[j].input
             /\ txJob'[j].step = txJob[j].step
             /\ txJob'[j].cancelled => txJob[j].cancelled \/ txJob[j].pipe = q
    BY <2>3, CancelledTyped
  <2>5. \A p \in Tx!Pipes : Applying(p) <=> Applying(p)'
    BY <1>s, <2>1, <2>3 DEF Applying
  <2>6. (\A p \in Tx!Pipes : Owed(p) => Owed(p)') /\ Owed(q)'
    BY <1>e, <1>s, <2>2, <2>3, <2>5, <2>p DEF Owed, Applying
  <2>7. HoldInv'
    BY <1>u, <2>1, <2>3, <2>5 DEF HoldInv
  <2>8. Renewed'
    <3> SUFFICES ASSUME NEW j \in DOMAIN txJob, txJob'[j].cancelled, txJob'[j].step # "over"
                 PROVE  \/ Owed(txJob[j].pipe)'
                        \/ \E k \in DOMAIN txJob' : /\ k > j /\ txJob'[k].pipe = txJob'[j].pipe
                                                    /\ txJob'[k].step = "live" /\ ~txJob'[k].cancelled
      BY <2>4 DEF Renewed
    <3>p. PICK p \in Tx!Pipes : p = txJob[j].pipe
      BY JobTyped
    <3>1. txJob'[j].pipe = p /\ txJob[j].step # "over"
      BY <2>4, <3>p
    <3>2. Owed(p)' => Owed(txJob[j].pipe)'
      BY <3>1
    <3>3. CASE p = q
      BY <2>6, <3>2, <3>3
    <3>4. CASE p # q
      <4>1. txJob[j].cancelled
        BY <2>4, <3>4, <3>p
      <4>2. \/ Owed(p)
            \/ \E k \in DOMAIN txJob : /\ k > j /\ txJob[k].pipe = p
                                       /\ txJob[k].step = "live" /\ ~txJob[k].cancelled
        BY <3>1, <3>p, <4>1 DEF Renewed
      <4>3. ASSUME NEW k \in DOMAIN txJob, txJob[k].pipe = p, ~txJob[k].cancelled PROVE ~txJob'[k].cancelled
        BY <2>4, <3>4, <4>3
      <4> QED
        BY <2>4, <2>6, <3>1, <3>2, <4>2, <4>3
    <3> QED
      BY <3>3, <3>4
  <2>9. ASSUME NEW p \in Tx!Pipes, txVersion'[p] > 0, txHead'[TxConsumes[p]] > 0
        PROVE  Fresh(p)' \/ Announced(p)' \/ Coming(TxConsumes[p])' \/ Owed(p)'
    <3>1. Fresh(p) \/ Announced(p) \/ Coming(TxConsumes[p]) \/ Owed(p)
      BY <1>u, <2>1, <2>9 DEF Noticed
    <3>2. Tracks
      BY <2>4 DEF Tracks
    <3>3. (Fresh(p) => Fresh(p)') /\ (Announced(p) => Announced(p)')
      BY <1>u, <3>2, FreshKept DEF Announced
    <3>4. ASSUME NEW r \in Tx!Repos, Coming(r) PROVE Coming(r)'
      <4>1. CASE r \in Tx!Pipes /\ Owed(r) /\ txHead[TxConsumes[r]] > 0
        BY <1>u, <2>6, <4>1 DEF Coming
      <4>2. ASSUME NEW j \in DOMAIN txJob, txJob[j].pipe = r, Working(j) PROVE Coming(r)'
        <5>1. CASE r = q
          <6>1. txHead'[TxConsumes[q]] > 0
            BY <1>u, <4>2, <5>1 DEF Positive
          <6> QED
            BY <2>6, <5>1, <6>1 DEF Coming
        <5>2. CASE r # q
          BY <2>4, <4>2, <5>2 DEF Coming, Working
        <5> QED
          BY <5>1, <5>2
      <4> QED
        BY <3>4, <4>1, <4>2 DEF Coming
    <3> QED
      BY <2>6, <3>1, <3>3, <3>4, TxConstants
  <2> QED
    BY <2>7, <2>8, <2>9 DEF Noticed
<1>5. CASE Tx!txAbortHolds \/ Tx!rollbackTx
  <2>1. tx'.step \in UndoSteps
    BY <1>5, <1>t DEF Tx!txAbortHolds, Tx!rollbackTx, UndoSteps
  <2> QED
    BY <2>1
<1> QED
  BY <1>1, <1>2, <1>3, <1>4, <1>5 DEF Request

(* The coordinator lets go of a pipeline only with a job for its head.     *)
LEMMA CoordHead ==
  ASSUME TxTypes, PlaceInv, Positive, HoldInv, Renewed, Noticed, Coordinate
  PROVE  HoldInv' /\ Renewed' /\ Noticed'
<1>t. /\ hold \in [Tx!Pipes -> BOOLEAN] /\ pending \in [Tx!Pipes -> BOOLEAN] /\ txJob \in Seq(Tx!Job)
      /\ coord.order \in Seq(Tx!Pipes) /\ coord.n \in Nat
  BY DEF TxTypes
<1>u. tx'.ops = tx.ops /\ tx'.step = "done" /\ UNCHANGED <<txVersion, txHead, signal>>
  BY CoordTypes
<1>s. Tx!Staged' = Tx!Staged
  BY <1>u DEF Tx!Staged
<1>p. /\ Tx!Staged \subseteq Tx!Pipes
      /\ \A p : p \in Tx!Staged => \E m \in DOMAIN tx.ops : tx.ops[m].pipe = p
  BY OpTyped DEF Tx!Staged
<1>1. CASE Tx!FinishTransaction
  <2>1. /\ tx.step = "apply" /\ tx.n = Len(tx.ops) + 1 /\ UNCHANGED <<hold, pending, txJob>>
    BY <1>1 DEF Tx!FinishTransaction
  <2>2. /\ coord'.n = 1 /\ coord'.step = "wait"
        /\ \A p \in Tx!Staged : \E m \in DOMAIN coord'.order : coord'.order[m] = p
    BY <1>1, CoordTypes
  <2>3. coord'.order \in Seq(Tx!Pipes)
    BY CoordTypes DEF TxTypes
  <2>4. ASSUME NEW p \in Tx!Pipes, Applying(p)
        PROVE  Due(p)' /\ Left(p)'
    <3>1. PICK m \in DOMAIN coord'.order : coord'.order[m] = p
      BY <2>2, <2>4 DEF Applying
    <3>2. m \in Nat /\ m >= 1
      BY <2>3
    <3>3. Due(p)'
      BY <2>2, <3>1, <3>2 DEF Due
    <3>4. m > 1 \/ m = 1
      BY <3>2
    <3>5. Left(p)'
      BY <2>2, <3>1, <3>4 DEF Left
    <3> QED
      BY <3>3, <3>5
  <2>5. \A p \in Tx!Pipes : Owed(p) => Owed(p)'
    BY <1>u, <2>1, <2>4 DEF Owed
  <2>6. HoldInv'
    <3>1. \A p \in Tx!Pipes : hold'[p] => Due(p)'
      BY <2>1, <2>4 DEF HoldInv
    <3>2. \A m \in DOMAIN tx.ops : txVersion[tx.ops[m].pipe] > 0
      <4>1. \A m \in DOMAIN tx.ops : m < tx.n
        BY <2>1, OpTyped
      <4> QED
        BY <2>1, <4>1 DEF HoldInv
    <3>3. \A p \in Tx!Staged : txVersion[p] > 0
      BY <1>p, <3>2
    <3> QED
      BY <1>s, <1>u, <3>1, <3>3 DEF HoldInv
  <2> QED
    BY <1>u, <2>1, <2>5, <2>6, RestHead
<1>2. CASE ~Tx!FinishTransaction
  <2>1. /\ tx' = tx /\ coord'.order = coord.order /\ coord.n \in DOMAIN coord.order
        /\ coord.step \in CoordSteps /\ Tx!Current \in Tx!Pipes
    BY <1>2, CoordTypes
  <2>2. PICK q \in Tx!Pipes : q = Tx!Current
    BY <2>1
  <2>3. q = coord.order[coord.n] /\ q \in Tx!Staged
    BY <2>1, <2>2 DEF Tx!Current, PlaceInv, CoordSteps
  <2>4. txVersion[q] > 0 /\ tx.step = "done" /\ \A p \in Tx!Staged : txVersion'[p] > 0
    BY <1>u, <2>1, <2>3 DEF HoldInv
  <2>5. \A p : (Owed(p) <=> Left(p)) /\ (Owed(p)' <=> Left(p)')
    BY <2>1, <2>4 DEF Owed, Applying
  <2>h. ASSUME \A p \in Tx!Pipes : hold'[p] => Due(p)' PROVE HoldInv'
    BY <1>s, <1>u, <2>4, <2>h DEF HoldInv
  <2>d. \A p \in Tx!Pipes : hold[p] => Due(p)
    BY <2>4 DEF HoldInv, Applying
  <2>6. CASE Tx!WaitForDeps
    <3>1. /\ coord.step = "wait" /\ coord'.step = "claim" /\ coord'.n = coord.n
          /\ UNCHANGED <<hold, pending, txJob>>
      <4>1. txVersion[Tx!Current] # 0
        BY <2>2, <2>4
      <4> QED
        BY <2>6, <4>1, CoordTypes DEF Tx!WaitForDeps
    <3>2. \A p \in Tx!Pipes : (Left(p) => Left(p)') /\ (Due(p) => Due(p)')
      BY <2>1, <3>1 DEF Left, Due
    <3> QED
      BY <1>u, <2>5, <2>d, <2>h, <3>1, <3>2, RestHead
  <2>7. CASE Tx!Claim
    <3>1. /\ coord.step = "claim" /\ coord'.step = "schedule" /\ coord'.n = coord.n /\ txJob' = txJob
          /\ hold' = [hold EXCEPT ![q] = TRUE]
      BY <2>2, <2>7, CoordTypes DEF Tx!Claim
    <3>2. \A p \in Tx!Pipes : (Left(p) => Left(p)') /\ (Due(p) => Due(p)')
      BY <2>1, <3>1 DEF Left, Due
    <3>3. Due(q)'
      BY <1>t, <2>1, <2>3, <3>1 DEF Due
    <3>4. \A p \in Tx!Pipes : hold'[p] => hold[p] \/ p = q
      BY <1>t, <3>1
    <3> QED
      BY <1>u, <2>5, <2>d, <2>h, <3>1, <3>2, <3>3, <3>4, RestHead
  <2>8. CASE Tx!CheckPending
    <3>1. /\ coord.step = "check" /\ txJob' = txJob /\ pending' = pending
          /\ hold' = [hold EXCEPT ![q] = FALSE]
      BY <2>2, <2>8 DEF Tx!CheckPending
    <3>2. \/ pending[q] /\ coord'.step = "claim" /\ coord'.n = coord.n
          \/ ~pending[q] /\ coord'.step \in {"wait", "over"} /\ coord'.n = coord.n + 1
      BY <2>2, <2>8, CoordTypes
    <3>3. ASSUME NEW p \in Tx!Pipes, Left(p) PROVE Left(p)'
      <4>1. PICK m \in DOMAIN coord.order :
              /\ coord.order[m] = p
              /\ m > coord.n \/ (m = coord.n /\ pending[p])
        BY <3>1, <3>3 DEF Left
      <4>2. m \in Nat
        BY <1>t
      <4>3. CASE m > coord.n
        <5>1. m > coord'.n \/ (m = coord'.n /\ coord'.step # "check")
          BY <1>t, <3>2, <4>2, <4>3
        <5> QED
          BY <2>1, <4>1, <5>1 DEF Left
      <4>4. CASE m = coord.n /\ pending[p]
        <5>1. p = q
          BY <2>3, <4>1, <4>4
        <5>2. coord'.step = "claim" /\ coord'.n = coord.n
          BY <3>2, <4>4, <5>1
        <5> QED
          BY <2>1, <4>1, <4>4, <5>2 DEF Left
      <4> QED
        BY <4>1, <4>3, <4>4
    <3>4. ASSUME NEW p \in Tx!Pipes, hold'[p] PROVE Due(p)'
      <4>1. hold[p] /\ p # q
        BY <1>t, <3>1, <3>4
      <4>2. PICK m \in DOMAIN coord.order : coord.order[m] = p /\ m >= coord.n
        BY <2>d, <4>1 DEF Due
      <4>3. m # coord.n /\ m \in Nat
        BY <1>t, <2>3, <4>1, <4>2
      <4>4. m >= coord'.n
        BY <1>t, <3>2, <4>2, <4>3
      <4> QED
        BY <2>1, <4>2, <4>4 DEF Due
    <3> QED
      BY <1>u, <2>5, <2>h, <3>1, <3>3, <3>4, RestHead
  <2>9. CASE Tx!scheduleHeadJob
    <3>1. /\ coord'.step = "check" /\ coord'.n = coord.n /\ UNCHANGED <<hold, pending>>
      BY <2>9, CoordTypes DEF Tx!scheduleHeadJob
    <3>2. HoldInv'
      <4>1. \A p \in Tx!Pipes : Due(p) => Due(p)'
        BY <2>1, <3>1 DEF Due
      <4> QED
        BY <2>d, <2>h, <3>1, <4>1
    <3>3. ASSUME NEW p \in Tx!Pipes, p # q, Owed(p) PROVE Owed(p)'
      <4>1. PICK m \in DOMAIN coord.order : coord.order[m] = p /\ (m > coord.n \/ m = coord.n)
        BY <2>5, <3>3 DEF Left
      <4>2. m > coord.n
        BY <2>3, <3>3, <4>1
      <4>3. Left(p)'
        BY <2>1, <3>1, <4>1, <4>2 DEF Left
      <4> QED
        BY <2>5, <4>3
    <3>4. IF txHead[TxConsumes[q]] = 0 THEN txJob' = txJob ELSE Spawned(txJob, q)
      BY <2>2, <2>9, ScheduleSpawns
    <3>5. /\ \A j \in DOMAIN txJob : j \in DOMAIN txJob' /\ txJob'[j] = txJob[j]
          /\ \A j \in DOMAIN txJob' : j \in DOMAIN txJob \/ ~txJob'[j].cancelled
          /\ txHead[TxConsumes[q]] > 0 => \E k \in DOMAIN txJob' :
               /\ \A j \in DOMAIN txJob : k > j
               /\ txJob'[k].pipe = q /\ txJob'[k].input = txHead[TxConsumes[q]]
               /\ txJob'[k].step = "live" /\ ~txJob'[k].cancelled
      <4>1. CASE txJob' = txJob /\ txHead[TxConsumes[q]] = 0
        BY <4>1
      <4>2. CASE Spawned(txJob, q)
        <5>1. /\ DOMAIN txJob' = DOMAIN txJob \cup {Len(txJob) + 1}
              /\ \A j \in DOMAIN txJob : txJob'[j] = txJob[j]
              /\ txJob'[Len(txJob) + 1].pipe = q /\ txJob'[Len(txJob) + 1].input = txHead[TxConsumes[q]]
              /\ txJob'[Len(txJob) + 1].step = "live" /\ ~txJob'[Len(txJob) + 1].cancelled
          BY <1>t, <4>2, SpawnedJob
        <5>2. \A j \in DOMAIN txJob : Len(txJob) + 1 > j
          BY <1>t
        <5> QED
          BY <5>1, <5>2, Zenon
      <4> QED
        BY <3>4, <4>1, <4>2
    <3>6. Renewed'
      <4> SUFFICES ASSUME NEW j \in DOMAIN txJob, txJob[j].cancelled, txJob[j].step # "over"
                   PROVE  \/ Owed(txJob[j].pipe)'
                          \/ \E k \in DOMAIN txJob' : /\ k > j /\ txJob'[k].pipe = txJob'[j].pipe
                                                      /\ txJob'[k].step = "live" /\ ~txJob'[k].cancelled
        BY <3>5 DEF Renewed
      <4>p. PICK p \in Tx!Pipes : p = txJob[j].pipe
        BY JobTyped
      <4>1. txJob'[j].pipe = p
        BY <3>5, <4>p
      <4>2. CASE p = q
        <5>1. txHead[TxConsumes[q]] > 0
          BY <4>2, <4>p DEF Positive
        <5> QED
          BY <3>5, <4>1, <4>2, <5>1, Zenon
      <4>3. CASE p # q
        <5>1. \/ Owed(p)
              \/ \E k \in DOMAIN txJob : /\ k > j /\ txJob[k].pipe = p
                                         /\ txJob[k].step = "live" /\ ~txJob[k].cancelled
          BY <4>p DEF Renewed
        <5>2. Owed(p) => Owed(txJob[j].pipe)'
          BY <3>3, <4>1, <4>3
        <5> QED
          BY <3>5, <4>1, <5>1, <5>2, Zenon
      <4> QED
        BY <4>2, <4>3
    <3>7. ASSUME NEW p \in Tx!Pipes, txVersion'[p] > 0, txHead'[TxConsumes[p]] > 0
          PROVE  Fresh(p)' \/ Announced(p)' \/ Coming(TxConsumes[p])' \/ Owed(p)'
      <4>1. Fresh(p) \/ Announced(p) \/ Coming(TxConsumes[p]) \/ Owed(p)
        BY <1>u, <3>7 DEF Noticed
      <4>2. Tracks
        BY <3>5 DEF Tracks
      <4>3. (Fresh(p) => Fresh(p)') /\ (Announced(p) => Announced(p)')
        BY <1>u, <4>2, FreshKept DEF Announced
      <4>4. ASSUME NEW r \in Tx!Repos, Coming(r) PROVE Coming(r)'
        <5>1. CASE r \in Tx!Pipes /\ Owed(r) /\ txHead[TxConsumes[r]] > 0
          <6>1. CASE r = q
            BY <3>5, <5>1, <6>1 DEF Coming, Working
          <6>2. CASE r # q
            BY <1>u, <3>3, <5>1, <6>2 DEF Coming
          <6> QED
            BY <6>1, <6>2
        <5>2. CASE \E j \in DOMAIN txJob : txJob[j].pipe = r /\ Working(j)
          BY <3>5, <5>2 DEF Coming, Working
        <5> QED
          BY <4>4, <5>1, <5>2 DEF Coming
      <4>5. Owed(p) => Fresh(p)' \/ Owed(p)'
        <5>1. CASE p = q
          BY <1>u, <3>5, <3>7, <5>1 DEF Fresh
        <5>2. CASE p # q
          BY <3>3, <5>2
        <5> QED
          BY <5>1, <5>2
      <4> QED
        BY <4>1, <4>3, <4>4, <4>5, TxConstants
    <3> QED
      BY <3>2, <3>6, <3>7 DEF Noticed
  <2> QED
    BY <1>2, <2>6, <2>7, <2>8, <2>9 DEF Coordinate
<1> QED
  BY <1>1, <1>2

LEMMA HeadStep ==
  ASSUME TxTypes, PlaceInv, Positive, HeadInv, [Tx!Next]_txVars
  PROVE  HeadInv'
<1> SUFFICES ASSUME tx'.step \notin UndoSteps PROVE HoldInv' /\ Renewed' /\ Noticed'
  BY DEF HeadInv
<1>n. ASSUME tx.step \in UndoSteps PROVE FALSE
  <2>1. tx \in [step : TxSteps, ops : TxOpLists, baseline : [DOMAIN tx.ops -> Nat], n : Nat, loaded : Nat]
    BY DEF TxTypes
  <2>2. coord.step = "off"
    BY <1>n DEF PlaceInv, UndoSteps
  <2>3. tx' = tx \/ Tx!rollbackTx
    BY <1>n, <2>2 DEF Tx!Next, txVars, Tx!SourceCommit, Tx!TxStep, Tx!txAbortHolds, Tx!Trigger, Tx!JobPublishes,
         Tx!JobSettles, Tx!JobTriggers, Tx!JobStep, Tx!OutsideUpdate, Tx!stageTxOp, Tx!Validate, Tx!HoldAll, Tx!applyCreate,
         Tx!CancelJobs, Tx!applyUpdate, Tx!FinishTransaction, Tx!WaitForDeps, Tx!Claim, Tx!scheduleHeadJob,
         Tx!CheckPending, UndoSteps
  <2>4. Tx!rollbackTx => tx'.step \in UndoSteps
    BY <2>1 DEF Tx!rollbackTx, UndoSteps
  <2> QED
    BY <1>n, <2>3, <2>4
<1>h. HoldInv /\ Renewed /\ Noticed
  BY <1>n DEF HeadInv
<1>1. CASE UNCHANGED txVars
  <2>1. UNCHANGED <<txVersion, txHead, signal, pending, tx, coord, txJob, hold>>
    BY <1>1 DEF txVars
  <2>2. HoldInv' /\ \A p \in Tx!Pipes : Owed(p) => Owed(p)'
    BY <1>h, <2>1, HoldKept, OwedKept
  <2> QED
    BY <1>h, <2>1, <2>2, RestHead
<1>2. CASE World
  BY <1>2, <1>h, WorldHead
<1>3. CASE Request
  BY <1>3, <1>h, RequestHead
<1>4. CASE Coordinate
  BY <1>4, <1>h, CoordHead
<1>5. ASSUME NEW p \in Tx!Pipes, Tx!OutsideUpdate(p) PROVE HoldInv' /\ Renewed' /\ Noticed'
  BY <1>5, <1>h, OutsideHead
<1> QED
  BY <1>1, <1>2, <1>3, <1>4, <1>5 DEF Tx!Next, Tx!TxStep, World, Request, Coordinate

----------------------------------------------------------------------------
LEMMA TxInductive ==
  ASSUME TxInv, [Tx!Next]_txVars
  PROVE  TxInv'
<1>1. TxTypes' /\ PlaceInv'
  <2>1. CASE UNCHANGED txVars
    BY <2>1 DEF TxInv, TxTypes, PlaceInv, Tx!Staged, txVars
  <2>2. CASE World
    BY <2>2, WorldTypes DEF TxInv
  <2>3. CASE Request
    BY <2>3, RequestTypes DEF TxInv
  <2>4. CASE Coordinate
    BY <2>4, CoordTypes DEF TxInv
  <2>5. ASSUME NEW p \in Tx!Pipes, Tx!OutsideUpdate(p) PROVE TxTypes' /\ PlaceInv'
    BY <2>5, OutsideTypes DEF TxInv
  <2> QED
    BY <2>1, <2>2, <2>3, <2>4, <2>5 DEF Tx!Next, Tx!TxStep, World, Request, Coordinate
<1>2. WholeInv'
  BY WholeStep DEF TxInv
<1>3. Positive'
  BY PositiveStep DEF TxInv
<1>4. HeadInv'
  BY HeadStep DEF TxInv
<1> QED
  BY <1>1, <1>2, <1>3, <1>4 DEF TxInv

LEMMA TxWhole == ASSUME TxInv PROVE Tx!AllOrNothing
<1> SUFFICES ASSUME outside = 0
             PROVE  /\ tx.step \in {"aborted", "refused"} => txVersion = before
                    /\ tx.step = "done" => \A p \in Tx!Pipes : txVersion[p] = before[p] + Tx!Count(p)
  BY DEF Tx!AllOrNothing
<1>1. Extent
  BY DEF TxInv, WholeInv
<1>2. tx.step \in {"aborted", "refused"} => txVersion = before
  BY <1>1 DEF Extent, EarlySteps
<1>3. ASSUME NEW p \in Tx!Pipes
      PROVE  Tx!Count(p) = Cardinality(Before(Len(tx.ops) + 1, p))
  <2>1. DOMAIN tx.ops = 1 .. Len(tx.ops) /\ Len(tx.ops) \in Nat
    BY OpTyped DEF TxInv
  <2>2. {n \in DOMAIN tx.ops : tx.ops[n].pipe = p} = Before(Len(tx.ops) + 1, p)
    BY <2>1 DEF Before
  <2> QED
    BY <2>2 DEF Tx!Count, Tx!Cardinality, Cardinality
<1> QED
  BY <1>1, <1>2, <1>3 DEF Extent

LEMMA TxScheduled == ASSUME TxInv PROVE Tx!HeadsScheduled
<1> SUFFICES ASSUME Tx!AtRest, tx.step # "aborted", NEW p \in Tx!Pipes, txVersion[p] > 0, txHead[TxConsumes[p]] > 0
             PROVE  Fresh(p)
  BY DEF Tx!HeadsScheduled, Fresh
<1>1. /\ signal = {} /\ \A j \in DOMAIN txJob : txJob[j].step = "over"
      /\ tx.step = "refused" \/ (coord.step = "over" /\ tx.step = "done")
  BY DEF Tx!AtRest, TxInv, PlaceInv
<1>2. Fresh(p) \/ Announced(p) \/ Coming(TxConsumes[p]) \/ Owed(p)
  BY <1>1 DEF TxInv, HeadInv, Noticed, UndoSteps
<1>3. ~Announced(p)
  BY <1>1 DEF Announced
<1>4. \A r : ~Owed(r)
  <2>1. tx.step = "done" => coord.step = "over" /\ coord.n = Len(coord.order) + 1
    BY <1>1 DEF TxInv, PlaceInv
  <2>2. coord.order \in Seq(Tx!Pipes)
    BY DEF TxInv, TxTypes
  <2>3. tx.step = "done" => \A m \in DOMAIN coord.order : ~(m > coord.n) /\ m # coord.n
    BY <2>1, <2>2
  <2> QED
    BY <1>1, <2>3 DEF Owed, Applying, Left
<1>5. ~Coming(TxConsumes[p])
  BY <1>1, <1>4 DEF Coming, Working
<1> QED
  BY <1>2, <1>3, <1>4, <1>5

(* Pipeline transactions (transaction.go, finishTransaction, rollbackTx    *)
(* and txCoordinate): unless somebody updates the pipelines at the same    *)
(* time, a transaction that is through has raised the version of every     *)
(* pipeline by its operations, and one that was refused or undone has left *)
(* all as it was; and however commits, ends of jobs, updates and the       *)
(* coordinator fall together, no input's head is without a job once all is *)
(* at rest, a transaction that was undone apart.                           *)
THEOREM TransactionsAreSound == FlowSpec => []TransactionSound
<1>1. FlowInit => TxInv
  BY TxInitial DEF FlowInit
<1>2. TxInv /\ [FlowNext]_flowVars => TxInv'
  <2>1. [FlowNext]_flowVars => [Tx!Next]_txVars
    BY DEF FlowNext, flowVars, txVars
  <2> QED
    BY <2>1, TxInductive
<1>3. TxInv => TransactionSound
  BY TxWhole, TxScheduled DEF TransactionSound
<1> QED
  BY <1>1, <1>2, <1>3, PTL DEF FlowSpec
=============================================================================
