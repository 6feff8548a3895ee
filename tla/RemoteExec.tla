----------------------------- MODULE RemoteExec -----------------------------
(***************************************************************************)
(* Datum attempts on an execution host: the control plane's call           *)
(* (datum_engine.go: runRemoteAttempt; worker.go: execOnHost), the         *)
(* worker's handler (worker.go: runExec) and the containers it runs, with  *)
(* the devices the job holds there.                                        *)
(*                                                                         *)
(* The call ends with the worker's answer, with the deadline, with the     *)
(* cancellation of the job, or when the connection breaks.  The handler    *)
(* does not learn of any of the last three: it goes on with its container. *)
(* The deadline of the call is the datum's timeout (or an hour), counted   *)
(* from before the request is sent; the worker's own timer counts the same *)
(* timeout from after the request arrived, so it never fires before.       *)
(***************************************************************************)
EXTENDS Integers, Sequences, FiniteSets, SequencesExt

CONSTANTS
  Jobs,
  Parallelism,  \* the slots of job j's pool are 1 .. Parallelism[j]
  Per,          \* devices per datum
  Devices,      \* the host's devices, numbers
  HasErrCmd,    \* the transform has an error-handling command
  HasTimeout,   \* the transform has a datum timeout
  MaxAttempts   \* attempts of each slot

VARIABLES
  gpus,     \* the devices each job has reserved, in order
  state,    \* each job: waiting for the host, placed, settled
  call,     \* the attempt of each slot: its number, and its step or outcome
  run,      \* the handler of each attempt on the worker
  crashed   \* the pipeline of the job is marked crashed

vars == <<gpus, state, call, run, crashed>>

Slots(j) == 1 .. Parallelism[j]
Pools == UNION {{<<j, s>> : s \in Slots(j)} : j \in Jobs}
Attempts == {<<p[1], p[2], n>> : p \in Pools, n \in 1 .. MaxAttempts}
Wanted(j) == Parallelism[j] * Per
Ends == {"success", "recovered", "failed", "timeout", "hosterror"}
NoRun == [step |-> "none", dev |-> {}, code |-> 0, err |-> 0, timedOut |-> FALSE]

TypeOK ==
  /\ \A j \in Jobs : gpus[j] \in BoundedSeq(Devices, Wanted(j))
  /\ state \in [Jobs -> {"waiting", "placed", "cancelled", "settled"}]
  /\ call \in [Pools -> [n : 0 .. MaxAttempts, step : {"idle", "calling"} \cup Ends]]
  /\ run \in [Attempts -> [step : {"none", "primary", "err", "answer", "gone"}, dev : SUBSET Devices,
                           code : 0 .. 1, err : 0 .. 1, timedOut : BOOLEAN]]
  /\ crashed \in [Jobs -> BOOLEAN]

Init ==
  /\ gpus = [j \in Jobs |-> <<>>] /\ state = [j \in Jobs |-> "waiting"]
  /\ call = [p \in Pools |-> [n |-> 0, step |-> "idle"]]
  /\ run = [a \in Attempts |-> NoRun] /\ crashed = [j \in Jobs |-> FALSE]

Busy == UNION {ToSet(gpus[j]) : j \in Jobs}
Current(a) == call[<<a[1], a[2]>>].n = a[3]
InFlight(a) == Current(a) /\ call[<<a[1], a[2]>>].step = "calling"
HasContainer(a) == run[a].step \in {"primary", "err"}

(* The n least elements of S, in ascending order: the one such sequence.   *)
Least(S, n) == {q \in [1 .. n -> S] :
                  /\ \A i, k \in 1 .. n : i < k => q[i] < q[k]
                  /\ \A d \in S \ ToSet(q) : \A i \in 1 .. n : q[i] < d}

(* Mutant of GpusOf: every slot gets the first share.                      *)
GpusFromSlot(a) == ToSet(SubSeq(gpus[a[1]], 1, Per))

(* The slot's share of the job's devices.                                  *)
GpusOf(a) == ToSet(SubSeq(gpus[a[1]], (a[2] - 1) * Per + 1, a[2] * Per))

----------------------------------------------------------------------------
(* The job: placement, the calls of its slots, cancellation, settlement.   *)

(* pickAndReserve for the whole pool; the crash of an outage is over.      *)
Place(j) ==
  LET free == Devices \ Busy IN
  /\ state[j] = "waiting" /\ Cardinality(free) >= Wanted(j)
  /\ \E q \in Least(free, Wanted(j)) : gpus' = [gpus EXCEPT ![j] = q]
  /\ state' = [state EXCEPT ![j] = "placed"]
  /\ crashed' = [crashed EXCEPT ![j] = FALSE]
  /\ UNCHANGED <<call, run>>

NoHost(j) ==
  /\ state[j] = "waiting" /\ Cardinality(Devices \ Busy) < Wanted(j)
  /\ crashed' = [crashed EXCEPT ![j] = TRUE]
  /\ UNCHANGED <<gpus, state, call, run>>

(* An attempt, of a new datum or of one that failed.                       *)
Send(j, s) ==
  /\ state[j] = "placed" /\ call[<<j, s>>].step \in {"idle"} \cup Ends
  /\ call[<<j, s>>].n < MaxAttempts
  /\ call' = [call EXCEPT ![<<j, s>>] = [n |-> @.n + 1, step |-> "calling"]]
  /\ UNCHANGED <<gpus, state, run, crashed>>

Return(a, outcome) == call' = [call EXCEPT ![<<a[1], a[2]>>].step = outcome]

(* runRemoteAttempt, on what the worker answered.                          *)
Outcome(r) ==
  IF r.code = 0 THEN "success"
  ELSE IF r.err = 0 THEN "recovered"
  ELSE IF r.timedOut THEN "timeout" ELSE "failed"

Answer(a) ==
  /\ run[a].step = "answer"
  /\ IF InFlight(a) THEN Return(a, Outcome(run[a])) ELSE call' = call
  /\ run' = [run EXCEPT ![a] = [NoRun EXCEPT !.step = "gone", !.timedOut = run[a].timedOut]]
  /\ UNCHANGED <<gpus, state, crashed>>

(* Any error of the call is one of the environment: the pipeline crashes.  *)
HostError(a) ==
  /\ Return(a, "hosterror")
  /\ crashed' = [crashed EXCEPT ![a[1]] = TRUE]
  /\ UNCHANGED <<gpus, state, run>>

(* Mutant of Deadline: the clock starts with the container.                *)
DeadlineOfRun(a) == InFlight(a) /\ run[a].step # "none" /\ HostError(a)

Deadline(a) == InFlight(a) /\ HostError(a)

ConnectionBreaks(a) == InFlight(a) /\ run[a].step \notin {"answer", "gone"} /\ HostError(a)

CancelInterrupts(a) == InFlight(a) /\ state[a[1]] = "cancelled" /\ HostError(a)

Cancel(j) ==
  /\ state[j] = "placed"
  /\ state' = [state EXCEPT ![j] = "cancelled"]
  /\ UNCHANGED <<gpus, call, run, crashed>>

(* Every slot is back: the job settles and its devices are free.           *)
Settle(j) ==
  /\ state[j] \in {"placed", "cancelled"}
  /\ \A s \in Slots(j) : call[<<j, s>>].step # "calling"
  /\ state' = [state EXCEPT ![j] = "settled"] /\ gpus' = [gpus EXCEPT ![j] = <<>>]
  /\ UNCHANGED <<call, run, crashed>>

----------------------------------------------------------------------------
(* The worker.                                                             *)

(* The request arrives: the container starts on the devices it names.      *)
StartRun(a) ==
  /\ InFlight(a) /\ run[a].step = "none"
  /\ run' = [run EXCEPT ![a].step = "primary", ![a].dev = GpusOf(a)]
  /\ UNCHANGED <<gpus, state, call, crashed>>

(* The command ends; a failure runs the error handler, whose code replaces *)
(* the command's.                                                          *)
CommandEnds(a, code) ==
  /\ run[a].step = "primary"
  /\ run' = [run EXCEPT ![a].code = code, ![a].err = code,
                        ![a].step = IF code # 0 /\ HasErrCmd THEN "err" ELSE "answer"]
  /\ UNCHANGED <<gpus, state, call, crashed>>

ErrCmdEnds(a, code) ==
  /\ run[a].step = "err"
  /\ run' = [run EXCEPT ![a].err = code, ![a].step = "answer"]
  /\ UNCHANGED <<gpus, state, call, crashed>>

(* The worker's timer, after the call's deadline: it kills the command's   *)
(* container, not the error handler's.                                     *)
TimerKills(a) ==
  /\ HasTimeout /\ ~InFlight(a) /\ HasContainer(a) /\ ~run[a].timedOut
  /\ run' = [run EXCEPT ![a].timedOut = TRUE,
                        ![a].code = IF run[a].step = "primary" THEN 1 ELSE @,
                        ![a].err = IF run[a].step = "primary" THEN 1 ELSE @,
                        ![a].step = IF @ = "primary" THEN IF HasErrCmd THEN "err" ELSE "answer" ELSE @]
  /\ UNCHANGED <<gpus, state, call, crashed>>

Next ==
  \/ \E j \in Jobs : Place(j) \/ NoHost(j) \/ Cancel(j) \/ Settle(j) \/ \E s \in Slots(j) : Send(j, s)
  \/ \E a \in Attempts : \/ Answer(a) \/ Deadline(a) \/ ConnectionBreaks(a) \/ CancelInterrupts(a)
                         \/ StartRun(a) \/ TimerKills(a)
                         \/ \E code \in 0 .. 1 : CommandEnds(a, code) \/ ErrCmdEnds(a, code)

Spec == Init /\ [][Next]_vars

(* Clocks go on and goroutines run; a worker or its containers may hang.   *)
Fairness ==
  /\ \A a \in Attempts : WF_vars(Deadline(a))
  /\ \A j \in Jobs : WF_vars(Settle(j)) /\ WF_vars(Place(j))

FairSpec == Spec /\ Fairness

----------------------------------------------------------------------------
(* Two attempts in flight never have a device in common, of one job or of  *)
(* two (datum_engine.go: "so concurrent datums never share a device").     *)
DatumsApart ==
  \A a, b \in Attempts :
    a # b /\ InFlight(a) /\ InFlight(b) => GpusOf(a) \cap GpusOf(b) = {}

(* Every job settles and gives its devices back, whatever the worker does: *)
(* a hung worker does not wedge the gate (worker.go: execOnHost).          *)
PlacedJobsSettle == \A j \in Jobs : []<>(state[j] \in {"waiting", "settled"})

(* Two containers on the host never have a device in common (hosts.go: "so *)
(* parallel jobs get distinct devices"). It fails: the call of an attempt  *)
(* ends, and its devices are free again, while the container still runs.   *)
ContainersApart ==
  \A a, b \in Attempts :
    a # b /\ HasContainer(a) /\ HasContainer(b) => run[a].dev \cap run[b].dev = {}

(* Cancelling a job does not mark the pipeline crashed. It fails: the      *)
(* interrupted call counts as a failure of the host.                       *)
CancelIsNotACrash ==
  [][\A a \in Attempts : CancelInterrupts(a) => ~crashed'[a[1]]]_vars

(* A placed datum that runs into its timeout ends as a local one does. It  *)
(* fails: the deadline of the call may pass before the answer is there.    *)
TimeoutsAreSeen ==
  \A a \in Attempts : run[a].timedOut /\ Current(a) => call[<<a[1], a[2]>>].step # "hosterror"
=============================================================================
