----------------------------- MODULE DatumPool -----------------------------
(***************************************************************************)
(* The worker pool that processes the datums of ONE job (datum_engine.go:  *)
(* runDatums, execDatum, runDatumAttempt, runRemoteAttempt), with the      *)
(* requests that interfere with it: a datum restart (datum_api.go), the    *)
(* kill loop of a cancelled job (jobs.go) and the job deadline             *)
(* (execute.go).                                                           *)
(*                                                                         *)
(* A coordinator feeds the datums round robin into bounded channels, one   *)
(* per worker.  A worker makes up to `tries` attempts at a datum; an       *)
(* attempt is a container with a name made of the datum and the attempt,   *)
(* or a call of the execution host the job was placed on.  Whoever wants   *)
(* an attempt to stop kills a container BY NAME, in a step of its own: the *)
(* container may still be starting, may be gone, or may belong to a later  *)
(* run of the datum that has the same name again.                          *)
(*                                                                         *)
(* Input files, output files, logs and process times are left out; what    *)
(* the outcomes mean for the output is DatumMemory.                        *)
(***************************************************************************)
EXTENDS Integers, Sequences, FiniteSets

CONSTANTS
  N,          \* how many datums the job has to process
  Parallelism,\* the pipeline's parallelism constant
  Bound,      \* the pipeline's MaxQueueSize, zero counted as one
  MaxTries,   \* DatumTries is chosen from 1 .. MaxTries
  Requests    \* requests to restart a datum

(* A pipeline's parallelism and its channels' bound default to one, and    *)
(* a datum is tried at least once.                                         *)
ASSUME PoolAssumption ==
  N \in Nat /\ Parallelism \in Nat \ {0} /\ Bound \in Nat \ {0} /\ MaxTries \in Nat

VARIABLES
  tries,     \* the transform's DatumTries
  errCmd,    \* the transform has an error-handling command
  placed,    \* the job runs on an execution host
  fed,       \* how many datums the coordinator has put into the channels
  chan,      \* the workers' channels
  worker,    \* each worker: its step and the locals of execDatum
  rec,       \* the outcome in each datum's record
  restart,   \* jx.restart: the datums with a pending restart request
  request,   \* each restart request: its step, its datum, the name it kills
  cancelled, \* rj.cancelled
  killLoop,  \* the kill loop of a cancel: not started, going on, over
  deadline,  \* the job deadline has passed
  disturbed  \* history: an attempt failed for another reason than a kill

vars == <<tries, errCmd, placed, fed, chan, worker, rec, restart, request,
          cancelled, killLoop, deadline, disturbed>>

Datums == 1 .. N
Workers == 1 .. (IF Parallelism < N THEN Parallelism ELSE N)

(* Containers are named by datum, attempt and whether it is the error      *)
(* command's.                                                              *)
Name(i, attempt, err) == <<i, attempt, err>>
Containers == Datums \X (1 .. MaxTries) \X BOOLEAN

Steps == {"idle", "begin", "loop", "stage", "starting", "running", "ended",
          "errStarting", "errRunning", "errEnded", "remote", "quit"}
(* The attempt's datum timer: none that is pending, one that is armed, or   *)
(* one that went off early, when there was no container to kill yet.        *)
Timers == {"off", "armed", "early"}
IdleWorker == [step |-> "idle", datum |-> 0, attempt |-> 1, ok |-> FALSE, timer |-> "off"]

TypeOK ==
  /\ tries \in 1 .. MaxTries /\ errCmd \in BOOLEAN /\ placed \in BOOLEAN
  /\ fed \in 0 .. N
  /\ chan \in [Workers -> Seq(Datums)]
  /\ worker \in [Workers -> [step : Steps, datum : 0 .. N, attempt : 1 .. (MaxTries + 1),
                             ok : BOOLEAN, timer : Timers]]
  /\ rec \in [Datums -> {"placeholder", "live", "success", "recovered", "failed"}]
  /\ restart \subseteq Datums
  /\ request \in [Requests -> [step : {"lookup", "flag", "kill", "over"}, datum : 0 .. N,
                               name : Containers \cup {<<>>}]]
  /\ cancelled \in BOOLEAN /\ killLoop \in {"off", "on", "over"} /\ deadline \in BOOLEAN
  /\ disturbed \in BOOLEAN

Init ==
  /\ tries \in 1 .. MaxTries
  /\ errCmd \in BOOLEAN /\ placed \in BOOLEAN
  /\ fed = 0
  /\ chan = [w \in Workers |-> <<>>]
  /\ worker = [w \in Workers |-> IdleWorker]
  /\ rec = [i \in Datums |-> "placeholder"]
  /\ restart = {}
  /\ request = [q \in Requests |-> [step |-> "lookup", datum |-> 0, name |-> <<>>]]
  /\ cancelled = FALSE /\ killLoop = "off" /\ deadline = FALSE
  /\ disturbed = FALSE

At(w, step) == worker[w].step = step
Goto(w, step) == worker' = [worker EXCEPT ![w].step = step]
Primary(w) == Name(worker[w].datum, worker[w].attempt, FALSE)
ErrName(w) == Name(worker[w].datum, worker[w].attempt, TRUE)

(* What a worker has registered on the job's handle: the attempt's         *)
(* container until the attempt returns, the error command's while it runs. *)
Registered(w) ==
  (IF worker[w].step \in {"starting", "running", "ended", "errStarting", "errRunning", "errEnded"}
     THEN {Primary(w)} ELSE {})
  \cup (IF worker[w].step \in {"errStarting", "errRunning"} THEN {ErrName(w)} ELSE {})
containerNames == UNION {Registered(w) : w \in Workers}

(* The container by that name that is running now, if there is one.        *)
Running(w, name) == \/ At(w, "running") /\ name = Primary(w)
                    \/ At(w, "errRunning") /\ name = ErrName(w)
Exists(name) == \E w \in Workers : Running(w, name)
KillAll(names) ==
  worker' = [w \in Workers |->
               IF \E name \in names : Running(w, name)
                 THEN [worker[w] EXCEPT !.step = IF @ = "running" THEN "ended" ELSE "errEnded",
                                        !.ok = FALSE]
                 ELSE worker[w]]
Kill(name) == KillAll({name})

Outside == UNCHANGED <<tries, errCmd, placed, request, cancelled, killLoop, deadline>>

----------------------------------------------------------------------------
(* The coordinator of runDatums and the workers' channels.                 *)

(* Feed the next datum, blocking while its worker's channel is full.       *)
feed ==
  LET w == (fed % Cardinality(Workers)) + 1 IN
  /\ fed < N
  /\ Len(chan[w]) < Bound
  /\ chan' = [chan EXCEPT ![w] = Append(@, fed + 1)]
  /\ fed' = fed + 1
  /\ UNCHANGED <<worker, rec, restart, disturbed>> /\ Outside

(* A worker takes the next datum from its channel ...                      *)
Take(w) ==
  /\ At(w, "idle") /\ chan[w] # <<>>
  /\ chan' = [chan EXCEPT ![w] = Tail(@)]
  /\ worker' = [worker EXCEPT ![w].step = "begin", ![w].datum = Head(chan[w])]
  /\ UNCHANGED <<fed, rec, restart, disturbed>> /\ Outside

(* Mutant of Quit: the worker leaves as soon as its channel is empty.      *)
QuitEarly(w) ==
  /\ At(w, "idle") /\ chan[w] = <<>>
  /\ Goto(w, "quit")
  /\ UNCHANGED <<fed, chan, rec, restart, disturbed>> /\ Outside

(* ... or leaves when the channel is empty and closed: the coordinator     *)
(* closes the channels when it has fed every datum.                        *)
Quit(w) ==
  /\ At(w, "idle") /\ chan[w] = <<>> /\ fed = N
  /\ Goto(w, "quit")
  /\ UNCHANGED <<fed, chan, rec, restart, disturbed>> /\ Outside

----------------------------------------------------------------------------
(* execDatum.                                                              *)

Leave(w) == worker' = [worker EXCEPT ![w] = IdleWorker]
SetDatum(i, outcome) == rec' = [rec EXCEPT ![i] = outcome]

(* execDatum writes the live record and starts with the first attempt.     *)
Begin(w) ==
  LET i == worker[w].datum IN
  /\ At(w, "begin")
  /\ SetDatum(i, "live")
  /\ worker' = [worker EXCEPT ![w].step = "loop", ![w].attempt = 1]
  /\ UNCHANGED <<fed, chan, restart, disturbed>> /\ Outside

(* A cancelled job starts no more attempts.                                *)
LoopCancelled(w) ==
  LET i == worker[w].datum IN
  /\ At(w, "loop") /\ cancelled
  /\ SetDatum(i, "failed")
  /\ Leave(w)
  /\ UNCHANGED <<fed, chan, restart, disturbed>> /\ Outside

(* A pending restart is taken up, after the last attempt as well: the      *)
(* record is reset and the worker runs the datum again in place.           *)
LoopRestart(w) ==
  LET i == worker[w].datum IN
  /\ At(w, "loop") /\ ~cancelled /\ i \in restart
  /\ restart' = restart \ {i}
  /\ SetDatum(i, "placeholder")
  /\ Goto(w, "begin")
  /\ UNCHANGED <<fed, chan, disturbed>> /\ Outside

(* All tries used up: the datum failed.  (When the image could not be      *)
(* obtained the pipeline is marked crashed too; Placement is about that.)  *)
LoopExhausted(w) ==
  /\ At(w, "loop") /\ ~cancelled /\ worker[w].datum \notin restart
  /\ worker[w].attempt > tries
  /\ SetDatum(worker[w].datum, "failed")
  /\ Leave(w)
  /\ UNCHANGED <<fed, chan, restart, disturbed>> /\ Outside

LoopAttempt(w) ==
  /\ At(w, "loop") /\ ~cancelled /\ worker[w].datum \notin restart
  /\ worker[w].attempt <= tries
  /\ Goto(w, IF placed THEN "remote" ELSE "stage")
  /\ UNCHANGED <<fed, chan, rec, restart, disturbed>> /\ Outside

(* What execDatum does with an attempt's outcome: it settles the datum, or *)
(* goes round the loop with the next attempt.                              *)
Conclude(w, outcome) ==
  LET i == worker[w].datum IN
  /\ worker' = [worker EXCEPT ![w] =
                  IF outcome = "failed"
                    THEN [worker[w] EXCEPT !.step = "loop", !.attempt = @ + 1, !.timer = "off",
                                           !.ok = FALSE]
                    ELSE IdleWorker]
  /\ IF outcome = "failed" THEN rec' = rec ELSE SetDatum(i, outcome)

----------------------------------------------------------------------------
(* One attempt in a container (runDatumAttempt).                           *)

(* The inputs are staged, the container is registered and the worker's     *)
(* status names it; the datum timer is armed.                              *)
Stage(w) ==
  /\ At(w, "stage")
  /\ worker' = [worker EXCEPT ![w].step = "starting", ![w].timer = "armed"]
  /\ UNCHANGED <<fed, chan, rec, restart, disturbed>> /\ Outside

(* Staging fails: a directory, a blob or the view cannot be materialized.  *)
StageFails(w) ==
  /\ At(w, "stage")
  /\ Conclude(w, "failed") /\ disturbed' = TRUE
  /\ UNCHANGED <<fed, chan, restart>> /\ Outside

ContainerStarts(w) ==
  /\ worker[w].step \in {"starting", "errStarting"}
  /\ Goto(w, IF At(w, "starting") THEN "running" ELSE "errRunning")
  /\ UNCHANGED <<fed, chan, rec, restart, disturbed>> /\ Outside

(* The command ends by itself; a failure is the user's.                    *)
ContainerEnds(w, ok) ==
  /\ At(w, "running")
  /\ worker' = [worker EXCEPT ![w].step = "ended", ![w].ok = ok]
  /\ disturbed' = (disturbed \/ ~ok)
  /\ UNCHANGED <<fed, chan, rec, restart>> /\ Outside

ErrCmdEnds(w, ok) ==
  /\ At(w, "errRunning")
  /\ worker' = [worker EXCEPT ![w].step = "errEnded", ![w].ok = ok]
  /\ disturbed' = (disturbed \/ ~ok)
  /\ UNCHANGED <<fed, chan, rec, restart>> /\ Outside

(* The attempt returns: the timer is stopped, the worker's status cleared, *)
(* the container unregistered.  After a failed command the error-handling  *)
(* command runs first, whatever made the command fail.                     *)
AttemptReturns(w) ==
  /\ \/ At(w, "ended") /\ worker[w].ok /\ Conclude(w, "success")
     \/ At(w, "ended") /\ ~worker[w].ok /\ ~errCmd /\ Conclude(w, "failed")
     \/ At(w, "ended") /\ ~worker[w].ok /\ errCmd /\ Goto(w, "errStarting") /\ rec' = rec
     \/ At(w, "errEnded") /\ worker[w].ok /\ Conclude(w, "recovered")
     \/ At(w, "errEnded") /\ ~worker[w].ok /\ Conclude(w, "failed")
  /\ UNCHANGED <<fed, chan, restart, disturbed>> /\ Outside

(* The files of a command that succeeded cannot be stored.                 *)
ScanFails(w) ==
  /\ worker[w].step \in {"ended", "errEnded"} /\ worker[w].ok
  /\ Conclude(w, "failed") /\ disturbed' = TRUE
  /\ UNCHANGED <<fed, chan, restart>> /\ Outside

(* Mutant of DatumTimeout: the timer fires once and kills nothing.         *)
DatumTimeoutLost(w) ==
  /\ worker[w].timer = "armed"
  /\ worker' = [worker EXCEPT ![w].timer = IF At(w, "starting") THEN "early" ELSE "off"]
  /\ disturbed' = TRUE
  /\ UNCHANGED <<fed, chan, rec, restart>> /\ Outside

(* The datum timer fires, once: it kills the attempt's container if that   *)
(* is running now, and never the error command's.  The timer was armed     *)
(* before the container was started, and the error of the kill is ignored: *)
(* if it goes off early the kill is lost and not repeated.                 *)
DatumTimeout(w) ==
  /\ worker[w].timer = "armed"
  /\ worker' = [worker EXCEPT
       ![w] = CASE At(w, "running")  -> [@ EXCEPT !.timer = "off", !.step = "ended", !.ok = FALSE]
                [] At(w, "starting") -> [@ EXCEPT !.timer = "early"]
                [] OTHER             -> [@ EXCEPT !.timer = "off"]]
  /\ disturbed' = TRUE
  /\ UNCHANGED <<fed, chan, rec, restart>> /\ Outside

----------------------------------------------------------------------------
(* One attempt on the execution host (runRemoteAttempt): the host answers  *)
(* with a result, cannot be reached, or the call is given up because the   *)
(* job's cancel channel was closed.                                        *)
RemoteAnswers(w, outcome) ==
  /\ At(w, "remote") /\ outcome \in {"success", "recovered", "failed"}
  /\ Conclude(w, outcome)
  /\ disturbed' = (disturbed \/ outcome = "failed")
  /\ UNCHANGED <<fed, chan, restart>> /\ Outside

RemoteBreaks(w) ==
  /\ At(w, "remote")
  /\ Conclude(w, "failed")
  /\ disturbed' = TRUE
  /\ UNCHANGED <<fed, chan, restart>> /\ Outside

----------------------------------------------------------------------------
(* restartDatum: a request looks for the worker that processes the datum   *)
(* and takes the container's name from its status ...                      *)
Inside == UNCHANGED <<tries, errCmd, placed, fed, chan, rec, disturbed>>

LookupActive(q, w) ==
  /\ request[q].step = "lookup"
  /\ Primary(w) \in Registered(w)
  /\ request' = [request EXCEPT ![q] = [step |-> "flag", datum |-> worker[w].datum,
                                        name |-> Primary(w)]]
  /\ UNCHANGED <<worker, restart, cancelled, killLoop, deadline>> /\ Inside

(* ... (no worker processes the datum for two and a half seconds) ...      *)
LookupFails(q) ==
  /\ request[q].step = "lookup"
  /\ request' = [request EXCEPT ![q].step = "over"]
  /\ UNCHANGED <<worker, restart, cancelled, killLoop, deadline>> /\ Inside

(* Mutant of requestRestart: the flag comes after the kill.                *)
requestAfterKill(q) ==
  /\ request[q].step = "flag"
  /\ \/ Exists(request[q].name) /\ Kill(request[q].name) /\ UNCHANGED <<restart, request>>
     \/ /\ ~Exists(request[q].name)
        /\ restart' = restart \cup {request[q].datum}
        /\ request' = [request EXCEPT ![q].step = "over"]
        /\ worker' = worker
  /\ UNCHANGED <<cancelled, killLoop, deadline>> /\ Inside

(* ... notes the restart ...                                               *)
requestRestart(q) ==
  /\ request[q].step = "flag"
  /\ restart' = restart \cup {request[q].datum}
  /\ request' = [request EXCEPT ![q].step = "kill"]
  /\ UNCHANGED <<worker, cancelled, killLoop, deadline>> /\ Inside

(* ... and kills the container, trying again while there is none to kill,  *)
(* for ten seconds.                                                        *)
RestartKill(q) ==
  /\ request[q].step = "kill"
  /\ Exists(request[q].name)
  /\ Kill(request[q].name)
  /\ request' = [request EXCEPT ![q].step = "over"]
  /\ UNCHANGED <<restart, cancelled, killLoop, deadline>> /\ Inside

RestartGivesUp(q) ==
  /\ request[q].step = "kill" /\ ~Exists(request[q].name)
  /\ request' = [request EXCEPT ![q].step = "over"]
  /\ UNCHANGED <<worker, restart, cancelled, killLoop, deadline>> /\ Inside

----------------------------------------------------------------------------
(* A client cancels the job: the flag, the channel, the kill loop.         *)
Cancel ==
  /\ killLoop = "off"
  /\ cancelled' = TRUE /\ killLoop' = "on"
  /\ UNCHANGED <<worker, restart, request, deadline>> /\ Inside

(* A round of the kill loop: every registered container is killed, and the *)
(* loop stops after a round in which every kill landed, or when it has     *)
(* used up its rounds (120, of which the model does not keep count).       *)
KillRound ==
  /\ killLoop = "on" /\ containerNames # {}
  /\ KillAll(containerNames)
  /\ killLoop' \in IF \A name \in containerNames : Exists(name) THEN {"over"}
                                                               ELSE {"on", "over"}
  /\ UNCHANGED <<restart, request, cancelled, deadline>> /\ Inside

(* The job deadline: the flag, and one round of kills.                     *)
JobTimeout ==
  /\ ~deadline /\ \E w \in Workers : ~At(w, "quit")
  /\ deadline' = TRUE /\ cancelled' = TRUE
  /\ KillAll(containerNames)
  /\ UNCHANGED <<restart, request, killLoop>> /\ Inside

----------------------------------------------------------------------------
WorkerStep(w) ==
  \/ Take(w) \/ Quit(w) \/ Begin(w)
  \/ LoopCancelled(w) \/ LoopRestart(w) \/ LoopAttempt(w) \/ LoopExhausted(w)
  \/ Stage(w) \/ StageFails(w) \/ ContainerStarts(w) \/ AttemptReturns(w) \/ ScanFails(w)
  \/ \E outcome \in {"success", "recovered", "failed"} : RemoteAnswers(w, outcome)
  \/ RemoteBreaks(w)

RequestStep(q) ==
  \/ LookupFails(q) \/ requestRestart(q) \/ RestartKill(q) \/ RestartGivesUp(q)
  \/ \E w \in Workers : LookupActive(q, w)

Next ==
  \/ feed
  \/ \E w \in Workers : WorkerStep(w) \/ DatumTimeout(w)
                        \/ \E ok \in BOOLEAN : ContainerEnds(w, ok) \/ ErrCmdEnds(w, ok)
  \/ \E q \in Requests : RequestStep(q)
  \/ Cancel \/ KillRound \/ JobTimeout

Spec == Init /\ [][Next]_vars

(* The goroutines run, a kill loop's among them, an armed timer fires, and *)
(* the error command ends; the command itself may run for ever.            *)
Fairness ==
  /\ WF_vars(feed) /\ WF_vars(KillRound)
  /\ \A w \in Workers : /\ WF_vars(WorkerStep(w)) /\ WF_vars(DatumTimeout(w))
                        /\ WF_vars(\E ok \in BOOLEAN : ErrCmdEnds(w, ok))
FairSpec == Spec /\ Fairness

----------------------------------------------------------------------------
Settled(i) == rec[i] \in {"success", "recovered", "failed"}
Over == \A w \in Workers : At(w, "quit")

(* Every datum is in one place: not fed yet, in one channel, in the hands  *)
(* of one worker, or settled.  So runDatums, which waits for the workers,  *)
(* reports on every datum of the job (datum_engine.go: "no file lost,      *)
(* duplicated, or corrupted").                                             *)
EachDatumOnce ==
  /\ \A i \in Datums :
       LET queued == {w \in Workers : \E n \in DOMAIN chan[w] : chan[w][n] = i}
           taken == {w \in Workers : worker[w].datum = i /\ worker[w].step \notin {"idle", "quit"}}
       IN  Cardinality(queued) + Cardinality(taken)
           + (IF i > fed THEN 1 ELSE 0) + (IF Settled(i) THEN 1 ELSE 0) = 1
  /\ Over => \A i \in Datums : Settled(i)

(* A restart request kills a container, and that alone never fails the     *)
(* datum: when every command succeeds and neither timeout, cancel nor host *)
(* failure interferes, no datum fails (datum_api.go: "the job still        *)
(* completes successfully").  It holds of one request; a second may kill   *)
(* the attempt that the first has caused.                                  *)
RestartHarmless == ~disturbed /\ ~cancelled => \A i \in Datums : rec[i] # "failed"

(* The datum timer ends every attempt, though commands may hang            *)
(* (runner.go: "a kill of a not-yet-started execution can be lost; cancel  *)
(* retries", while the timer does not: it is not kept).                    *)
PoolEnds == []<>Over

(* The command runs for as long as it likes: the timer went off while its  *)
(* container was being started, and no cancel's loop is killing it.        *)
Escaped(w) == At(w, "running") /\ worker[w].timer = "early" /\ killLoop # "on"

(* Nothing else keeps the pool from its end: commands that hang are killed *)
(* by the timer or by the loop of a cancel, whatever restarts, cancels and *)
(* deadlines come in between, and no worker waits for another for ever.    *)
PoolEndsUnlessEscaped == []<>(Over \/ \E w \in Workers : Escaped(w))
=============================================================================
