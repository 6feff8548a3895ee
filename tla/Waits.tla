------------------------------- MODULE Waits -------------------------------
(***************************************************************************)
(* The blocking waits of the server: a flush of an input commit and the    *)
(* wait for a job (wait.go, and the closure of jobs in client/client.go),  *)
(* while the wave of that commit moves through a chain of pipelines.       *)
(*                                                                         *)
(* Every change of a record wakes the waiting requests by closing the      *)
(* channel they registered before they read the records.  Pipeline 1       *)
(* consumes the flushed commit, pipeline i+1 the output of pipeline i; a   *)
(* job's end is the order of writes at the end of runJob (execute.go).     *)
(* Time is left out: a quiet window of 250 ms may be over at any moment at *)
(* which nothing has changed since the channel was registered.             *)
(***************************************************************************)
EXTENDS Integers, FiniteSets

CONSTANTS
  N,        \* the length of the chain
  Modes,    \* the states the pipelines may be in: running, standby, stopped
  Outcomes  \* how jobs may end: success, failure, killed

VARIABLES
  queues,  \* jobs may be queued, or wait for a host, before they open an output
  mode,    \* the state of each pipeline
  job,     \* each pipeline's job of the wave: record state and output commit
  owed,    \* the commits whose consumer has not been triggered yet
  flush,   \* the flush request
  waiter   \* the request that waits for the first job

vars == <<queues, mode, job, owed, flush, waiter>>

Stages == 1 .. N
NotSpawned == [state |-> "none", out |-> "none"]
Terminal(state) == state \in {"success", "failure", "killed"}

TypeOK ==
  /\ queues \in BOOLEAN /\ mode \in [Stages -> Modes]
  /\ job \in [Stages -> [state : {"none", "queued", "running", "success", "failure", "killed"},
                         out : {"none", "open", "finished"}]]
  /\ owed \subseteq 0 .. N
  /\ flush \in [step : {"register", "read", "window", "owed", "recheck", "last", "quiet", "wait",
                        "select", "returned", "timedOut"},
                verdict : {"window", "quiet", "wait"}, woken : BOOLEAN, relevant : SUBSET Stages]
  /\ waiter \in [step : {"register", "check", "wait", "returned"}, woken : BOOLEAN]

Init ==
  /\ queues \in BOOLEAN /\ mode \in [Stages -> Modes]
  /\ job = [i \in Stages |-> NotSpawned]
  /\ owed = {0}
  /\ flush = [step |-> "register", verdict |-> "wait", woken |-> FALSE, relevant |-> {}]
  /\ waiter = [step |-> "register", woken |-> FALSE]

----------------------------------------------------------------------------
(* Mutant of signal: only a request that waits is woken.                   *)
signalWaiting ==
  /\ flush' = [flush EXCEPT !.woken = flush.step \in {"window", "quiet", "wait", "last"}]
  /\ waiter' = [waiter EXCEPT !.woken = TRUE]

(* signal: every registered channel is closed.                             *)
signal == /\ flush' = [flush EXCEPT !.woken = TRUE]
          /\ waiter' = [waiter EXCEPT !.woken = TRUE]

(* The wave.  triggerForCommit spawns the consumer's job unless the        *)
(* pipeline is stopped; its record is saved at once.                       *)
Trigger(i) ==
  /\ i \in owed
  /\ owed' = owed \ {i}
  /\ job' = IF i < N /\ mode[i + 1] # "stopped"
              THEN [job EXCEPT ![i + 1] = [state |-> IF queues THEN "queued" ELSE "running",
                                           out |-> IF queues THEN "none" ELSE "open"]]
              ELSE job
  /\ signal
  /\ UNCHANGED <<queues, mode>>

(* The job has its slot and its host, and opens its output commit.         *)
Open(i) ==
  /\ job[i].state = "queued"
  /\ job' = [job EXCEPT ![i] = [state |-> "running", out |-> "open"]]
  /\ signal
  /\ UNCHANGED <<queues, mode, owed>>

FinishOutput(i) ==
  /\ job[i].out = "open" /\ job[i].state \in {"running", "failure", "killed"}
  /\ job[i].state = "running" => "success" \in Outcomes
  /\ job' = [job EXCEPT ![i].out = "finished"]
  /\ owed' = IF job[i].state = "failure" THEN owed \cup {i} ELSE owed
  /\ signal
  /\ UNCHANGED <<queues, mode>>

(* After a success the record follows the output; a failed or killed job   *)
(* has its record first.  A killed job triggers nobody.                    *)
Settle(i, outcome) ==
  /\ job[i].state = "running" /\ outcome \in Outcomes
  /\ job[i].out = IF outcome = "success" THEN "finished" ELSE "open"
  /\ job' = [job EXCEPT ![i].state = outcome]
  /\ owed' = IF outcome = "success" THEN owed \cup {i} ELSE owed
  /\ signal
  /\ UNCHANGED <<queues, mode>>

----------------------------------------------------------------------------
(* DownstreamJobsSet: the jobs that consume the commit, and from output to *)
(* output their consumers; further down a job without an output commit is  *)
(* not counted.                                                            *)
DownstreamJobsSet ==
  {i \in Stages : /\ job[i].state # "none"
                  /\ i > 1 => \A k \in 1 .. i : job[k].out # "none"}
AllTerminal(jobs) == jobs # {} /\ \A i \in jobs : Terminal(job[i].state)

(* consumersSettled: the pipeline that consumes the commit does not run.   *)
consumersSettled == mode[1] # "running"

(* Mutant of triggerPending: only unfinished outputs count.                *)
triggerPendingOutputs(jobs) ==
  \E i \in jobs : job[i].out = "open" /\ job[i].state # "failure"

(* A job is still owed: an output is unfinished (a failed job's is taken   *)
(* for orphaned), or an active consumer has no job for a finished one.     *)
triggerPending(jobs) ==
  \E i \in jobs :
    \/ job[i].out = "open" /\ job[i].state # "failure"
    \/ job[i].out = "finished" /\ i < N /\ mode[i + 1] \in {"running", "standby"}
       /\ job[i + 1].state = "none"

FlushTo(step) == flush' = [flush EXCEPT !.step = step]
Rest == UNCHANGED <<queues, mode, job, owed, waiter>>

(* The loop of flushSet: the channel is registered ...                     *)
FlushRegister ==
  /\ flush.step = "register"
  /\ flush' = [flush EXCEPT !.step = "read", !.woken = FALSE]
  /\ Rest

(* ... and then the jobs are read.                                         *)
FlushRead ==
  LET jobs == DownstreamJobsSet IN
  /\ flush.step = "read"
  /\ flush' = [flush EXCEPT !.relevant = jobs, !.step = "select",
                 !.verdict = IF AllTerminal(jobs) THEN "window"
                             ELSE IF jobs = {} /\ consumersSettled THEN "quiet" ELSE "wait"]
  /\ Rest

(* What was read decides what the channel is waited for with: the quiet    *)
(* window, or the deadline.                                                *)
FlushSelect ==
  /\ flush.step = "select"
  /\ FlushTo(flush.verdict) /\ Rest

(* Something changed: the loop begins again.                               *)
FlushWoken ==
  /\ flush.step \in {"window", "quiet", "wait", "last"} /\ flush.woken
  /\ FlushTo("register") /\ Rest

(* The quiet window is over.                                               *)
FlushQuiet ==
  /\ flush.step \in {"window", "quiet"} /\ ~flush.woken
  /\ FlushTo(IF flush.step = "window" THEN "owed" ELSE "returned")
  /\ Rest

FlushOwed ==
  /\ flush.step = "owed"
  /\ FlushTo(IF triggerPending(flush.relevant) THEN "register" ELSE "recheck")
  /\ Rest

(* A new channel, a last look at the closure, and nothing has changed.     *)
FlushRecheck ==
  /\ flush.step = "recheck"
  /\ flush' = [flush EXCEPT !.woken = FALSE,
                 !.step = IF Cardinality(DownstreamJobsSet) = Cardinality(flush.relevant)
                            THEN "last" ELSE "register"]
  /\ Rest

FlushReturns ==
  /\ flush.step = "last" /\ ~flush.woken
  /\ FlushTo("returned") /\ Rest

(* The request's own deadline.                                             *)
FlushDeadline ==
  /\ flush.step \in {"register", "wait"}
  /\ FlushTo("timedOut") /\ Rest

(* waitFor, for the first job: woken, or by a poll tick, it looks again.   *)
WaiterStep ==
  /\ \/ waiter.step = "register" /\ waiter' = [step |-> "check", woken |-> FALSE]
     \/ waiter.step = "check"
        /\ waiter' = [waiter EXCEPT !.step = IF Terminal(job[1].state) THEN "returned" ELSE "wait"]
     \/ waiter.step = "wait" /\ waiter' = [waiter EXCEPT !.step = "register"]
  /\ UNCHANGED <<queues, mode, job, owed, flush>>

----------------------------------------------------------------------------
FlushStep == \/ FlushRegister \/ FlushRead \/ FlushSelect \/ FlushWoken \/ FlushQuiet \/ FlushOwed
             \/ FlushRecheck \/ FlushReturns
WaveStep == \/ \E i \in 0 .. N : Trigger(i)
            \/ \E i \in Stages : \/ Open(i) \/ FinishOutput(i)
                                 \/ \E outcome \in Outcomes : Settle(i, outcome)

Next == WaveStep \/ FlushStep \/ FlushDeadline \/ WaiterStep

Spec == Init /\ [][Next]_vars

(* The jobs come to an end and the requests' goroutines run; the deadline  *)
(* is as far away as the client likes.                                     *)
Fairness == WF_vars(WaveStep) /\ WF_vars(FlushStep) /\ WF_vars(WaiterStep)
FairSpec == Spec /\ Fairness

----------------------------------------------------------------------------
Failed == \E i \in Stages : job[i].state \in {"failure", "killed"}
Complete == {i \in Stages : job[i].state # "none"} = flush.relevant /\ AllTerminal(flush.relevant)

(* A flush that returns before its deadline has the whole wave: every job  *)
(* there is or ever will be, all terminal; as long as no job waits without *)
(* an output commit, none fails, and the first pipeline is a running one   *)
(* (wait.go: "Wait while a trigger is still owed").                        *)
FlushComplete == flush.step = "returned" /\ ~queues /\ ~Failed /\ mode[1] = "running" => Complete

(* The same, whether or not jobs have to queue (wait.go: flushSet "waits   *)
(* until every job triggered by the commits - including jobs of downstream *)
(* stages - is terminal"). It fails: a job without an output commit is not *)
(* among those the flush follows.                                          *)
FlushCompleteQueued == flush.step = "returned" /\ ~Failed /\ mode[1] = "running" => Complete

(* The same when jobs fail (execute.go: "a failed output is still a        *)
(* revision: every downstream stage is triggered and fails in turn"). It   *)
(* fails: the jobs downstream of a failed one are made after its record is *)
(* terminal.                                                               *)
FlushCompleteFailed == flush.step = "returned" /\ ~queues /\ mode[1] = "running" => Complete

(* Once the wave is through, the waits return without their deadlines: no  *)
(* wake-up is lost between reading the records and waiting (wait.go: "so a *)
(* signal landing mid-read is not lost"); unless a job was killed.         *)
Killed == \E i \in Stages : job[i].state = "killed"
FlushOver == flush.step \in {"returned", "timedOut"} \/ Killed
WaiterOver == waiter.step = "returned" \/ mode[1] = "stopped"
WaitsEnd == []<>FlushOver /\ []<>WaiterOver
=============================================================================
