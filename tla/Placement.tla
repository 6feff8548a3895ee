----------------------------- MODULE Placement -----------------------------
(***************************************************************************)
(* Execution hosts and the jobs that wait for them (hosts.go; the          *)
(* placement loop of execute.go: runJob; the crashed state of jobs.go).    *)
(*                                                                         *)
(* A worker registers a host with its GPU devices and labels and refreshes *)
(* the registration by heartbeat; a registration that is not refreshed     *)
(* goes stale.  A job of a pipeline that asks for a label or for GPUs      *)
(* polls the registry until a live host fits, holds specific devices of    *)
(* that host while it runs, and gives them back when it settles.  While it *)
(* polls in vain its pipeline is marked crashed, and a crashed pipeline    *)
(* does not take new commits.                                              *)
(*                                                                         *)
(* The pipeline's gate lets one job at a time through (see JobGate), so a  *)
(* pipeline has at most one job past it: the jobs behind it are a number.  *)
(* Every pipeline here asks for placement; other pipelines never meet the  *)
(* registry.  Stopping and updating pipelines is left to a later module.   *)
(***************************************************************************)
EXTENDS Naturals, FiniteSets

CONSTANTS
  Hosts,      \* host names, as numbers in name order
  Devices,    \* GPU device indices
  Labels,     \* placement labels
  NoLabel,    \* the label of a pipeline that requires none
  Pipelines,
  Want,       \* [Pipelines -> Nat]: the devices a job of the pipeline needs
  Label,      \* [Pipelines -> Labels \cup {NoLabel}]
  Reports,    \* [Hosts -> the registrations its worker may send]
  Flaky,      \* hosts whose heartbeats may come later than the TTL
  MayDrop,    \* hosts that an operator or a leaving worker may deregister
  MayRestart, \* the control plane may be restarted
  MaxCommits  \* bound: commits landing on the input of one pipeline

ASSUME PlacementAssumption ==
  /\ Hosts \subseteq Nat /\ IsFiniteSet(Hosts)
  /\ Devices \subseteq Nat /\ IsFiniteSet(Devices)
  /\ Want \in [Pipelines -> Nat]
  /\ Label \in [Pipelines -> Labels \cup {NoLabel}] /\ NoLabel \notin Labels
  /\ Reports \in [Hosts -> SUBSET [gpus : SUBSET Devices, labels : SUBSET Labels]]
  /\ Flaky \subseteq Hosts
  /\ MayDrop \subseteq Hosts /\ MayRestart \in BOOLEAN
  /\ MaxCommits \in Nat

VARIABLES
  hosts,    \* r.hosts: the registered hosts
  fresh,    \* the registered hosts whose heartbeat is younger than the TTL
  gpus,     \* the devices each host last reported
  labels,   \* the labels each host last reported
  busy,     \* r.busy: the devices of each host allocated to jobs
  state,    \* each pipeline's recorded state
  landed,   \* commits that landed on each pipeline's input
  skipped,  \* those of them the trigger passed over
  queued,   \* jobs of each pipeline waiting at its gate
  phase,    \* the pipeline's job past the gate
  holds     \* the host and the devices of that job

registry == <<hosts, fresh, gpus, labels, busy>>
work == <<landed, skipped, queued>>
vars == <<registry, state, work, phase, holds>>

Nothing == [host |-> 0, gpus |-> {}]

TypeOK ==
  /\ hosts \subseteq Hosts
  /\ fresh \subseteq hosts
  /\ gpus \in [Hosts -> SUBSET Devices]
  /\ labels \in [Hosts -> SUBSET Labels]
  /\ busy \in [Hosts -> SUBSET Devices]
  /\ state \in [Pipelines -> {"running", "crashed"}]
  /\ landed \in [Pipelines -> Nat]
  /\ skipped \in [Pipelines -> Nat]
  /\ queued \in [Pipelines -> Nat]
  /\ phase \in [Pipelines -> {"none", "placing", "sleeping", "placed"}]
  /\ holds \in [Pipelines -> [host : Nat, gpus : SUBSET Devices]]

Init ==
  /\ hosts = {}
  /\ fresh = {}
  /\ gpus = [h \in Hosts |-> {}]
  /\ labels = [h \in Hosts |-> {}]
  /\ busy = [h \in Hosts |-> {}]
  /\ state = [p \in Pipelines |-> "running"]
  /\ landed = [p \in Pipelines |-> 0]
  /\ skipped = [p \in Pipelines |-> 0]
  /\ queued = [p \in Pipelines |-> 0]
  /\ phase = [p \in Pipelines |-> "none"]
  /\ holds = [p \in Pipelines |-> Nothing]

----------------------------------------------------------------------------
(* The registry.                                                           *)

(* Mutant of register: a heartbeat starts from no allocations.             *)
registerAnew(h, r) ==
  /\ hosts' = hosts \cup {h}
  /\ fresh' = fresh \cup {h}
  /\ gpus' = [gpus EXCEPT ![h] = r.gpus]
  /\ labels' = [labels EXCEPT ![h] = r.labels]
  /\ busy' = [busy EXCEPT ![h] = {}]
  /\ UNCHANGED <<state, work, phase, holds>>

(* hostRegistry.register: an upsert.  Allocations of devices the host still *)
(* reports survive, the others are dropped.                                *)
register(h, r) ==
  /\ hosts' = hosts \cup {h}
  /\ fresh' = fresh \cup {h}
  /\ gpus' = [gpus EXCEPT ![h] = r.gpus]
  /\ labels' = [labels EXCEPT ![h] = r.labels]
  /\ busy' = [busy EXCEPT ![h] = @ \cap r.gpus]
  /\ UNCHANGED <<state, work, phase, holds>>

(* No heartbeat for a TTL: the host stays registered and is not schedulable. *)
GoStale(h) ==
  /\ h \in fresh \cap Flaky
  /\ fresh' = fresh \ {h}
  /\ UNCHANGED <<hosts, gpus, labels, busy, state, work, phase, holds>>

(* hostRegistry.drop: the host and its allocations are forgotten.          *)
drop(h) ==
  /\ h \in hosts \cap MayDrop
  /\ hosts' = hosts \ {h}
  /\ fresh' = fresh \ {h}
  /\ gpus' = [gpus EXCEPT ![h] = {}]
  /\ labels' = [labels EXCEPT ![h] = {}]
  /\ busy' = [busy EXCEPT ![h] = {}]
  /\ UNCHANGED <<state, work, phase, holds>>

Free(h) == gpus[h] \ busy[h]

(* Mutant of Fit: one device too many is asked for.                        *)
FitMore(p) ==
  {h \in fresh : /\ Label[p] # NoLabel => Label[p] \in labels[h]
                 /\ Cardinality(Free(h)) > Want[p]}

(* The hosts that can take a job of p: live, labelled and with enough free *)
(* devices.                                                                *)
Fit(p) ==
  {h \in fresh : /\ Label[p] # NoLabel => Label[p] \in labels[h]
                 /\ Cardinality(Free(h)) >= Want[p]}

(* The order of the candidates: for a GPU job the host with more free      *)
(* devices first, then by name.                                            *)
Before(p, g, h) ==
  IF Want[p] > 0 /\ Cardinality(Free(g)) # Cardinality(Free(h))
    THEN Cardinality(Free(g)) > Cardinality(Free(h))
    ELSE g < h

(* The n lowest indices of a set of devices.                               *)
IsLowest(S, n, D) ==
  S \subseteq D /\ Cardinality(S) = n /\ \A d \in S, e \in D \ S : d < e

(* Mutant of release: a stale host is not looked at.                       *)
releaseFresh(h, S) ==
  busy' = [g \in Hosts |-> IF g = h /\ g \in fresh THEN busy[g] \ S ELSE busy[g]]

(* hostRegistry.release: what is left of a host's allocations.             *)
release(h, S) == busy' = [g \in Hosts |-> IF g = h THEN busy[g] \ S ELSE busy[g]]

----------------------------------------------------------------------------
(* Jobs.                                                                   *)

(* triggerForCommit: a crashed pipeline is passed over, any other gets a   *)
(* job, which queues at the gate.                                          *)
CommitLands(p) ==
  /\ landed[p] < MaxCommits
  /\ landed' = [landed EXCEPT ![p] = @ + 1]
  /\ \/ /\ state[p] = "crashed"
        /\ skipped' = [skipped EXCEPT ![p] = @ + 1]
        /\ queued' = queued
     \/ /\ state[p] # "crashed"
        /\ queued' = [queued EXCEPT ![p] = @ + 1]
        /\ skipped' = skipped
  /\ UNCHANGED <<registry, state, phase, holds>>

(* The gate hands the slot to the next job, which starts to poll.          *)
EnterGate(p) ==
  /\ phase[p] = "none"
  /\ queued[p] > 0
  /\ queued' = [queued EXCEPT ![p] = @ - 1]
  /\ phase' = [phase EXCEPT ![p] = "placing"]
  /\ UNCHANGED <<registry, state, landed, skipped, holds>>

(* pickAndReserve finds a host: the first candidate's lowest free devices  *)
(* are the job's, and the pipeline's crash is cleared (markPipelineRunning). *)
pickAndReserve(p) ==
  /\ phase[p] = "placing"
  /\ \E h \in Fit(p), S \in SUBSET Devices :
       /\ \A g \in Fit(p) \ {h} : Before(p, h, g)
       /\ IsLowest(S, Want[p], Free(h))
       /\ busy' = [busy EXCEPT ![h] = @ \cup S]
       /\ holds' = [holds EXCEPT ![p] = [host |-> h, gpus |-> S]]
  /\ phase' = [phase EXCEPT ![p] = "placed"]
  /\ state' = [state EXCEPT ![p] = "running"]
  /\ UNCHANGED <<hosts, fresh, gpus, labels, work>>

(* pickAndReserve finds none: markPipelineCrashed, and the job sleeps.     *)
PickFails(p) ==
  /\ phase[p] = "placing"
  /\ Fit(p) = {}
  /\ state' = [state EXCEPT ![p] = "crashed"]
  /\ phase' = [phase EXCEPT ![p] = "sleeping"]
  /\ UNCHANGED <<registry, work, holds>>

(* Half a second later it polls again.                                     *)
PollAgain(p) ==
  /\ phase[p] = "sleeping"
  /\ phase' = [phase EXCEPT ![p] = "placing"]
  /\ UNCHANGED <<registry, state, work, holds>>

(* A cancel reaches the sleeping job: it settles killed.                   *)
CancelUnplaced(p) ==
  /\ phase[p] = "sleeping"
  /\ phase' = [phase EXCEPT ![p] = "none"]
  /\ UNCHANGED <<registry, state, work, holds>>

(* runRemoteAttempt fails: the host cannot be reached, or the job's cancel *)
(* interrupts the request.  Either way the pipeline is marked crashed.     *)
AttemptFails(p) ==
  /\ phase[p] = "placed"
  /\ state' = [state EXCEPT ![p] = "crashed"]
  /\ UNCHANGED <<registry, work, phase, holds>>

(* The job settles; the deferred release gives its devices back.           *)
Settle(p) ==
  /\ phase[p] = "placed"
  /\ release(holds[p].host, holds[p].gpus)
  /\ phase' = [phase EXCEPT ![p] = "none"]
  /\ holds' = [holds EXCEPT ![p] = Nothing]
  /\ UNCHANGED <<hosts, fresh, gpus, labels, state, work>>

(* Mutant of Restart: the heartbeat times survive the registrations.       *)
RestartKeepsTimes ==
  /\ MayRestart
  /\ hosts' = {}
  /\ gpus' = [h \in Hosts |-> {}]
  /\ labels' = [h \in Hosts |-> {}]
  /\ busy' = [h \in Hosts |-> {}]
  /\ queued' = [p \in Pipelines |-> 0]
  /\ phase' = [p \in Pipelines |-> "none"]
  /\ holds' = [p \in Pipelines |-> Nothing]
  /\ UNCHANGED <<fresh, state, landed, skipped>>

(* The control plane restarts: the registry is in memory only and comes up *)
(* empty, and the jobs in flight are recorded failed; the pipelines'       *)
(* recorded states stay as they are (markStaleJobsFailed).                 *)
Restart ==
  /\ MayRestart
  /\ hosts' = {}
  /\ fresh' = {}
  /\ gpus' = [h \in Hosts |-> {}]
  /\ labels' = [h \in Hosts |-> {}]
  /\ busy' = [h \in Hosts |-> {}]
  /\ queued' = [p \in Pipelines |-> 0]
  /\ phase' = [p \in Pipelines |-> "none"]
  /\ holds' = [p \in Pipelines |-> Nothing]
  /\ UNCHANGED <<state, landed, skipped>>

----------------------------------------------------------------------------
HostNext(h) == GoStale(h) \/ drop(h) \/ \E r \in Reports[h] : register(h, r)

JobNext(p) ==
  \/ EnterGate(p) \/ pickAndReserve(p) \/ PickFails(p) \/ PollAgain(p)
  \/ CancelUnplaced(p) \/ AttemptFails(p) \/ Settle(p)

Next ==
  \/ \E h \in Hosts : HostNext(h)
  \/ \E p \in Pipelines : CommitLands(p) \/ JobNext(p)
  \/ Restart

Spec == Init /\ [][Next]_vars

(* The worker's heartbeat loop and the job's poll loop run for ever, and   *)
(* the transform of a placed job ends.                                     *)
FairSpec ==
  /\ Spec
  /\ \A h \in Hosts : WF_vars(h \notin fresh /\ \E r \in Reports[h] : register(h, r))
  /\ \A p \in Pipelines :
       WF_vars(EnterGate(p) \/ pickAndReserve(p) \/ PickFails(p) \/ PollAgain(p) \/ Settle(p))

----------------------------------------------------------------------------
(* Correctness.                                                            *)

(* Parallel jobs get distinct devices (the pickAndReserve comment): no two *)
(* placed jobs hold the same device of the same host.                      *)
DevicesExclusive ==
  \A p, q \in Pipelines :
    /\ p # q /\ phase[p] = "placed" /\ phase[q] = "placed"
    /\ holds[p].host = holds[q].host
    => holds[p].gpus \cap holds[q].gpus = {}

(* No device leaks: whatever registrations, drops and restarts come        *)
(* between, a device is marked busy only while a placed job holds it, so a *)
(* settled job never leaves capacity behind that nothing can free.         *)
NoDeviceLeak ==
  \A h \in Hosts : \A d \in busy[h] :
    \E p \in Pipelines : phase[p] = "placed" /\ holds[p].host = h /\ d \in holds[p].gpus

(* The pipeline recovers from a placement outage by itself (the runJob     *)
(* comment): a crashed pipeline has a job that will clear the crash. It    *)
(* fails: a placement that is cancelled or fails leaves the pipeline       *)
(* crashed.                                                                *)
CrashHasHealer ==
  \A p \in Pipelines : state[p] = "crashed" => phase[p] # "none" \/ queued[p] > 0

(* Every commit on a watched branch gets a job (the triggerForCommit       *)
(* comment). It fails: the commits that land in the crashed state are      *)
(* passed over.                                                            *)
EveryCommitGetsJob == \A p \in Pipelines : skipped[p] = 0

(* A fleet whose workers always report the same devices, and only leave    *)
(* when they have none.                                                    *)
StableFleet ==
  /\ \A h \in Hosts : \A r, s \in Reports[h] : r.gpus = s.gpus
  /\ \A h \in MayDrop : \E r \in Reports[h] : r.gpus = {}

(* The pending work re-places automatically (the hosts.go comment): a job  *)
(* that polls is placed or cancelled in the end, when the others settle    *)
(* and the heartbeats come, however the devices pass between the jobs.     *)
PollingEnds ==
  \A p \in Pipelines : []<>(phase[p] \notin {"placing", "sleeping"})
=============================================================================
