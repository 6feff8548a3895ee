------------------------------ MODULE Restart ------------------------------
(***************************************************************************)
(* The daemon's life (daemon.go: cmdDaemon): what is on disk when it dies, *)
(* what the start makes of it (pruneOrphans; jobs.go: markStaleJobsFailed, *)
(* respawnBackgroundJobs), and the orderly shutdown                        *)
(* (cancelAllRunningJobs and the settle window).                           *)
(*                                                                         *)
(* Records of jobs and pipelines are files; the goroutines of jobs and the *)
(* requests being served are memory; containers are docker's and outlive   *)
(* the process.  The daemon may crash between any two writes, during its   *)
(* start too.  Each batch or standby pipeline has one input branch; spouts *)
(* and services run one job in the background.                             *)
(***************************************************************************)
EXTENDS Naturals, Sequences, FiniteSets

CONSTANTS
  Batch, Standby, Background, \* the pipelines, by kind
  MaxJobs, MaxCrashes         \* bounds

Pipelines == Batch \cup Standby \cup Background

VARIABLES
  phase,    \* of the process
  todo,     \* the records the current step of the start has still to visit
  rec,      \* the job records: pipeline, state
  live,     \* the jobs with a goroutine
  born,     \* history: the jobs of earlier lives of the process
  boxes,    \* the jobs whose container runs
  pstate,   \* the pipeline records: the state
  stopped,  \* and the stopped flag
  unseen,   \* the pipelines whose input head no job was made for
  request,  \* the pipelines for which a request is about to make a job
  doomed,   \* the jobs the shutdown has cancelled
  crashes

vars == <<phase, todo, rec, live, born, boxes, pstate, stopped, unseen, request,
          doomed, crashes>>

Jobs == DOMAIN rec
Pending(j) == rec[j].state \in {"queued", "running"}
Of(p) == {j \in live : rec[j].pipe = p}

TypeOK ==
  /\ phase \in {"down", "prune", "mark", "respawn", "up", "draining"}
  /\ rec \in Seq([pipe : Pipelines,
                  state : {"none", "queued", "running", "success", "failure", "killed"}])
  /\ todo \subseteq Jobs \cup Pipelines
  /\ live \subseteq Jobs /\ born \in Nat /\ boxes \subseteq Jobs
  /\ pstate \in [Pipelines -> {"running", "standby"}]
  /\ stopped \subseteq Pipelines /\ unseen \subseteq Pipelines
  /\ request \subseteq Pipelines /\ doomed \subseteq Jobs /\ crashes \in 0 .. MaxCrashes

Init ==
  /\ phase = "down" /\ todo = {} /\ rec = <<>>
  /\ live = {} /\ born = 0 /\ boxes = {}
  /\ pstate = [p \in Pipelines |-> IF p \in Standby THEN "standby" ELSE "running"]
  /\ stopped = {} /\ unseen = {} /\ request = {} /\ doomed = {} /\ crashes = 0

----------------------------------------------------------------------------
(* The start.                                                              *)

Boot ==
  /\ phase = "down"
  /\ phase' = "prune" /\ born' = Len(rec)
  /\ UNCHANGED <<todo, rec, live, boxes, pstate, stopped, unseen, request,
                 doomed, crashes>>

(* pruneOrphans: docker removes the containers with this node's label.     *)
pruneOrphans ==
  /\ phase = "prune"
  /\ boxes' = {} /\ phase' = "mark" /\ todo' = {j \in Jobs : rec[j].state # "none"}
  /\ UNCHANGED <<rec, live, born, pstate, stopped, unseen, request, doomed, crashes>>

(* Mutant of Stale: jobs that had not begun are overlooked.                *)
StaleRunning(j) == rec[j].state = "running"

Stale(j) == Pending(j)

(* markStaleJobsFailed, one record: first the job's ...                    *)
MarkStale(j) ==
  /\ phase = "mark" /\ j \in todo
  /\ rec' = [rec EXCEPT ![j].state = IF Stale(j) THEN "failure" ELSE @]
  /\ todo' = (todo \ {j}) \cup (IF Stale(j) /\ rec[j].pipe \in Standby
                                  THEN {rec[j].pipe} ELSE {})
  /\ UNCHANGED <<phase, live, born, boxes, pstate, stopped, unseen, request, doomed,
                 crashes>>

(* ... then the standby pipeline's.                                        *)
BackToStandby(p) ==
  /\ phase = "mark" /\ p \in todo
  /\ pstate' = [pstate EXCEPT ![p] = IF @ = "running" THEN "standby" ELSE @]
  /\ todo' = todo \ {p}
  /\ UNCHANGED <<phase, rec, live, born, boxes, stopped, unseen, request, doomed,
                 crashes>>

AllMarked ==
  /\ phase = "mark" /\ todo = {}
  /\ phase' = "respawn" /\ todo' = Pipelines
  /\ UNCHANGED <<rec, live, born, boxes, pstate, stopped, unseen, request, doomed,
                 crashes>>

Spawned(p) == /\ Len(rec) < MaxJobs
              /\ rec' = Append(rec, [pipe |-> p, state |-> "none"])
              /\ live' = live \cup {Len(rec) + 1}

(* Mutant of Respawns: only pipelines that lost a job come back.           *)
RespawnsFailed(p) == /\ p \in Background \ stopped
                     /\ \E j \in Jobs : rec[j] = [pipe |-> p, state |-> "failure"]

Respawns(p) == p \in Background \ stopped /\ pstate[p] = "running"

(* respawnBackgroundJobs, one pipeline.                                    *)
Respawn(p) ==
  /\ phase = "respawn" /\ p \in todo
  /\ todo' = todo \ {p}
  /\ IF Respawns(p) THEN Spawned(p) ELSE UNCHANGED <<rec, live>>
  /\ UNCHANGED <<phase, born, boxes, pstate, stopped, unseen, request, doomed, crashes>>

Listen ==
  /\ phase = "respawn" /\ todo = {}
  /\ phase' = "up"
  /\ UNCHANGED <<todo, rec, live, born, boxes, pstate, stopped, unseen, request,
                 doomed, crashes>>

----------------------------------------------------------------------------
(* Service.                                                                *)

Serving == phase \in {"up", "draining"}

(* An input commit is finished; the request goes on to trigger (jobs.go:   *)
(* commitRevision).                                                        *)
FinishInput(p) ==
  /\ Serving /\ p \in Batch \cup Standby /\ p \notin request
  /\ unseen' = unseen \cup {p} /\ request' = request \cup {p}
  /\ UNCHANGED <<phase, todo, rec, live, born, boxes, pstate, stopped, doomed, crashes>>

(* spawnJob: a standby pipeline's record is woken, then the job spawned.   *)
Wake(p) ==
  /\ Serving /\ p \in request \cap Standby /\ pstate[p] = "standby"
  /\ pstate' = [pstate EXCEPT ![p] = "running"]
  /\ UNCHANGED <<phase, todo, rec, live, born, boxes, stopped, unseen, request, doomed,
                 crashes>>

Trigger(p) ==
  /\ Serving /\ p \in request /\ pstate[p] = "running"
  /\ Spawned(p) /\ unseen' = unseen \ {p} /\ request' = request \ {p}
  /\ UNCHANGED <<phase, todo, born, boxes, pstate, stopped, doomed, crashes>>

(* The job's goroutine saves its record, queued, and later runs.           *)
SaveQueued(j) ==
  /\ j \in live /\ rec[j].state = "none"
  /\ rec' = [rec EXCEPT ![j].state = "queued"]
  /\ UNCHANGED <<phase, todo, live, born, boxes, pstate, stopped, unseen, request, doomed,
                 crashes>>

RunJob(j) ==
  /\ j \in live \ doomed /\ rec[j].state = "queued"
  /\ rec' = [rec EXCEPT ![j].state = "running"] /\ boxes' = boxes \cup {j}
  /\ UNCHANGED <<phase, todo, live, born, pstate, stopped, unseen, request, doomed,
                 crashes>>

(* The job settles: its record, ...                                        *)
Settle(j) ==
  /\ j \in live /\ Pending(j) /\ (rec[j].state = "running" \/ j \in doomed)
  /\ rec' = [rec EXCEPT ![j].state = IF j \in doomed THEN "killed" ELSE "success"]
  /\ boxes' = boxes \ {j}
  /\ UNCHANGED <<phase, todo, live, born, pstate, stopped, unseen, request, doomed,
                 crashes>>

(* ... and in a second step the standby pipeline's, if this was its last.  *)
Unregister(j) ==
  /\ j \in live /\ ~Pending(j) /\ rec[j].state # "none"
  /\ live' = live \ {j}
  /\ pstate' = [p \in Pipelines |->
       IF p \in Standby /\ p = rec[j].pipe /\ Of(p) = {j} THEN "standby" ELSE pstate[p]]
  /\ UNCHANGED <<phase, todo, rec, born, boxes, stopped, unseen, request, doomed, crashes>>

(* stopPipeline and startPipeline, of a background pipeline, which hold a  *)
(* lock: the record is saved, then the jobs are cancelled or one spawned.  *)
StopPipeline(p) ==
  /\ Serving /\ p \in Background \ (stopped \cup request)
  /\ stopped' = stopped \cup {p} /\ doomed' = doomed \cup Of(p)
  /\ UNCHANGED <<phase, todo, rec, live, born, boxes, pstate, unseen, request, crashes>>

StartPipeline(p) ==
  /\ Serving /\ p \in Background \cap stopped
  /\ stopped' = stopped \ {p} /\ request' = request \cup {p}
  /\ UNCHANGED <<phase, todo, rec, live, born, boxes, pstate, unseen, doomed, crashes>>

----------------------------------------------------------------------------
(* The end.                                                                *)

(* SIGTERM: every job that is registered is cancelled.                     *)
Shutdown ==
  /\ phase = "up"
  /\ phase' = "draining" /\ doomed' = doomed \cup live
  /\ UNCHANGED <<todo, rec, live, born, boxes, pstate, stopped, unseen, request, crashes>>

Die ==
  /\ phase' = "down" /\ todo' = {} /\ live' = {} /\ request' = {} /\ doomed' = {}
  /\ UNCHANGED <<rec, born, boxes, pstate, stopped, unseen>>

(* No job is left, or the settle window has passed.                        *)
Exit == phase = "draining" /\ crashes < MaxCrashes /\ crashes' = crashes + 1 /\ Die

Crash == phase # "down" /\ crashes < MaxCrashes /\ crashes' = crashes + 1 /\ Die

Next ==
  \/ Boot \/ pruneOrphans \/ AllMarked \/ Listen \/ Shutdown \/ Exit \/ Crash
  \/ \E j \in Jobs : MarkStale(j) \/ SaveQueued(j) \/ RunJob(j) \/ Settle(j) \/ Unregister(j)
  \/ \E p \in Pipelines : \/ BackToStandby(p) \/ Respawn(p) \/ FinishInput(p) \/ Wake(p)
                          \/ Trigger(p) \/ StopPipeline(p) \/ StartPipeline(p)

Spec == Init /\ [][Next]_vars

----------------------------------------------------------------------------
(* Whatever the daemon died in, once it serves again no record is left     *)
(* queued or running without a job behind it (jobs.go: "it is recorded     *)
(* failed ... rather than left dangling"), and no container runs without   *)
(* one.                                                                    *)
NoDangling ==
  Serving => /\ \A j \in Jobs : Pending(j) => j \in live
             /\ boxes \subseteq live

(* A background pipeline that is not stopped has got a new job when the    *)
(* daemon starts to serve, also if it died before it had saved the last    *)
(* one, or between its start and the job (jobs.go: "nothing else would     *)
(* bring them back").                                                      *)
BackgroundBack ==
  Serving => \A p \in Background \ (stopped \cup request) :
               \E j \in Jobs : j > born /\ rec[j].pipe = p

(* A standby pipeline without jobs is on standby (jobs.go: "a standby      *)
(* pipeline whose in-flight work was lost that way ... returns to          *)
(* standby"). It fails when the daemon dies between the save of the job    *)
(* and that of the pipeline.                                               *)
StandbyAfterRestart ==
  phase = "up" => \A p \in Standby : Of(p) = {} /\ p \notin request => pstate[p] = "standby"

(* A finished input commit is consumed, by the request that finished it or *)
(* after a restart (daemon.go: "Only in-flight work is lost; committed     *)
(* data and pipeline definitions survive"). It fails when the daemon dies  *)
(* between the commit and its trigger.                                     *)
InputConsumed == phase = "up" => unseen \subseteq request

(* The shutdown leaves no job behind that it has not cancelled (daemon.go: *)
(* "cancel every in-flight job so its containers are killed"). It fails: a *)
(* request that is being served may make a job after the others were       *)
(* cancelled.                                                              *)
ShutdownCancelsAll == [][phase = "draining" /\ phase' = "down" => live \subseteq doomed]_vars
=============================================================================
