------------------------------ MODULE MCShared ------------------------------
(***************************************************************************)
(* Two models of what a job does to what it shares with other jobs,        *)
(* checked in one run: the output it commits (Output, whose constants the  *)
(* configuration gives) and the devices it holds on a fleet that churns    *)
(* (Placement).  A behaviour is one of the two, as part says, and the      *)
(* variables of the other stay as they are.                                *)
(***************************************************************************)
EXTENDS MCOutput

CONSTANTS NoLabel

VARIABLES
  part,
  \* Placement
  hosts, fresh, gpus, labels, busy, state, landed, skipped, queued, phase, holds

fleetVars == <<hosts, fresh, gpus, labels, busy, state, landed, skipped, queued, phase, holds>>
runVars == <<part, outVars, fleetVars>>

(* One host, that may leave, come back and report a device less, or no     *)
(* label; p1 needs one device, p3 needs both and the label.                *)
Both == [gpus |-> {0, 1}, labels |-> {"big"}]
Fleet == INSTANCE Placement WITH
  Hosts <- {1}, Devices <- {0, 1}, Labels <- {"big"}, Pipelines <- {"p1", "p3"},
  Want <- [p1 |-> 1, p3 |-> 2],
  Label <- [p1 |-> NoLabel, p3 |-> "big"],
  Reports <- [h \in {1} |-> {Both, [Both EXCEPT !.gpus = {1}], [Both EXCEPT !.labels = {}]}],
  Flaky <- {1}, MayDrop <- {1}, MayRestart <- TRUE, MaxCommits <- 2

RunInit == part \in {"output", "fleet"} /\ OutInit /\ Fleet!Init

RunNext ==
  \/ part = "output" /\ OutNext /\ UNCHANGED <<part, fleetVars>>
  \/ part = "fleet" /\ Fleet!Next /\ UNCHANGED <<part, outVars>>

RunSpec == RunInit /\ [][RunNext]_runVars

(* What jobs share stays sound: a finished output commit shows what its    *)
(* job left in the output directory (jobs.go, finishOutput), and on a      *)
(* churning fleet too a busy device is one a placed job holds (hosts.go,   *)
(* release).                                                               *)
SharedSound == OutputIsWhatTheJobWrote /\ Fleet!NoDeviceLeak
=============================================================================
