------------------------------- MODULE MCNode -------------------------------
(***************************************************************************)
(* The nodes and what runs on them, checked in one run: a fleet of hosts   *)
(* whose reports are stable (Placement, whose constants the configuration  *)
(* gives), the registry of nodes, spouts, services, the stream of an       *)
(* ad-hoc run (RunStream), and the update of the binary (SelfUpdate).  A   *)
(* behaviour is one of these models, as part says, and the variables of    *)
(* the others stay as they are.                                            *)
(***************************************************************************)
EXTENDS Placement

CONSTANTS
  Daemons, Workers, MaxDeaths, Attachable, MaxEdits, \* Registry
  d1, w1,
  Files, MaxWrites, MaxFailures,    \* Spout, and Service has its failures too
  ServiceCommits,                   \* Service
  MaxData, MaxSignals, MaxOutput,   \* RunStream
  Updaters, MaxRuns, Writable, Installed, NoFile   \* SelfUpdate

(* The bounds are numbers, and the installed file is none that is staged.  *)
ASSUME NodeAssumption ==
  /\ MaxWrites \in Nat /\ MaxFailures \in Nat /\ ServiceCommits \in Nat
  /\ MaxRuns \in Nat \ {0}
  /\ Installed \notin Updaters \X (1 .. MaxRuns) /\ Installed # NoFile
  /\ NoFile \notin Updaters \cup (Updaters \X (1 .. MaxRuns))

VARIABLES
  part,
  \* Registry
  up, peers, file, turn, edits,
  \* Spout
  dir, container, committed, branch, poll, spoutJob, spoutCancelled, spoutFailures,
  \* Service
  remote, head, unsaid, woken, step, last, served, call, process, listed, serviceCancelled,
  serviceJob, failures,
  \* RunStream
  conn, sent, input, chunks, asked, client, pump, box, pipe, reader, relayed, produced, exited,
  missed,
  \* SelfUpdate
  update, run, tmp, fd, result, content, dst, staged, truncated, opener, cut, installer

peerVars == <<up, peers, file, turn, edits>>
spoutVars == <<dir, container, committed, branch, poll, spoutJob, spoutCancelled, spoutFailures>>
serviceVars == <<remote, head, unsaid, woken, step, last, served, call, process, listed,
                 serviceCancelled, serviceJob, failures>>
streamVars == <<conn, sent, input, chunks, asked, client, pump, box, pipe, reader, relayed,
                produced, exited, missed>>
updateVars == <<update, run, tmp, fd, result, content, dst, staged, truncated, opener, cut,
                installer>>
nodeVars == <<part, vars, peerVars, spoutVars, serviceVars, streamVars, updateVars>>

(* p1 and p2 need one device of any host, p3 needs both devices of a host  *)
(* that bears the label.                                                   *)
MCWant == [p \in Pipelines |-> IF p = "p3" THEN 2 ELSE 1]
MCLabel == [p \in Pipelines |-> IF p = "p3" THEN "big" ELSE NoLabel]

(* Every worker reports what it has, always; host 3 has no devices and may *)
(* leave.                                                                  *)
StableReports ==
  [h \in Hosts |-> {[gpus |-> IF h = 3 THEN {} ELSE Devices,
                     labels |-> IF h = 1 THEN {"big"} ELSE {}]}]

(* The users of d1 attach the worker by hand.                              *)
MCAttachable == {<<d1, w1>>}

Peers == INSTANCE Registry

Spouts == INSTANCE Spout WITH
  job <- spoutJob, cancelled <- spoutCancelled, failures <- spoutFailures

Services == INSTANCE Service WITH
  job <- serviceJob, cancelled <- serviceCancelled, MaxCommits <- ServiceCommits

Stream == INSTANCE RunStream

Install == INSTANCE SelfUpdate WITH step <- update

NodeInit ==
  /\ part \in {"fleet", "registry", "spout", "service", "stream", "update"}
  /\ Init /\ Peers!Init /\ Spouts!Init /\ Services!Init /\ Stream!Init /\ Install!Init
  /\ part # "service" => ~remote

NodeNext ==
  \/ /\ part = "fleet" /\ Next
     /\ UNCHANGED <<part, peerVars, spoutVars, serviceVars, streamVars, updateVars>>
  \/ /\ part = "registry" /\ Peers!Next
     /\ UNCHANGED <<part, vars, spoutVars, serviceVars, streamVars, updateVars>>
  \/ /\ part = "spout" /\ Spouts!Next
     /\ UNCHANGED <<part, vars, peerVars, serviceVars, streamVars, updateVars>>
  \/ /\ part = "service" /\ Services!Next
     /\ UNCHANGED <<part, vars, peerVars, spoutVars, streamVars, updateVars>>
  \/ /\ part = "stream" /\ Stream!Next
     /\ UNCHANGED <<part, vars, peerVars, spoutVars, serviceVars, updateVars>>
  \/ /\ part = "update" /\ Install!Next
     /\ UNCHANGED <<part, vars, peerVars, spoutVars, serviceVars, streamVars>>

(* The fairness of the parts, each guarded by its part.                    *)
NodeFairness ==
  /\ \A h \in Hosts :
       WF_vars(part = "fleet" /\ h \notin fresh /\ \E r \in Reports[h] : register(h, r))
  /\ \A p \in Pipelines :
       WF_vars(/\ part = "fleet"
               /\ \/ EnterGate(p) \/ pickAndReserve(p) \/ PickFails(p) \/ PollAgain(p)
                  \/ Settle(p))
  /\ WF_peerVars(part = "registry" /\ Peers!Tick)
  /\ \A d \in Daemons : WF_peerVars(part = "registry" /\ Peers!Loop(d))
  /\ WF_spoutVars(part = "spout" /\ Spouts!Loop)
  /\ WF_serviceVars(part = "service" /\ Services!Loop)
  /\ WF_serviceVars(part = "service" /\ Services!Signal)
  /\ WF_serviceVars(part = "service" /\ Services!ProcessStarts)
  /\ WF_streamVars(part = "stream" /\ Stream!Announce)
  /\ WF_streamVars(part = "stream" /\ Stream!Pump)
  /\ WF_streamVars(part = "stream" /\ Stream!WaitCloses)
  /\ WF_streamVars(part = "stream" /\ Stream!Relay)
  /\ WF_streamVars(part = "stream" /\ Stream!Exit)

NodeSpec == NodeInit /\ [][NodeNext]_nodeVars /\ NodeFairness

----------------------------------------------------------------------------
(* What a spout's loop holds to be committed is on the branch (spout.go),  *)
(* and a service that sleeps serves the head (service.go).                 *)
BackgroundCurrent == /\ part = "spout" => Spouts!HeldIsOnBranch
                     /\ part = "service" => Services!SleepsCurrent

(* What is installed was verified, and is whole unless two updates shared  *)
(* the staged file and one has not finished it (update.go).                *)
UpdatedIsWhole == part = "update" => Install!UpdatedIsWhole

(* A spout whose container has exited, and a spout or a service that is    *)
(* cancelled, comes to its end (spout.go, service.go).                     *)
BackgroundJobsSettle == Spouts!SpoutSettles /\ Services!ServiceSettles

(* A daemon that is left alone forgets the dead, but for those its peers   *)
(* file names (registry.go, prune).                                        *)
DeadForgottenAlone == Peers!DeadForgottenAlone

(* A client that dies takes its job with it, unless the one kill was sent  *)
(* before the container was up (daemon.go).                                *)
NoOrphan == Stream!NoOrphan
=============================================================================
