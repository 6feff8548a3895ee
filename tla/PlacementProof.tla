-------------------------- MODULE PlacementProof --------------------------
(***************************************************************************)
(* Placement for every fleet, every set of pipelines and every request:    *)
(* type correctness, no device leaks, and, when the workers' reports do    *)
(* not change, no device is held by two jobs.                              *)
(***************************************************************************)
EXTENDS Placement, TLAPS

(* Every step keeps the types.                                             *)
LEMMA TypeStep == TypeOK /\ [Next]_vars => TypeOK'
<1> SUFFICES ASSUME TypeOK, [Next]_vars PROVE TypeOK'
  OBVIOUS
<1> USE PlacementAssumption DEF TypeOK, registry, work, Nothing
<1>1. ASSUME NEW h \in Hosts, NEW r \in Reports[h], register(h, r) PROVE TypeOK'
  <2>1. r \in [gpus : SUBSET Devices, labels : SUBSET Labels]
    OBVIOUS
  <2> QED
    BY <1>1, <2>1 DEF register
<1>2. ASSUME NEW h \in Hosts, GoStale(h) PROVE TypeOK'
  BY <1>2 DEF GoStale
<1>3. ASSUME NEW h \in Hosts, drop(h) PROVE TypeOK'
  BY <1>3 DEF drop
<1>4. ASSUME NEW p \in Pipelines, CommitLands(p) PROVE TypeOK'
  <2>1. landed' \in [Pipelines -> Nat]
    BY <1>4 DEF CommitLands
  <2>2. CASE state[p] = "crashed"
    <3>1. skipped' = [skipped EXCEPT ![p] = @ + 1] /\ queued' = queued
      BY <1>4, <2>2 DEF CommitLands
    <3>2. skipped' \in [Pipelines -> Nat]
      BY <3>1
    <3> QED
      BY <1>4, <2>1, <3>1, <3>2 DEF CommitLands
  <2>3. CASE state[p] # "crashed"
    BY <1>4, <2>1, <2>3 DEF CommitLands
  <2> QED
    BY <2>2, <2>3
<1>5. ASSUME NEW p \in Pipelines, EnterGate(p) PROVE TypeOK'
  BY <1>5 DEF EnterGate
<1>6. ASSUME NEW p \in Pipelines, pickAndReserve(p) PROVE TypeOK'
  <2>1. PICK h \in Fit(p), S \in SUBSET Devices :
          /\ busy' = [busy EXCEPT ![h] = @ \cup S]
          /\ holds' = [holds EXCEPT ![p] = [host |-> h, gpus |-> S]]
    BY <1>6 DEF pickAndReserve
  <2>2. h \in Hosts
    BY DEF Fit
  <2>3. busy' \in [Hosts -> SUBSET Devices]
    BY <2>1, <2>2
  <2>4. holds' \in [Pipelines -> [host : Nat, gpus : SUBSET Devices]]
    BY <2>1, <2>2
  <2> QED
    BY <1>6, <2>3, <2>4 DEF pickAndReserve
<1>7. ASSUME NEW p \in Pipelines, PickFails(p) PROVE TypeOK'
  BY <1>7 DEF PickFails
<1>8. ASSUME NEW p \in Pipelines, PollAgain(p) PROVE TypeOK'
  BY <1>8 DEF PollAgain
<1>9. ASSUME NEW p \in Pipelines, CancelUnplaced(p) PROVE TypeOK'
  BY <1>9 DEF CancelUnplaced
<1>10. ASSUME NEW p \in Pipelines, AttemptFails(p) PROVE TypeOK'
  BY <1>10 DEF AttemptFails
<1>11. ASSUME NEW p \in Pipelines, Settle(p) PROVE TypeOK'
  BY <1>11 DEF Settle, release
<1>12. CASE Restart
  BY <1>12 DEF Restart
<1>13. CASE UNCHANGED vars
  BY <1>13 DEF vars
<1> QED
  BY <1>1, <1>2, <1>3, <1>4, <1>5, <1>6, <1>7, <1>8, <1>9, <1>10, <1>11, <1>12, <1>13
     DEF Next, HostNext, JobNext

(* What the registry, the poll loop and the trigger record is always well  *)
(* typed (hosts.go, execute.go), for every fleet.                          *)
THEOREM PlacementTypes == Spec => []TypeOK
<1>1. Init => TypeOK
  BY PlacementAssumption DEF Init, TypeOK, Nothing
<1> QED
  BY <1>1, TypeStep, PTL DEF Spec

(* A step that only shrinks the allocations and leaves the jobs' holds and *)
(* placements alone leaks nothing.                                         *)
LEMMA ShrinkLeaksNothing ==
  ASSUME NoDeviceLeak, \A h \in Hosts : busy'[h] \subseteq busy[h], holds' = holds,
         \A p \in Pipelines : phase[p] = "placed" => phase'[p] = "placed"
  PROVE  NoDeviceLeak'
  BY DEF NoDeviceLeak

(* Every step leaves no device behind.                                     *)
LEMMA LeakStep == TypeOK /\ NoDeviceLeak /\ [Next]_vars => NoDeviceLeak'
<1> SUFFICES ASSUME TypeOK, NoDeviceLeak, [Next]_vars PROVE NoDeviceLeak'
  OBVIOUS
<1>1. ASSUME NEW h \in Hosts, HostNext(h) PROVE NoDeviceLeak'
  <2>1. holds' = holds /\ phase' = phase /\ \A g \in Hosts : busy'[g] \subseteq busy[g]
    BY <1>1 DEF HostNext, register, GoStale, drop, TypeOK
  <2> QED
    BY <2>1, ShrinkLeaksNothing
<1>2. ASSUME NEW p \in Pipelines,
             \/ CommitLands(p) \/ EnterGate(p) \/ PickFails(p) \/ PollAgain(p)
             \/ CancelUnplaced(p) \/ AttemptFails(p)
      PROVE  NoDeviceLeak'
  <2>1. holds' = holds /\ busy' = busy
    BY <1>2 DEF CommitLands, EnterGate, PickFails, PollAgain, CancelUnplaced,
                AttemptFails, registry, work
  <2>2. \A q \in Pipelines : phase[q] = "placed" => phase'[q] = "placed"
    BY <1>2 DEF CommitLands, EnterGate, PickFails, PollAgain, CancelUnplaced,
                AttemptFails, TypeOK
  <2> QED
    BY <2>1, <2>2, ShrinkLeaksNothing
<1>3. ASSUME NEW p \in Pipelines, pickAndReserve(p) PROVE NoDeviceLeak'
  <2>1. PICK h \in Fit(p), S \in SUBSET Devices :
          /\ busy' = [busy EXCEPT ![h] = @ \cup S]
          /\ holds' = [holds EXCEPT ![p] = [host |-> h, gpus |-> S]]
    BY <1>3 DEF pickAndReserve
  <2>2. phase[p] = "placing" /\ phase' = [phase EXCEPT ![p] = "placed"]
    BY <1>3 DEF pickAndReserve
  <2>3. /\ phase'[p] = "placed" /\ holds'[p].host = h /\ holds'[p].gpus = S
        /\ \A q \in Pipelines : phase[q] = "placed" =>
             phase'[q] = "placed" /\ holds'[q] = holds[q]
    BY <2>1, <2>2 DEF TypeOK
  <2>4. ASSUME NEW g \in Hosts, NEW d \in busy'[g]
        PROVE  d \in busy[g] \/ (g = h /\ d \in S)
    BY <2>1 DEF TypeOK
  <2> QED
    BY <2>3, <2>4 DEF NoDeviceLeak
<1>4. ASSUME NEW p \in Pipelines, Settle(p) PROVE NoDeviceLeak'
  <2>1. ASSUME NEW g \in Hosts, NEW d \in busy'[g]
        PROVE  \E q \in Pipelines :
                 phase'[q] = "placed" /\ holds'[q].host = g /\ d \in holds'[q].gpus
    <3>1. d \in busy[g] /\ ~(g = holds[p].host /\ d \in holds[p].gpus)
      BY <1>4, <2>1 DEF Settle, release
    <3>2. PICK q \in Pipelines : phase[q] = "placed" /\ holds[q].host = g /\ d \in holds[q].gpus
      BY <3>1 DEF NoDeviceLeak
    <3>3. q # p /\ phase'[q] = phase[q] /\ holds'[q] = holds[q]
      BY <1>4, <3>1, <3>2 DEF Settle, TypeOK
    <3> QED
      BY <3>2, <3>3
  <2> QED
    BY <2>1 DEF NoDeviceLeak
<1>5. CASE Restart
  BY <1>5 DEF Restart, NoDeviceLeak
<1>6. CASE UNCHANGED vars
  BY <1>6 DEF vars, registry, NoDeviceLeak
<1> QED
  BY <1>1, <1>2, <1>3, <1>4, <1>5, <1>6 DEF Next, JobNext

(* No device leaks, whatever the workers report and whoever drops a host   *)
(* while jobs run on it: what release, register and drop leave busy is     *)
(* held by a placed job (hosts.go).                                        *)
THEOREM DevicesDoNotLeak == Spec => []NoDeviceLeak
<1>1. Init => NoDeviceLeak
  BY DEF Init, NoDeviceLeak
<1> QED
  BY <1>1, PlacementTypes, LeakStep, PTL DEF Spec

(* The strengthening for a stable fleet: the devices known and allocated   *)
(* are ones the worker always reports, and what a placed job holds is      *)
(* allocated.                                                              *)
Steady ==
  \A h \in Hosts : \A r \in Reports[h] : gpus[h] \subseteq r.gpus /\ busy[h] \subseteq r.gpus

HeldIsBusy ==
  \A p \in Pipelines : phase[p] = "placed" =>
    holds[p].host \in Hosts /\ holds[p].gpus \subseteq busy[holds[p].host]

ExclusiveInv == TypeOK /\ Steady /\ HeldIsBusy /\ DevicesExclusive

LEMMA ExclusiveStep == StableFleet /\ ExclusiveInv /\ [Next]_vars => ExclusiveInv'
<1> SUFFICES ASSUME StableFleet, ExclusiveInv, [Next]_vars
             PROVE  ExclusiveInv'
  OBVIOUS
<1>0. TypeOK /\ TypeOK'
  BY TypeStep DEF ExclusiveInv
<1> SUFFICES Steady' /\ HeldIsBusy' /\ DevicesExclusive'
  BY <1>0 DEF ExclusiveInv
<1>1. ASSUME NEW h \in Hosts, HostNext(h) PROVE Steady' /\ HeldIsBusy' /\ DevicesExclusive'
  <2>1. holds' = holds /\ phase' = phase
    BY <1>1 DEF HostNext, register, GoStale, drop
  <2>2. ASSUME NEW r \in Reports[h], register(h, r) PROVE busy' = busy /\ Steady'
    <3>1. busy' = busy
      BY <1>0, <2>2 DEF register, ExclusiveInv, Steady, TypeOK
    <3>2. Steady'
      BY <1>0, <2>2, <3>1 DEF register, ExclusiveInv, Steady, TypeOK, StableFleet
    <3> QED
      BY <3>1, <3>2
  <2>3. CASE GoStale(h)
    BY <2>3, <2>1 DEF GoStale, ExclusiveInv, Steady, HeldIsBusy, DevicesExclusive
  <2>4. ASSUME drop(h) PROVE busy' = busy /\ Steady'
    <3>1. busy[h] = {}
      BY <2>4 DEF drop, StableFleet, ExclusiveInv, Steady
    <3>2. busy' = busy
      BY <1>0, <2>4, <3>1 DEF drop, TypeOK
    <3>3. Steady'
      BY <1>0, <2>4, <3>2 DEF drop, ExclusiveInv, Steady, TypeOK
    <3> QED
      BY <3>2, <3>3
  <2>5. ASSUME busy' = busy PROVE HeldIsBusy' /\ DevicesExclusive'
    BY <2>1, <2>5 DEF ExclusiveInv, HeldIsBusy, DevicesExclusive
  <2> QED
    BY <1>1, <2>2, <2>3, <2>4, <2>5 DEF HostNext
<1>2. ASSUME NEW p \in Pipelines,
             \/ CommitLands(p) \/ EnterGate(p) \/ PickFails(p) \/ PollAgain(p)
             \/ CancelUnplaced(p) \/ AttemptFails(p)
      PROVE  Steady' /\ HeldIsBusy' /\ DevicesExclusive'
  <2>1. holds' = holds /\ busy' = busy /\ gpus' = gpus
    BY <1>2 DEF CommitLands, EnterGate, PickFails, PollAgain, CancelUnplaced,
                AttemptFails, registry, work
  <2>2. \A q \in Pipelines : phase'[q] = "placed" => phase[q] = "placed"
    BY <1>0, <1>2 DEF CommitLands, EnterGate, PickFails, PollAgain, CancelUnplaced,
                      AttemptFails, TypeOK
  <2> QED
    BY <2>1, <2>2 DEF ExclusiveInv, Steady, HeldIsBusy, DevicesExclusive
<1>3. ASSUME NEW p \in Pipelines, pickAndReserve(p)
      PROVE  Steady' /\ HeldIsBusy' /\ DevicesExclusive'
  <2>1. PICK h \in Fit(p), S \in SUBSET Devices :
          /\ IsLowest(S, Want[p], Free(h))
          /\ busy' = [busy EXCEPT ![h] = @ \cup S]
          /\ holds' = [holds EXCEPT ![p] = [host |-> h, gpus |-> S]]
    BY <1>3 DEF pickAndReserve
  <2>2. /\ phase' = [phase EXCEPT ![p] = "placed"] /\ gpus' = gpus
    BY <1>3 DEF pickAndReserve
  <2>3. h \in Hosts /\ S \subseteq gpus[h] /\ S \cap busy[h] = {}
    BY <1>0, <2>1 DEF Fit, TypeOK, IsLowest, Free
  <2>4. /\ phase'[p] = "placed" /\ holds'[p].host = h /\ holds'[p].gpus = S
        /\ \A q \in Pipelines : q # p => phase'[q] = phase[q] /\ holds'[q] = holds[q]
    BY <1>0, <2>1, <2>2 DEF TypeOK
  <2>5. /\ busy'[h] = busy[h] \cup S
        /\ \A g \in Hosts : g # h => busy'[g] = busy[g]
    BY <1>0, <2>1, <2>3 DEF TypeOK
  <2>6. Steady'
    BY <2>2, <2>3, <2>5 DEF ExclusiveInv, Steady
  <2>7. HeldIsBusy'
    BY <2>3, <2>4, <2>5 DEF ExclusiveInv, HeldIsBusy
  <2>8. DevicesExclusive'
    BY <2>3, <2>4 DEF ExclusiveInv, HeldIsBusy, DevicesExclusive
  <2> QED
    BY <2>6, <2>7, <2>8
<1>4. ASSUME NEW p \in Pipelines, Settle(p)
      PROVE  Steady' /\ HeldIsBusy' /\ DevicesExclusive'
  <2>1. /\ gpus' = gpus /\ phase[p] = "placed"
        /\ \A q \in Pipelines : phase'[q] = "placed" =>
             q # p /\ phase[q] = "placed" /\ holds'[q] = holds[q]
    BY <1>0, <1>4 DEF Settle, TypeOK
  <2>2. \A g \in Hosts :
          busy'[g] = IF g = holds[p].host THEN busy[g] \ holds[p].gpus ELSE busy[g]
    BY <1>4 DEF Settle, release
  <2>3. Steady'
    BY <2>1, <2>2 DEF ExclusiveInv, Steady
  <2>4. ASSUME NEW q \in Pipelines, phase'[q] = "placed"
        PROVE  holds'[q].host \in Hosts /\ holds'[q].gpus \subseteq busy'[holds'[q].host]
    <3>1. q # p /\ phase[q] = "placed" /\ holds'[q] = holds[q]
      BY <2>1, <2>4
    <3>2. holds[q].host \in Hosts /\ holds[q].gpus \subseteq busy[holds[q].host]
      BY <3>1 DEF ExclusiveInv, HeldIsBusy
    <3>3. holds[q].host = holds[p].host => holds[q].gpus \cap holds[p].gpus = {}
      BY <2>1, <3>1 DEF ExclusiveInv, DevicesExclusive
    <3> QED
      BY <2>2, <3>1, <3>2, <3>3
  <2>5. DevicesExclusive'
    BY <2>1 DEF ExclusiveInv, DevicesExclusive
  <2> QED
    BY <2>3, <2>4, <2>5 DEF HeldIsBusy
<1>5. CASE Restart
  BY <1>5 DEF Restart, Steady, HeldIsBusy, DevicesExclusive
<1>6. CASE UNCHANGED vars
  BY <1>6 DEF vars, registry, ExclusiveInv, Steady, HeldIsBusy, DevicesExclusive
<1> QED
  BY <1>1, <1>2, <1>3, <1>4, <1>5, <1>6 DEF Next, JobNext

(* While the workers keep reporting the same devices and no host that has  *)
(* devices is dropped, parallel jobs hold distinct devices, for every fleet and every    *)
(* set of requests: pickAndReserve, release and restarts of the control    *)
(* plane (hosts.go).                                                       *)
THEOREM StableFleetIsExclusive ==
  ASSUME StableFleet PROVE Spec => []DevicesExclusive
<1>1. Init => ExclusiveInv
  <2>1. Init => TypeOK
    BY PlacementAssumption DEF Init, TypeOK, Nothing
  <2> QED
    BY <2>1 DEF Init, ExclusiveInv, Steady, HeldIsBusy, DevicesExclusive
<1>2. ExclusiveInv /\ [Next]_vars => ExclusiveInv'
  BY ExclusiveStep
<1>3. ExclusiveInv => DevicesExclusive
  BY DEF ExclusiveInv
<1> QED
  BY <1>1, <1>2, <1>3, PTL DEF Spec
=============================================================================
