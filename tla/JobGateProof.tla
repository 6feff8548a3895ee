--------------------------- MODULE JobGateProof ---------------------------
(***************************************************************************)
(* JobGate for every set of jobs and callers: type correctness, the gate   *)
(* invariant (the slot is conserved, nobody is stranded), and what a       *)
(* cancel that does not wait may rely on.                                  *)
(***************************************************************************)
EXTENDS JobGate, TLAPS, SequenceTheorems

(* A job has been handed the slot only after it queued.                    *)
HandedQueued ==
  \A j \in handed : pc[j] \notin {"unborn", "recorded", "spawned", "entering"}

(* Every request past its lookup names a job.                              *)
CallerNamesJob ==
  \A c \in Callers : caller[c].step # "idle" => caller[c].job \in Jobs

GateInv == SlotConserved /\ NobodyStranded /\ HandedQueued

(* The two flags: a job past StoreStarted is marked started, and a cancel  *)
(* past MarkCancelled has marked its job.                                  *)
FlagsInv ==
  /\ \A j \in Jobs : pc[j] \in {"started", "won", "running", "settled", "panicking"}
                       => j \in started
  /\ \A c \in Callers : caller[c].step \in {"marked", "closed", "nowait"}
                          => caller[c].job \in cancelled

(* The list without its k-th node holds the other nodes, each once.        *)
LEMMA UnlinkProperties ==
  ASSUME NEW q \in Seq(Jobs), NEW k \in DOMAIN q
  PROVE  /\ Unlink(q, k) \in Seq(Jobs)
         /\ DOMAIN Unlink(q, k) = 1 .. (Len(q) - 1)
         /\ \A i \in DOMAIN Unlink(q, k) :
              Unlink(q, k)[i] = IF i < k THEN q[i] ELSE q[i + 1]
<1>1. DOMAIN q = 1 .. Len(q) /\ Len(q) \in Nat /\ k \in 1 .. Len(q)
  OBVIOUS
<1>2. \A i \in 1 .. (Len(q) - 1) : (IF i < k THEN q[i] ELSE q[i + 1]) \in Jobs
  BY <1>1
<1>3. Unlink(q, k) \in [1 .. (Len(q) - 1) -> Jobs]
  BY <1>2 DEF Unlink
<1>4. Len(q) - 1 \in Nat
  BY <1>1
<1>5. Unlink(q, k) \in Seq(Jobs)
  BY <1>3, <1>4, SeqDef
<1> QED
  BY <1>1, <1>3, <1>5 DEF Unlink

(* What jobGate.release does to the list, the flag and the handed jobs.    *)
LEMMA ReleaseProperties ==
  ASSUME queue \in Seq(Jobs), handed \subseteq Jobs, held \in BOOLEAN, release
  PROVE  /\ queue' \in Seq(Jobs) /\ handed' \subseteq Jobs /\ held' \in BOOLEAN
         /\ queue = <<>> => queue' = <<>> /\ handed' = handed /\ held' = FALSE
         /\ queue # <<>> =>
              /\ Len(queue) \in Nat \ {0}
              /\ handed' = handed \cup {queue[1]}
              /\ held' = held
              /\ DOMAIN queue' = 1 .. (Len(queue) - 1)
              /\ \A i \in DOMAIN queue' : queue'[i] = queue[i + 1]
<1>1. CASE queue = <<>>
  BY <1>1 DEF release
<1>2. CASE queue # <<>>
  <2>1. /\ Head(queue) \in Jobs /\ Tail(queue) \in Seq(Jobs)
        /\ Len(Tail(queue)) = Len(queue) - 1
        /\ \A i \in 1 .. Len(Tail(queue)) : Tail(queue)[i] = queue[i + 1]
    BY <1>2, HeadTailProperties
  <2>2. Head(queue) = queue[1] /\ Len(queue) \in Nat \ {0}
    BY <1>2
  <2> QED
    BY <1>2, <2>1, <2>2 DEF release
<1> QED
  BY <1>1, <1>2

(* Every step of a job or of a request keeps the types and names the job   *)
(* of every request.                                                       *)
LEMMA TypeStep == TypeOK /\ CallerNamesJob /\ [Next]_vars => TypeOK' /\ CallerNamesJob'
<1> SUFFICES ASSUME TypeOK, CallerNamesJob, [Next]_vars
             PROVE  TypeOK' /\ CallerNamesJob'
  OBVIOUS
<1> USE DEF TypeOK, CallerNamesJob, gateVars, handleVars, Goto, Serve
<1>1. ASSUME NEW j \in Jobs, Create(j) PROVE TypeOK' /\ CallerNamesJob'
  BY <1>1 DEF Create, JobSteps, RecordStates
<1>2. ASSUME NEW j \in Jobs, registerRunning(j) PROVE TypeOK' /\ CallerNamesJob'
  BY <1>2 DEF registerRunning, JobSteps, RecordStates
<1>3. ASSUME NEW j \in Jobs, Stage(j) PROVE TypeOK' /\ CallerNamesJob'
  BY <1>3 DEF Stage, JobSteps, RecordStates
<1>4. ASSUME NEW j \in Jobs, StageFails(j) PROVE TypeOK' /\ CallerNamesJob'
  BY <1>4 DEF StageFails, JobSteps, RecordStates
<1>5. ASSUME NEW j \in Jobs, enter(j) PROVE TypeOK' /\ CallerNamesJob'
  <2>1. Append(queue, j) \in Seq(Jobs) /\ <<>> \in Seq(Jobs)
    OBVIOUS
  <2>3. queue' = Append(queue, j) \/ queue' = <<>>
    BY <1>5 DEF enter
  <2>4. held' \in BOOLEAN
    BY <1>5 DEF enter
  <2>2. pc' \in [Jobs -> JobSteps]
    BY <1>5 DEF enter, JobSteps
  <2> QED
    BY <1>5, <2>1, <2>2, <2>3, <2>4 DEF enter
<1>6. ASSUME NEW j \in Jobs, Wake(j) PROVE TypeOK' /\ CallerNamesJob'
  BY <1>6 DEF Wake, JobSteps, RecordStates
<1>7. ASSUME NEW j \in Jobs, WakeCancelled(j) PROVE TypeOK' /\ CallerNamesJob'
  BY <1>7 DEF WakeCancelled, JobSteps, RecordStates
<1>8. ASSUME NEW j \in Jobs, remove(j) PROVE TypeOK' /\ CallerNamesJob'
  BY UnlinkProperties, <1>8 DEF remove, JobSteps, RecordStates
<1>9. ASSUME NEW j \in Jobs, StoreStarted(j) PROVE TypeOK' /\ CallerNamesJob'
  BY <1>9 DEF StoreStarted, JobSteps, RecordStates
<1>10. ASSUME NEW j \in Jobs, LoadCancelled(j) PROVE TypeOK' /\ CallerNamesJob'
  BY <1>10 DEF LoadCancelled, JobSteps, RecordStates
<1>11. ASSUME NEW j \in Jobs, PassOn(j) PROVE TypeOK' /\ CallerNamesJob'
  <2>1. queue' \in Seq(Jobs) /\ handed' \subseteq Jobs /\ held' \in BOOLEAN
    BY <1>11, ReleaseProperties DEF PassOn
  <2> QED
    BY <1>11, <2>1 DEF PassOn, JobSteps
<1>12. ASSUME NEW j \in Jobs, SaveRunning(j) PROVE TypeOK' /\ CallerNamesJob'
  BY <1>12 DEF SaveRunning, JobSteps, RecordStates
<1>13. ASSUME NEW j \in Jobs, Settle(j) PROVE TypeOK' /\ CallerNamesJob'
  BY <1>13 DEF RecordStates, Terminal, Settle, JobSteps, RecordStates
<1>14. ASSUME NEW j \in Jobs, Panic(j) PROVE TypeOK' /\ CallerNamesJob'
  BY <1>14 DEF Panic, JobSteps, RecordStates
<1>15. ASSUME NEW j \in Jobs, ReleaseSlot(j) PROVE TypeOK' /\ CallerNamesJob'
  <2>1. queue' \in Seq(Jobs) /\ handed' \subseteq Jobs /\ held' \in BOOLEAN
    BY <1>15, ReleaseProperties DEF ReleaseSlot
  <2> QED
    BY <1>15, <2>1 DEF ReleaseSlot, JobSteps
<1>28. ASSUME NEW j \in Jobs, JobTimeout(j) PROVE TypeOK' /\ CallerNamesJob'
  BY <1>28 DEF JobTimeout
<1>16. ASSUME NEW j \in Jobs, StatRecord(j) PROVE TypeOK' /\ CallerNamesJob'
  BY <1>16 DEF StatRecord, JobSteps, RecordStates
<1>17. ASSUME NEW j \in Jobs, SaveKilled(j) PROVE TypeOK' /\ CallerNamesJob'
  BY <1>17 DEF RecordStates, Terminal, SaveKilled, JobSteps, RecordStates
<1>18. ASSUME NEW j \in Jobs, unregisterRunning(j) PROVE TypeOK' /\ CallerNamesJob'
  BY <1>18 DEF unregisterRunning, JobSteps, RecordStates
<1>19. ASSUME NEW j \in Jobs, settlePanicJob(j) PROVE TypeOK' /\ CallerNamesJob'
  BY <1>19 DEF RecordStates, Terminal, settlePanicJob, JobSteps, RecordStates
<1>20. ASSUME NEW c \in Callers, NEW j \in Jobs, NEW delete \in BOOLEAN, Lookup(c, j, delete)
      PROVE TypeOK' /\ CallerNamesJob'
  BY <1>20 DEF Lookup, LookupOutcome, CallerSteps
<1>21. ASSUME NEW c \in Callers, MarkCancelled(c) PROVE TypeOK' /\ CallerNamesJob'
  BY <1>21 DEF MarkCancelled, CallerSteps, RecordStates
<1>22. ASSUME NEW c \in Callers, CloseCancelCh(c) PROVE TypeOK' /\ CallerNamesJob'
  BY <1>22 DEF CloseCancelCh, CallerSteps, RecordStates
<1>23. ASSUME NEW c \in Callers, LoadStarted(c) PROVE TypeOK' /\ CallerNamesJob'
  BY <1>23 DEF LoadStarted, CallerSteps, RecordStates
<1>24. ASSUME NEW c \in Callers, WaitDone(c) PROVE TypeOK' /\ CallerNamesJob'
  BY <1>24 DEF WaitDone, CallerSteps, RecordStates
<1>25. ASSUME NEW c \in Callers, WaitTimeout(c) PROVE TypeOK' /\ CallerNamesJob'
  BY <1>25 DEF WaitTimeout, CallerSteps, RecordStates
<1>26. ASSUME NEW c \in Callers, RemoveJobDir(c) PROVE TypeOK' /\ CallerNamesJob'
  BY <1>26 DEF RemoveJobDir, CallerSteps, RecordStates
<1>27. CASE UNCHANGED vars
  BY <1>27 DEF vars
<1> QED
  BY <1>1, <1>2, <1>3, <1>4, <1>5, <1>6, <1>7, <1>8, <1>9, <1>10, <1>11, <1>12, <1>13, <1>14, <1>15, <1>16, <1>17, <1>18, <1>19, <1>20, <1>21, <1>22, <1>23, <1>24, <1>25, <1>26, <1>27, <1>28
     DEF Next, JobNext, CallerNext

(* A step that leaves the gate alone and makes no job an owner or a waiter, *)
(* nor stops one from being it, keeps the gate invariant.                  *)
LEMMA QuietStep ==
  ASSUME GateInv, UNCHANGED gateVars, HandedQueued',
         \A i \in Jobs : (Owns(i)' <=> Owns(i)) /\ (Waits(i)' <=> Waits(i))
  PROVE  GateInv'
<1>1. Owners' = Owners
  BY DEF Owners
<1>2. SlotConserved'
  BY <1>1 DEF GateInv, SlotConserved, gateVars
<1>3. NobodyStranded'
  BY DEF GateInv, NobodyStranded, gateVars
<1> QED
  BY <1>2, <1>3 DEF GateInv

(* The gate invariant is inductive.                                        *)
LEMMA GateStep == TypeOK /\ GateInv /\ [Next]_vars => GateInv'
<1> SUFFICES ASSUME TypeOK, GateInv, [Next]_vars PROVE GateInv'
  OBVIOUS
<1> DEFINE Quiet == /\ UNCHANGED gateVars /\ HandedQueued'
                    /\ \A i \in Jobs : (Owns(i)' <=> Owns(i)) /\ (Waits(i)' <=> Waits(i))
<1>q. Quiet => GateInv'
  BY QuietStep
<1> HIDE DEF Quiet
<1>1. ASSUME NEW j \in Jobs, Create(j) PROVE GateInv'
  <2>1. Quiet
    BY <1>1 DEF Create, Quiet, Goto, TypeOK, GateInv, HandedQueued, Owns, Waits, PastGate, gateVars
  <2> QED
    BY <2>1, <1>q
<1>2. ASSUME NEW j \in Jobs, registerRunning(j) PROVE GateInv'
  <2>1. Quiet
    BY <1>2 DEF registerRunning, Quiet, Goto, TypeOK, GateInv, HandedQueued, Owns, Waits, PastGate, gateVars
  <2> QED
    BY <2>1, <1>q
<1>3. ASSUME NEW j \in Jobs, Stage(j) PROVE GateInv'
  <2>1. Quiet
    BY <1>3 DEF Stage, Quiet, Goto, TypeOK, GateInv, HandedQueued, Owns, Waits, PastGate, gateVars
  <2> QED
    BY <2>1, <1>q
<1>4. ASSUME NEW j \in Jobs, StageFails(j) PROVE GateInv'
  <2>1. Quiet
    BY <1>4 DEF StageFails, Quiet, Goto, TypeOK, GateInv, HandedQueued, Owns, Waits, PastGate, gateVars
  <2> QED
    BY <2>1, <1>q
<1>5. ASSUME NEW j \in Jobs, Wake(j) PROVE GateInv'
  <2>1. Quiet
    BY <1>5 DEF Wake, Quiet, Goto, TypeOK, GateInv, HandedQueued, Owns, Waits, PastGate, gateVars
  <2> QED
    BY <2>1, <1>q
<1>6. ASSUME NEW j \in Jobs, WakeCancelled(j) PROVE GateInv'
  <2>1. Quiet
    BY <1>6 DEF WakeCancelled, Quiet, Goto, TypeOK, GateInv, HandedQueued, Owns, Waits, PastGate, gateVars
  <2> QED
    BY <2>1, <1>q
<1>7. ASSUME NEW j \in Jobs, StoreStarted(j) PROVE GateInv'
  <2>1. Quiet
    BY <1>7 DEF StoreStarted, Quiet, Goto, TypeOK, GateInv, HandedQueued, Owns, Waits, PastGate, gateVars
  <2> QED
    BY <2>1, <1>q
<1>8. ASSUME NEW j \in Jobs, LoadCancelled(j) PROVE GateInv'
  <2>1. Quiet
    BY <1>8 DEF LoadCancelled, Quiet, Goto, TypeOK, GateInv, HandedQueued, Owns, Waits, PastGate, gateVars
  <2> QED
    BY <2>1, <1>q
<1>9. ASSUME NEW j \in Jobs, SaveRunning(j) PROVE GateInv'
  <2>1. Quiet
    BY <1>9 DEF SaveRunning, Quiet, Goto, TypeOK, GateInv, HandedQueued, Owns, Waits, PastGate, gateVars
  <2> QED
    BY <2>1, <1>q
<1>10. ASSUME NEW j \in Jobs, Settle(j) PROVE GateInv'
  <2>1. Quiet
    BY <1>10 DEF Settle, Quiet, Goto, TypeOK, GateInv, HandedQueued, Owns, Waits, PastGate, gateVars
  <2> QED
    BY <2>1, <1>q
<1>11. ASSUME NEW j \in Jobs, Panic(j) PROVE GateInv'
  <2>1. Quiet
    BY <1>11 DEF Panic, Quiet, Goto, TypeOK, GateInv, HandedQueued, Owns, Waits, PastGate, gateVars
  <2> QED
    BY <2>1, <1>q
<1>12. ASSUME NEW j \in Jobs, StatRecord(j) PROVE GateInv'
  <2>1. Quiet
    BY <1>12 DEF StatRecord, Quiet, Goto, TypeOK, GateInv, HandedQueued, Owns, Waits, PastGate, gateVars
  <2> QED
    BY <2>1, <1>q
<1>13. ASSUME NEW j \in Jobs, SaveKilled(j) PROVE GateInv'
  <2>1. Quiet
    BY <1>13 DEF SaveKilled, Quiet, Goto, TypeOK, GateInv, HandedQueued, Owns, Waits, PastGate, gateVars
  <2> QED
    BY <2>1, <1>q
<1>14. ASSUME NEW j \in Jobs, unregisterRunning(j) PROVE GateInv'
  <2>1. Quiet
    BY <1>14 DEF unregisterRunning, Quiet, Goto, TypeOK, GateInv, HandedQueued, Owns, Waits, PastGate, gateVars
  <2> QED
    BY <2>1, <1>q
<1>15. ASSUME NEW j \in Jobs, settlePanicJob(j) PROVE GateInv'
  <2>1. Quiet
    BY <1>15 DEF settlePanicJob, Quiet, Goto, TypeOK, GateInv, HandedQueued, Owns, Waits, PastGate, gateVars
  <2> QED
    BY <2>1, <1>q
<1>16. ASSUME NEW c \in Callers, CallerNext(c) PROVE GateInv'
  <2>1. UNCHANGED <<pc, gateVars>>
    BY <1>16 DEF CallerNext, Lookup, MarkCancelled, CloseCancelCh, LoadStarted,
                WaitDone, WaitTimeout, RemoveJobDir, gateVars
  <2>2. Quiet
    BY <2>1 DEF Quiet, GateInv, HandedQueued, Owns, Waits, gateVars
  <2> QED
    BY <2>2, <1>q
<1>17. ASSUME NEW j \in Jobs, enter(j) PROVE GateInv'
  <2>0. pc[j] = "entering" /\ j \notin handed /\ ~Owns(j) /\ ~Waits(j)
    BY <1>17 DEF enter, GateInv, HandedQueued, Owns, Waits, PastGate
  <2>1. HandedQueued'
    BY <1>17 DEF enter, Goto, GateInv, HandedQueued, TypeOK
  <2>2. CASE held
    <3>1. queue' = Append(queue, j) /\ pc' = [pc EXCEPT ![j] = "waiting"] /\ held' = held
          /\ handed' = handed
      BY <1>17, <2>2 DEF enter, Goto
    <3>2. Len(queue) \in Nat /\ DOMAIN queue = 1 .. Len(queue)
          /\ DOMAIN queue' = 1 .. (Len(queue) + 1)
          /\ queue'[Len(queue) + 1] = j
          /\ \A k \in 1 .. Len(queue) : queue'[k] = queue[k]
      BY <3>1 DEF TypeOK
    <3>3. \A i \in Jobs : (Owns(i)' <=> Owns(i)) /\ (Waits(i)' <=> Waits(i) \/ i = j)
      BY <2>0, <3>1 DEF TypeOK, Owns, Waits, PastGate
    <3>4. SlotConserved'
      BY <3>1, <3>3 DEF GateInv, SlotConserved, Owners
    <3>5. \A k \in DOMAIN queue : queue[k] # j
      BY <2>0 DEF GateInv, NobodyStranded
    <3>6. NobodyStranded'
      BY <2>2, <3>1, <3>2, <3>3, <3>5 DEF GateInv, NobodyStranded
    <3> QED
      BY <2>1, <3>4, <3>6 DEF GateInv
  <2>3. CASE ~held
    <3>1. queue' = <<>> /\ pc' = [pc EXCEPT ![j] = "granted"] /\ held' = TRUE
          /\ handed' = handed /\ queue = <<>>
      BY <1>17, <2>3 DEF enter, Goto, GateInv, NobodyStranded
    <3>2. \A i \in Jobs : (Owns(i)' <=> Owns(i) \/ i = j) /\ (Waits(i)' <=> Waits(i))
      BY <2>0, <3>1 DEF TypeOK, Owns, Waits, PastGate
    <3>3. Owners = {}
      BY <2>3 DEF GateInv, SlotConserved
    <3>4. Owners' = {j}
      BY <3>2, <3>3 DEF Owners
    <3>5. SlotConserved'
      BY <3>1, <3>4 DEF SlotConserved
    <3>6. NobodyStranded'
      BY <3>1, <3>2 DEF GateInv, NobodyStranded
    <3> QED
      BY <2>1, <3>5, <3>6 DEF GateInv
  <2> QED
    BY <2>2, <2>3
<1>18. ASSUME NEW j \in Jobs, remove(j) PROVE GateInv'
  <2>1. HandedQueued'
    BY <1>18 DEF remove, Goto, GateInv, HandedQueued, TypeOK
  <2>2. ASSUME NEW k \in DOMAIN queue, queue[k] = j, queue' = Unlink(queue, k),
               Goto(j, "declined")
        PROVE  GateInv'
    <3>1. held' = held /\ handed' = handed /\ pc' = [pc EXCEPT ![j] = "declined"]
          /\ pc[j] = "removing" /\ Waits(j)
      BY <1>18, <2>2 DEF remove, Goto, GateInv, NobodyStranded
    <3>2. \A i \in Jobs : (Owns(i)' <=> Owns(i)) /\ (Waits(i)' <=> Waits(i) /\ i # j)
      BY <3>1 DEF TypeOK, Owns, Waits, PastGate
    <3>3. SlotConserved'
      BY <3>1, <3>2 DEF GateInv, SlotConserved, Owners
    <3>4. Len(queue) \in Nat /\ DOMAIN queue = 1 .. Len(queue)
          /\ DOMAIN queue' = 1 .. (Len(queue) - 1)
          /\ \A i \in DOMAIN queue' : queue'[i] = IF i < k THEN queue[i] ELSE queue[i + 1]
      BY <2>2, UnlinkProperties DEF TypeOK
    <3>5. \A l \in DOMAIN queue : l # k => queue[l] # j
      BY <2>2 DEF GateInv, NobodyStranded
    <3>6. \A l, m \in DOMAIN queue' : queue'[l] = queue'[m] => l = m
      BY <3>4 DEF GateInv, NobodyStranded
    <3>7. ASSUME NEW i \in Jobs PROVE Waits(i)' <=> \E l \in DOMAIN queue' : queue'[l] = i
      <4>1. ASSUME NEW l \in DOMAIN queue, l # k, queue[l] = i
            PROVE  \E m \in DOMAIN queue' : queue'[m] = i
        <5>1. CASE l < k
          BY <3>4, <4>1, <5>1
        <5>2. CASE l > k
          BY <3>4, <4>1, <5>2, l - 1 \in DOMAIN queue'
        <5> QED
          BY <3>4, <4>1, <5>1, <5>2
      <4>2. ASSUME NEW m \in DOMAIN queue', queue'[m] = i
            PROVE  i # j /\ \E l \in DOMAIN queue : queue[l] = i
        BY <3>4, <3>5, <4>2
      <4>3. Waits(i) <=> \E l \in DOMAIN queue : queue[l] = i
        BY DEF GateInv, NobodyStranded
      <4> QED
        BY <2>2, <3>2, <4>1, <4>2, <4>3
    <3>8. ~held' => queue' = <<>>
      BY <2>2, <3>1 DEF GateInv, NobodyStranded
    <3>9. NobodyStranded'
      BY <3>6, <3>7, <3>8 DEF NobodyStranded
    <3> QED
      BY <2>1, <3>3, <3>9 DEF GateInv
  <2>3. ASSUME \A k \in DOMAIN queue : queue[k] # j, queue' = queue, Goto(j, "passing")
        PROVE  GateInv'
    <3>1. Quiet
      BY <1>18, <2>1, <2>3 DEF remove, Quiet, Goto, TypeOK, GateInv, NobodyStranded,
                             Owns, Waits, PastGate, gateVars
    <3> QED
      BY <3>1, <1>q
  <2> QED
    BY <1>18, <2>2, <2>3 DEF remove
<1>19. ASSUME NEW j \in Jobs, release, Owns(j), handed \subseteq Jobs,
             pc' \in [Jobs -> JobSteps],
             pc[j] \notin {"waiting", "removing"},
             pc'[j] \in {"declined", "released", "panicReleased"},
             \A i \in Jobs : i # j => pc'[i] = pc[i]
      PROVE  GateInv'
  <2>1. held /\ \A i \in Jobs : Owns(i) => i = j
    BY <1>19 DEF GateInv, SlotConserved, Owners
  <2>2. CASE queue = <<>>
    <3>1. queue' = <<>> /\ handed' = handed /\ held' = FALSE
      BY <1>19, <2>2 DEF release
    <3>2. HandedQueued'
      BY <1>19, <3>1 DEF GateInv, HandedQueued
    <3>3. \A i \in Jobs : ~Owns(i)'
      BY <1>19, <2>1, <3>1 DEF Owns, PastGate
    <3>4. Owners' = {}
      BY <3>3 DEF Owners
    <3>5. \A i \in Jobs : Waits(i)' <=> Waits(i)
      BY <1>19, <3>1 DEF Waits
    <3> QED
      BY <2>2, <3>1, <3>2, <3>4, <3>5 DEF GateInv, SlotConserved, NobodyStranded
  <2>3. CASE queue # <<>>
    <3> DEFINE h == queue[1]
    <3>1. /\ Len(queue) \in Nat \ {0} /\ DOMAIN queue = 1 .. Len(queue)
          /\ handed' = handed \cup {h} /\ held' = held
          /\ DOMAIN queue' = 1 .. (Len(queue) - 1)
          /\ \A i \in DOMAIN queue' : queue'[i] = queue[i + 1]
      <4>1. queue \in Seq(Jobs) /\ handed \subseteq Jobs /\ held \in BOOLEAN
        BY DEF TypeOK
      <4>2. DOMAIN queue = 1 .. Len(queue)
        BY <4>1
      <4>3. /\ Len(queue) \in Nat \ {0}
            /\ handed' = handed \cup {queue[1]} /\ held' = held
            /\ DOMAIN queue' = 1 .. (Len(queue) - 1)
            /\ \A i \in DOMAIN queue' : queue'[i] = queue[i + 1]
        BY <1>19, <2>3, <4>1, ReleaseProperties
      <4> QED
        BY <4>2, <4>3
    <3>2. h \in Jobs /\ Waits(h) /\ h # j
      BY <1>19, <3>1 DEF GateInv, NobodyStranded, TypeOK, Waits
    <3>3. \A i \in Jobs : (Owns(i)' <=> i = h) /\ (Waits(i)' <=> Waits(i) /\ i # h)
      BY <1>19, <2>1, <3>1, <3>2 DEF Owns, Waits, PastGate
    <3>4. HandedQueued'
      BY <1>19, <3>1, <3>2 DEF GateInv, HandedQueued, Waits
    <3>5. Owners' = {h}
      BY <3>2, <3>3 DEF Owners
    <3>6. SlotConserved'
      BY <2>1, <3>1, <3>5 DEF SlotConserved
    <3>7. \A k, l \in DOMAIN queue' : queue'[k] = queue'[l] => k = l
      BY <3>1 DEF GateInv, NobodyStranded
    <3>8. ASSUME NEW i \in Jobs PROVE Waits(i)' <=> \E l \in DOMAIN queue' : queue'[l] = i
      <4>1. Waits(i) <=> \E l \in DOMAIN queue : queue[l] = i
        BY DEF GateInv, NobodyStranded
      <4>2. \A l \in DOMAIN queue' : queue'[l] # h
        BY <3>1 DEF GateInv, NobodyStranded
      <4>3. ASSUME NEW l \in DOMAIN queue, queue[l] = i, i # h
            PROVE  \E m \in DOMAIN queue' : queue'[m] = i
        <5>1. l - 1 \in DOMAIN queue' /\ queue'[l - 1] = i
          BY <3>1, <4>3
        <5> QED
          BY <5>1
      <4>4. ASSUME NEW m \in DOMAIN queue', queue'[m] = i
            PROVE  \E l \in DOMAIN queue : queue[l] = i
        <5>1. m + 1 \in DOMAIN queue /\ queue[m + 1] = i
          BY <3>1, <4>4
        <5> QED
          BY <5>1
      <4> QED
        BY <3>3, <4>1, <4>2, <4>3, <4>4
    <3>9. ~held' => queue' = <<>>
      BY <2>1, <3>1
    <3>10. NobodyStranded'
      BY <3>7, <3>8, <3>9 DEF NobodyStranded
    <3> QED
      BY <3>4, <3>6, <3>10 DEF GateInv
  <2> QED
    BY <2>2, <2>3
<1>20. ASSUME NEW j \in Jobs, PassOn(j) PROVE GateInv'
  <2>1. /\ release /\ Owns(j) /\ pc[j] \notin {"waiting", "removing"}
        /\ pc' \in [Jobs -> JobSteps]
        /\ pc'[j] \in {"declined", "released", "panicReleased"}
        /\ \A i \in Jobs : i # j => pc'[i] = pc[i]
    BY <1>20 DEF PassOn, Goto, TypeOK, Owns, PastGate, JobSteps
  <2> QED
    BY <2>1, <1>19 DEF TypeOK
<1>21. ASSUME NEW j \in Jobs, ReleaseSlot(j) PROVE GateInv'
  <2>1. /\ release /\ Owns(j) /\ pc[j] \notin {"waiting", "removing"}
        /\ pc' \in [Jobs -> JobSteps]
        /\ pc'[j] \in {"declined", "released", "panicReleased"}
        /\ \A i \in Jobs : i # j => pc'[i] = pc[i]
    BY <1>21 DEF ReleaseSlot, Goto, TypeOK, Owns, PastGate, JobSteps
  <2> QED
    BY <2>1, <1>19 DEF TypeOK
<1>23. ASSUME NEW j \in Jobs, JobTimeout(j) PROVE GateInv'
  <2>1. Quiet
    BY <1>23 DEF JobTimeout, Quiet, GateInv, HandedQueued, Owns, Waits, gateVars
  <2> QED
    BY <2>1, <1>q
<1>22. CASE UNCHANGED vars
  <2>1. Quiet
    BY <1>22 DEF vars, Quiet, GateInv, HandedQueued, Owns, Waits, gateVars
  <2> QED
    BY <2>1, <1>q
<1> QED
  BY <1>1, <1>2, <1>3, <1>4, <1>5, <1>6, <1>7, <1>8, <1>9, <1>10, <1>11, <1>12, <1>13, <1>14, <1>15, <1>16, <1>17, <1>18, <1>20, <1>21, <1>22, <1>23
     DEF Next, JobNext

(* The two flags stay in step with the control state.                      *)
LEMMA FlagsStep ==
  TypeOK /\ FlagsInv /\ QueuedCancelNeverRuns /\ CallerNamesJob /\ [Next]_vars
    => FlagsInv' /\ QueuedCancelNeverRuns'
<1> SUFFICES ASSUME TypeOK, FlagsInv, QueuedCancelNeverRuns, CallerNamesJob, [Next]_vars
             PROVE  FlagsInv' /\ QueuedCancelNeverRuns'
  OBVIOUS
<1> USE DEF TypeOK, FlagsInv, QueuedCancelNeverRuns, CallerNamesJob, gateVars, handleVars
<1>1. ASSUME NEW j \in Jobs, JobNext(j)
      PROVE  FlagsInv' /\ QueuedCancelNeverRuns'
  <2>1. /\ UNCHANGED caller
        /\ cancelled \subseteq cancelled'
        /\ started \subseteq started'
        /\ pc' = [pc EXCEPT ![j] = pc'[j]]
    BY <1>1 DEF JobNext, Create, registerRunning, Stage, StageFails, enter, Wake,
                WakeCancelled, remove, StoreStarted, LoadCancelled, PassOn, SaveRunning,
                JobTimeout, Settle, Panic, ReleaseSlot, StatRecord, SaveKilled, unregisterRunning,
                settlePanicJob, Goto
  <2>2. pc'[j] \in {"started", "won", "running", "settled", "panicking"} => j \in started'
    BY <1>1 DEF JobNext, Create, registerRunning, Stage, StageFails, enter, Wake,
                WakeCancelled, remove, StoreStarted, LoadCancelled, PassOn, SaveRunning,
                JobTimeout, Settle, Panic, ReleaseSlot, StatRecord, SaveKilled, unregisterRunning,
                settlePanicJob, Goto
  <2>3. pc'[j] \in {"won", "running", "settled", "panicking"} =>
          j \notin cancelled \/ pc[j] \in {"won", "running", "settled", "panicking"}
    BY <1>1 DEF JobNext, Create, registerRunning, Stage, StageFails, enter, Wake,
                WakeCancelled, remove, StoreStarted, LoadCancelled, PassOn, SaveRunning,
                JobTimeout, Settle, Panic, ReleaseSlot, StatRecord, SaveKilled, unregisterRunning,
                settlePanicJob, Goto
  <2>4. FlagsInv'
    BY <2>1, <2>2
  <2>5. QueuedCancelNeverRuns'
    BY <2>1, <2>3
  <2> QED
    BY <2>4, <2>5
<1>2. ASSUME NEW c \in Callers, CallerNext(c)
      PROVE  FlagsInv' /\ QueuedCancelNeverRuns'
  <2>1. CASE \E j \in Jobs, delete \in BOOLEAN : Lookup(c, j, delete)
    BY <2>1 DEF Lookup, LookupOutcome
  <2>2. CASE MarkCancelled(c)
    BY <2>2 DEF MarkCancelled, Serve
  <2>3. CASE CloseCancelCh(c)
    BY <2>3 DEF CloseCancelCh, Serve
  <2>4. CASE LoadStarted(c)
    BY <2>4 DEF LoadStarted, Serve
  <2>5. CASE WaitDone(c)
    BY <2>5 DEF WaitDone, Serve
  <2>6. CASE WaitTimeout(c)
    BY <2>6 DEF WaitTimeout, Serve
  <2>7. CASE RemoveJobDir(c)
    BY <2>7 DEF RemoveJobDir, Serve
  <2> QED
    BY <1>2, <2>1, <2>2, <2>3, <2>4, <2>5, <2>6, <2>7 DEF CallerNext
<1>3. CASE UNCHANGED vars
  BY <1>3 DEF vars
<1> QED
  BY <1>1, <1>2, <1>3 DEF Next

(* The inductive invariant: the promised properties, what has been handed, *)
(* whom the requests name, and the flags.                                  *)
GateIInv ==
  TypeOK /\ GateInv /\ CallerNamesJob /\ FlagsInv /\ QueuedCancelNeverRuns

LEMMA GateInit == Init => GateIInv
<1> SUFFICES ASSUME Init PROVE GateIInv
  OBVIOUS
<1>1. TypeOK
  <2>1. <<>> \in Seq(Jobs)
    OBVIOUS
  <2>2. pc \in [Jobs -> JobSteps] /\ record \in [Jobs -> RecordStates]
    BY DEF Init, JobSteps, RecordStates
  <2>3. caller \in [Callers -> [step : CallerSteps, job : Jobs \cup {NoJob},
                               delete : BOOLEAN]]
    BY DEF Init, CallerSteps
  <2> QED
    BY <2>1, <2>2, <2>3 DEF Init, TypeOK
<1>2. Owners = {} /\ \A j \in Jobs : ~Waits(j)
  BY DEF Init, Owners, Owns, Waits, PastGate
<1>3. GateInv
  BY <1>2 DEF Init, GateInv, SlotConserved, NobodyStranded, HandedQueued
<1>4. CallerNamesJob /\ FlagsInv /\ QueuedCancelNeverRuns
  BY DEF Init, CallerNamesJob, FlagsInv, QueuedCancelNeverRuns
<1> QED
  BY <1>1, <1>3, <1>4 DEF GateIInv

(* The invariant holds in every state the gate can be in.                  *)
THEOREM GateInductive == Spec => []GateIInv
<1>1. GateIInv /\ [Next]_vars => GateIInv'
  BY TypeStep, GateStep, FlagsStep DEF GateIInv
<1> QED
  BY GateInit, <1>1, PTL DEF Spec

(* Every state of the gate, of its jobs and of its requests is well typed  *)
(* (runningJob, jobGate and jobRec of jobs.go), for every set of jobs.     *)
THEOREM TypeCorrect == Spec => []TypeOK
<1>1. GateIInv => TypeOK
  BY DEF GateIInv
<1> QED
  BY <1>1, GateInductive, PTL

(* For every number of jobs and of racing cancels the slot is taken        *)
(* exactly when one job owns it: jobGate.enter, remove and release neither *)
(* lose nor duplicate it.                                                  *)
THEOREM SlotIsConserved == Spec => []SlotConserved
<1>1. GateIInv => SlotConserved
  BY DEF GateIInv, GateInv
<1> QED
  BY <1>1, GateInductive, PTL

(* For every number of jobs nobody waits at a free gate and the gate's     *)
(* list holds exactly the waiting jobs, each once.                         *)
THEOREM NoWaiterIsStranded == Spec => []NobodyStranded
<1>1. GateIInv => NobodyStranded
  BY DEF GateIInv, GateInv
<1> QED
  BY <1>1, GateInductive, PTL

(* A pipeline runs one job at a time: two jobs past the gate would both    *)
(* own the slot.                                                           *)
THEOREM AtMostOneJobRuns == Spec => []OneJobRuns
<1>1. GateIInv => OneJobRuns
  BY DEF GateIInv, GateInv, SlotConserved, OneJobRuns, Owners, Owns, PastGate
<1> QED
  BY <1>1, GateInductive, PTL

(* A cancel that returned because it found the job queued is never         *)
(* followed by work of that job (cancelJobNoWait against enter).           *)
THEOREM QueuedCancelIsFinal == Spec => []QueuedCancelNeverRuns
<1>1. GateIInv => QueuedCancelNeverRuns
  BY DEF GateIInv
<1> QED
  BY <1>1, GateInductive, PTL

(* The owner of a conserved slot is the one job that owns it.              *)
LEMMA OwnerUnique ==
  ASSUME SlotConserved
  PROVE  /\ \A j \in Jobs : Owns(j) => SlotOwner = j
         /\ (\A j \in Jobs : ~Owns(j)) => SlotOwner = NoJob
<1>1. ASSUME NEW j \in Jobs, Owns(j) PROVE SlotOwner = j
  <2>1. Owners # {}
    BY <1>1 DEF Owners
  <2>2. \A i \in Jobs : Owns(i) => i = j
    BY <1>1 DEF SlotConserved, Owners
  <2>3. SlotOwner = CHOOSE i \in Jobs : Owns(i)
    BY <2>1 DEF SlotOwner
  <2>4. PICK i \in Jobs : Owns(i) /\ i = SlotOwner
    BY <1>1, <2>3
  <2> QED
    BY <2>2, <2>4
<1>2. ASSUME \A j \in Jobs : ~Owns(j) PROVE SlotOwner = NoJob
  BY <1>2 DEF SlotOwner, Owners
<1> QED
  BY <1>1, <1>2

(* The owner of the slot as the next state has it.                         *)
LEMMA OwnerUniqueNext ==
  ASSUME SlotConserved'
  PROVE  /\ \A j \in Jobs : Owns(j)' => SlotOwner' = j
         /\ (\A j \in Jobs : ~Owns(j)') => SlotOwner' = NoJob
<1>1. ASSUME NEW j \in Jobs, Owns(j)' PROVE SlotOwner' = j
  <2>1. Owners' # {}
    BY <1>1 DEF Owners
  <2>2. \A i \in Jobs : Owns(i)' => i = j
    BY <1>1 DEF SlotConserved, Owners
  <2>3. SlotOwner' = CHOOSE i \in Jobs : Owns(i)'
    BY <2>1 DEF SlotOwner
  <2>4. PICK i \in Jobs : Owns(i)' /\ i = SlotOwner'
    BY <1>1, <2>3
  <2> QED
    BY <2>2, <2>4
<1>2. ASSUME \A j \in Jobs : ~Owns(j)' PROVE SlotOwner' = NoJob
  BY <1>2 DEF SlotOwner, Owners
<1> QED
  BY <1>1, <1>2

(* Every step of a job or a request is an arrival, a withdrawal or a       *)
(* hand-off of the abstract slot, or leaves it as it is.                   *)
LEMMA SlotStep ==
  GateIInv /\ GateIInv' /\ [Next]_vars => [Slot!SlotNext]_(Slot!slotVars)
<1> SUFFICES ASSUME GateIInv, GateIInv', [Next]_vars
             PROVE  [Slot!SlotNext]_(Slot!slotVars)
  OBVIOUS
<1>t. TypeOK /\ SlotConserved /\ SlotConserved' /\ NobodyStranded /\ HandedQueued
  BY DEF GateIInv, GateInv
<1>o. /\ \A j \in Jobs : Owns(j) => SlotOwner = j
      /\ (\A j \in Jobs : ~Owns(j)) => SlotOwner = NoJob
  BY <1>t, OwnerUnique
<1>n. /\ \A j \in Jobs : Owns(j)' => SlotOwner' = j
      /\ (\A j \in Jobs : ~Owns(j)') => SlotOwner' = NoJob
  BY <1>t, OwnerUniqueNext
<1>s. ASSUME \A i \in Jobs : Owns(i)' <=> Owns(i) PROVE SlotOwner' = SlotOwner
  BY <1>o, <1>n, <1>s
<1>q. ASSUME queue' = queue, \A i \in Jobs : Owns(i)' <=> Owns(i)
      PROVE  [Slot!SlotNext]_(Slot!slotVars)
  BY <1>q, <1>s DEF Slot!slotVars
<1>1. ASSUME NEW j \in Jobs, enter(j) PROVE Slot!Arrive(j)
  <2>0. pc[j] = "entering" /\ j \notin handed /\ ~Owns(j)
    BY <1>1, <1>t DEF enter, HandedQueued, Owns, PastGate
  <2>1. CASE held
    <3>1. queue' = Append(queue, j) /\ pc' = [pc EXCEPT ![j] = "waiting"] /\ handed' = handed
      BY <1>1, <2>1 DEF enter, Goto
    <3>2. \A i \in Jobs : Owns(i)' <=> Owns(i)
      BY <1>t, <2>0, <3>1 DEF TypeOK, Owns, PastGate
    <3>3. SlotOwner # NoJob
      BY <1>t, <1>o, <2>1, JobsAssumption DEF SlotConserved, Owners
    <3> QED
      BY <1>s, <3>1, <3>2, <3>3 DEF Slot!Arrive
  <2>2. CASE ~held
    <3>1. queue' = <<>> /\ queue = <<>> /\ pc' = [pc EXCEPT ![j] = "granted"]
      BY <1>1, <1>t, <2>2 DEF enter, Goto, NobodyStranded
    <3>2. Owns(j)'
      BY <1>t, <3>1 DEF TypeOK, Owns, PastGate
    <3>3. SlotOwner = NoJob
      BY <1>t, <1>o, <2>2 DEF SlotConserved, Owners
    <3> QED
      BY <1>n, <3>1, <3>2, <3>3 DEF Slot!Arrive
  <2> QED
    BY <2>1, <2>2
<1>2. ASSUME NEW j \in Jobs, remove(j) PROVE [Slot!SlotNext]_(Slot!slotVars)
  <2>0. pc[j] = "removing" /\ handed' = handed
    BY <1>2 DEF remove
  <2>1. ASSUME NEW k \in DOMAIN queue, queue[k] = j, queue' = Unlink(queue, k),
               Goto(j, "declined")
        PROVE  Slot!GiveUp
    <3>1. Waits(j)
      BY <1>t, <2>1 DEF NobodyStranded
    <3>2. \A i \in Jobs : Owns(i)' <=> Owns(i)
      BY <1>t, <2>0, <2>1, <3>1 DEF Goto, TypeOK, Owns, Waits, PastGate
    <3>3. queue' = Slot!Without(queue, k)
      BY <2>1 DEF Unlink, Slot!Without
    <3> QED
      BY <1>s, <3>2, <3>3 DEF Slot!GiveUp
  <2>2. ASSUME \A k \in DOMAIN queue : queue[k] # j, queue' = queue, Goto(j, "passing")
        PROVE  [Slot!SlotNext]_(Slot!slotVars)
    <3>1. j \in handed
      BY <1>t, <2>0, <2>2 DEF NobodyStranded, Waits
    <3>2. \A i \in Jobs : Owns(i)' <=> Owns(i)
      BY <1>t, <2>0, <2>2, <3>1 DEF Goto, TypeOK, Owns, PastGate
    <3> QED
      BY <1>q, <2>2, <3>2
  <2> QED
    BY <1>2, <2>1, <2>2 DEF remove, Slot!SlotNext
<1>3. ASSUME NEW j \in Jobs, release, Owns(j), pc[j] \notin {"waiting", "removing"},
             pc'[j] \in {"declined", "released", "panicReleased"},
             \A i \in Jobs : i # j => pc'[i] = pc[i]
      PROVE  Slot!HandOff
  <2>1. SlotOwner # NoJob /\ \A i \in Jobs : Owns(i) => i = j
    BY <1>3, <1>o, <1>t, JobsAssumption DEF SlotConserved, Owners
  <2>2. CASE queue = <<>>
    <3>1. queue' = queue /\ handed' = handed
      BY <1>3, <2>2 DEF release
    <3>2. \A i \in Jobs : ~Owns(i)'
      BY <1>3, <2>1, <3>1 DEF Owns, PastGate
    <3> QED
      BY <1>n, <2>1, <2>2, <3>1, <3>2 DEF Slot!HandOff
  <2>3. CASE queue # <<>>
    <3>1. queue' = Tail(queue) /\ handed' = handed \cup {Head(queue)}
      BY <1>3, <2>3 DEF release
    <3>2. PICK h \in Jobs : h = Head(queue) /\ h = queue[1] /\ 1 \in DOMAIN queue
      BY <1>t, <2>3 DEF TypeOK
    <3>3. Waits(h) /\ h # j
      BY <1>3, <1>t, <3>2 DEF NobodyStranded, Waits
    <3>4. Owns(h)'
      BY <1>3, <3>1, <3>2, <3>3 DEF Owns, Waits
    <3>5. SlotOwner' = Head(queue)
      BY <1>n, <3>2, <3>4
    <3> QED
      BY <2>1, <2>3, <3>1, <3>5 DEF Slot!HandOff
  <2> QED
    BY <2>2, <2>3
<1>4. ASSUME NEW j \in Jobs, PassOn(j) \/ ReleaseSlot(j) PROVE Slot!HandOff
  <2>1. /\ release /\ Owns(j) /\ pc[j] \notin {"waiting", "removing"}
        /\ pc'[j] \in {"declined", "released", "panicReleased"}
        /\ \A i \in Jobs : i # j => pc'[i] = pc[i]
    BY <1>4, <1>t DEF PassOn, ReleaseSlot, Goto, TypeOK, Owns, PastGate
  <2> QED
    BY <1>3, <2>1
<1>5. ASSUME NEW j \in Jobs,
             \/ Create(j) \/ registerRunning(j) \/ Stage(j) \/ StageFails(j)
             \/ Wake(j) \/ WakeCancelled(j) \/ StoreStarted(j) \/ LoadCancelled(j)
      PROVE  queue' = queue /\ \A i \in Jobs : Owns(i)' <=> Owns(i)
  BY <1>5, <1>t DEF TypeOK, HandedQueued, Owns, PastGate, Goto, gateVars, Create,
     registerRunning, Stage, StageFails, Wake, WakeCancelled, StoreStarted, LoadCancelled
<1>6. ASSUME NEW j \in Jobs,
             \/ SaveRunning(j) \/ JobTimeout(j) \/ Settle(j) \/ Panic(j)
             \/ StatRecord(j) \/ SaveKilled(j) \/ unregisterRunning(j) \/ settlePanicJob(j)
      PROVE  queue' = queue /\ \A i \in Jobs : Owns(i)' <=> Owns(i)
  BY <1>6, <1>t DEF TypeOK, Owns, PastGate, Goto, gateVars, SaveRunning,
     JobTimeout, Settle, Panic, StatRecord, SaveKilled, unregisterRunning, settlePanicJob
<1>7. ASSUME NEW c \in Callers, CallerNext(c)
      PROVE  queue' = queue /\ \A i \in Jobs : Owns(i)' <=> Owns(i)
  <2>1. UNCHANGED <<pc, gateVars>>
    BY <1>7 DEF CallerNext, Lookup, MarkCancelled, CloseCancelCh, LoadStarted,
                WaitDone, WaitTimeout, RemoveJobDir, gateVars
  <2> QED
    BY <2>1 DEF gateVars, Owns
<1>8. CASE UNCHANGED vars
  <2>1. queue' = queue /\ \A i \in Jobs : Owns(i)' <=> Owns(i)
    BY <1>8 DEF vars, gateVars, Owns
  <2> QED
    BY <1>q, <2>1
<1> QED
  BY <1>1, <1>2, <1>4, <1>5, <1>6, <1>7, <1>8, <1>q DEF Next, JobNext, Slot!SlotNext

(* The gate is a first-in first-out slot for every set of jobs: through    *)
(* every race of enter, remove and release with cancels, the slot only     *)
(* ever passes to the front of the list, and a job that gives up does not  *)
(* disturb the order of the others (jobs.go, jobGate).                     *)
THEOREM GateIsFifo == Spec => ImplementsFifoSlot
<1>1. Init => Slot!SlotInit
  <2>1. ASSUME Init PROVE Owners = {} /\ queue = <<>>
    BY <2>1 DEF Init, Owners, Owns, PastGate
  <2> QED
    BY <2>1 DEF Slot!SlotInit, SlotOwner
<1> QED
  BY <1>1, SlotStep, GateInductive, PTL DEF Spec, ImplementsFifoSlot, Slot!SlotSpec
=============================================================================
