--------------------------- MODULE ProgressProof ---------------------------
(***************************************************************************)
(* What jobs and requests wait for, for every size of the models: attempts *)
(* on an execution host share no device (RemoteExec), a flush that returns *)
(* has the whole wave (Waits), what is saved of a pipeline's state stays   *)
(* saved (Pipelines), and the pool has each datum in one place             *)
(* (DatumPool).  Each part has an inductive invariant of its own; a step   *)
(* of MCProgress is a step of one part and leaves the variables of the     *)
(* others alone.                                                           *)
(***************************************************************************)
EXTENDS MCProgress, TLAPS, FiniteSetTheorems, SequenceTheorems

----------------------------------------------------------------------------
(* The worker pool of a job (DatumPool), for every number of datums, every *)
(* parallelism and every bound of the channels: no datum is lost or        *)
(* processed twice, and a restart alone fails none.                        *)

Active(w) == worker[w].step \notin {"idle", "quit"}

WorkerRecords ==
  [step : Steps, datum : 0 .. N, attempt : Nat, ok : BOOLEAN, timer : Timers]
DatumOutcomes == {"placeholder", "live", "success", "recovered", "failed"}

PoolTypes ==
  /\ fed \in 0 .. N
  /\ chan \in [Workers -> Seq(Datums)]
  /\ worker \in [Workers -> WorkerRecords]
  /\ rec \in [Datums -> DatumOutcomes]

(* What is in a channel or in a worker's hands has been fed and is not     *)
(* settled, ...                                                            *)
InHand ==
  /\ \A w \in Workers : Active(w) =>
       worker[w].datum \in 1 .. fed /\ ~Settled(worker[w].datum)
  /\ \A w \in Workers : \A n \in DOMAIN chan[w] :
       chan[w][n] \in 1 .. fed /\ ~Settled(chan[w][n])

(* ... it is there once, ...                                               *)
Once ==
  /\ \A v, w \in Workers :
       Active(v) /\ Active(w) /\ worker[v].datum = worker[w].datum => v = w
  /\ \A v, w \in Workers : \A n \in DOMAIN chan[w] :
       Active(v) => worker[v].datum # chan[w][n]
  /\ \A v, w \in Workers : \A m \in DOMAIN chan[v] : \A n \in DOMAIN chan[w] :
       chan[v][m] = chan[w][n] => v = w /\ m = n

(* ... and what has been fed and is in neither is settled.                 *)
Accounted ==
  \A i \in Datums :
    \/ i > fed /\ ~Settled(i)
    \/ Settled(i)
    \/ \E w \in Workers : Active(w) /\ worker[w].datum = i
    \/ \E w \in Workers : \E n \in DOMAIN chan[w] : chan[w][n] = i

(* The inductive invariant; a worker that has quit has nothing left to     *)
(* take.                                                                   *)
PoolInv ==
  /\ PoolTypes /\ InHand /\ Once /\ Accounted
  /\ \A i \in Datums : Settled(i) => i <= fed
  /\ \A w \in Workers : At(w, "quit") => chan[w] = <<>> /\ fed = N

----------------------------------------------------------------------------
LEMMA WorkersAre ==
  /\ N \in Nat /\ Datums = 1 .. N
  /\ \E k \in 0 .. N : Workers = 1 .. k /\ Cardinality(Workers) = k /\ (N > 0 => k > 0)
<1>1. PICK k \in 0 .. N : Workers = 1 .. k /\ (N > 0 => k > 0)
  BY PoolAssumption DEF Workers
<1>2. k \in Nat /\ 1 \in Nat
  BY PoolAssumption
<1>3. Cardinality(1 .. k) = k
  BY <1>2, FS_Interval, PoolAssumption
<1> QED
  BY <1>1, <1>3, PoolAssumption DEF Datums

(* The invariant says that every datum is in one place.                    *)
LEMMA PoolInvOnce == PoolInv => EachDatumOnce
<1> SUFFICES ASSUME PoolInv PROVE EachDatumOnce
  OBVIOUS
<1>1. ASSUME NEW i \in Datums
      PROVE  LET queued == {w \in Workers : \E n \in DOMAIN chan[w] : chan[w][n] = i}
                 taken == {w \in Workers : worker[w].datum = i
                                           /\ worker[w].step \notin {"idle", "quit"}}
             IN  Cardinality(queued) + Cardinality(taken)
                 + (IF i > fed THEN 1 ELSE 0) + (IF Settled(i) THEN 1 ELSE 0) = 1
  <2> DEFINE queued == {w \in Workers : \E n \in DOMAIN chan[w] : chan[w][n] = i}
             taken == {w \in Workers : worker[w].datum = i
                                       /\ worker[w].step \notin {"idle", "quit"}}
  <2>0. Cardinality({}) = 0 /\ \A w : Cardinality({w}) = 1
    BY FS_EmptySet, FS_Singleton
  <2>t. i \in Nat /\ fed \in Nat
    BY WorkersAre DEF PoolInv, PoolTypes
  <2>1. CASE i > fed \/ Settled(i)
    <3>1. queued = {} /\ taken = {}
      BY <2>1, <2>t DEF PoolInv, InHand, Active
    <3>2. ~(i > fed /\ Settled(i))
      BY <2>t DEF PoolInv
    <3> HIDE DEF queued, taken
    <3>3. Cardinality(queued) = 0 /\ Cardinality(taken) = 0
      BY <2>0, <3>1
    <3> QED
      BY <2>1, <3>2, <3>3 DEF queued, taken
  <2>2. CASE \E w \in Workers : Active(w) /\ worker[w].datum = i
    <3>1. PICK w \in Workers : Active(w) /\ worker[w].datum = i
      BY <2>2
    <3>2. queued = {}
      BY <3>1 DEF PoolInv, Once
    <3>3. taken = {w}
      BY <3>1 DEF PoolInv, Once, Active
    <3>4. ~(i > fed) /\ ~Settled(i)
      BY <2>t, <3>1 DEF PoolInv, InHand
    <3> HIDE DEF queued, taken
    <3>5. Cardinality(queued) = 0 /\ Cardinality(taken) = 1
      BY <2>0, <3>2, <3>3
    <3> QED
      BY <3>4, <3>5 DEF queued, taken
  <2>3. CASE \E w \in Workers : \E n \in DOMAIN chan[w] : chan[w][n] = i
    <3>1. PICK w \in Workers : \E n \in DOMAIN chan[w] : chan[w][n] = i
      BY <2>3
    <3>2. taken = {}
      BY <3>1 DEF PoolInv, Once, Active
    <3>3. queued = {w}
      BY <3>1 DEF PoolInv, Once
    <3>4. ~(i > fed) /\ ~Settled(i)
      BY <2>t, <3>1 DEF PoolInv, InHand
    <3> HIDE DEF queued, taken
    <3>5. Cardinality(queued) = 1 /\ Cardinality(taken) = 0
      BY <2>0, <3>2, <3>3
    <3> QED
      BY <3>4, <3>5 DEF queued, taken
  <2> QED
    BY <2>1, <2>2, <2>3 DEF PoolInv, Accounted
<1>2. ASSUME Over, NEW i \in Datums PROVE Settled(i)
  <2>1. \A w \in Workers : ~Active(w) /\ chan[w] = <<>> /\ fed = N
    BY <1>2 DEF Over, At, Active, PoolInv
  <2>2. Workers # {}
    BY WorkersAre
  <2>3. ~(i > fed)
    BY <2>1, <2>2, WorkersAre
  <2> QED
    BY <2>1, <2>3 DEF PoolInv, Accounted
<1> QED
  BY <1>1, <1>2 DEF EachDatumOnce

----------------------------------------------------------------------------
(* A step that takes no datum, settles none and lets no worker leave keeps *)
(* the invariant.                                                          *)
LEMMA QuietStep ==
  ASSUME PoolInv, UNCHANGED <<fed, chan>>,
         worker' \in [Workers -> WorkerRecords], rec' \in [Datums -> DatumOutcomes],
         \A w \in Workers : /\ Active(w)' <=> Active(w)
                            /\ Active(w) => worker'[w].datum = worker[w].datum
                            /\ At(w, "quit")' => At(w, "quit"),
         \A i \in Datums : Settled(i)' <=> Settled(i)
  PROVE  PoolInv'
<1>d. \A w \in Workers : Active(w) => worker[w].datum \in Datums
  BY WorkersAre DEF PoolInv, PoolTypes, InHand
<1>c. \A w \in Workers : \A n \in DOMAIN chan[w] : chan[w][n] \in Datums
  BY WorkersAre DEF PoolInv, PoolTypes, InHand
<1>1. PoolTypes'
  BY DEF PoolInv, PoolTypes
<1>2. InHand'
  BY <1>c, <1>d DEF PoolInv, InHand
<1>3. Once'
  BY DEF PoolInv, Once
<1>4. Accounted'
  BY DEF PoolInv, Accounted
<1>5. \A i \in Datums : Settled(i)' => i <= fed'
  BY DEF PoolInv
<1>6. \A w \in Workers : At(w, "quit")' => chan'[w] = <<>> /\ fed' = N
  BY DEF PoolInv
<1> QED
  BY <1>1, <1>2, <1>3, <1>4, <1>5, <1>6 DEF PoolInv

(* So does a step in which a worker settles the datum in its hands.        *)
LEMMA SettleStep ==
  ASSUME PoolInv, NEW w \in Workers, Active(w), UNCHANGED <<fed, chan>>,
         worker' = [worker EXCEPT ![w] = IdleWorker],
         NEW outcome \in {"success", "recovered", "failed"},
         rec' = [rec EXCEPT ![worker[w].datum] = outcome]
  PROVE  PoolInv'
<1> DEFINE i == worker[w].datum
<1>1. i \in 1 .. fed /\ i \in Datums
  BY WorkersAre DEF PoolInv, PoolTypes, InHand
<1>2. IdleWorker \in WorkerRecords /\ IdleWorker.step = "idle"
  BY PoolAssumption DEF IdleWorker, WorkerRecords, Steps, Timers
<1>3. /\ worker'[w] = IdleWorker /\ ~Active(w)' /\ ~At(w, "quit")'
      /\ \A v \in Workers : v # w => /\ worker'[v] = worker[v] /\ (Active(v)' <=> Active(v))
                                     /\ At(v, "quit")' <=> At(v, "quit")
  BY <1>2 DEF PoolInv, PoolTypes, Active, At
<1>4. \A k \in Datums : Settled(k)' <=> Settled(k) \/ k = i
  BY <1>1 DEF PoolInv, PoolTypes, Settled
<1>d. \A v \in Workers : Active(v) => worker[v].datum \in Datums
  BY WorkersAre DEF PoolInv, PoolTypes, InHand
<1>c. \A v \in Workers : \A n \in DOMAIN chan[v] : chan[v][n] \in Datums
  BY WorkersAre DEF PoolInv, PoolTypes, InHand
<1>5. PoolTypes'
  BY <1>2 DEF PoolInv, PoolTypes, DatumOutcomes
<1>6. InHand'
  <2>1. ASSUME NEW v \in Workers, Active(v)'
        PROVE  worker'[v].datum \in 1 .. fed /\ ~Settled(worker[v].datum)'
    <3>1. v # w /\ Active(v) /\ worker'[v] = worker[v]
      BY <1>3, <2>1
    <3>2. PICK k \in Datums : k = worker[v].datum
      BY <1>d, <3>1
    <3>3. k \in 1 .. fed /\ ~Settled(k) /\ k # i
      BY <3>1, <3>2 DEF PoolInv, InHand, Once
    <3>4. ~Settled(k)'
      BY <1>4, <3>3
    <3> QED
      BY <3>1, <3>2, <3>3, <3>4 DEF Settled
  <2>2. ASSUME NEW v \in Workers, NEW n \in DOMAIN chan[v]
        PROVE  chan[v][n] \in 1 .. fed /\ ~Settled(chan[v][n])'
    <3>1. PICK k \in Datums : k = chan[v][n]
      BY <1>c
    <3>2. k \in 1 .. fed /\ ~Settled(k) /\ k # i
      BY <3>1 DEF PoolInv, InHand, Once
    <3>3. ~Settled(k)'
      BY <1>4, <3>2
    <3> QED
      BY <3>1, <3>2, <3>3 DEF Settled
  <2> QED
    BY <2>1, <2>2 DEF InHand, Settled
<1>7. Once'
  BY <1>3 DEF PoolInv, Once
<1>8. Accounted'
  BY <1>3, <1>4 DEF PoolInv, Accounted
<1>9. \A k \in Datums : Settled(k)' => k <= fed'
  BY <1>1, <1>4 DEF PoolInv
<1>10. \A v \in Workers : At(v, "quit")' => chan'[v] = <<>> /\ fed' = N
  BY <1>3 DEF PoolInv
<1> QED
  BY <1>5, <1>6, <1>7, <1>8, <1>9, <1>10 DEF PoolInv

(* Feeding puts the next datum into one channel.                           *)
LEMMA FeedStep == PoolInv /\ feed => PoolInv'
<1> SUFFICES ASSUME PoolInv, feed PROVE PoolInv'
  OBVIOUS
<1> DEFINE x == (fed % Cardinality(Workers)) + 1
<1>1. /\ fed < N /\ chan' = [chan EXCEPT ![x] = Append(chan[x], fed + 1)] /\ fed' = fed + 1
      /\ worker' = worker /\ rec' = rec
  BY DEF feed
<1>2. x \in Workers
  BY <1>1, WorkersAre DEF PoolInv, PoolTypes
<1> HIDE DEF x
<1>3. /\ fed \in Nat /\ N \in Nat /\ fed + 1 \in Datums /\ fed + 1 \in 1 .. (fed + 1)
      /\ 1 .. fed \subseteq 1 .. (fed + 1)
  BY <1>1, WorkersAre DEF PoolInv, PoolTypes
<1>4. /\ \A i \in Datums : Settled(i)' <=> Settled(i)
      /\ \A w \in Workers : (Active(w)' <=> Active(w)) /\ (At(w, "quit")' <=> At(w, "quit"))
      /\ ~Settled(fed + 1)
      /\ \A w \in Workers : ~At(w, "quit")
  BY <1>1, <1>3 DEF Settled, Active, At, PoolInv
<1>5. chan[x] \in Seq(Datums)
  BY <1>2 DEF PoolInv, PoolTypes
<1>6. \A w \in Workers : w # x => chan'[w] = chan[w]
  BY <1>1, <1>2 DEF PoolInv, PoolTypes
<1>7. /\ chan'[x] = Append(chan[x], fed + 1)
      /\ DOMAIN chan'[x] = DOMAIN chan[x] \cup {Len(chan[x]) + 1}
      /\ Len(chan[x]) + 1 \notin DOMAIN chan[x]
      /\ \A n \in DOMAIN chan[x] : chan'[x][n] = chan[x][n]
      /\ chan'[x][Len(chan[x]) + 1] = fed + 1
  <2>1. chan'[x] = Append(chan[x], fed + 1)
    BY <1>1, <1>2 DEF PoolInv, PoolTypes
  <2> QED
    BY <1>3, <1>5, <2>1
<1>8. ASSUME NEW w \in Workers, NEW n \in DOMAIN chan'[w]
      PROVE  \/ n \in DOMAIN chan[w] /\ chan'[w][n] = chan[w][n]
             \/ w = x /\ n = Len(chan[x]) + 1 /\ chan'[w][n] = fed + 1
  BY <1>6, <1>7, <1>8
<1>9. \A w \in Workers : \A n \in DOMAIN chan[w] :
        n \in DOMAIN chan'[w] /\ chan'[w][n] = chan[w][n] /\ chan[w][n] # fed + 1
        /\ chan[w][n] \in 1 .. fed
  BY <1>3, <1>6, <1>7 DEF PoolInv, InHand
<1>10. PoolTypes'
  <2>1. Append(chan[x], fed + 1) \in Seq(Datums)
    BY <1>3, <1>5
  <2>2. chan' \in [Workers -> Seq(Datums)]
    BY <1>1, <1>2, <2>1 DEF PoolInv, PoolTypes
  <2>3. fed' \in 0 .. N
    BY <1>1, <1>3
  <2> QED
    BY <1>1, <2>2, <2>3 DEF PoolInv, PoolTypes
<1>11. InHand'
  <2>1. \A w \in Workers : Active(w) => worker[w].datum \in 1 .. (fed + 1) /\ ~Settled(worker[w].datum)
    BY <1>3 DEF PoolInv, InHand
  <2>2. ASSUME NEW w \in Workers, NEW n \in DOMAIN chan'[w]
        PROVE  chan'[w][n] \in 1 .. (fed + 1) /\ ~Settled(chan'[w][n])
    <3>1. CASE n \in DOMAIN chan[w] /\ chan'[w][n] = chan[w][n]
      BY <1>3, <1>9, <3>1 DEF PoolInv, InHand
    <3>2. CASE chan'[w][n] = fed + 1
      BY <1>3, <1>4, <3>2
    <3> QED
      BY <1>8, <3>1, <3>2
  <2> QED
    BY <1>1, <1>4, <2>1, <2>2 DEF InHand, Settled
<1>12. Once'
  <2>1. \A v, w \in Workers :
          Active(v)' /\ Active(w)' /\ worker'[v].datum = worker'[w].datum => v = w
    BY <1>1, <1>4 DEF PoolInv, Once
  <2>2. ASSUME NEW v \in Workers, NEW w \in Workers, NEW n \in DOMAIN chan'[w], Active(v)'
        PROVE  worker'[v].datum # chan'[w][n]
    <3>1. worker[v].datum \in 1 .. fed /\ worker[v].datum # fed + 1 /\ Active(v)
      BY <1>3, <1>4, <2>2 DEF PoolInv, InHand
    <3> QED
      BY <1>1, <1>8, <3>1 DEF PoolInv, Once
  <2>3. ASSUME NEW v \in Workers, NEW w \in Workers, NEW m \in DOMAIN chan'[v],
               NEW n \in DOMAIN chan'[w], chan'[v][m] = chan'[w][n]
        PROVE  v = w /\ m = n
    <3>1. CASE m \in DOMAIN chan[v] /\ n \in DOMAIN chan[w]
      BY <1>9, <2>3, <3>1 DEF PoolInv, Once
    <3>2. CASE m \notin DOMAIN chan[v]
      <4>1. v = x /\ m = Len(chan[x]) + 1 /\ chan'[v][m] = fed + 1
        BY <1>8, <3>2
      <4>2. w = x /\ n = Len(chan[x]) + 1
        BY <1>8, <1>9, <2>3, <4>1
      <4> QED
        BY <4>1, <4>2
    <3>3. CASE n \notin DOMAIN chan[w]
      <4>1. w = x /\ n = Len(chan[x]) + 1 /\ chan'[w][n] = fed + 1
        BY <1>8, <3>3
      <4>2. v = x /\ m = Len(chan[x]) + 1
        BY <1>8, <1>9, <2>3, <4>1
      <4> QED
        BY <4>1, <4>2
    <3> QED
      BY <3>1, <3>2, <3>3
  <2> QED
    BY <2>1, <2>2, <2>3 DEF Once
<1>13. Accounted'
  <2> SUFFICES ASSUME NEW i \in Datums
               PROVE  \/ i > fed' /\ ~Settled(i)'
                      \/ Settled(i)'
                      \/ \E w \in Workers : Active(w)' /\ worker'[w].datum = i
                      \/ \E w \in Workers : \E n \in DOMAIN chan'[w] : chan'[w][n] = i
    BY DEF Accounted
  <2>1. CASE i > fed
    <3>1. i = fed + 1 \/ i > fed + 1
      BY <1>3, <2>1, WorkersAre
    <3>2. i = fed + 1 => \E n \in DOMAIN chan'[x] : chan'[x][n] = i
      BY <1>7
    <3> QED
      BY <1>1, <1>2, <3>1, <3>2
  <2>2. CASE \E w \in Workers : \E n \in DOMAIN chan[w] : chan[w][n] = i
    BY <1>9, <2>2
  <2>3. CASE Settled(i) \/ \E w \in Workers : Active(w) /\ worker[w].datum = i
    BY <1>1, <1>4, <2>3
  <2> QED
    BY <2>1, <2>2, <2>3 DEF PoolInv, Accounted
<1>14. \A i \in Datums : Settled(i)' => i <= fed'
  BY <1>1, <1>3, <1>4, WorkersAre DEF PoolInv
<1> QED
  BY <1>4, <1>10, <1>11, <1>12, <1>13, <1>14 DEF PoolInv

(* Taking moves the first datum of a worker's channel into its hands.      *)
LEMMA TakeStep == ASSUME PoolInv, NEW x \in Workers, Take(x) PROVE PoolInv'
<1> DEFINE i == Head(chan[x])
<1>1. /\ At(x, "idle") /\ chan[x] # <<>> /\ chan' = [chan EXCEPT ![x] = Tail(chan[x])]
      /\ worker' = [worker EXCEPT ![x].step = "begin", ![x].datum = i]
      /\ fed' = fed /\ rec' = rec
  BY DEF Take
<1>2. chan[x] \in Seq(Datums) /\ \A w \in Workers : w # x => chan'[w] = chan[w]
  BY <1>1 DEF PoolInv, PoolTypes
<1>3. /\ i = chan[x][1] /\ 1 \in DOMAIN chan[x] /\ i \in Datums
      /\ chan'[x] = Tail(chan[x]) /\ Tail(chan[x]) \in Seq(Datums)
      /\ \A n \in DOMAIN Tail(chan[x]) : /\ n + 1 \in DOMAIN chan[x] /\ n + 1 # 1
                                         /\ Tail(chan[x])[n] = chan[x][n + 1]
      /\ \A n \in DOMAIN chan[x] : n = 1 \/ (n - 1 \in DOMAIN Tail(chan[x])
                                             /\ Tail(chan[x])[n - 1] = chan[x][n])
      /\ \A m, n \in DOMAIN Tail(chan[x]) : m + 1 = n + 1 => m = n
  <2>1. chan'[x] = Tail(chan[x])
    BY <1>1 DEF PoolInv, PoolTypes
  <2> QED
    BY <1>1, <1>2, <2>1
<1> HIDE DEF i
<1>4. /\ worker'[x].step = "begin" /\ worker'[x].datum = i /\ ~Active(x) /\ Active(x)'
      /\ \A w \in Workers : w # x => worker'[w] = worker[w] /\ (Active(w)' <=> Active(w))
      /\ \A w \in Workers : At(w, "quit")' => w # x /\ At(w, "quit")
      /\ \A k \in Datums : Settled(k)' <=> Settled(k)
  BY <1>1 DEF PoolInv, PoolTypes, WorkerRecords, Active, At, Settled
<1>5. ASSUME NEW w \in Workers, NEW n \in DOMAIN chan'[w]
      PROVE  \E m \in DOMAIN chan[w] : chan'[w][n] = chan[w][m] /\ (w = x => m # 1)
  <2>1. CASE w = x
    <3>1. n + 1 \in DOMAIN chan[x] /\ n + 1 # 1 /\ chan'[x][n] = chan[x][n + 1]
      BY <1>3, <1>5, <2>1
    <3> QED
      BY <2>1, <3>1
  <2>2. CASE w # x
    BY <1>2, <1>5, <2>2
  <2> QED
    BY <2>1, <2>2
<1>6. i \in 1 .. fed /\ ~Settled(i) /\ i \in 0 .. N
  BY <1>3, WorkersAre DEF PoolInv, InHand, PoolTypes
<1>7. PoolTypes'
  <2>1. chan' \in [Workers -> Seq(Datums)]
    BY <1>1, <1>3 DEF PoolInv, PoolTypes
  <2>2. worker' \in [Workers -> WorkerRecords]
    BY <1>1, <1>6 DEF PoolInv, PoolTypes, WorkerRecords, Steps
  <2> QED
    BY <1>1, <2>1, <2>2 DEF PoolInv, PoolTypes
<1>8. InHand'
  <2>1. ASSUME NEW w \in Workers, Active(w)'
        PROVE  worker'[w].datum \in 1 .. fed /\ ~Settled(worker'[w].datum)
    BY <1>4, <1>6, <2>1 DEF PoolInv, InHand
  <2>2. ASSUME NEW w \in Workers, NEW n \in DOMAIN chan'[w]
        PROVE  chan'[w][n] \in 1 .. fed /\ ~Settled(chan'[w][n])
    BY <1>5 DEF PoolInv, InHand
  <2> QED
    BY <1>1, <2>1, <2>2 DEF InHand, Settled
<1>9. Once'
  <2>1. ASSUME NEW v \in Workers, NEW w \in Workers, Active(v)', Active(w)',
               worker'[v].datum = worker'[w].datum
        PROVE  v = w
    BY <1>3, <1>4, <2>1 DEF PoolInv, Once
  <2>2. ASSUME NEW v \in Workers, NEW w \in Workers, NEW n \in DOMAIN chan'[w], Active(v)'
        PROVE  worker'[v].datum # chan'[w][n]
    <3>1. PICK m \in DOMAIN chan[w] : chan'[w][n] = chan[w][m] /\ (w = x => m # 1)
      BY <1>5
    <3>2. CASE v = x
      BY <1>3, <1>4, <3>1, <3>2 DEF PoolInv, Once
    <3>3. CASE v # x
      BY <1>4, <2>2, <3>1, <3>3 DEF PoolInv, Once
    <3> QED
      BY <3>2, <3>3
  <2>3. ASSUME NEW v \in Workers, NEW w \in Workers, NEW m \in DOMAIN chan'[v],
               NEW n \in DOMAIN chan'[w], chan'[v][m] = chan'[w][n]
        PROVE  v = w /\ m = n
    <3>1. v = w
      BY <1>5, <2>3 DEF PoolInv, Once
    <3>2. CASE v = x
      <4>1. m \in DOMAIN Tail(chan[x]) /\ n \in DOMAIN Tail(chan[x])
        BY <1>3, <2>3, <3>1, <3>2
      <4>2. /\ m + 1 \in DOMAIN chan[x] /\ n + 1 \in DOMAIN chan[x]
            /\ chan[x][m + 1] = chan[x][n + 1]
        <5>1. Tail(chan[x])[m] = Tail(chan[x])[n]
          BY <1>3, <2>3, <3>1, <3>2
        <5>2. \A l \in DOMAIN Tail(chan[x]) :
                l + 1 \in DOMAIN chan[x] /\ Tail(chan[x])[l] = chan[x][l + 1]
          BY <1>3
        <5> QED
          BY <4>1, <5>1, <5>2
      <4>3. m + 1 = n + 1
        BY <4>2 DEF PoolInv, Once
      <4> QED
        BY <1>3, <3>1, <4>1, <4>3
    <3>3. CASE v # x
      BY <1>2, <2>3, <3>1, <3>3 DEF PoolInv, Once
    <3> QED
      BY <3>1, <3>2, <3>3
  <2> QED
    BY <2>1, <2>2, <2>3 DEF Once
<1>10. Accounted'
  <2> SUFFICES ASSUME NEW k \in Datums
               PROVE  \/ k > fed /\ ~Settled(k)
                      \/ Settled(k)
                      \/ \E w \in Workers : Active(w)' /\ worker'[w].datum = k
                      \/ \E w \in Workers : \E n \in DOMAIN chan'[w] : chan'[w][n] = k
    BY <1>1, <1>4 DEF Accounted
  <2>1. CASE \E w \in Workers : Active(w) /\ worker[w].datum = k
    BY <1>4, <2>1
  <2>2. CASE \E w \in Workers : \E n \in DOMAIN chan[w] : chan[w][n] = k
    <3>1. PICK w \in Workers : \E n \in DOMAIN chan[w] : chan[w][n] = k
      BY <2>2
    <3>2. PICK n \in DOMAIN chan[w] : chan[w][n] = k
      BY <3>1
    <3>3. CASE w = x /\ n = 1
      BY <1>3, <1>4, <3>2, <3>3
    <3>4. CASE w = x /\ n # 1
      <4>1. n - 1 \in DOMAIN chan'[x] /\ chan'[x][n - 1] = k
        BY <1>3, <3>2, <3>4
      <4> QED
        BY <4>1
    <3>5. CASE w # x
      BY <1>2, <3>2, <3>5
    <3> QED
      BY <3>3, <3>4, <3>5
  <2> QED
    BY <2>1, <2>2 DEF PoolInv, Accounted
<1>11. \A k \in Datums : Settled(k)' => k <= fed'
  BY <1>1, <1>4 DEF PoolInv
<1>12. \A w \in Workers : At(w, "quit")' => chan'[w] = <<>> /\ fed' = N
  BY <1>1, <1>2, <1>4 DEF PoolInv
<1> QED
  BY <1>7, <1>8, <1>9, <1>10, <1>11, <1>12 DEF PoolInv

(* A worker quits when nothing is left to take.                            *)
LEMMA QuitStep == ASSUME PoolInv, NEW x \in Workers, Quit(x) PROVE PoolInv'
<1>1. /\ At(x, "idle") /\ chan[x] = <<>> /\ fed = N /\ UNCHANGED <<fed, chan, rec>>
      /\ worker' = [worker EXCEPT ![x].step = "quit"]
  BY DEF Quit, Goto
<1>2. /\ worker' \in [Workers -> WorkerRecords]
      /\ \A w \in Workers : /\ Active(w)' <=> Active(w)
                            /\ worker'[w].datum = worker[w].datum
                            /\ At(w, "quit")' => At(w, "quit") \/ w = x
      /\ \A i \in Datums : Settled(i)' <=> Settled(i)
  BY <1>1 DEF PoolInv, PoolTypes, WorkerRecords, Steps, Active, At, Settled
<1>3. InHand'
  BY <1>1, <1>2 DEF PoolInv, InHand, Settled
<1>4. Once'
  BY <1>1, <1>2 DEF PoolInv, Once
<1>5. Accounted'
  BY <1>1, <1>2 DEF PoolInv, Accounted
<1>6. \A w \in Workers : At(w, "quit")' => chan'[w] = <<>> /\ fed' = N
  BY <1>1, <1>2 DEF PoolInv
<1>7. PoolTypes'
  BY <1>1, <1>2 DEF PoolInv, PoolTypes
<1>8. \A i \in Datums : Settled(i)' => i <= fed'
  BY <1>1, <1>2 DEF PoolInv
<1> QED
  BY <1>3, <1>4, <1>5, <1>6, <1>7, <1>8 DEF PoolInv

----------------------------------------------------------------------------
(* What a step of an attempt does to a worker: it keeps its datum and goes *)
(* on, or it settles the datum and is idle.                                *)
GoesOn(w) ==
  /\ UNCHANGED <<fed, chan>>
  /\ worker' \in [Workers -> WorkerRecords]
  /\ \A v \in Workers : v # w => worker'[v] = worker[v]
  /\ worker'[w].step \notin {"idle", "quit"} /\ worker'[w].datum = worker[w].datum
Settles(w) ==
  /\ UNCHANGED <<fed, chan>>
  /\ worker' = [worker EXCEPT ![w] = IdleWorker]
  /\ \E outcome \in {"success", "recovered", "failed"} :
       rec' = [rec EXCEPT ![worker[w].datum] = outcome]

LEMMA OwnStep ==
  ASSUME PoolInv, NEW w \in Workers, Active(w),
         \/ GoesOn(w) /\ rec' = rec
         \/ GoesOn(w) /\ \E o \in {"live", "placeholder"} : rec' = [rec EXCEPT ![worker[w].datum] = o]
         \/ Settles(w)
  PROVE  PoolInv'
<1>1. CASE Settles(w)
  BY <1>1, SettleStep DEF Settles
<1>2. ASSUME GoesOn(w), rec' \in [Datums -> DatumOutcomes], \A i \in Datums : Settled(i)' <=> Settled(i)
      PROVE  PoolInv'
  <2>2. /\ worker' \in [Workers -> WorkerRecords]
        /\ \A v \in Workers : /\ Active(v)' <=> Active(v)
                              /\ Active(v) => worker'[v].datum = worker[v].datum
                              /\ At(v, "quit")' => At(v, "quit")
    BY <1>2 DEF GoesOn, PoolInv, PoolTypes, Active, At
  <2>3. UNCHANGED <<fed, chan>>
    BY <1>2 DEF GoesOn
  <2> QED
    BY <1>2, <2>2, <2>3, QuietStep
<1>3. ASSUME NEW o \in {"live", "placeholder"}, rec' = [rec EXCEPT ![worker[w].datum] = o]
      PROVE  rec' \in [Datums -> DatumOutcomes] /\ \A i \in Datums : Settled(i)' <=> Settled(i)
  BY <1>3 DEF PoolInv, PoolTypes, InHand, DatumOutcomes, Settled
<1>4. rec' = rec => rec' \in [Datums -> DatumOutcomes] /\ \A i \in Datums : Settled(i)' <=> Settled(i)
  BY DEF PoolInv, PoolTypes, Settled
<1> QED
  BY <1>1, <1>2, <1>3, <1>4

(* An attempt's outcome.                                                   *)
LEMMA ConcludeStep ==
  ASSUME PoolInv, NEW w \in Workers, UNCHANGED <<fed, chan>>,
         NEW outcome \in {"success", "recovered", "failed"}, Conclude(w, outcome)
  PROVE  (GoesOn(w) /\ rec' = rec) \/ Settles(w)
<1>1. CASE outcome = "failed"
  <2> DEFINE r == [worker[w] EXCEPT !.step = "loop", !.attempt = worker[w].attempt + 1,
                                    !.timer = "off", !.ok = FALSE]
  <2>1. worker' = [worker EXCEPT ![w] = r] /\ rec' = rec
    BY <1>1, Zenon DEF Conclude
  <2>2. r \in WorkerRecords /\ r.step = "loop" /\ r.datum = worker[w].datum
    <3>1. worker[w] \in WorkerRecords
      BY DEF PoolInv, PoolTypes
    <3>2. PICK a \in Nat : a = worker[w].attempt + 1
      BY <3>1 DEF WorkerRecords
    <3>3. r = [worker[w] EXCEPT !.step = "loop", !.attempt = a, !.timer = "off", !.ok = FALSE]
      BY <3>2
    <3> HIDE DEF r
    <3> QED
      BY <3>1, <3>3 DEF WorkerRecords, Steps, Timers
  <2> HIDE DEF r
  <2> QED
    BY <2>1, <2>2 DEF GoesOn, PoolInv, PoolTypes
<1>2. CASE outcome # "failed"
  BY <1>2 DEF Conclude, SetDatum, Settles
<1> QED
  BY <1>1, <1>2

(* A worker goes to another step of its attempt.                           *)
LEMMA GotoStep ==
  ASSUME PoolInv, NEW w \in Workers, UNCHANGED <<fed, chan>>, NEW s \in Steps \ {"idle", "quit"},
         Goto(w, s)
  PROVE  GoesOn(w)
BY DEF GoesOn, Goto, PoolInv, PoolTypes, WorkerRecords

(* A kill changes the steps of the workers whose container it hits.        *)
LEMMA KillStep ==
  ASSUME PoolInv, NEW names, KillAll(names), UNCHANGED <<fed, chan, rec>>
  PROVE  PoolInv'
<1>1. ASSUME NEW w \in Workers
      PROVE  /\ worker'[w] \in WorkerRecords
             /\ Active(w)' <=> Active(w)
             /\ worker'[w].datum = worker[w].datum
             /\ At(w, "quit")' => At(w, "quit")
  <2>1. CASE worker'[w] = worker[w]
    BY <2>1 DEF PoolInv, PoolTypes, Active, At
  <2>2. CASE \E name \in names : Running(w, name)
    <3> DEFINE s == IF worker[w].step = "running" THEN "ended" ELSE "errEnded"
    <3>1. worker'[w] = [worker[w] EXCEPT !.step = s, !.ok = FALSE]
      BY <2>2 DEF KillAll
    <3>2. worker[w].step \in {"running", "errRunning"}
      BY <2>2 DEF Running, At
    <3>3. s \in {"ended", "errEnded"}
      OBVIOUS
    <3> HIDE DEF s
    <3> QED
      BY <3>1, <3>2, <3>3 DEF PoolInv, PoolTypes, WorkerRecords, Steps, Active, At
  <2> QED
    BY <2>1, <2>2 DEF KillAll
<1>2. worker' \in [Workers -> WorkerRecords]
  BY <1>1 DEF KillAll
<1> QED
  BY <1>1, <1>2, QuietStep DEF PoolInv, PoolTypes, Settled

(* Every step of the pool keeps the invariant.                             *)
LEMMA PoolStep == PoolInv /\ [Next]_vars => PoolInv'
<1> SUFFICES ASSUME PoolInv, [Next]_vars PROVE PoolInv'
  OBVIOUS
<1>o. ASSUME NEW w \in Workers, Active(w), GoesOn(w), rec' = rec PROVE PoolInv'
  BY <1>o, OwnStep
<1>s. ASSUME NEW w \in Workers, Active(w), Settles(w) PROVE PoolInv'
  BY <1>s, OwnStep
<1>c. ASSUME NEW w \in Workers, Active(w), UNCHANGED <<fed, chan>>,
             NEW outcome \in {"success", "recovered", "failed"}, Conclude(w, outcome)
      PROVE  PoolInv'
  BY <1>c, <1>o, <1>s, ConcludeStep
<1>u. ASSUME UNCHANGED <<fed, chan, worker, rec>> PROVE PoolInv'
  BY <1>u DEF PoolInv, PoolTypes, InHand, Once, Accounted, Active, At, Settled
<1>1. ASSUME NEW w \in Workers, Begin(w) PROVE PoolInv'
  <2>1. GoesOn(w) /\ rec' = [rec EXCEPT ![worker[w].datum] = "live"]
    BY <1>1 DEF Begin, SetDatum, GoesOn, PoolInv, PoolTypes, WorkerRecords, Steps
  <2> QED
    BY <1>1, <2>1, OwnStep DEF Begin, At, Active
<1>2. ASSUME NEW w \in Workers, LoopCancelled(w) \/ LoopExhausted(w) PROVE PoolInv'
  <2>1. Settles(w) /\ Active(w)
    BY <1>2 DEF LoopCancelled, LoopExhausted, SetDatum, Leave, Settles, At, Active
  <2> QED
    BY <1>s, <2>1
<1>3. ASSUME NEW w \in Workers, LoopRestart(w) PROVE PoolInv'
  <2>1. GoesOn(w) /\ rec' = [rec EXCEPT ![worker[w].datum] = "placeholder"] /\ Active(w)
    BY <1>3, GotoStep DEF LoopRestart, SetDatum, Steps, At, Active
  <2> QED
    BY <2>1, OwnStep
<1>4. ASSUME NEW w \in Workers, LoopAttempt(w) \/ ContainerStarts(w) PROVE PoolInv'
  <2>1. PICK s \in Steps \ {"idle", "quit"} : Goto(w, s)
    BY <1>4 DEF LoopAttempt, ContainerStarts, Steps
  <2>2. UNCHANGED <<fed, chan, rec>> /\ Active(w)
    BY <1>4 DEF LoopAttempt, ContainerStarts, At, Active
  <2> QED
    BY <1>o, <2>1, <2>2, GotoStep
<1>5. ASSUME NEW w \in Workers, Stage(w) PROVE PoolInv'
  <2>1. GoesOn(w) /\ Active(w) /\ rec' = rec
    BY <1>5 DEF Stage, At, Active, GoesOn, PoolInv, PoolTypes, WorkerRecords, Steps, Timers
  <2> QED
    BY <1>o, <2>1
<1>6. ASSUME NEW w \in Workers, StageFails(w) \/ ScanFails(w) \/ RemoteBreaks(w) PROVE PoolInv'
  <2>1. Conclude(w, "failed") /\ UNCHANGED <<fed, chan>> /\ Active(w)
    BY <1>6 DEF StageFails, ScanFails, RemoteBreaks, At, Active
  <2> QED
    BY <1>c, <2>1
<1>7. ASSUME NEW w \in Workers, NEW ok \in BOOLEAN, ContainerEnds(w, ok) \/ ErrCmdEnds(w, ok)
      PROVE  PoolInv'
  <2>1. UNCHANGED <<fed, chan, rec>> /\ Active(w)
    BY <1>7 DEF ContainerEnds, ErrCmdEnds, At, Active
  <2>2. PICK s \in {"ended", "errEnded"} : worker' = [worker EXCEPT ![w].step = s, ![w].ok = ok]
    BY <1>7 DEF ContainerEnds, ErrCmdEnds
  <2>3. GoesOn(w)
    BY <2>1, <2>2 DEF GoesOn, PoolInv, PoolTypes, WorkerRecords, Steps
  <2> QED
    BY <1>o, <2>1, <2>3
<1>8. ASSUME NEW w \in Workers, AttemptReturns(w) PROVE PoolInv'
  <2>1. UNCHANGED <<fed, chan>> /\ Active(w)
    BY <1>8 DEF AttemptReturns, At, Active
  <2>2. \/ \E outcome \in {"success", "recovered", "failed"} : Conclude(w, outcome)
        \/ Goto(w, "errStarting") /\ rec' = rec
    BY <1>8 DEF AttemptReturns
  <2>3. "errStarting" \in Steps \ {"idle", "quit"}
    BY DEF Steps
  <2> QED
    BY <1>c, <1>o, <2>1, <2>2, <2>3, GotoStep
<1>9. ASSUME NEW w \in Workers, NEW outcome \in {"success", "recovered", "failed"},
             RemoteAnswers(w, outcome)
      PROVE  PoolInv'
  <2>1. Conclude(w, outcome) /\ UNCHANGED <<fed, chan>> /\ Active(w)
    BY <1>9 DEF RemoteAnswers, At, Active
  <2> QED
    BY <1>c, <2>1
<1>10. ASSUME NEW w \in Workers, DatumTimeout(w) PROVE PoolInv'
  <2>1. UNCHANGED <<fed, chan, rec>>
    BY <1>10 DEF DatumTimeout
  <2>2. /\ worker' \in [Workers -> WorkerRecords]
        /\ \A v \in Workers : v # w => worker'[v] = worker[v]
        /\ worker'[w].datum = worker[w].datum
        /\ \/ worker'[w].step = worker[w].step
           \/ worker[w].step = "running" /\ worker'[w].step = "ended"
    <3>1. CASE At(w, "running")
      <4>1. worker' = [worker EXCEPT ![w] = [worker[w] EXCEPT !.timer = "off", !.step = "ended",
                                                              !.ok = FALSE]]
        BY <1>10, <3>1 DEF DatumTimeout, At
      <4> QED
        BY <3>1, <4>1 DEF PoolInv, PoolTypes, WorkerRecords, Steps, Timers, At
    <3>2. CASE ~At(w, "running")
      <4>1. \E t \in {"early", "off"} :
              worker' = [worker EXCEPT ![w] = [worker[w] EXCEPT !.timer = t]]
        BY <1>10, <3>2 DEF DatumTimeout, At
      <4> QED
        BY <4>1 DEF PoolInv, PoolTypes, WorkerRecords, Timers
    <3> QED
      BY <3>1, <3>2
  <2>3. \A v \in Workers : /\ Active(v)' <=> Active(v)
                           /\ worker'[v].datum = worker[v].datum
                           /\ At(v, "quit")' => At(v, "quit")
    BY <2>2 DEF Active, At
  <2> QED
    BY <2>1, <2>2, <2>3, QuietStep DEF PoolInv, PoolTypes, Settled
<1>11. ASSUME NEW q \in Requests, RequestStep(q) PROVE PoolInv'
  <2>1. /\ UNCHANGED <<fed, chan, rec>>
        /\ worker' = worker \/ \E names : KillAll(names)
    BY <1>11 DEF RequestStep, LookupFails, requestRestart, RestartKill, RestartGivesUp, LookupActive,
                 Inside, Kill
  <2> QED
    BY <1>u, <2>1, KillStep
<1>12. CASE Cancel \/ UNCHANGED vars
  BY <1>12, <1>u DEF Cancel, Inside, vars
<1>13. CASE KillRound \/ JobTimeout
  <2>1. KillAll(containerNames) /\ UNCHANGED <<fed, chan, rec>>
    BY <1>13 DEF KillRound, JobTimeout, Inside
  <2> QED
    BY <2>1, KillStep
<1>14. CASE feed
  BY <1>14, FeedStep
<1>15. ASSUME NEW w \in Workers, Take(w) \/ Quit(w) PROVE PoolInv'
  BY <1>15, TakeStep, QuitStep
<1> QED
  BY <1>1, <1>2, <1>3, <1>4, <1>5, <1>6, <1>7, <1>8, <1>9, <1>10, <1>11, <1>12, <1>13, <1>14, <1>15
     DEF Next, WorkerStep

LEMMA PoolInit == Init => PoolInv
<1> SUFFICES ASSUME Init PROVE PoolInv
  OBVIOUS
<1>1. /\ fed = 0 /\ chan = [w \in Workers |-> <<>>] /\ worker = [w \in Workers |-> IdleWorker]
      /\ rec = [i \in Datums |-> "placeholder"]
  BY DEF Init
<1>2. IdleWorker \in WorkerRecords /\ IdleWorker.step = "idle"
  BY PoolAssumption DEF IdleWorker, WorkerRecords, Steps, Timers
<1>3. PoolTypes
  BY <1>1, <1>2, PoolAssumption DEF PoolTypes, DatumOutcomes
<1>4. /\ \A w \in Workers : ~Active(w) /\ ~At(w, "quit") /\ DOMAIN chan[w] = {}
      /\ \A i \in Datums : ~Settled(i) /\ i > fed
  BY <1>1, <1>2, WorkersAre DEF Active, At, Settled
<1> QED
  BY <1>3, <1>4 DEF PoolInv, InHand, Once, Accounted

(* Every datum of a job is in one place at any time: not fed yet, in one   *)
(* channel, with one worker, or settled, whatever restarts, kills, cancels *)
(* and timeouts do (datum_engine.go, runDatums).                           *)
THEOREM DatumsProcessedOnce == Spec => []EachDatumOnce
<1>1. Spec => []PoolInv
  BY PoolInit, PoolStep, PTL DEF Spec
<1> QED
  BY <1>1, PoolInvOnce, PTL

----------------------------------------------------------------------------
(* A restart alone fails no datum, when there is one request to restart.   *)
(* (With two requests for one datum the second may kill the container the  *)
(* first one had the datum restarted in, which has the same name, after    *)
(* the flag that both set is used up.)                                     *)

(* The worker is in its first attempt, in which nothing has failed.        *)
Fine(w) ==
  \/ worker[w].step = "begin"
  \/ worker[w].step \in {"loop", "stage", "starting", "running", "remote"} /\ worker[w].attempt = 1
  \/ worker[w].step = "ended" /\ worker[w].ok /\ worker[w].attempt = 1

(* So it is, and it has its container registered.                          *)
Held(w) == Fine(w) /\ worker[w].step \in {"starting", "running", "ended"}

Calm == ~disturbed /\ ~cancelled

(* What a request to restart a datum has found: the datum is settled, or   *)
(* is with a worker that has its container and whose attempt has not       *)
(* failed; and what it kills is the container of that datum's command.     *)
Found(d) ==
  \/ d \in Datums /\ Settled(d)
  \/ \E w \in Workers : worker[w].datum = d /\ Held(w)
RequestInv(q) ==
  request[q].step \in {"flag", "kill"} =>
    /\ Found(request[q].datum)
    /\ \E a \in Nat : request[q].name = <<request[q].datum, a, FALSE>>
    /\ request[q].step = "kill" => request[q].datum \in restart

(* In a calm run every attempt that failed belongs to a datum with a       *)
(* pending restart, and no restart is pending before a request asks.       *)
CalmInv ==
  /\ \A i \in Datums : rec[i] # "failed"
  /\ \A w \in Workers : Active(w) => Fine(w) \/ worker[w].datum \in restart
  /\ \A q \in Requests : RequestInv(q)
  /\ (\A q \in Requests : request[q].step \in {"lookup", "flag"}) => restart = {}

RequestTypes ==
  request \in [Requests -> [step : {"lookup", "flag", "kill", "over"}, datum : 0 .. N,
                            name : ((0 .. N) \X Nat \X BOOLEAN) \cup {<<>>}]]

HarmInv ==
  /\ tries \in Nat \ {0}
  /\ RequestTypes
  /\ killLoop = "on" => cancelled
  /\ Calm => CalmInv

(* A step of one worker in a calm run.                                     *)
LEMMA CalmOwn ==
  ASSUME PoolInv, CalmInv, NEW w \in Workers, UNCHANGED <<restart, request>>,
         \A v \in Workers : v # w => worker'[v] = worker[v],
         \A i \in Datums : rec'[i] # "failed" /\ (Settled(i) => Settled(i)'),
         Active(w)' => Fine(w)' \/ worker'[w].datum \in restart,
         Held(w) => \/ Held(w)' /\ worker'[w].datum = worker[w].datum
                    \/ \E i \in Datums : i = worker[w].datum /\ Settled(i)'
  PROVE  CalmInv'
<1>1. \A v \in Workers : v # w => (Active(v)' <=> Active(v)) /\ (Fine(v)' <=> Fine(v))
                                  /\ (Held(v)' <=> Held(v))
  BY DEF Active, Fine, Held
<1>2. \A v \in Workers : Active(v)' => Fine(v)' \/ worker'[v].datum \in restart'
  BY <1>1 DEF CalmInv
<1>3. ASSUME NEW d, Found(d) PROVE Found(d)'
  <2>1. CASE d \in Datums /\ Settled(d)
    BY <2>1 DEF Found
  <2>2. CASE \E v \in Workers : worker[v].datum = d /\ Held(v)
    <3>1. PICK v \in Workers : worker[v].datum = d /\ Held(v)
      BY <2>2
    <3>2. CASE v = w
      <4>1. CASE Held(w)' /\ worker'[w].datum = worker[w].datum
        BY <3>1, <3>2, <4>1 DEF Found
      <4>2. CASE \E i \in Datums : i = worker[w].datum /\ Settled(i)'
        BY <3>1, <3>2, <4>2 DEF Found
      <4> QED
        BY <3>1, <3>2, <4>1, <4>2
    <3>3. CASE v # w
      BY <1>1, <3>1, <3>3 DEF Found
    <3> QED
      BY <3>2, <3>3
  <2> QED
    BY <1>3, <2>1, <2>2 DEF Found
<1>4. \A q \in Requests : RequestInv(q)'
  BY <1>3 DEF CalmInv, RequestInv
<1> QED
  BY <1>2, <1>4 DEF CalmInv

(* A worker's datum is fed and not settled, and no other worker has it.    *)
LEMMA OwnDatum ==
  ASSUME PoolInv, NEW w \in Workers, Active(w)
  PROVE  /\ worker[w].datum \in Datums /\ ~Settled(worker[w].datum)
         /\ \A v \in Workers : Active(v) /\ worker[v].datum = worker[w].datum => v = w
BY WorkersAre DEF PoolInv, PoolTypes, InHand, Once

(* No step makes a disturbed or a cancelled run calm again.                *)
LEMMA CalmBefore ==
  ASSUME [Next]_vars, Calm' PROVE Calm
<1>1. CASE feed \/ Cancel \/ KillRound \/ JobTimeout \/ UNCHANGED vars
  BY <1>1 DEF Calm, feed, Cancel, KillRound, JobTimeout, Outside, Inside, vars
<1>2. ASSUME NEW q \in Requests, RequestStep(q) PROVE Calm
  BY <1>2 DEF Calm, RequestStep, LookupFails, requestRestart, RestartKill, RestartGivesUp,
              LookupActive, Inside
<1>3. ASSUME NEW w \in Workers, \/ Take(w) \/ Quit(w) \/ Begin(w) \/ LoopCancelled(w) \/ LoopRestart(w)
                                \/ LoopAttempt(w) \/ LoopExhausted(w) \/ Stage(w) \/ ContainerStarts(w)
                                \/ AttemptReturns(w)
      PROVE  Calm
  BY <1>3 DEF Calm, Take, Quit, Begin, LoopCancelled, LoopRestart, LoopAttempt, LoopExhausted, Stage,
              ContainerStarts, AttemptReturns, Outside
<1>4. ASSUME NEW w \in Workers, StageFails(w) \/ ScanFails(w) \/ RemoteBreaks(w) \/ DatumTimeout(w)
      PROVE  Calm
  BY <1>4 DEF Calm, StageFails, ScanFails, RemoteBreaks, DatumTimeout
<1>5. ASSUME NEW w \in Workers, NEW ok \in BOOLEAN, ContainerEnds(w, ok) \/ ErrCmdEnds(w, ok)
      PROVE  Calm
  <2>1. disturbed' = (disturbed \/ ~ok) /\ cancelled' = cancelled
    BY <1>5 DEF ContainerEnds, ErrCmdEnds, Outside
  <2> QED
    BY <2>1, Zenon DEF Calm
<1>6. ASSUME NEW w \in Workers, NEW outcome, RemoteAnswers(w, outcome) PROVE Calm
  BY <1>6 DEF Calm, RemoteAnswers, Outside
<1> QED
  BY <1>1, <1>2, <1>3, <1>4, <1>5, <1>6 DEF Next, WorkerStep

(* The steps of the workers in a calm run.                                 *)
LEMMA CalmWorker ==
  ASSUME PoolInv, CalmInv, tries \in Nat \ {0}, Calm, Calm', NEW w \in Workers,
         \/ WorkerStep(w) \/ DatumTimeout(w)
         \/ \E ok \in BOOLEAN : ContainerEnds(w, ok) \/ ErrCmdEnds(w, ok)
  PROVE  CalmInv'
<1>t. /\ worker[w] \in WorkerRecords /\ DOMAIN worker = Workers /\ rec \in [Datums -> DatumOutcomes]
      /\ Active(w) => Fine(w) \/ worker[w].datum \in restart
      /\ \A i \in Datums : rec[i] # "failed"
  BY DEF PoolInv, PoolTypes, CalmInv
<1>r. ASSUME UNCHANGED <<rec, restart, request>>,
             \A v \in Workers : v # w => worker'[v] = worker[v],
             Active(w)' => Fine(w)' \/ worker'[w].datum \in restart,
             Held(w) => Held(w)' /\ worker'[w].datum = worker[w].datum
      PROVE  CalmInv'
  BY <1>r, <1>t, CalmOwn DEF Settled
<1>1. CASE Take(w) \/ Quit(w)
  <2>1. /\ UNCHANGED <<rec, restart, request>>
        /\ \A v \in Workers : v # w => worker'[v] = worker[v]
        /\ worker'[w].step \in {"begin", "quit"} /\ worker[w].step = "idle"
    BY <1>1, <1>t DEF Take, Quit, Goto, At, Outside, WorkerRecords
  <2> QED
    BY <1>r, <2>1 DEF Active, Fine, Held
<1>2. CASE Begin(w)
  <2> DEFINE i == worker[w].datum
  <2>1. /\ UNCHANGED <<restart, request>> /\ rec' = [rec EXCEPT ![i] = "live"]
        /\ \A v \in Workers : v # w => worker'[v] = worker[v]
        /\ worker'[w].step = "loop" /\ worker'[w].attempt = 1 /\ worker[w].step = "begin"
    BY <1>2, <1>t DEF Begin, SetDatum, At, Outside, WorkerRecords
  <2>2. i \in Datums /\ ~Settled(i)
    BY <2>1, OwnDatum DEF Active
  <2>3. \A k \in Datums : rec'[k] # "failed" /\ (Settled(k) => Settled(k)')
    BY <1>t, <2>1, <2>2 DEF Settled
  <2>4. Fine(w)' /\ ~Held(w)
    BY <2>1 DEF Fine, Held
  <2> QED
    BY <2>1, <2>3, <2>4, CalmOwn
<1>3. CASE LoopCancelled(w) \/ StageFails(w) \/ ScanFails(w) \/ RemoteBreaks(w) \/ DatumTimeout(w)
  BY <1>3 DEF Calm, LoopCancelled, StageFails, ScanFails, RemoteBreaks, DatumTimeout
<1>4. CASE LoopRestart(w)
  <2> DEFINE i == worker[w].datum
  <2>1. /\ restart' = restart \ {i} /\ request' = request /\ rec' = [rec EXCEPT ![i] = "placeholder"]
        /\ \A v \in Workers : v # w => worker'[v] = worker[v]
        /\ worker'[w].step = "begin" /\ worker[w].step = "loop" /\ i \in restart
    BY <1>4, <1>t DEF LoopRestart, SetDatum, Goto, At, Outside, WorkerRecords
  <2>2. Active(w) /\ ~Held(w) /\ Fine(w)' /\ Active(w)'
    BY <2>1 DEF Active, Fine, Held
  <2>3. i \in Datums /\ ~Settled(i) /\ \A v \in Workers : Active(v) /\ worker[v].datum = i => v = w
    BY <2>2, OwnDatum
  <2> HIDE DEF i
  <2>4. \A v \in Workers : v # w => /\ (Active(v)' <=> Active(v)) /\ (Fine(v)' <=> Fine(v))
                                    /\ (Held(v)' <=> Held(v)) /\ worker'[v].datum = worker[v].datum
    BY <2>1 DEF Active, Fine, Held
  <2>5. \A k \in Datums : rec'[k] # "failed" /\ (Settled(k) => Settled(k)')
    BY <1>t, <2>1, <2>3 DEF Settled
  <2>6. \A v \in Workers : Active(v)' => Fine(v)' \/ worker'[v].datum \in restart'
    BY <2>1, <2>2, <2>3, <2>4 DEF CalmInv
  <2>7. ASSUME NEW d, Found(d) PROVE d # i /\ Found(d)'
    <3>1. CASE d \in Datums /\ Settled(d)
      BY <2>3, <2>5, <3>1 DEF Found
    <3>2. CASE \E v \in Workers : worker[v].datum = d /\ Held(v)
      <4>1. PICK v \in Workers : worker[v].datum = d /\ Held(v)
        BY <3>2
      <4>2. v # w /\ Active(v)
        BY <2>2, <4>1 DEF Held, Active
      <4> QED
        BY <2>3, <2>4, <4>1, <4>2 DEF Found
    <3> QED
      BY <2>7, <3>1, <3>2 DEF Found
  <2>8. \A q \in Requests : RequestInv(q)'
    BY <2>1, <2>7 DEF CalmInv, RequestInv
  <2> QED
    BY <2>1, <2>5, <2>6, <2>8 DEF CalmInv
<1>5. CASE LoopExhausted(w)
  <2>1. Active(w) /\ ~Fine(w) /\ worker[w].datum \notin restart
    BY <1>5, <1>t DEF LoopExhausted, At, Active, Fine, WorkerRecords
  <2> QED
    BY <1>t, <2>1
<1>6. CASE LoopAttempt(w) \/ Stage(w)
  <2>1. /\ UNCHANGED <<rec, restart, request>>
        /\ \A v \in Workers : v # w => worker'[v] = worker[v]
        /\ worker'[w].datum = worker[w].datum /\ worker'[w].attempt = worker[w].attempt
        /\ worker[w].step \in {"loop", "stage"} /\ worker'[w].step \in {"remote", "stage", "starting"}
    BY <1>6, <1>t DEF LoopAttempt, Stage, Goto, At, Outside, WorkerRecords
  <2> QED
    BY <1>r, <1>t, <2>1 DEF Active, Fine, Held
<1>7. CASE ContainerStarts(w)
  <2>1. /\ UNCHANGED <<rec, restart, request>>
        /\ \A v \in Workers : v # w => worker'[v] = worker[v]
        /\ worker'[w].datum = worker[w].datum /\ worker'[w].attempt = worker[w].attempt
        /\ \/ worker[w].step = "starting" /\ worker'[w].step = "running"
           \/ worker[w].step = "errStarting" /\ worker'[w].step = "errRunning"
    BY <1>7, <1>t DEF ContainerStarts, Goto, At, Outside, WorkerRecords
  <2> QED
    BY <1>r, <1>t, <2>1 DEF Active, Fine, Held
<1>8. ASSUME NEW ok \in BOOLEAN, ContainerEnds(w, ok) \/ ErrCmdEnds(w, ok) PROVE CalmInv'
  <2>1. ok
    BY <1>8 DEF ContainerEnds, ErrCmdEnds, Calm
  <2>2. /\ UNCHANGED <<rec, restart, request>>
        /\ \A v \in Workers : v # w => worker'[v] = worker[v]
        /\ worker'[w].datum = worker[w].datum /\ worker'[w].attempt = worker[w].attempt
        /\ worker'[w].ok = ok
        /\ \/ worker[w].step = "running" /\ worker'[w].step = "ended"
           \/ worker[w].step = "errRunning" /\ worker'[w].step = "errEnded"
    BY <1>8, <1>t DEF ContainerEnds, ErrCmdEnds, At, Outside, WorkerRecords
  <2> QED
    BY <1>r, <1>t, <2>1, <2>2 DEF Active, Fine, Held
<1>9. ASSUME UNCHANGED <<restart, request>>, NEW o \in {"success", "recovered"}, Active(w), Conclude(w, o)
      PROVE  CalmInv'
  <2>1. /\ worker' = [worker EXCEPT ![w] = IdleWorker] /\ rec' = [rec EXCEPT ![worker[w].datum] = o]
    BY <1>9 DEF Conclude, SetDatum
  <2>2. /\ \A v \in Workers : v # w => worker'[v] = worker[v]
        /\ ~Active(w)'
    BY <1>t, <2>1 DEF Active, IdleWorker
  <2>3. worker[w].datum \in Datums
    BY <1>9, OwnDatum
  <2>4. /\ \A k \in Datums : rec'[k] # "failed" /\ (Settled(k) => Settled(k)')
        /\ \E i \in Datums : i = worker[w].datum /\ Settled(i)'
    BY <1>t, <2>1, <2>3 DEF Settled
  <2> QED
    BY <1>9, <2>2, <2>4, CalmOwn
<1>10. ASSUME UNCHANGED <<restart, request>>, Active(w), ~Fine(w), Conclude(w, "failed")
       PROVE  CalmInv'
  <2>1. /\ \A v \in Workers : v # w => worker'[v] = worker[v]
        /\ worker'[w].datum = worker[w].datum /\ rec' = rec
    BY <1>10, <1>t DEF Conclude, WorkerRecords
  <2> QED
    BY <1>10, <1>r, <1>t, <2>1 DEF Held
<1>11. CASE AttemptReturns(w)
  <2>1. UNCHANGED <<restart, request>> /\ Active(w)
    BY <1>11 DEF AttemptReturns, Outside, At, Active
  <2>2. \/ \E o \in {"success", "recovered"} : Conclude(w, o)
        \/ ~Fine(w) /\ Conclude(w, "failed")
        \/ ~Fine(w) /\ Goto(w, "errStarting") /\ rec' = rec
    BY <1>11 DEF AttemptReturns, At, Fine
  <2>3. ASSUME ~Fine(w), Goto(w, "errStarting"), rec' = rec PROVE CalmInv'
    <3>1. /\ \A v \in Workers : v # w => worker'[v] = worker[v]
          /\ worker'[w].datum = worker[w].datum
      BY <1>t, <2>3 DEF Goto, WorkerRecords
    <3> QED
      BY <1>r, <1>t, <2>1, <2>3, <3>1 DEF Held
  <2> QED
    BY <1>9, <1>10, <2>1, <2>2, <2>3
<1>12. ASSUME NEW o \in {"success", "recovered", "failed"}, RemoteAnswers(w, o) PROVE CalmInv'
  <2>1. o # "failed" /\ Conclude(w, o) /\ UNCHANGED <<restart, request>> /\ Active(w)
    BY <1>12 DEF RemoteAnswers, Calm, Outside, At, Active
  <2> QED
    BY <1>9, <2>1
<1> QED
  BY <1>1, <1>2, <1>3, <1>4, <1>5, <1>6, <1>7, <1>8, <1>11, <1>12 DEF WorkerStep

(* The steps of the one request.                                           *)
LEMMA CalmRequest ==
  ASSUME PoolInv, CalmInv, RequestTypes, \A q, r \in Requests : q = r,
         NEW q \in Requests, RequestStep(q)
  PROVE  CalmInv'
<1>u. UNCHANGED <<rec, tries>>
  BY DEF RequestStep, LookupFails, requestRestart, RestartKill, RestartGivesUp, LookupActive, Inside
<1>0. ASSUME worker' = worker, restart' = restart, RequestInv(q)',
             request'[q].step \in {"lookup", "flag"} => request[q].step \in {"lookup", "flag"}
      PROVE  CalmInv'
  BY <1>u, <1>0 DEF CalmInv, Active, Fine
<1>1. CASE LookupFails(q) \/ RestartGivesUp(q)
  <2>1. worker' = worker /\ restart' = restart /\ request'[q].step = "over"
    BY <1>1 DEF LookupFails, RestartGivesUp, RequestTypes
  <2> QED
    BY <1>0, <2>1 DEF RequestInv
<1>2. ASSUME NEW w \in Workers, LookupActive(q, w) PROVE CalmInv'
  <2>1. /\ worker' = worker /\ restart' = restart /\ request[q].step = "lookup" /\ rec' = rec
        /\ request'[q] = [step |-> "flag", datum |-> worker[w].datum, name |-> Primary(w)]
        /\ Primary(w) \in Registered(w)
    BY <1>2 DEF LookupActive, Inside, RequestTypes
  <2>2. restart = {}
    BY <2>1 DEF CalmInv
  <2>3. worker[w].step \in {"starting", "running", "ended", "errStarting", "errRunning", "errEnded"}
    BY <2>1 DEF Registered
  <2>4. Fine(w)
    BY <2>2, <2>3 DEF CalmInv, Active
  <2>5. Held(w)
    BY <2>3, <2>4 DEF Held, Fine
  <2>6. PICK d : d = worker[w].datum
    OBVIOUS
  <2>7. Found(d)' /\ worker[w].attempt \in Nat
    BY <2>1, <2>5, <2>6 DEF Found, Held, Fine, PoolInv, PoolTypes, WorkerRecords
  <2>8. /\ request'[q].step = "flag" /\ request'[q].datum = d
        /\ request'[q].name = <<d, worker[w].attempt, FALSE>>
    <3>1. request'[q].step = "flag" /\ request'[q].datum = d /\ request'[q].name = Primary(w)
      BY <2>1, <2>6
    <3>2. Primary(w) = <<d, worker[w].attempt, FALSE>>
      BY <2>6, Zenon DEF Primary, Name
    <3> QED
      BY <3>1, <3>2, Zenon
  <2>9. RequestInv(q)'
    BY <2>7, <2>8 DEF RequestInv
  <2> QED
    BY <1>0, <2>1, <2>9
<1>3. CASE requestRestart(q)
  <2>0. PICK d : d = request[q].datum
    OBVIOUS
  <2>1. /\ worker' = worker /\ restart' = restart \cup {d} /\ request[q].step = "flag" /\ rec' = rec
        /\ request' = [request EXCEPT ![q].step = "kill"]
    BY <1>3, <2>0 DEF requestRestart, Inside
  <2>2. request'[q].step = "kill" /\ request'[q].datum = d /\ request'[q].name = request[q].name
    BY <2>0, <2>1 DEF RequestTypes
  <2>3. Found(d)' /\ \E a \in Nat : request[q].name = <<d, a, FALSE>>
    BY <2>0, <2>1 DEF CalmInv, RequestInv, Found, Held, Fine, Settled
  <2>4. RequestInv(q)'
    <3>1. d \in restart'
      BY <2>1
    <3> QED
      BY <2>2, <2>3, <3>1, Zenon DEF RequestInv
  <2> QED
    BY <2>1, <2>2, <2>4 DEF CalmInv, Active, Fine
<1>4. CASE RestartKill(q)
  <2> DEFINE d == request[q].datum
  <2>1. /\ KillAll({request[q].name}) /\ restart' = restart /\ request[q].step = "kill" /\ rec' = rec
        /\ request'[q].step = "over"
    BY <1>4 DEF RestartKill, Kill, Inside, RequestTypes
  <2>2. d \in restart /\ \E a \in Nat : request[q].name = <<d, a, FALSE>>
    BY <2>1 DEF CalmInv, RequestInv
  <2>3. ASSUME NEW w \in Workers, Active(w)' PROVE Fine(w)' \/ worker'[w].datum \in restart'
    <3>1. CASE Running(w, request[q].name)
      <4>1. worker[w].datum = d
        BY <2>2, <3>1 DEF Running, Primary, ErrName, Name
      <4>2. worker'[w].datum = worker[w].datum
        BY <2>1, <3>1 DEF KillAll, PoolInv, PoolTypes, WorkerRecords
      <4> QED
        BY <2>1, <2>2, <4>1, <4>2
    <3>2. CASE ~Running(w, request[q].name)
      <4>1. worker'[w] = worker[w]
        BY <2>1, <3>2 DEF KillAll
      <4> QED
        BY <2>1, <2>3, <4>1 DEF CalmInv, Active, Fine
    <3> QED
      BY <3>1, <3>2
  <2>4. \A r \in Requests : RequestInv(r)'
    BY <2>1 DEF RequestInv
  <2> QED
    BY <2>1, <2>3, <2>4 DEF CalmInv
<1> QED
  BY <1>1, <1>2, <1>3, <1>4 DEF RequestStep

(* The requests stay well formed.                                          *)
LEMMA RequestTypesStep ==
  ASSUME PoolInv, RequestTypes, NEW q \in Requests, RequestStep(q) PROVE RequestTypes'
<1>1. CASE LookupFails(q) \/ RestartGivesUp(q) \/ RestartKill(q)
  BY <1>1 DEF LookupFails, RestartGivesUp, RestartKill, RequestTypes
<1>2. CASE requestRestart(q)
  BY <1>2 DEF requestRestart, RequestTypes
<1>3. ASSUME NEW w \in Workers, LookupActive(q, w) PROVE RequestTypes'
  <2>1. worker[w].datum \in 0 .. N /\ worker[w].attempt \in Nat
    BY DEF PoolInv, PoolTypes, WorkerRecords
  <2>2. Primary(w) \in (0 .. N) \X Nat \X BOOLEAN
    BY <2>1 DEF Primary, Name
  <2> QED
    BY <1>3, <2>1, <2>2 DEF LookupActive, RequestTypes
<1> QED
  BY <1>1, <1>2, <1>3 DEF RequestStep

LEMMA HarmInit == Init => HarmInv
<1> SUFFICES ASSUME Init PROVE HarmInv
  OBVIOUS
<1>1. \A w \in Workers : ~Active(w)
  BY DEF Init, Active, IdleWorker
<1>2. \A q \in Requests : request[q].step = "lookup"
  BY DEF Init
<1>3. CalmInv
  BY <1>1, <1>2 DEF Init, CalmInv, RequestInv
<1> QED
  BY <1>3, PoolAssumption DEF Init, HarmInv, RequestTypes

(* With one request, every step of the pool keeps that invariant too.      *)
LEMMA HarmStep ==
  ASSUME \A q, r \in Requests : q = r
  PROVE  PoolInv /\ HarmInv /\ [Next]_vars => HarmInv'
<1> SUFFICES ASSUME PoolInv, HarmInv, [Next]_vars PROVE HarmInv'
  OBVIOUS
<1>1. /\ tries' = tries /\ RequestTypes'
      /\ killLoop' = "on" => cancelled'
  <2>1. CASE feed \/ UNCHANGED vars
    BY <2>1 DEF feed, Outside, vars, HarmInv, RequestTypes
  <2>2. ASSUME NEW w \in Workers, \/ Take(w) \/ Quit(w) \/ Begin(w) \/ LoopCancelled(w) \/ LoopRestart(w)
                                  \/ LoopAttempt(w) \/ LoopExhausted(w) \/ Stage(w) \/ StageFails(w)
                                  \/ ContainerStarts(w) \/ AttemptReturns(w) \/ ScanFails(w)
                                  \/ RemoteBreaks(w) \/ DatumTimeout(w)
                                  \/ \E o : ContainerEnds(w, o) \/ ErrCmdEnds(w, o) \/ RemoteAnswers(w, o)
        PROVE  UNCHANGED <<tries, request, killLoop, cancelled>>
    BY <2>2 DEF Take, Quit, Begin, LoopCancelled, LoopRestart, LoopAttempt, LoopExhausted, Stage,
                StageFails, ContainerStarts, AttemptReturns, ScanFails, RemoteBreaks, DatumTimeout,
                ContainerEnds, ErrCmdEnds, RemoteAnswers, Outside
  <2>3. ASSUME NEW q \in Requests, RequestStep(q)
        PROVE  /\ UNCHANGED <<tries, killLoop, cancelled>> /\ RequestTypes'
    BY <2>3, RequestTypesStep DEF RequestStep, LookupFails, requestRestart, RestartKill, RestartGivesUp, LookupActive,
                Inside, HarmInv
  <2>4. CASE Cancel \/ KillRound \/ JobTimeout
    BY <2>4 DEF Cancel, KillRound, JobTimeout, Inside, HarmInv, RequestTypes
  <2> QED
    BY <2>1, <2>2, <2>3, <2>4 DEF Next, WorkerStep, HarmInv, RequestTypes
<1>2. ASSUME Calm' PROVE CalmInv'
  <2>1. Calm /\ CalmInv
    BY <1>2, CalmBefore DEF HarmInv
  <2>2. ASSUME UNCHANGED <<worker, rec, restart, request>> PROVE CalmInv'
    BY <2>1, <2>2 DEF CalmInv, RequestInv, Found, Active, Fine, Held, Settled
  <2>3. CASE feed \/ UNCHANGED vars
    BY <2>2, <2>3 DEF feed, Outside, vars
  <2>4. ASSUME NEW w \in Workers, \/ WorkerStep(w) \/ DatumTimeout(w)
                                  \/ \E ok \in BOOLEAN : ContainerEnds(w, ok) \/ ErrCmdEnds(w, ok)
        PROVE  CalmInv'
    BY <1>2, <2>1, <2>4, CalmWorker DEF HarmInv
  <2>5. ASSUME NEW q \in Requests, RequestStep(q) PROVE CalmInv'
    BY <2>1, <2>5, CalmRequest DEF HarmInv
  <2>6. CASE Cancel \/ KillRound \/ JobTimeout
    BY <1>2, <2>1, <2>6 DEF Calm, Cancel, KillRound, JobTimeout, HarmInv
  <2> QED
    BY <2>3, <2>4, <2>5, <2>6 DEF Next
<1> QED
  BY <1>1, <1>2 DEF HarmInv

LEMMA HarmlessInv == HarmInv => RestartHarmless
BY DEF HarmInv, CalmInv, Calm, RestartHarmless

(* When no command fails and neither a timeout, a cancel nor the host      *)
(* interferes, a request to restart a datum fails none (datum_api.go:      *)
(* "the job still completes successfully"), if it is the job's only one.   *)
THEOREM RestartFailsNone ==
  ASSUME \A q, r \in Requests : q = r
  PROVE  Spec => []RestartHarmless
<1>1. PoolInv /\ HarmInv /\ [Next]_vars => PoolInv' /\ HarmInv'
  BY PoolStep, HarmStep
<1>2. Spec => [](PoolInv /\ HarmInv)
  BY <1>1, PoolInit, HarmInit, PTL DEF Spec
<1> QED
  BY <1>2, HarmlessInv, PTL

----------------------------------------------------------------------------
(* The execution host.                                                     *)

Holds(j) == state[j] \in {"placed", "cancelled"}

(* A job that is placed holds as many devices as its pool has slots times  *)
(* the share of a slot, no device twice and none that another job holds;   *)
(* a call is under way for placed jobs only.                               *)
HostInv ==
  /\ state \in [HostJobs -> {"waiting", "placed", "cancelled", "settled"}]
  /\ DOMAIN gpus = HostJobs
  /\ call \in [Host!Pools -> [n : Nat, step : {"idle", "calling"} \cup Host!Ends]]
  /\ \A j \in HostJobs : Holds(j) => gpus[j] \in [1 .. Host!Wanted(j) -> Devices]
  /\ \A j \in HostJobs : ~Holds(j) => gpus[j] = <<>>
  /\ \A j \in HostJobs : \A i, k \in DOMAIN gpus[j] : gpus[j][i] = gpus[j][k] => i = k
  /\ \A j, l \in HostJobs : j # l =>
       \A i \in DOMAIN gpus[j], k \in DOMAIN gpus[l] : gpus[j][i] # gpus[l][k]
  /\ \A j \in HostJobs : \A s \in Host!Slots(j) :
       call[<<j, s>>].step = "calling" => Holds(j)

(* The slots of the pools, and the attempts of each slot.                  *)
LEMMA PoolsAndAttempts ==
  /\ \A p \in Host!Pools : \E j \in HostJobs : \E s \in Host!Slots(j) : p = <<j, s>>
  /\ \A j \in HostJobs : \A s \in Host!Slots(j) : <<j, s>> \in Host!Pools
  /\ \A a \in Host!Attempts :
       /\ a = <<a[1], a[2], a[3]>>
       /\ a[1] \in HostJobs /\ a[2] \in Host!Slots(a[1]) /\ <<a[1], a[2]>> \in Host!Pools
<1>1. \A p \in Host!Pools : \E j \in HostJobs : \E s \in Host!Slots(j) : p = <<j, s>>
  BY DEF Host!Pools
<1>2. \A j \in HostJobs : \A s \in Host!Slots(j) : <<j, s>> \in Host!Pools
  BY DEF Host!Pools
<1>3. ASSUME NEW a \in Host!Attempts
      PROVE  /\ a = <<a[1], a[2], a[3]>>
             /\ a[1] \in HostJobs /\ a[2] \in Host!Slots(a[1]) /\ <<a[1], a[2]>> \in Host!Pools
  <2>1. PICK p \in Host!Pools, n \in 1 .. MaxAttempts : a = <<p[1], p[2], n>>
    BY DEF Host!Attempts
  <2>2. PICK j \in HostJobs : \E s \in Host!Slots(j) : p = <<j, s>>
    BY <1>1
  <2>3. PICK s \in Host!Slots(j) : p = <<j, s>>
    BY <2>2
  <2> QED
    BY <1>2, <2>1, <2>3
<1> QED
  BY <1>1, <1>2, <1>3

(* What one slot of a pool has lies behind what the slots before it have.  *)
LEMMA SharesInOrder ==
  ASSUME NEW n \in Nat, NEW s \in 1 .. n, NEW t \in 1 .. n, s < t, NEW per \in Nat
  PROVE  s * per <= (t - 1) * per
<1>1. PICK d \in Nat : t - 1 = s + d
  <2>1. t - 1 - s \in Nat /\ t - 1 = s + (t - 1 - s)
    OBVIOUS
  <2> QED
    BY <2>1
<1>2. (s + d) * per = s * per + d * per /\ s * per \in Nat /\ d * per \in Nat
  OBVIOUS
<1> QED
  BY <1>1, <1>2

(* The share of a slot: a stretch of the job's devices.                    *)
LEMMA ShareOfSlot ==
  ASSUME NEW a \in Host!Attempts, HostInv, Holds(a[1]), NEW d \in Host!GpusOf(a)
  PROVE  \E k \in DOMAIN gpus[a[1]] :
           (a[2] - 1) * Per + 1 <= k /\ k <= a[2] * Per /\ d = gpus[a[1]][k]
<1> DEFINE j == a[1]
           m == (a[2] - 1) * Per + 1
           n == a[2] * Per
<1>1. j \in HostJobs /\ a[2] \in 1 .. HostParallelism[j] /\ HostParallelism[j] \in Nat /\ Per \in Nat
  BY PoolsAndAttempts, ProgressAssumption DEF Host!Slots
<1>2. m \in Int /\ n \in Int /\ m >= 1 /\ n <= HostParallelism[j] * Per
      /\ HostParallelism[j] * Per \in Nat
  <2>1. (a[2] - 1) * Per \in Nat /\ a[2] * Per \in Nat /\ HostParallelism[j] * Per \in Nat
    BY <1>1
  <2>2. PICK e \in Nat : HostParallelism[j] = a[2] + e
    <3>1. HostParallelism[j] - a[2] \in Nat /\ HostParallelism[j] = a[2] + (HostParallelism[j] - a[2])
      BY <1>1
    <3> QED
      BY <3>1
  <2>3. (a[2] + e) * Per = a[2] * Per + e * Per /\ e * Per \in Nat
    BY <1>1
  <2> QED
    BY <2>1, <2>2, <2>3
<1>3. gpus[j] \in [1 .. (HostParallelism[j] * Per) -> Devices]
  BY <1>1 DEF HostInv, Host!Wanted
<1>4. \A i \in m .. n : i \in DOMAIN gpus[j] /\ gpus[j][i] \in Devices
  BY <1>2, <1>3
<1> HIDE DEF m, n
<1>5. /\ SubSeq(gpus[j], m, n) \in Seq(Devices)
      /\ Len(SubSeq(gpus[j], m, n)) = IF m <= n THEN n - m + 1 ELSE 0
      /\ \A i \in 1 .. n - m + 1 : SubSeq(gpus[j], m, n)[i] = gpus[j][m + i - 1]
  BY <1>2, <1>4, SubSeqProperties
<1>6. d \in {SubSeq(gpus[j], m, n)[i] : i \in DOMAIN SubSeq(gpus[j], m, n)}
  BY DEF Host!GpusOf, Host!ToSet, m, n
<1>7. PICK i \in DOMAIN SubSeq(gpus[j], m, n) : d = SubSeq(gpus[j], m, n)[i]
  BY <1>6
<1>8. m <= n /\ i \in 1 .. n - m + 1
  BY <1>2, <1>5, <1>7
<1>9. m + i - 1 \in m .. n /\ d = gpus[j][m + i - 1]
  BY <1>2, <1>5, <1>7, <1>8
<1> QED
  BY <1>2, <1>4, <1>9 DEF m, n

(* Attempts in flight are of different slots, and the shares of different  *)
(* slots are disjoint stretches, or of different jobs.                     *)
LEMMA HostApart == HostInv => Host!DatumsApart
<1> SUFFICES ASSUME HostInv, NEW a \in Host!Attempts, NEW b \in Host!Attempts, a # b,
                    Host!InFlight(a), Host!InFlight(b),
                    NEW d \in Host!GpusOf(a), d \in Host!GpusOf(b)
             PROVE  FALSE
  BY DEF Host!DatumsApart
<1>1. /\ a = <<a[1], a[2], a[3]>> /\ b = <<b[1], b[2], b[3]>>
      /\ a[1] \in HostJobs /\ b[1] \in HostJobs
      /\ a[2] \in Host!Slots(a[1]) /\ b[2] \in Host!Slots(b[1])
  BY PoolsAndAttempts
<1>2. Holds(a[1]) /\ Holds(b[1])
  BY <1>1 DEF HostInv, Host!InFlight
<1>3. PICK k \in DOMAIN gpus[a[1]] :
        (a[2] - 1) * Per + 1 <= k /\ k <= a[2] * Per /\ d = gpus[a[1]][k]
  BY <1>2, ShareOfSlot
<1>4. PICK l \in DOMAIN gpus[b[1]] :
        (b[2] - 1) * Per + 1 <= l /\ l <= b[2] * Per /\ d = gpus[b[1]][l]
  BY <1>2, ShareOfSlot
<1>5. a[1] = b[1] /\ k = l
  <2>1. /\ \A i, j \in HostJobs : i # j =>
             \A x \in DOMAIN gpus[i], y \in DOMAIN gpus[j] : gpus[i][x] # gpus[j][y]
        /\ \A j \in HostJobs : \A x, y \in DOMAIN gpus[j] : gpus[j][x] = gpus[j][y] => x = y
    BY DEF HostInv
  <2>2. a[1] = b[1]
    BY <1>1, <1>3, <1>4, <2>1
  <2> QED
    BY <1>1, <1>3, <1>4, <2>1, <2>2
<1>6. a[2] # b[2]
  BY <1>1, <1>5 DEF Host!InFlight, Host!Current
<1>7. /\ a[2] \in 1 .. HostParallelism[a[1]] /\ b[2] \in 1 .. HostParallelism[a[1]]
      /\ HostParallelism[a[1]] \in Nat /\ Per \in Nat /\ k \in Int
  BY <1>1, <1>2, <1>3, <1>5, ProgressAssumption DEF Host!Slots, Host!Wanted, HostInv
<1>8. a[2] * Per \in Int /\ b[2] * Per \in Int /\ (a[2] - 1) * Per \in Int /\ (b[2] - 1) * Per \in Int
  BY <1>7
<1>9. CASE a[2] < b[2]
  <2>1. a[2] * Per <= (b[2] - 1) * Per
    BY <1>7, <1>9, SharesInOrder
  <2> QED
    BY <1>3, <1>4, <1>5, <1>7, <1>8, <2>1
<1>10. CASE b[2] < a[2]
  <2>1. b[2] * Per <= (a[2] - 1) * Per
    BY <1>7, <1>10, SharesInOrder
  <2> QED
    BY <1>3, <1>4, <1>5, <1>7, <1>8, <2>1
<1> QED
  BY <1>6, <1>7, <1>9, <1>10

(* The host's invariant is inductive.                                      *)
LEMMA HostStep == HostInv /\ [Host!Next]_hostVars => HostInv'
<1> SUFFICES ASSUME HostInv, [Host!Next]_hostVars PROVE HostInv'
  OBVIOUS
<1>c. ASSUME NEW a \in Host!Attempts, NEW outcome \in Host!Ends, Host!Return(a, outcome)
      PROVE  /\ call' \in [Host!Pools -> [n : Nat, step : {"idle", "calling"} \cup Host!Ends]]
             /\ \A p \in Host!Pools : call'[p].step = "calling" => call[p].step = "calling"
  <2>1. <<a[1], a[2]>> \in Host!Pools
    BY PoolsAndAttempts
  <2>2. PICK p \in Host!Pools : p = <<a[1], a[2]>>
    BY <2>1
  <2>3. call' = [call EXCEPT ![p].step = outcome] /\ outcome # "calling"
    BY <1>c, <2>2 DEF Host!Return, Host!Ends
  <2> QED
    BY <2>3 DEF HostInv
<1>q. ASSUME UNCHANGED <<gpus, state>>,
             call' \in [Host!Pools -> [n : Nat, step : {"idle", "calling"} \cup Host!Ends]],
             \A p \in Host!Pools : call'[p].step = "calling" => call[p].step = "calling"
      PROVE  HostInv'
  BY <1>q, PoolsAndAttempts DEF HostInv, Holds, Host!Wanted, Host!Slots
<1>1. ASSUME NEW j \in HostJobs, Host!Place(j) PROVE HostInv'
  <2> DEFINE n == Host!Wanted(j)
  <2>1. PICK q \in Host!Least(Devices \ Host!Busy, n) : gpus' = [gpus EXCEPT ![j] = q]
    BY <1>1 DEF Host!Place
  <2>2. /\ state[j] = "waiting" /\ state' = [state EXCEPT ![j] = "placed"] /\ call' = call
    BY <1>1 DEF Host!Place
  <2>3. n \in Nat
    BY ProgressAssumption DEF Host!Wanted
  <2>4. /\ q \in [1 .. n -> Devices]
        /\ \A i, k \in 1 .. n : i < k => q[i] < q[k]
        /\ \A i \in 1 .. n : q[i] \notin Host!Busy
    BY DEF Host!Least
  <2> HIDE DEF n
  <2>5. \A i, k \in 1 .. n : q[i] = q[k] => i = k
    <3> SUFFICES ASSUME NEW i \in 1 .. n, NEW k \in 1 .. n, i < k PROVE q[i] # q[k]
      BY <2>3
    <3>1. q[i] < q[k] /\ q[i] \in Int /\ q[k] \in Int
      BY <2>4, ProgressAssumption
    <3> QED
      BY <3>1
  <2>6. \A l \in HostJobs : l # j => \A i \in DOMAIN gpus[l] : gpus[l][i] \in Host!Busy
    BY DEF Host!Busy, Host!ToSet
  <2>7. /\ \A l \in HostJobs : gpus'[l] = IF l = j THEN q ELSE gpus[l]
        /\ \A l \in HostJobs : state'[l] = IF l = j THEN "placed" ELSE state[l]
    BY <2>1, <2>2 DEF HostInv
  <2>8. \A l \in HostJobs : Holds(l)' <=> Holds(l) \/ l = j
    BY <2>7 DEF Holds
  <2>9. /\ state' \in [HostJobs -> {"waiting", "placed", "cancelled", "settled"}]
        /\ DOMAIN gpus' = HostJobs
    BY <2>1, <2>2 DEF HostInv
  <2>10. \A l \in HostJobs : Holds(l)' => gpus'[l] \in [1 .. Host!Wanted(l) -> Devices]
    BY <2>4, <2>7, <2>8 DEF HostInv, n
  <2>11. \A l \in HostJobs : ~Holds(l)' => gpus'[l] = <<>>
    BY <2>7, <2>8 DEF HostInv
  <2>12. \A l \in HostJobs : \A i, k \in DOMAIN gpus'[l] : gpus'[l][i] = gpus'[l][k] => i = k
    <3> SUFFICES ASSUME NEW l \in HostJobs, NEW i \in DOMAIN gpus'[l], NEW k \in DOMAIN gpus'[l],
                        gpus'[l][i] = gpus'[l][k]
                 PROVE  i = k
      OBVIOUS
    <3>1. CASE l = j
      BY <2>4, <2>5, <2>7, <3>1
    <3>2. CASE l # j
      BY <2>7, <3>2 DEF HostInv
    <3> QED
      BY <3>1, <3>2
  <2>13. ASSUME NEW k \in HostJobs, NEW l \in HostJobs, k # l,
                NEW x \in DOMAIN gpus'[k], NEW y \in DOMAIN gpus'[l]
         PROVE  gpus'[k][x] # gpus'[l][y]
    <3>1. CASE k = j
      BY <2>4, <2>6, <2>7, <2>13, <3>1
    <3>2. CASE l = j
      BY <2>4, <2>6, <2>7, <2>13, <3>2
    <3>3. CASE k # j /\ l # j
      BY <2>7, <2>13, <3>3 DEF HostInv
    <3> QED
      BY <3>1, <3>2, <3>3
  <2>14. \A l \in HostJobs : \A s \in Host!Slots(l) : call'[<<l, s>>].step = "calling" => Holds(l)'
    BY <2>2, <2>8 DEF HostInv
  <2> QED
    BY <2>2, <2>9, <2>10, <2>11, <2>12, <2>13, <2>14 DEF HostInv
<1>2. ASSUME NEW j \in HostJobs, Host!NoHost(j) PROVE HostInv'
  BY <1>2, <1>q DEF Host!NoHost, HostInv
<1>3. ASSUME NEW j \in HostJobs, Host!Cancel(j) PROVE HostInv'
  <2>1. /\ \A l \in HostJobs : Holds(l)' <=> Holds(l)
        /\ state' \in [HostJobs -> {"waiting", "placed", "cancelled", "settled"}]
    BY <1>3 DEF Host!Cancel, HostInv, Holds
  <2>2. gpus' = gpus /\ call' = call
    BY <1>3 DEF Host!Cancel
  <2> QED
    BY <2>1, <2>2 DEF HostInv
<1>4. ASSUME NEW j \in HostJobs, Host!Settle(j) PROVE HostInv'
  <2>1. /\ state' = [state EXCEPT ![j] = "settled"] /\ gpus' = [gpus EXCEPT ![j] = <<>>]
        /\ call' = call /\ \A s \in Host!Slots(j) : call[<<j, s>>].step # "calling"
    BY <1>4 DEF Host!Settle
  <2>2. /\ \A l \in HostJobs : Holds(l)' <=> Holds(l) /\ l # j
        /\ \A l \in HostJobs : gpus'[l] = IF l = j THEN <<>> ELSE gpus[l]
        /\ state' \in [HostJobs -> {"waiting", "placed", "cancelled", "settled"}]
        /\ DOMAIN gpus' = HostJobs
    BY <2>1 DEF HostInv, Holds
  <2>3. DOMAIN <<>> = {}
    OBVIOUS
  <2> QED
    BY <2>1, <2>2, <2>3 DEF HostInv
<1>5. ASSUME NEW j \in HostJobs, NEW s \in Host!Slots(j), Host!Send(j, s) PROVE HostInv'
  <2>1. /\ Holds(j) /\ UNCHANGED <<gpus, state>> /\ <<j, s>> \in Host!Pools
        /\ call' = [call EXCEPT ![<<j, s>>] = [n |-> call[<<j, s>>].n + 1, step |-> "calling"]]
    BY <1>5, PoolsAndAttempts DEF Host!Send, Holds
  <2>2. call' \in [Host!Pools -> [n : Nat, step : {"idle", "calling"} \cup Host!Ends]]
    BY <2>1 DEF HostInv
  <2>3. \A l \in HostJobs : Holds(l)' <=> Holds(l)
    BY <2>1 DEF Holds
  <2>4. \A l \in HostJobs : \A t \in Host!Slots(l) : call'[<<l, t>>].step = "calling" => Holds(l)'
    BY <2>1, <2>3, PoolsAndAttempts DEF HostInv
  <2> QED
    BY <2>1, <2>2, <2>3, <2>4 DEF HostInv
<1>6. ASSUME NEW a \in Host!Attempts, Host!Answer(a) PROVE HostInv'
  <2>1. Host!Outcome(run[a]) \in Host!Ends
    BY DEF Host!Outcome, Host!Ends
  <2>2. UNCHANGED <<gpus, state>> /\ (Host!Return(a, Host!Outcome(run[a])) \/ call' = call)
    BY <1>6 DEF Host!Answer
  <2> QED
    BY <1>c, <1>q, <2>1, <2>2 DEF HostInv
<1>7. ASSUME NEW a \in Host!Attempts, Host!HostError(a) PROVE HostInv'
  <2>1. UNCHANGED <<gpus, state>> /\ Host!Return(a, "hosterror") /\ "hosterror" \in Host!Ends
    BY <1>7 DEF Host!HostError, Host!Ends
  <2> QED
    BY <1>c, <1>q, <2>1
<1>8. ASSUME NEW a \in Host!Attempts, NEW code \in 0 .. 1,
             \/ Host!StartRun(a) \/ Host!TimerKills(a)
             \/ Host!CommandEnds(a, code) \/ Host!ErrCmdEnds(a, code)
      PROVE  HostInv'
  <2>1. UNCHANGED <<gpus, state, call>>
    BY <1>8 DEF Host!StartRun, Host!TimerKills, Host!CommandEnds, Host!ErrCmdEnds
  <2> QED
    BY <1>q, <2>1 DEF HostInv
<1>9. CASE UNCHANGED hostVars
  BY <1>9, <1>q DEF hostVars, HostInv
<1> QED
  BY <1>1, <1>2, <1>3, <1>4, <1>5, <1>6, <1>7, <1>8, <1>9
     DEF Host!Next, Host!Deadline, Host!ConnectionBreaks, Host!CancelInterrupts

----------------------------------------------------------------------------
(* The flush.                                                              *)

Spawned == {i \in Wait!Stages : waveJob[i].state # "none"}
Done(i) == waveJob[i].out = "finished" /\ waveJob[i].state \in {"success", "failure"}

JobRecords == [state : {"none", "queued", "running", "success", "failure", "killed"},
               out : {"none", "open", "finished"}]

WaveTypes ==
  /\ mode \in [Wait!Stages -> {"running", "standby", "stopped"}]
  /\ waveJob \in [Wait!Stages -> JobRecords]
  /\ owed \subseteq 0 .. ChainLength

(* A consumer is owed to a stage that is done, or to the flushed commit,   *)
(* and is spawned once: the stages before a job are done, and none of its  *)
(* triggers is owed any more.                                              *)
WaveInv ==
  /\ WaveTypes
  /\ \A i \in owed : i = 0 \/ Done(i)
  /\ \A i \in Wait!Stages : waveJob[i].state # "none" =>
       i - 1 \notin owed /\ \A k \in Wait!Stages : k < i => Done(k)

(* No job waits without an output commit, none fails, and the pipeline     *)
(* that consumes the flushed commit runs.                                  *)
Smooth == ~queues /\ ~Wait!Failed /\ mode[1] = "running"

SmoothJob(i) ==
  /\ waveJob[i].state \in {"none", "running", "success"}
  /\ waveJob[i].out = "none" <=> waveJob[i].state = "none"
  /\ waveJob[i].state = "success" => waveJob[i].out = "finished"

(* Nothing more comes of the jobs the flush has read.                      *)
Closed ==
  \A i \in flush.relevant :
    i = ChainLength \/ mode[i + 1] \notin {"running", "standby"} \/ waveJob[i + 1].state # "none"

ReadDone == flush.relevant # {} /\ \A i \in flush.relevant : waveJob[i].state = "success"

(* From the read on, what the flush has read is done; from the look at     *)
(* what is owed on, nothing more comes of it; and when nothing has changed *)
(* since the last look, it is all there is.                                *)
FlushInv ==
  /\ flush \in [step : {"register", "read", "window", "owed", "recheck", "last", "quiet", "wait",
                        "select", "returned", "timedOut"},
                verdict : {"window", "quiet", "wait"}, woken : BOOLEAN,
                relevant : SUBSET Wait!Stages]
  /\ Smooth => \A i \in Wait!Stages : SmoothJob(i)
  /\ Smooth => /\ flush.step # "quiet" /\ ~(flush.step = "select" /\ flush.verdict = "quiet")
               /\ \/ flush.step \in {"window", "owed", "recheck", "last", "returned"}
                  \/ flush.step = "select" /\ flush.verdict = "window"
                  => ReadDone
               /\ flush.step \in {"recheck", "last", "returned"} => Closed
               /\ flush.step = "last" /\ ~flush.woken => Spawned \subseteq flush.relevant
               /\ flush.step = "returned" => Spawned \subseteq flush.relevant

(* Every step of the wave keeps its invariant.                             *)
LEMMA WaveStep == WaveInv /\ Wait!WaveStep => WaveInv'
<1> SUFFICES ASSUME WaveInv, Wait!WaveStep PROVE WaveInv'
  OBVIOUS
<1>n. ChainLength \in Nat /\ Wait!Stages = 1 .. ChainLength
  BY ProgressAssumption DEF Wait!Stages
<1>1. ASSUME NEW i \in 0 .. ChainLength, Wait!Trigger(i) PROVE WaveInv'
  <2>1. i \in owed /\ owed' = owed \ {i} /\ mode' = mode
    BY <1>1 DEF Wait!Trigger
  <2>2. CASE waveJob' = waveJob
    BY <2>1, <2>2 DEF WaveInv, WaveTypes, Done
  <2>3. ASSUME i + 1 \in Wait!Stages, NEW r \in JobRecords, waveJob' = [waveJob EXCEPT ![i + 1] = r],
               r.state \in {"queued", "running"}
        PROVE  WaveInv'
    <3>1. waveJob[i + 1].state = "none"
      BY <1>n, <2>1, <2>3 DEF WaveInv
    <3>2. \A k \in Wait!Stages : Done(k)' <=> Done(k)
      BY <2>3, <3>1 DEF Done, WaveInv, WaveTypes
    <3>3. WaveTypes'
      BY <2>1, <2>3 DEF WaveInv, WaveTypes
    <3>4. \A k \in owed' : k = 0 \/ Done(k)'
      BY <1>n, <2>1, <3>2 DEF WaveInv, WaveTypes
    <3>5. ASSUME NEW k \in Wait!Stages, waveJob'[k].state # "none"
          PROVE  k - 1 \notin owed' /\ \A l \in Wait!Stages : l < k => Done(l)'
      <4>1. CASE k = i + 1
        <5>1. i = 0 \/ (i \in Wait!Stages /\ Done(i))
          BY <1>n, <2>1 DEF WaveInv, WaveTypes
        <5>2. i \in Wait!Stages /\ Done(i) => waveJob[i].state # "none"
          BY DEF Done
        <5>3. \A l \in Wait!Stages : l < i => Done(l)
          BY <1>n, <5>1, <5>2 DEF WaveInv
        <5> QED
          BY <1>n, <2>1, <3>2, <4>1, <5>1, <5>3
      <4>2. CASE k # i + 1
        BY <1>n, <2>1, <2>3, <3>2, <3>5, <4>2 DEF WaveInv, WaveTypes
      <4> QED
        BY <4>1, <4>2
    <3> QED
      BY <3>3, <3>4, <3>5 DEF WaveInv
  <2>4. \/ waveJob' = waveJob
        \/ /\ i + 1 \in Wait!Stages
           /\ \E r \in JobRecords : r.state \in {"queued", "running"}
                                    /\ waveJob' = [waveJob EXCEPT ![i + 1] = r]
    <3>1. /\ [state |-> "queued", out |-> "none"] \in JobRecords
          /\ [state |-> "running", out |-> "open"] \in JobRecords
      BY DEF JobRecords
    <3>2. CASE i < ChainLength /\ mode[i + 1] # "stopped"
      <4>1. \/ waveJob' = [waveJob EXCEPT ![i + 1] = [state |-> "queued", out |-> "none"]]
            \/ waveJob' = [waveJob EXCEPT ![i + 1] = [state |-> "running", out |-> "open"]]
        BY <1>1, <3>2 DEF Wait!Trigger
      <4> QED
        BY <1>n, <3>1, <3>2, <4>1
    <3>3. CASE ~(i < ChainLength /\ mode[i + 1] # "stopped")
      BY <1>1, <3>3 DEF Wait!Trigger
    <3> QED
      BY <3>2, <3>3
  <2> QED
    BY <2>2, <2>3, <2>4
<1>2. ASSUME NEW i \in Wait!Stages, NEW r \in JobRecords, waveJob' = [waveJob EXCEPT ![i] = r],
             mode' = mode, ~Done(i), waveJob[i].state # "none", r.state # "none",
             \/ owed' = owed
             \/ owed' = owed \cup {i} /\ r.out = "finished" /\ r.state \in {"success", "failure"}
      PROVE  WaveInv'
  <2>1. WaveTypes'
    <3>1. owed' \subseteq 0 .. ChainLength
      <4>1. i \in 0 .. ChainLength
        BY <1>n
      <4> QED
        BY <1>2, <4>1 DEF WaveInv, WaveTypes
    <3>2. waveJob' \in [Wait!Stages -> JobRecords]
      BY <1>2 DEF WaveInv, WaveTypes
    <3> QED
      BY <1>2, <3>1, <3>2 DEF WaveInv, WaveTypes
  <2>2. \A k \in Wait!Stages : Done(k) => Done(k)'
    BY <1>2 DEF Done, WaveInv, WaveTypes
  <2>3. owed' # owed => Done(i)'
    BY <1>2 DEF Done, WaveInv, WaveTypes
  <2>4. ASSUME NEW k \in owed' PROVE k = 0 \/ Done(k)'
    <3>1. CASE k \in owed
      <4>1. k = 0 \/ k \in Wait!Stages
        BY <1>n, <3>1 DEF WaveInv, WaveTypes
      <4> QED
        BY <2>2, <3>1, <4>1 DEF WaveInv
    <3>2. CASE k \notin owed
      <4>1. k = i /\ owed' # owed
        BY <1>2, <2>4, <3>2
      <4> QED
        BY <2>3, <4>1
    <3> QED
      BY <3>1, <3>2
  <2>5. \A k \in Wait!Stages : waveJob'[k].state # "none" => waveJob[k].state # "none"
    BY <1>2 DEF WaveInv, WaveTypes
  <2>6. \A k \in Wait!Stages : waveJob[k].state # "none" => ~(i < k)
    BY <1>2 DEF WaveInv
  <2>7. \A k \in Wait!Stages : waveJob[k].state # "none" => k - 1 \notin owed'
    BY <1>2, <1>n, <2>6 DEF WaveInv
  <2>8. \A k \in Wait!Stages : waveJob[k].state # "none" => \A l \in Wait!Stages : l < k => Done(l)'
    BY <2>2 DEF WaveInv
  <2> QED
    BY <2>1, <2>4, <2>5, <2>7, <2>8 DEF WaveInv
<1>3. ASSUME NEW i \in Wait!Stages, Wait!Open(i) PROVE WaveInv'
  <2>1. /\ waveJob[i].state = "queued" /\ mode' = mode /\ owed' = owed
        /\ waveJob' = [waveJob EXCEPT ![i] = [state |-> "running", out |-> "open"]]
    BY <1>3 DEF Wait!Open
  <2>2. [state |-> "running", out |-> "open"] \in JobRecords
    BY DEF JobRecords
  <2> QED
    BY <1>2, <2>1, <2>2 DEF Done
<1>4. ASSUME NEW i \in Wait!Stages, Wait!FinishOutput(i) PROVE WaveInv'
  <2>1. PICK r \in JobRecords : r = [waveJob[i] EXCEPT !.out = "finished"]
    BY DEF WaveInv, WaveTypes, JobRecords
  <2>2. /\ waveJob' = [waveJob EXCEPT ![i] = r] /\ mode' = mode
        /\ waveJob[i].out = "open" /\ waveJob[i].state # "none"
        /\ r.state = waveJob[i].state /\ r.out = "finished"
        /\ owed' = IF r.state = "failure" THEN owed \cup {i} ELSE owed
    BY <1>4, <2>1 DEF Wait!FinishOutput, WaveInv, WaveTypes, JobRecords
  <2> QED
    BY <1>2, <2>2 DEF Done
<1>5. ASSUME NEW i \in Wait!Stages, NEW outcome \in Outcomes, Wait!Settle(i, outcome),
             outcome \in {"success", "failure", "killed"}
      PROVE  WaveInv'
  <2>1. PICK r \in JobRecords : r = [waveJob[i] EXCEPT !.state = outcome]
    BY <1>5 DEF WaveInv, WaveTypes, JobRecords
  <2>2. /\ waveJob' = [waveJob EXCEPT ![i] = r] /\ mode' = mode /\ waveJob[i].state = "running"
        /\ r.state = outcome /\ r.out = waveJob[i].out
        /\ owed' = IF outcome = "success" THEN owed \cup {i} ELSE owed
        /\ outcome = "success" => r.out = "finished"
    BY <1>5, <2>1 DEF Wait!Settle, WaveInv, WaveTypes, JobRecords
  <2> QED
    BY <1>2, <1>5, <2>2 DEF Done
<1> QED
  BY <1>1, <1>3, <1>4, <1>5, ProgressAssumption DEF Wait!WaveStep, Wait!Terminal

(* What a step of the wave does to the records a flush looks at: a job     *)
(* that is there stays, a success stays one, and so does a failure; a new  *)
(* job is one that was owed to a pipeline which is not stopped; and every  *)
(* request is woken.                                                       *)
LEMMA WaveMoves ==
  ASSUME WaveInv, Wait!WaveStep
  PROVE  /\ queues' = queues /\ mode' = mode /\ flush' = [flush EXCEPT !.woken = TRUE]
         /\ \A k \in Wait!Stages :
              /\ waveJob[k].state # "none" => waveJob'[k].state # "none"
              /\ waveJob[k].state \in {"success", "failure", "killed"}
                   => waveJob'[k].state = waveJob[k].state
              /\ waveJob[k].state = "none" /\ waveJob'[k].state # "none"
                   => k - 1 \in owed /\ mode[k] # "stopped"
              /\ ~queues /\ SmoothJob(k) /\ waveJob'[k].state \notin {"failure", "killed"}
                   => SmoothJob(k)'
<1>n. ChainLength \in Nat /\ Wait!Stages = 1 .. ChainLength
  BY ProgressAssumption DEF Wait!Stages
<1> USE DEF WaveInv, WaveTypes, JobRecords
<1>1. ASSUME NEW i \in 0 .. ChainLength, Wait!Trigger(i)
      PROVE  /\ queues' = queues /\ mode' = mode /\ flush' = [flush EXCEPT !.woken = TRUE]
             /\ \/ waveJob' = waveJob
                \/ /\ i + 1 \in Wait!Stages /\ i \in owed /\ mode[i + 1] # "stopped"
                   /\ waveJob' = [waveJob EXCEPT ![i + 1] =
                        [state |-> IF queues THEN "queued" ELSE "running",
                         out |-> IF queues THEN "none" ELSE "open"]]
  BY <1>1, <1>n DEF Wait!Trigger, Wait!signal
<1>2. ASSUME NEW i \in 0 .. ChainLength, Wait!Trigger(i), NEW k \in Wait!Stages
      PROVE  /\ waveJob[k].state # "none" => waveJob'[k].state # "none"
             /\ waveJob[k].state \in {"success", "failure", "killed"}
                  => waveJob'[k].state = waveJob[k].state
             /\ waveJob[k].state = "none" /\ waveJob'[k].state # "none"
                  => k - 1 \in owed /\ mode[k] # "stopped"
             /\ ~queues /\ SmoothJob(k) /\ waveJob'[k].state \notin {"failure", "killed"}
                  => SmoothJob(k)'
  <2>1. CASE waveJob' = waveJob
    BY <2>1 DEF SmoothJob
  <2>2. CASE waveJob' # waveJob
    <3>1. /\ i + 1 \in Wait!Stages /\ i \in owed /\ mode[i + 1] # "stopped"
          /\ waveJob' = [waveJob EXCEPT ![i + 1] =
                        [state |-> IF queues THEN "queued" ELSE "running",
                         out |-> IF queues THEN "none" ELSE "open"]]
      BY <1>1, <1>2, <2>2
    <3>2. waveJob[i + 1].state = "none"
      BY <1>n, <3>1
    <3>3. CASE k = i + 1
      <4>1. /\ waveJob'[k].state = IF queues THEN "queued" ELSE "running"
            /\ waveJob'[k].out = IF queues THEN "none" ELSE "open"
        BY <3>1, <3>3
      <4> QED
        BY <1>n, <3>1, <3>2, <3>3, <4>1 DEF SmoothJob
    <3>4. CASE k # i + 1
      BY <3>1, <3>4 DEF SmoothJob
    <3> QED
      BY <3>3, <3>4
  <2> QED
    BY <2>1, <2>2
<1>3. ASSUME NEW i \in Wait!Stages, Wait!Open(i)
      PROVE  /\ queues' = queues /\ mode' = mode /\ flush' = [flush EXCEPT !.woken = TRUE]
             /\ \A k \in Wait!Stages : k # i => waveJob'[k] = waveJob[k]
             /\ waveJob[i].state = "queued" /\ waveJob'[i].state = "running"
             /\ waveJob'[i].out = "open"
  BY <1>3 DEF Wait!Open, Wait!signal
<1>4. ASSUME NEW i \in Wait!Stages, Wait!FinishOutput(i)
      PROVE  /\ queues' = queues /\ mode' = mode /\ flush' = [flush EXCEPT !.woken = TRUE]
             /\ \A k \in Wait!Stages : k # i => waveJob'[k] = waveJob[k]
             /\ waveJob'[i].state = waveJob[i].state /\ waveJob'[i].out = "finished"
             /\ waveJob[i].state # "none"
  BY <1>4 DEF Wait!FinishOutput, Wait!signal
<1>5. ASSUME NEW i \in Wait!Stages, NEW outcome \in Outcomes, Wait!Settle(i, outcome)
      PROVE  /\ queues' = queues /\ mode' = mode /\ flush' = [flush EXCEPT !.woken = TRUE]
             /\ \A k \in Wait!Stages : k # i => waveJob'[k] = waveJob[k]
             /\ waveJob'[i].state = outcome /\ waveJob'[i].out = waveJob[i].out
             /\ waveJob[i].state = "running" /\ outcome \in {"success", "failure", "killed"}
             /\ outcome = "success" => waveJob[i].out = "finished"
  BY <1>5, ProgressAssumption DEF Wait!Settle, Wait!signal
<1>6. CASE \E i \in 0 .. ChainLength : Wait!Trigger(i)
  BY <1>1, <1>2, <1>6
<1>7. CASE \E i \in Wait!Stages : Wait!Open(i)
  BY <1>3, <1>7 DEF SmoothJob
<1>8. CASE \E i \in Wait!Stages : Wait!FinishOutput(i)
  BY <1>4, <1>8 DEF SmoothJob
<1>9. CASE \E i \in Wait!Stages : \E outcome \in Outcomes : Wait!Settle(i, outcome)
  BY <1>5, <1>9 DEF SmoothJob
<1> QED
  BY <1>6, <1>7, <1>8, <1>9 DEF Wait!WaveStep

(* Without jobs that queue or fail, the closure of jobs a flush reads is   *)
(* all the jobs there are.                                                 *)
LEMMA SmoothClosure ==
  ASSUME WaveInv, \A i \in Wait!Stages : SmoothJob(i)
  PROVE  Wait!DownstreamJobsSet = Spawned
<1>1. ChainLength \in Nat /\ Wait!Stages = 1 .. ChainLength
  BY ProgressAssumption DEF Wait!Stages
<1>2. ASSUME NEW i \in Wait!Stages, waveJob[i].state # "none"
      PROVE  \A k \in 1 .. i : waveJob[k].out # "none"
  <2> SUFFICES ASSUME NEW k \in 1 .. i PROVE waveJob[k].out # "none"
    OBVIOUS
  <2>1. k \in Wait!Stages /\ k <= i
    BY <1>1
  <2>2. k < i => Done(k)
    BY <1>2, <2>1 DEF WaveInv
  <2>3. k < i \/ k = i
    BY <1>1, <2>1
  <2> QED
    BY <1>2, <2>1, <2>2, <2>3 DEF Done, SmoothJob
<1> QED
  BY <1>2 DEF Wait!DownstreamJobsSet, Spawned

(* The steps of the wave keep the flush's invariant.                       *)
LEMMA FlushUnderWave == WaveInv /\ FlushInv /\ Wait!WaveStep => FlushInv'
<1> SUFFICES ASSUME WaveInv, FlushInv, Wait!WaveStep PROVE FlushInv'
  OBVIOUS
<1>n. ChainLength \in Nat /\ Wait!Stages = 1 .. ChainLength
  BY ProgressAssumption DEF Wait!Stages
<1>1. /\ queues' = queues /\ mode' = mode /\ flush' = [flush EXCEPT !.woken = TRUE]
      /\ \A k \in Wait!Stages :
           /\ waveJob[k].state # "none" => waveJob'[k].state # "none"
           /\ waveJob[k].state \in {"success", "failure", "killed"}
                => waveJob'[k].state = waveJob[k].state
           /\ waveJob[k].state = "none" /\ waveJob'[k].state # "none"
                => k - 1 \in owed /\ mode[k] # "stopped"
           /\ ~queues /\ SmoothJob(k) /\ waveJob'[k].state \notin {"failure", "killed"}
                => SmoothJob(k)'
  BY WaveMoves
<1>2. /\ flush' \in [step : {"register", "read", "window", "owed", "recheck", "last", "quiet",
                             "wait", "select", "returned", "timedOut"},
                     verdict : {"window", "quiet", "wait"}, woken : BOOLEAN,
                     relevant : SUBSET Wait!Stages]
      /\ flush'.step = flush.step /\ flush'.verdict = flush.verdict
      /\ flush'.relevant = flush.relevant /\ flush'.woken = TRUE
      /\ flush.relevant \subseteq Wait!Stages
  BY <1>1 DEF FlushInv
<1>3. Smooth' => Smooth
  BY <1>1 DEF Smooth, Wait!Failed
<1>4. ASSUME Smooth' PROVE \A i \in Wait!Stages : SmoothJob(i)'
  BY <1>1, <1>3, <1>4 DEF Smooth, Wait!Failed, FlushInv
<1>5. ReadDone => ReadDone'
  BY <1>1, <1>2 DEF ReadDone
<1>6. Closed => Closed'
  <2> SUFFICES ASSUME Closed, NEW i \in flush.relevant
               PROVE  i = ChainLength \/ mode[i + 1] \notin {"running", "standby"}
                      \/ waveJob'[i + 1].state # "none"
    BY <1>1, <1>2 DEF Closed
  <2>1. i = ChainLength \/ i + 1 \in Wait!Stages
    BY <1>n, <1>2
  <2> QED
    BY <1>1, <2>1 DEF Closed
<1>7. ASSUME ReadDone, Closed, Spawned \subseteq flush.relevant
      PROVE  Spawned' \subseteq flush'.relevant
  <2> SUFFICES ASSUME NEW k \in Wait!Stages, waveJob[k].state = "none", waveJob'[k].state # "none"
               PROVE  FALSE
    BY <1>2, <1>7 DEF Spawned
  <2>1. k - 1 \in owed /\ mode[k] # "stopped"
    BY <1>1
  <2>2. CASE k = 1
    <3>1. PICK i \in flush.relevant : waveJob[i].state = "success"
      BY <1>7 DEF ReadDone
    <3>2. i \in Wait!Stages /\ 1 \in Wait!Stages /\ (i = 1 \/ 1 < i)
      BY <1>n, <1>2
    <3>3. 1 < i => Done(1)
      BY <3>1, <3>2 DEF WaveInv
    <3> QED
      BY <2>2, <3>1, <3>2, <3>3 DEF Done
  <2>3. CASE k # 1
    <3>1. k - 1 \in Wait!Stages /\ k - 1 # 0 /\ k - 1 # ChainLength /\ (k - 1) + 1 = k
      BY <1>n, <2>3
    <3>2. waveJob[k - 1].state # "none"
      BY <2>1, <3>1 DEF WaveInv, Done
    <3>3. k - 1 \in flush.relevant
      BY <1>7, <3>1, <3>2 DEF Spawned
    <3>4. mode[k] \in {"running", "standby"}
      BY <2>1 DEF WaveInv, WaveTypes
    <3> QED
      BY <1>7, <3>1, <3>3, <3>4 DEF Closed
  <2> QED
    BY <2>2, <2>3
<1> QED
  BY <1>2, <1>3, <1>4, <1>5, <1>6, <1>7 DEF FlushInv

(* The steps of the flush itself keep its invariant.                       *)
LEMMA FlushMoves ==
  WaveInv /\ FlushInv /\ (Wait!FlushStep \/ Wait!FlushDeadline) => FlushInv'
<1> SUFFICES ASSUME WaveInv, FlushInv, Wait!FlushStep \/ Wait!FlushDeadline PROVE FlushInv'
  OBVIOUS
<1>n. ChainLength \in Nat /\ Wait!Stages = 1 .. ChainLength
  BY ProgressAssumption DEF Wait!Stages
<1>r. /\ flush.relevant \subseteq Wait!Stages /\ flush.woken \in BOOLEAN
      /\ flush.verdict \in {"window", "quiet", "wait"}
  BY DEF FlushInv
<1>u. queues' = queues /\ mode' = mode /\ waveJob' = waveJob
  BY DEF Wait!FlushStep, Wait!FlushDeadline, Wait!FlushRegister, Wait!FlushRead, Wait!FlushSelect,
         Wait!FlushWoken, Wait!FlushQuiet, Wait!FlushOwed, Wait!FlushRecheck, Wait!FlushReturns,
         Wait!Rest
<1>s. /\ Smooth' <=> Smooth
      /\ Spawned' = Spawned
      /\ \A i \in Wait!Stages : SmoothJob(i)' <=> SmoothJob(i)
  BY <1>u DEF Smooth, SmoothJob, Wait!Failed, Spawned
<1>k. ASSUME flush'.relevant = flush.relevant
      PROVE  (ReadDone' <=> ReadDone) /\ (Closed' <=> Closed)
  BY <1>u, <1>k DEF ReadDone, Closed
<1>1. CASE Wait!FlushRegister
  <2>1. flush' = [flush EXCEPT !.step = "read", !.woken = FALSE]
    BY <1>1 DEF Wait!FlushRegister
  <2> QED
    BY <2>1, <1>s DEF FlushInv
<1>2. CASE Wait!FlushRead
  <2> DEFINE jobs == Wait!DownstreamJobsSet
             verdict == IF Wait!AllTerminal(jobs) THEN "window"
                        ELSE IF jobs = {} /\ Wait!consumersSettled THEN "quiet" ELSE "wait"
  <2>1. flush' = [flush EXCEPT !.relevant = jobs, !.step = "select", !.verdict = verdict]
    BY <1>2 DEF Wait!FlushRead
  <2>2. jobs \subseteq Wait!Stages
    BY DEF Wait!DownstreamJobsSet
  <2>3. verdict \in {"window", "quiet", "wait"}
    OBVIOUS
  <2>4. Smooth => verdict # "quiet"
    BY DEF Smooth, Wait!consumersSettled
  <2>5. ASSUME Smooth, verdict = "window" PROVE jobs # {} /\ \A i \in jobs : waveJob[i].state = "success"
    <3>1. Wait!AllTerminal(jobs)
      BY <2>5
    <3>2. \A i \in jobs : SmoothJob(i)
      BY <2>2, <2>5 DEF FlushInv
    <3> QED
      BY <3>1, <3>2 DEF Wait!AllTerminal, Wait!Terminal, SmoothJob
  <2> HIDE DEF jobs, verdict
  <2>6. /\ flush'.relevant = jobs /\ flush'.step = "select" /\ flush'.verdict = verdict
        /\ flush' \in [step : {"register", "read", "window", "owed", "recheck", "last", "quiet",
                               "wait", "select", "returned", "timedOut"},
                       verdict : {"window", "quiet", "wait"}, woken : BOOLEAN,
                       relevant : SUBSET Wait!Stages]
    BY <2>1, <2>2, <2>3 DEF FlushInv
  <2>7. Smooth /\ verdict = "window" => ReadDone'
    BY <1>u, <2>5, <2>6 DEF ReadDone
  <2> QED
    BY <1>s, <2>4, <2>6, <2>7 DEF FlushInv
<1>3. ASSUME NEW s \in {"register", "window", "owed", "recheck", "quiet", "wait", "returned", "timedOut"},
             flush' = [flush EXCEPT !.step = s],
             Smooth => /\ s # "quiet"
                       /\ s \in {"window", "owed", "recheck", "returned"} => ReadDone
                       /\ s \in {"recheck", "returned"} => Closed
                       /\ s = "returned" => Spawned \subseteq flush.relevant
      PROVE  FlushInv'
  <2>1. /\ flush'.relevant = flush.relevant /\ flush'.step = s
        /\ flush' \in [step : {"register", "read", "window", "owed", "recheck", "last", "quiet",
                               "wait", "select", "returned", "timedOut"},
                       verdict : {"window", "quiet", "wait"}, woken : BOOLEAN,
                       relevant : SUBSET Wait!Stages]
    BY <1>3 DEF FlushInv
  <2> QED
    BY <1>3, <1>s, <1>k, <2>1 DEF FlushInv
<1>4. CASE Wait!FlushSelect
  <2>1. flush.step = "select" /\ flush' = [flush EXCEPT !.step = flush.verdict]
    BY <1>4 DEF Wait!FlushSelect, Wait!FlushTo
  <2>2. Smooth => flush.verdict # "quiet" /\ (flush.verdict = "window" => ReadDone)
    BY <2>1 DEF FlushInv
  <2> QED
    BY <1>3, <1>r, <2>1, <2>2
<1>5. CASE Wait!FlushWoken \/ Wait!FlushDeadline
  BY <1>3, <1>5 DEF Wait!FlushWoken, Wait!FlushDeadline, Wait!FlushTo
<1>6. CASE Wait!FlushQuiet
  <2>1. /\ flush.step = "window" \/ flush.step = "quiet"
        /\ flush' = [flush EXCEPT !.step = IF flush.step = "window" THEN "owed" ELSE "returned"]
    BY <1>6 DEF Wait!FlushQuiet, Wait!FlushTo
  <2>2. Smooth => flush.step = "window" /\ ReadDone
    BY <2>1 DEF FlushInv
  <2> QED
    BY <1>3, <2>1, <2>2
<1>7. CASE Wait!FlushOwed
  <2>1. /\ flush.step = "owed"
        /\ flush' = [flush EXCEPT !.step = IF Wait!triggerPending(flush.relevant)
                                             THEN "register" ELSE "recheck"]
    BY <1>7 DEF Wait!FlushOwed, Wait!FlushTo
  <2>2. ASSUME Smooth, ~Wait!triggerPending(flush.relevant) PROVE ReadDone /\ Closed
    <3>1. ReadDone
      BY <2>1, <2>2 DEF FlushInv
    <3>2. ASSUME NEW i \in flush.relevant
          PROVE  i = ChainLength \/ mode[i + 1] \notin {"running", "standby"}
                 \/ waveJob[i + 1].state # "none"
      <4>1. waveJob[i].state = "success" /\ SmoothJob(i)
        BY <1>r, <2>2, <3>1 DEF FlushInv, ReadDone
      <4>2. waveJob[i].out = "finished"
        BY <4>1 DEF SmoothJob
      <4>3. i = ChainLength \/ i < ChainLength
        BY <1>n, <1>r
      <4> QED
        BY <2>2, <4>2, <4>3 DEF Wait!triggerPending
    <3> QED
      BY <3>1, <3>2 DEF Closed
  <2> QED
    BY <1>3, <2>1, <2>2
<1>8. CASE Wait!FlushRecheck
  <2> DEFINE same == Cardinality(Wait!DownstreamJobsSet) = Cardinality(flush.relevant)
             s == IF same THEN "last" ELSE "register"
  <2>1. flush.step = "recheck" /\ flush' = [flush EXCEPT !.woken = FALSE, !.step = s]
    BY <1>8, Zenon DEF Wait!FlushRecheck, Wait!Cardinality, Cardinality
  <2>2. ASSUME Smooth, same PROVE Spawned \subseteq flush.relevant
    <3>1. Wait!DownstreamJobsSet = Spawned
      BY <2>2, SmoothClosure DEF FlushInv
    <3>2. flush.relevant \subseteq Spawned
      BY <1>r, <2>1, <2>2 DEF FlushInv, ReadDone, Spawned
    <3>3. IsFiniteSet(Spawned)
      <4>1. IsFiniteSet(Wait!Stages)
        BY <1>n, FS_Interval
      <4> QED
        BY <4>1, FS_Subset DEF Spawned
    <3> QED
      BY <2>2, <3>1, <3>2, <3>3, FS_Subset
  <2>3. s \in {"last", "register"} /\ (s = "last" => same)
    OBVIOUS
  <2> HIDE DEF s, same
  <2>4. /\ flush'.relevant = flush.relevant /\ flush'.step = s
        /\ flush' \in [step : {"register", "read", "window", "owed", "recheck", "last", "quiet",
                               "wait", "select", "returned", "timedOut"},
                       verdict : {"window", "quiet", "wait"}, woken : BOOLEAN,
                       relevant : SUBSET Wait!Stages]
    BY <2>1, <2>3 DEF FlushInv
  <2>5. Smooth => ReadDone /\ Closed
    BY <2>1 DEF FlushInv
  <2> QED
    BY <1>s, <1>k, <2>2, <2>3, <2>4, <2>5 DEF FlushInv
<1>9. CASE Wait!FlushReturns
  <2>1. flush.step = "last" /\ ~flush.woken /\ flush' = [flush EXCEPT !.step = "returned"]
    BY <1>9 DEF Wait!FlushReturns, Wait!FlushTo
  <2>2. Smooth => ReadDone /\ Closed /\ Spawned \subseteq flush.relevant
    BY <2>1 DEF FlushInv
  <2> QED
    BY <1>3, <2>1, <2>2
<1> QED
  BY <1>1, <1>2, <1>4, <1>5, <1>6, <1>7, <1>8, <1>9 DEF Wait!FlushStep

(* The invariants of the wave and of the flush are inductive together.     *)
LEMMA WaitStep == WaveInv /\ FlushInv /\ [Wait!Next]_waitVars => WaveInv' /\ FlushInv'
<1> SUFFICES ASSUME WaveInv, FlushInv, [Wait!Next]_waitVars PROVE WaveInv' /\ FlushInv'
  OBVIOUS
<1>q. ASSUME UNCHANGED <<mode, waveJob, owed>> PROVE WaveInv'
  BY <1>q DEF WaveInv, WaveTypes, Done
<1>1. CASE Wait!WaveStep
  BY <1>1, WaveStep, FlushUnderWave
<1>2. CASE Wait!FlushStep \/ Wait!FlushDeadline
  <2>1. UNCHANGED <<mode, waveJob, owed>>
    BY <1>2 DEF Wait!FlushStep, Wait!FlushDeadline, Wait!FlushRegister, Wait!FlushRead,
                Wait!FlushSelect, Wait!FlushWoken, Wait!FlushQuiet, Wait!FlushOwed,
                Wait!FlushRecheck, Wait!FlushReturns, Wait!Rest
  <2> QED
    BY <1>2, <1>q, <2>1, FlushMoves
<1>3. CASE Wait!WaiterStep \/ UNCHANGED waitVars
  <2>1. UNCHANGED <<queues, mode, waveJob, owed, flush>>
    BY <1>3 DEF Wait!WaiterStep, waitVars
  <2>2. FlushInv'
    BY <2>1 DEF FlushInv, Smooth, SmoothJob, ReadDone, Closed, Spawned, Wait!Failed
  <2> QED
    BY <1>q, <2>1, <2>2
<1> QED
  BY <1>1, <1>2, <1>3 DEF Wait!Next

(* A flush that returns has the whole wave.                                *)
LEMMA FlushWhole == FlushInv => FlushComplete
BY DEF FlushInv, FlushComplete, Wait!FlushComplete, Wait!Complete, Wait!AllTerminal, Wait!Terminal,
       Smooth, ReadDone, Spawned

----------------------------------------------------------------------------
(* The record of a pipeline.                                               *)

PipeRecs == [state : Pipe!States, stopped : BOOLEAN, stoppedAt : Nat, version : Nat]
OpSteps == {"idle", "list", "load", "pair", "lock", "save", "cancel", "wait", "late", "chain",
            "activate", "launch", "park", "parkSave", "remove", "unlock", "done"}
OpRecs == [step : OpSteps, rec : PipeRecs \cup {NoRec}, waits : SUBSET Pipe!Ops]
JobSteps == {"none", "record", "running", "mark", "settle", "settleRec", "settleSave",
             "unregister", "gone"}
PipeJobRecs == [step : JobSteps, head : Nat, version : Nat, cancelled : BOOLEAN,
                mark : {"none", "crashed", "running", "failure"}, marks : Nat,
                rec : PipeRecs \cup {NoRec}]

(* The steps at which an operation of a kind has read the record, and      *)
(* those at which it has pipelineRecMu.                                    *)
Reads(kind, step) ==
  \/ step \in {"pair", "activate", "launch", "chain", "park", "parkSave"}
  \/ step \in {"wait", "save"} /\ kind # "update"
Locks(kind, step) ==
  \/ kind = "start" /\ step \in {"save", "chain", "activate", "launch", "unlock"}
  \/ kind = "stop" /\ step \in {"wait", "save"}

PipeTypes ==
  /\ plan \in Plans /\ standby \in BOOLEAN /\ head \in Nat
  /\ disk \in PipeRecs \cup {NoRec}
  /\ op \in [Pipe!Ops -> OpRecs] /\ pipeJob \in [Pipe!Ops -> PipeJobRecs]
  /\ \A i \in Pipe!Ops :
       /\ Reads(plan[i], op[i].step) => op[i].rec \in PipeRecs
       /\ op[i].step = "wait" => plan[i] \in {"stop", "update", "delete"}
       /\ op[i].step = "unlock" => plan[i] = "start"
       /\ op[i].step = "parkSave" => standby
       /\ pipeJob[i].step = "mark" => pipeJob[i].rec \in PipeRecs /\ pipeJob[i].mark \in Pipe!States

LEMMA OpsAreNumbered == PipeTypes => Pipe!Ops \subseteq Nat /\ IsFiniteSet(Pipe!Ops)
<1> SUFFICES ASSUME PipeTypes PROVE Pipe!Ops \subseteq Nat /\ IsFiniteSet(Pipe!Ops)
  OBVIOUS
<1>1. PICK n \in Nat : Pipe!Ops = 1 .. n
  <2>1. plan \in Seq({"commit", "run", "stop", "start", "update", "delete"})
    BY ProgressAssumption DEF PipeTypes
  <2>2. DOMAIN plan = 1 .. Len(plan) /\ Len(plan) \in Nat
    BY <2>1
  <2> QED
    BY <2>2 DEF Pipe!Ops
<1>2. IsFiniteSet(1 .. n)
  BY FS_Interval
<1> QED
  BY <1>1, <1>2

(* Nothing but stops, starts, commits and runs, of a pipeline that is not  *)
(* a standby one.                                                          *)
Undisturbed == ~standby /\ \A i \in Pipe!Ops : plan[i] \notin {"update", "delete"}

(* Who has read the record to write it back has pipelineRecMu, and a stop  *)
(* writes back a stopped one.                                              *)
MutexInv ==
  /\ \A i \in Pipe!Ops : Locks(plan[i], op[i].step) => recMu = <<"op", i>>
  /\ \A j \in Pipe!Ops : pipeJob[j].step \in {"mark", "settleSave"} => recMu = <<"job", j>>
  /\ \A i \in Pipe!Ops : plan[i] = "stop" /\ op[i].step \in {"wait", "save"} => op[i].rec.stopped
  /\ Undisturbed => \A j \in Pipe!Ops : pipeJob[j].step = "mark" => pipeJob[j].rec = disk

(* Threads are told apart.                                                 *)
LEMMA ThreadsApart ==
  ASSUME PipeTypes, NEW i \in Pipe!Ops, NEW k \in Pipe!Ops
  PROVE  /\ <<"op", i>> # <<"job", k>> /\ Free # <<"op", i>> /\ Free # <<"job", i>>
         /\ <<"op", i>> = <<"op", k>> => i = k
         /\ <<"job", i>> = <<"job", k>> => i = k
<1>1. i \in Nat /\ k \in Nat
  BY OpsAreNumbered
<1>2. <<"op", i>> \in {"op", "job"} \X Nat /\ <<"job", i>> \in {"op", "job"} \X Nat
  BY <1>1
<1> QED
  BY <1>2, ProgressAssumption

(* What a step of operation i, whose record becomes r, may do to the       *)
(* mutex, the record on disk and the jobs.                                 *)
OpMoves(i, r) ==
  /\ r \in OpRecs /\ op' = [op EXCEPT ![i] = r]
  /\ UNCHANGED <<plan, standby>> /\ head' \in Nat /\ disk' \in PipeRecs \cup {NoRec}
  /\ Reads(plan[i], r.step) => r.rec \in PipeRecs
  /\ r.step = "wait" => plan[i] \in {"stop", "update", "delete"}
  /\ r.step = "unlock" => plan[i] = "start"
  /\ r.step = "parkSave" => standby
  /\ plan[i] = "stop" /\ r.step \in {"wait", "save"} => r.rec.stopped
  /\ Locks(plan[i], r.step) => recMu' = <<"op", i>>
  /\ \/ recMu' = recMu
     \/ recMu = Free /\ recMu' = <<"op", i>>
     \/ Locks(plan[i], op[i].step) /\ recMu' = Free
  /\ disk' = disk \/ Locks(plan[i], op[i].step) \/ ~Undisturbed
JobsStand ==
  /\ pipeJob' \in [Pipe!Ops -> PipeJobRecs]
  /\ \A k \in Pipe!Ops : pipeJob'[k].step \in {"mark", "settleSave"} =>
       /\ pipeJob'[k].step = pipeJob[k].step /\ pipeJob'[k].rec = pipeJob[k].rec
       /\ pipeJob'[k].mark = pipeJob[k].mark

LEMMA OpKeeps ==
  ASSUME PipeTypes, MutexInv, NEW i \in Pipe!Ops, NEW r, OpMoves(i, r), JobsStand
  PROVE  PipeTypes' /\ MutexInv'
<1>1. Pipe!Ops' = Pipe!Ops /\ (Undisturbed' <=> Undisturbed)
  BY DEF Pipe!Ops, Undisturbed, OpMoves
<1>2. OpRecs' = OpRecs
  BY <1>1 DEF OpRecs
<1>3. /\ op'[i] = r /\ \A k \in Pipe!Ops : k # i => op'[k] = op[k]
      /\ op' \in [Pipe!Ops -> OpRecs] /\ plan' = plan
  BY DEF PipeTypes, OpMoves
<1>4. PipeTypes'
  <2>1. \A k \in Pipe!Ops :
          /\ Reads(plan[k], op'[k].step) => op'[k].rec \in PipeRecs
          /\ op'[k].step = "wait" => plan[k] \in {"stop", "update", "delete"}
          /\ op'[k].step = "unlock" => plan[k] = "start"
          /\ op'[k].step = "parkSave" => standby
    BY <1>3 DEF PipeTypes, OpMoves
  <2>2. \A k \in Pipe!Ops : pipeJob'[k].step = "mark" =>
          pipeJob'[k].rec \in PipeRecs /\ pipeJob'[k].mark \in Pipe!States
    BY DEF PipeTypes, JobsStand
  <2> QED
    BY <1>1, <1>2, <1>3, <2>1, <2>2 DEF PipeTypes, OpMoves, JobsStand
<1>5. ASSUME NEW k \in Pipe!Ops, Locks(plan[k], op'[k].step) PROVE recMu' = <<"op", k>>
  <2>1. CASE k = i
    BY <1>3, <1>5, <2>1 DEF OpMoves
  <2>2. CASE k # i
    <3>1. Locks(plan[k], op[k].step) /\ recMu = <<"op", k>>
      BY <1>3, <1>5, <2>2 DEF MutexInv
    <3>2. recMu # Free /\ ~Locks(plan[i], op[i].step)
      BY <2>2, <3>1, ThreadsApart DEF MutexInv
    <3> QED
      BY <3>1, <3>2 DEF OpMoves
  <2> QED
    BY <2>1, <2>2
<1>6. ASSUME NEW j \in Pipe!Ops, pipeJob'[j].step \in {"mark", "settleSave"}
      PROVE  /\ recMu' = <<"job", j>> /\ pipeJob[j].step = pipeJob'[j].step
             /\ pipeJob'[j].rec = pipeJob[j].rec /\ ~Locks(plan[i], op[i].step)
  <2>1. /\ recMu = <<"job", j>> /\ pipeJob[j].step = pipeJob'[j].step
        /\ pipeJob'[j].rec = pipeJob[j].rec
    BY <1>6 DEF MutexInv, JobsStand
  <2>2. recMu # Free /\ ~Locks(plan[i], op[i].step)
    BY <2>1, ThreadsApart DEF MutexInv
  <2> QED
    BY <2>1, <2>2 DEF OpMoves
<1>7. \A k \in Pipe!Ops : plan[k] = "stop" /\ op'[k].step \in {"wait", "save"} => op'[k].rec.stopped
  BY <1>3 DEF MutexInv, OpMoves
<1>8. ASSUME Undisturbed, NEW j \in Pipe!Ops, pipeJob'[j].step = "mark" PROVE pipeJob'[j].rec = disk'
  BY <1>6, <1>8 DEF MutexInv, OpMoves
<1> QED
  BY <1>1, <1>3, <1>4, <1>5, <1>6, <1>7, <1>8 DEF MutexInv

(* What a step of job j, whose record becomes r, may do to them.           *)
LEMMA JobKeeps ==
  ASSUME PipeTypes, MutexInv, NEW j \in Pipe!Ops, UNCHANGED <<plan, standby, head, op>>,
         disk' \in PipeRecs \cup {NoRec}, NEW r \in PipeJobRecs,
         pipeJob' = [pipeJob EXCEPT ![j] = r],
         r.step = "mark" => /\ r.rec \in PipeRecs /\ r.mark \in Pipe!States
                            /\ r.rec = disk /\ disk' = disk,
         r.step \in {"mark", "settleSave"} => recMu' = <<"job", j>>,
         \/ recMu' = recMu
         \/ recMu = Free /\ recMu' = <<"job", j>>
         \/ pipeJob[j].step \in {"mark", "settleSave"} /\ recMu' = Free,
         disk' = disk \/ pipeJob[j].step \in {"mark", "settleSave"}
  PROVE  PipeTypes' /\ MutexInv'
<1>1. Pipe!Ops' = Pipe!Ops /\ (Undisturbed' <=> Undisturbed)
  BY DEF Pipe!Ops, Undisturbed
<1>2. OpRecs' = OpRecs
  BY <1>1 DEF OpRecs
<1>3. /\ pipeJob'[j] = r /\ \A k \in Pipe!Ops : k # j => pipeJob'[k] = pipeJob[k]
      /\ pipeJob' \in [Pipe!Ops -> PipeJobRecs]
  BY DEF PipeTypes
<1>4. PipeTypes'
  BY <1>1, <1>2, <1>3 DEF PipeTypes
<1>5. ASSUME NEW k \in Pipe!Ops, Locks(plan[k], op[k].step) PROVE recMu' = <<"op", k>>
  BY <1>5, ThreadsApart DEF MutexInv
<1>6. ASSUME NEW k \in Pipe!Ops, pipeJob'[k].step \in {"mark", "settleSave"}
      PROVE  recMu' = <<"job", k>> /\ (Undisturbed /\ pipeJob'[k].step = "mark" => pipeJob'[k].rec = disk')
  <2>1. CASE k = j
    BY <1>3, <1>6, <2>1
  <2>2. CASE k # j
    <3>1. pipeJob'[k] = pipeJob[k] /\ recMu = <<"job", k>>
      BY <1>3, <1>6, <2>2 DEF MutexInv
    <3>2. recMu # Free /\ pipeJob[j].step \notin {"mark", "settleSave"}
      BY <2>2, <3>1, ThreadsApart DEF MutexInv
    <3> QED
      BY <1>6, <3>1, <3>2 DEF MutexInv
  <2> QED
    BY <2>1, <2>2
<1> QED
  BY <1>1, <1>3, <1>4, <1>5, <1>6 DEF MutexInv

(* An operation goes to another step; it may take the record with it.      *)
LEMMA OpGoes ==
  ASSUME PipeTypes, NEW i \in Pipe!Ops, NEW s \in OpSteps, Pipe!To(i, s)
  PROVE  \E r \in OpRecs : /\ op' = [op EXCEPT ![i] = r]
                           /\ r.step = s /\ r.rec = op[i].rec
<1> DEFINE r == [op[i] EXCEPT !.step = s]
<1>1. op' = [op EXCEPT ![i] = r]
  BY DEF Pipe!To
<1>2. r \in OpRecs /\ r.step = s /\ r.rec = op[i].rec
  BY DEF PipeTypes, OpRecs
<1> HIDE DEF r
<1> QED
  BY <1>1, <1>2

LEMMA OpGoesWith ==
  ASSUME PipeTypes, NEW i \in Pipe!Ops, NEW s \in OpSteps, NEW stored \in PipeRecs \cup {NoRec},
         Pipe!ToWith(i, s, stored)
  PROVE  \E r \in OpRecs : op' = [op EXCEPT ![i] = r] /\ r.step = s /\ r.rec = stored
<1> DEFINE r == [op[i] EXCEPT !.step = s, !.rec = stored]
<1>1. op' = [op EXCEPT ![i] = r]
  BY DEF Pipe!ToWith, PipeTypes, OpRecs
<1>t. op[i] \in OpRecs
  BY DEF PipeTypes
<1>2. r \in OpRecs /\ r.step = s /\ r.rec = stored
  BY <1>t DEF OpRecs
<1> HIDE DEF r
<1> QED
  BY <1>1, <1>2

(* The jobs of the pipeline are cancelled.                                 *)
LEMMA OpCancels ==
  ASSUME PipeTypes, NEW i \in Pipe!Ops, NEW stored \in PipeRecs \cup {NoRec}, Pipe!CancelJobs(i, stored)
  PROVE  /\ \E r \in OpRecs : op' = [op EXCEPT ![i] = r] /\ r.step = "wait" /\ r.rec = stored
         /\ JobsStand
         /\ \A k \in Pipe!Ops : pipeJob'[k].step = pipeJob[k].step
<1> DEFINE w == {k \in Pipe!Ops : Pipe!Registered(k)}
           r == [op[i] EXCEPT !.step = "wait", !.rec = stored, !.waits = w]
<1>0. w \in SUBSET Pipe!Ops
  OBVIOUS
<1>1. op' = [op EXCEPT ![i].step = "wait", ![i].rec = stored, ![i].waits = w]
  BY DEF Pipe!CancelJobs
<1> HIDE DEF w
<1>2. op' = [op EXCEPT ![i] = r]
  BY <1>1 DEF PipeTypes, OpRecs
<1>t. op[i] \in OpRecs /\ "wait" \in OpSteps
  BY DEF PipeTypes, OpSteps
<1>3. r \in OpRecs /\ r.step = "wait" /\ r.rec = stored
  BY <1>0, <1>t DEF OpRecs
<1> HIDE DEF r
<1>4. pipeJob' = [k \in Pipe!Ops |-> IF Pipe!Registered(k) THEN [pipeJob[k] EXCEPT !.cancelled = TRUE]
                                                          ELSE pipeJob[k]]
  BY DEF Pipe!CancelJobs
<1>5. ASSUME NEW k \in Pipe!Ops
      PROVE  /\ pipeJob'[k] \in PipeJobRecs
             /\ pipeJob'[k].step = pipeJob[k].step /\ pipeJob'[k].rec = pipeJob[k].rec
             /\ pipeJob'[k].mark = pipeJob[k].mark
  <2>1. CASE pipeJob'[k] = pipeJob[k]
    BY <2>1 DEF PipeTypes
  <2>2. CASE pipeJob'[k] = [pipeJob[k] EXCEPT !.cancelled = TRUE]
    <3>1. pipeJob[k] \in PipeJobRecs
      BY DEF PipeTypes
    <3> QED
      BY <2>2, <3>1 DEF PipeJobRecs
  <2> QED
    BY <1>4, <2>1, <2>2
<1>6. pipeJob' \in [Pipe!Ops -> PipeJobRecs]
  BY <1>4, <1>5
<1> QED
  BY <1>2, <1>3, <1>5, <1>6 DEF JobsStand

(* The operation makes its job, or starts it.                              *)
LEMMA OpSpawns ==
  ASSUME PipeTypes, NEW i \in Pipe!Ops, NEW s \in {"record", "running"},
         \/ \E v \in Nat : pipeJob' = [pipeJob EXCEPT ![i] =
              [Pipe!NotSpawned EXCEPT !.step = s, !.head = head, !.version = v]]
         \/ pipeJob' = [pipeJob EXCEPT ![i].step = s]
  PROVE  /\ JobsStand /\ pipeJob'[i].step = s
         /\ \A k \in Pipe!Ops : k # i => pipeJob'[k] = pipeJob[k]
<1>1. ASSUME NEW v \in Nat, pipeJob' = [pipeJob EXCEPT ![i] =
              [Pipe!NotSpawned EXCEPT !.step = s, !.head = head, !.version = v]]
      PROVE  \E r \in PipeJobRecs : r.step = s /\ pipeJob' = [pipeJob EXCEPT ![i] = r]
  <2> DEFINE r == [Pipe!NotSpawned EXCEPT !.step = s, !.head = head, !.version = v]
  <2>1. r \in PipeJobRecs /\ r.step = s
    BY DEF PipeTypes, PipeJobRecs, Pipe!NotSpawned, JobSteps
  <2> HIDE DEF r
  <2> QED
    BY <1>1, <2>1 DEF r
<1>2. ASSUME pipeJob' = [pipeJob EXCEPT ![i].step = s]
      PROVE  \E r \in PipeJobRecs : r.step = s /\ pipeJob' = [pipeJob EXCEPT ![i] = r]
  <2> DEFINE r == [pipeJob[i] EXCEPT !.step = s]
  <2>1. r \in PipeJobRecs /\ r.step = s
    BY DEF PipeTypes, PipeJobRecs, JobSteps
  <2> HIDE DEF r
  <2> QED
    BY <1>2, <2>1 DEF r
<1>3. PICK r \in PipeJobRecs : r.step = s /\ pipeJob' = [pipeJob EXCEPT ![i] = r]
  BY <1>1, <1>2
<1> QED
  BY <1>3 DEF PipeTypes, JobsStand

LEMMA JobsUnchanged == PipeTypes /\ pipeJob' = pipeJob => JobsStand
BY DEF PipeTypes, JobsStand

(* Every step of an operation keeps the types and the mutex.               *)
LEMMA MutexOp ==
  ASSUME PipeTypes, MutexInv, NEW i \in Pipe!Ops, Pipe!Commit(i) \/ Pipe!Request(i) \/ Pipe!OpStep(i)
  PROVE  PipeTypes' /\ MutexInv'
<1>d. disk \in PipeRecs \cup {NoRec} /\ head \in Nat
  BY DEF PipeTypes
<1>l. \A s \in {"idle", "list", "load", "pair", "lock", "save", "cancel", "wait", "late", "chain",
               "activate", "launch", "park", "parkSave", "remove", "unlock", "done"} : s \in OpSteps
  BY DEF OpSteps
<1>g. ASSUME NEW s \in OpSteps, Pipe!To(i, s), UNCHANGED <<plan, standby>>, head' \in Nat,
             disk' \in PipeRecs \cup {NoRec}, JobsStand,
             Reads(plan[i], s) => op[i].rec \in PipeRecs,
             s = "wait" => plan[i] \in {"stop", "update", "delete"}, s = "unlock" => plan[i] = "start",
             s = "parkSave" => standby,
             plan[i] = "stop" /\ s \in {"wait", "save"} => op[i].rec.stopped,
             Locks(plan[i], s) => recMu' = <<"op", i>>,
             \/ recMu' = recMu
             \/ recMu = Free /\ recMu' = <<"op", i>>
             \/ Locks(plan[i], op[i].step) /\ recMu' = Free,
             disk' = disk \/ Locks(plan[i], op[i].step) \/ ~Undisturbed
      PROVE  PipeTypes' /\ MutexInv'
  <2>1. PICK r \in OpRecs : op' = [op EXCEPT ![i] = r] /\ r.step = s /\ r.rec = op[i].rec
    BY <1>g, OpGoes
  <2>2. OpMoves(i, r)
    BY <1>g, <2>1 DEF OpMoves
  <2> QED
    BY <1>g, <2>2, OpKeeps
<1>h. ASSUME NEW s \in OpSteps, NEW stored \in PipeRecs, Pipe!ToWith(i, s, stored),
             UNCHANGED <<plan, standby>>,
             head' \in Nat, disk' \in PipeRecs \cup {NoRec}, JobsStand,
             s \notin {"wait", "unlock", "parkSave"}, plan[i] # "stop",
             Locks(plan[i], s) => recMu' = <<"op", i>>,
             recMu' = recMu \/ (recMu = Free /\ recMu' = <<"op", i>>),
             disk' = disk \/ ~Undisturbed
      PROVE  PipeTypes' /\ MutexInv'
  <2>1. PICK r \in OpRecs : op' = [op EXCEPT ![i] = r] /\ r.step = s /\ r.rec = stored
    BY <1>h, OpGoesWith
  <2>2. OpMoves(i, r)
    BY <1>h, <2>1 DEF OpMoves
  <2> QED
    BY <1>h, <2>2, OpKeeps
<1>1. CASE Pipe!Commit(i) \/ Pipe!Request(i)
  <2>1. /\ UNCHANGED <<plan, standby, disk, recMu, pipeJob>> /\ (head' = head \/ head' = head + 1)
        /\ \E s \in {"list", "load", "lock"} : Pipe!To(i, s)
    BY <1>1 DEF Pipe!Commit, Pipe!Request, Pipe!Begin
  <2> QED
    BY <1>d, <1>g, <1>l, <2>1, JobsUnchanged DEF Reads, Locks
<1>2. CASE Pipe!TriggerList(i)
  <2>1. /\ UNCHANGED <<plan, standby, disk, head, recMu, pipeJob>>
        /\ \E s \in {"load", "done"} : Pipe!To(i, s)
    BY <1>2 DEF Pipe!TriggerList
  <2> QED
    BY <1>d, <1>g, <1>l, <2>1, JobsUnchanged DEF Reads, Locks
<1>3. CASE Pipe!TriggerLoad(i)
  <2>1. /\ UNCHANGED <<plan, standby, disk, head, recMu, pipeJob>> /\ plan[i] = "commit"
        /\ (disk \in PipeRecs /\ Pipe!ToWith(i, "pair", disk)) \/ Pipe!To(i, "done")
    BY <1>3, <1>d DEF Pipe!TriggerLoad, Pipe!At
  <2>2. CASE Pipe!To(i, "done")
    BY <1>d, <1>g, <1>l, <2>1, <2>2, JobsUnchanged DEF Reads, Locks
  <2>3. CASE disk \in PipeRecs /\ Pipe!ToWith(i, "pair", disk)
    BY <1>d, <1>h, <1>l, <2>1, <2>3, JobsUnchanged DEF Locks
  <2> QED
    BY <2>1, <2>2, <2>3
<1>4. CASE Pipe!TriggerPair(i)
  <2>1. /\ UNCHANGED <<plan, standby, disk, head, recMu>> /\ plan[i] = "commit" /\ op[i].step = "pair"
        /\ (Pipe!To(i, "done") /\ pipeJob' = pipeJob) \/ (Pipe!To(i, "activate") /\ Pipe!Spawned(i, "record"))
    BY <1>4 DEF Pipe!TriggerPair, Pipe!At
  <2>2. op[i].rec \in PipeRecs
    BY <2>1 DEF PipeTypes, Reads
  <2>3. CASE Pipe!To(i, "done") /\ pipeJob' = pipeJob
    BY <1>d, <1>g, <1>l, <2>1, <2>3, JobsUnchanged DEF Reads, Locks
  <2>4. CASE Pipe!To(i, "activate") /\ Pipe!Spawned(i, "record")
    <3>1. op[i].rec.version \in Nat
      BY <2>2 DEF PipeRecs
    <3>2. JobsStand
      BY <2>4, <3>1, OpSpawns DEF Pipe!Spawned
    <3> QED
      BY <1>d, <1>g, <1>l, <2>1, <2>2, <2>4, <3>2 DEF Reads, Locks
  <2> QED
    BY <2>1, <2>3, <2>4
<1>5. CASE Pipe!RunLoad(i)
  <2>1. /\ UNCHANGED <<plan, standby, disk, head, recMu>> /\ plan[i] = "run"
        /\ \/ Pipe!To(i, "done") /\ pipeJob' = pipeJob
           \/ /\ disk \in PipeRecs /\ Pipe!ToWith(i, "activate", disk)
              /\ pipeJob' = [pipeJob EXCEPT ![i] = [Pipe!NotSpawned EXCEPT !.step = "record",
                                                      !.head = head, !.version = disk.version]]
    BY <1>5, <1>d DEF Pipe!RunLoad, Pipe!At
  <2>2. CASE Pipe!To(i, "done") /\ pipeJob' = pipeJob
    BY <1>d, <1>g, <1>l, <2>1, <2>2, JobsUnchanged DEF Reads, Locks
  <2>3. CASE /\ disk \in PipeRecs /\ Pipe!ToWith(i, "activate", disk)
             /\ pipeJob' = [pipeJob EXCEPT ![i] = [Pipe!NotSpawned EXCEPT !.step = "record",
                                                     !.head = head, !.version = disk.version]]
    <3>1. disk.version \in Nat
      BY <2>3 DEF PipeRecs
    <3>2. JobsStand
      BY <2>3, <3>1, OpSpawns
    <3> QED
      BY <1>d, <1>h, <1>l, <2>1, <2>3, <3>2 DEF Locks
  <2> QED
    BY <2>1, <2>2, <2>3
<1>6. CASE Pipe!Activate(i)
  <2>1. /\ UNCHANGED <<plan, standby, head, recMu, pipeJob>> /\ op[i].step = "activate"
        /\ Pipe!To(i, "launch")
        /\ disk' = disk \/ (standby /\ disk' = [op[i].rec EXCEPT !.state = "running"])
    BY <1>6 DEF Pipe!Activate
  <2>2. op[i].rec \in PipeRecs
    BY <2>1 DEF PipeTypes, Reads
  <2>3. [op[i].rec EXCEPT !.state = "running"] \in PipeRecs
    BY <2>2 DEF PipeRecs, Pipe!States
  <2>4. Locks(plan[i], "launch") => recMu = <<"op", i>>
    BY <2>1 DEF MutexInv, Locks
  <2>5. disk' \in PipeRecs \cup {NoRec} /\ (disk' = disk \/ ~Undisturbed)
    BY <1>d, <2>1, <2>3 DEF Undisturbed
  <2> QED
    BY <1>d, <1>g, <1>l, <2>1, <2>2, <2>4, <2>5, JobsUnchanged DEF Reads
<1>7. CASE Pipe!Launch(i)
  <2>1. /\ UNCHANGED <<plan, standby, disk, head, recMu>> /\ op[i].step = "launch"
        /\ \E s \in {"unlock", "park", "done"} : /\ Pipe!To(i, s)
                                                 /\ s = "unlock" <=> plan[i] = "start"
        /\ Pipe!Spawned(i, "running") \/ pipeJob' = [pipeJob EXCEPT ![i].step = "running"]
    BY <1>7 DEF Pipe!Launch
  <2>2. op[i].rec \in PipeRecs
    BY <2>1 DEF PipeTypes, Reads
  <2>3. op[i].rec.version \in Nat
    BY <2>2 DEF PipeRecs
  <2>4. JobsStand
    BY <2>1, <2>3, OpSpawns DEF Pipe!Spawned
  <2>5. Locks(plan[i], "unlock") => recMu = <<"op", i>>
    BY <2>1 DEF MutexInv, Locks
  <2> QED
    BY <1>d, <1>g, <1>l, <2>1, <2>2, <2>4, <2>5 DEF Reads, Locks
<1>8. CASE Pipe!WaitEnds(i)
  <2> DEFINE s == Pipe!AfterWait(i)
             r == [op[i] EXCEPT !.step = s, !.waits = {}]
  <2>1. /\ UNCHANGED <<plan, standby, disk, head, recMu, pipeJob>> /\ op[i].step = "wait"
        /\ op' = [op EXCEPT ![i] = r]
    BY <1>8 DEF Pipe!WaitEnds, Pipe!Waited, PipeTypes, OpRecs
  <2>2. plan[i] \in {"stop", "update", "delete"} /\ op[i] \in OpRecs
    BY <2>1 DEF PipeTypes
  <2>3. s = (IF plan[i] = "delete" THEN "late" ELSE "save") /\ s \in OpSteps
    BY <2>2 DEF Pipe!AfterWait, OpSteps
  <2> HIDE DEF s
  <2>4. r \in OpRecs /\ r.step = s /\ r.rec = op[i].rec
    BY <2>2, <2>3 DEF OpRecs
  <2> HIDE DEF r
  <2>5. Reads(plan[i], s) => op[i].rec \in PipeRecs
    BY <2>1, <2>2, <2>3 DEF Reads, PipeTypes
  <2>6. Locks(plan[i], s) => recMu = <<"op", i>> /\ op[i].rec.stopped
    BY <2>1, <2>2, <2>3 DEF Locks, MutexInv
  <2>7. OpMoves(i, r)
    BY <1>d, <2>1, <2>2, <2>3, <2>4, <2>5, <2>6 DEF OpMoves, Locks
  <2> QED
    BY <2>1, <2>7, OpKeeps, JobsUnchanged
<1>9. CASE Pipe!StopLock(i)
  <2>1. UNCHANGED <<plan, standby, disk, head>> /\ plan[i] = "stop" /\ recMu = Free
    BY <1>9 DEF Pipe!StopLock, Pipe!At
  <2>2. CASE disk = NoRec
    <3>1. Pipe!To(i, "done") /\ UNCHANGED <<recMu, pipeJob>>
      BY <1>9, <2>2 DEF Pipe!StopLock
    <3> QED
      BY <1>d, <1>g, <1>l, <2>1, <3>1, JobsUnchanged DEF Reads, Locks
  <2>3. CASE disk # NoRec
    <3> DEFINE at == IF PlainInput /\ head > 0 THEN head ELSE disk.stoppedAt
               stored == [disk EXCEPT !.stopped = TRUE, !.state = "paused", !.stoppedAt = at]
    <3>1. recMu' = <<"op", i>> /\ Pipe!CancelJobs(i, stored)
      BY <1>9, <2>3 DEF Pipe!StopLock
    <3>2. disk \in PipeRecs /\ at \in Nat
      BY <1>d, <2>3 DEF PipeRecs
    <3> HIDE DEF at
    <3>3. stored \in PipeRecs /\ stored.stopped
      BY <3>2 DEF PipeRecs, Pipe!States
    <3> HIDE DEF stored
    <3>4. JobsStand /\ \E r \in OpRecs : op' = [op EXCEPT ![i] = r] /\ r.step = "wait" /\ r.rec = stored
      BY <3>1, <3>3, OpCancels
    <3>5. PICK r \in OpRecs : op' = [op EXCEPT ![i] = r] /\ r.step = "wait" /\ r.rec = stored
      BY <3>4
    <3>6. OpMoves(i, r)
      BY <1>d, <2>1, <3>1, <3>3, <3>5 DEF OpMoves, Locks
    <3> QED
      BY <3>4, <3>6, OpKeeps
  <2> QED
    BY <2>2, <2>3
<1>10. CASE Pipe!StopSave(i)
  <2>1. /\ UNCHANGED <<plan, standby, head, pipeJob>> /\ plan[i] = "stop" /\ op[i].step = "save"
        /\ disk' = op[i].rec /\ recMu' = Free /\ Pipe!To(i, "done")
    BY <1>10 DEF Pipe!StopSave, Pipe!At
  <2>2. op[i].rec \in PipeRecs /\ Locks(plan[i], op[i].step)
    BY <2>1 DEF PipeTypes, Reads, Locks
  <2> QED
    BY <1>d, <1>g, <1>l, <2>1, <2>2, JobsUnchanged DEF Reads, Locks
<1>11. CASE Pipe!StartLock(i)
  <2>1. /\ UNCHANGED <<plan, standby, disk, head, pipeJob>> /\ plan[i] = "start" /\ recMu = Free
        /\ \/ Pipe!To(i, "done") /\ recMu' = recMu
           \/ disk \in PipeRecs /\ recMu' = <<"op", i>> /\ Pipe!ToWith(i, "save", disk)
    BY <1>11, <1>d DEF Pipe!StartLock, Pipe!At
  <2>2. CASE Pipe!To(i, "done") /\ recMu' = recMu
    BY <1>d, <1>g, <1>l, <2>1, <2>2, JobsUnchanged DEF Reads, Locks
  <2>3. CASE disk \in PipeRecs /\ recMu' = <<"op", i>> /\ Pipe!ToWith(i, "save", disk)
    BY <1>d, <1>h, <1>l, <2>1, <2>3, JobsUnchanged
  <2> QED
    BY <2>1, <2>2, <2>3
<1>12. CASE Pipe!StartSave(i)
  <2> DEFINE stored == [op[i].rec EXCEPT !.stopped = FALSE, !.state = "running"]
             r == [op[i] EXCEPT !.step = "chain", !.rec = stored]
  <2>1. /\ UNCHANGED <<plan, standby, head, recMu, pipeJob>> /\ plan[i] = "start" /\ op[i].step = "save"
        /\ disk' = [op[i].rec EXCEPT !.stopped = FALSE, !.state = "running", !.stoppedAt = 0]
        /\ op' = [op EXCEPT ![i] = r]
    BY <1>12 DEF Pipe!StartSave, Pipe!At, PipeTypes, OpRecs
  <2>2. op[i].rec \in PipeRecs /\ op[i] \in OpRecs /\ Locks(plan[i], op[i].step) /\ "chain" \in OpSteps
    BY <2>1 DEF PipeTypes, Reads, Locks, OpSteps
  <2>3. disk' \in PipeRecs /\ stored \in PipeRecs
    BY <2>1, <2>2 DEF PipeRecs, Pipe!States
  <2> HIDE DEF stored
  <2>4. r \in OpRecs /\ r.step = "chain" /\ r.rec = stored
    BY <2>2, <2>3 DEF OpRecs
  <2> HIDE DEF r
  <2>5. recMu = <<"op", i>>
    BY <2>2 DEF MutexInv
  <2>6. OpMoves(i, r)
    BY <1>d, <2>1, <2>2, <2>3, <2>4, <2>5 DEF OpMoves
  <2> QED
    BY <2>1, <2>6, OpKeeps, JobsUnchanged
<1>13. CASE Pipe!StartChain(i)
  <2>1. /\ UNCHANGED <<plan, standby, disk, head, recMu, pipeJob>> /\ plan[i] = "start"
        /\ op[i].step = "chain" /\ \E s \in {"activate", "unlock"} : Pipe!To(i, s)
    BY <1>13 DEF Pipe!StartChain, Pipe!At
  <2>2. op[i].rec \in PipeRecs /\ recMu = <<"op", i>>
    BY <2>1 DEF PipeTypes, Reads, Locks, MutexInv
  <2> QED
    BY <1>d, <1>g, <1>l, <2>1, <2>2, JobsUnchanged
<1>14. CASE Pipe!Unlock(i)
  <2>1. /\ UNCHANGED <<plan, standby, disk, head, pipeJob>> /\ op[i].step = "unlock"
        /\ recMu' = Free /\ Pipe!To(i, "done")
    BY <1>14 DEF Pipe!Unlock
  <2>2. Locks(plan[i], op[i].step)
    BY <2>1 DEF PipeTypes, Locks
  <2> QED
    BY <1>d, <1>g, <1>l, <2>1, <2>2, JobsUnchanged DEF Reads, Locks
<1>15. CASE Pipe!UpdateLoad(i) \/ Pipe!DeleteLoad(i)
  <2>1. /\ UNCHANGED <<plan, standby, disk, head, recMu>> /\ plan[i] \in {"update", "delete"}
        /\ \/ plan[i] = "update" /\ disk = NoRec /\ Pipe!ToWith(i, "save", NoRec) /\ pipeJob' = pipeJob
           \/ Pipe!To(i, "done") /\ pipeJob' = pipeJob
           \/ disk # NoRec /\ Pipe!CancelJobs(i, disk)
    BY <1>15 DEF Pipe!UpdateLoad, Pipe!DeleteLoad, Pipe!At
  <2>2. CASE plan[i] = "update" /\ Pipe!ToWith(i, "save", NoRec) /\ pipeJob' = pipeJob
    <3>1. PICK r \in OpRecs : op' = [op EXCEPT ![i] = r] /\ r.step = "save" /\ r.rec = NoRec
      BY <1>l, <2>2, OpGoesWith
    <3>2. OpMoves(i, r)
      BY <1>d, <2>1, <2>2, <3>1 DEF OpMoves, Reads, Locks
    <3> QED
      BY <2>2, <3>2, OpKeeps, JobsUnchanged
  <2>3. CASE Pipe!To(i, "done") /\ pipeJob' = pipeJob
    BY <1>d, <1>g, <1>l, <2>1, <2>3, JobsUnchanged DEF Reads, Locks
  <2>4. CASE disk # NoRec /\ Pipe!CancelJobs(i, disk)
    <3>1. JobsStand /\ \E r \in OpRecs : op' = [op EXCEPT ![i] = r] /\ r.step = "wait" /\ r.rec = disk
      BY <1>d, <2>4, OpCancels
    <3>2. PICK r \in OpRecs : op' = [op EXCEPT ![i] = r] /\ r.step = "wait" /\ r.rec = disk
      BY <3>1
    <3>3. OpMoves(i, r)
      BY <1>d, <2>1, <2>4, <3>2 DEF OpMoves, Locks
    <3> QED
      BY <3>1, <3>3, OpKeeps
  <2> QED
    BY <2>1, <2>2, <2>3, <2>4
<1>16. CASE Pipe!UpdateSave(i)
  <2> DEFINE stored == Pipe!applyUpdate(op[i].rec)
  <2>1. /\ UNCHANGED <<plan, standby, head, recMu, pipeJob>> /\ plan[i] = "update"
        /\ disk' = stored /\ \E s \in {"activate", "park"} : Pipe!ToWith(i, s, stored)
    BY <1>16 DEF Pipe!UpdateSave, Pipe!At
  <2>2. op[i].rec \in PipeRecs \cup {NoRec}
    BY DEF PipeTypes, OpRecs
  <2>3. stored \in PipeRecs
    <3>1. CASE op[i].rec = NoRec
      BY <3>1 DEF Pipe!applyUpdate, PipeRecs, Pipe!States
    <3>2. CASE op[i].rec # NoRec
      <4>1. PICK s \in Pipe!States : s = IF op[i].rec.stopped THEN "paused" ELSE "running"
        BY DEF Pipe!States
      <4>3. op[i].rec \in PipeRecs
        BY <2>2, <3>2
      <4>4. PICK v \in Nat : v = op[i].rec.version + 1
        BY <4>3 DEF PipeRecs
      <4>2. stored = [op[i].rec EXCEPT !.state = s, !.version = v]
        BY <3>2, <4>1, <4>4 DEF Pipe!applyUpdate
      <4> HIDE DEF stored
      <4> QED
        BY <4>2, <4>3 DEF PipeRecs
    <3> QED
      BY <3>1, <3>2
  <2> HIDE DEF stored
  <2>4. ~Undisturbed
    BY <2>1 DEF Undisturbed
  <2> QED
    BY <1>d, <1>h, <1>l, <2>1, <2>3, <2>4, JobsUnchanged DEF Locks
<1>17. CASE Pipe!Park(i)
  <2>1. /\ UNCHANGED <<plan, standby, disk, head, recMu, pipeJob>> /\ op[i].step = "park"
        /\ (standby /\ Pipe!To(i, "parkSave")) \/ Pipe!To(i, "done")
    BY <1>17 DEF Pipe!Park
  <2>2. op[i].rec \in PipeRecs
    BY <2>1 DEF PipeTypes, Reads
  <2> QED
    BY <1>d, <1>g, <1>l, <2>1, <2>2, JobsUnchanged DEF Reads, Locks
<1>18. CASE Pipe!ParkSave(i)
  <2>1. /\ UNCHANGED <<plan, standby, head, recMu, pipeJob>> /\ op[i].step = "parkSave"
        /\ disk' = [op[i].rec EXCEPT !.state = "standby"] /\ Pipe!To(i, "done")
    BY <1>18 DEF Pipe!ParkSave
  <2>2. op[i].rec \in PipeRecs /\ ~Undisturbed
    BY <2>1 DEF PipeTypes, Reads, Undisturbed
  <2>3. disk' \in PipeRecs
    BY <2>1, <2>2 DEF PipeRecs, Pipe!States
  <2> QED
    BY <1>d, <1>g, <1>l, <2>1, <2>2, <2>3, JobsUnchanged DEF Reads, Locks
<1>19. CASE Pipe!DeleteLate(i)
  <2>1. /\ UNCHANGED <<plan, standby, disk, head, recMu, pipeJob>> /\ Pipe!To(i, "remove")
    BY <1>19 DEF Pipe!DeleteLate
  <2> QED
    BY <1>d, <1>g, <1>l, <2>1, JobsUnchanged DEF Reads, Locks
<1>20. CASE Pipe!DeleteRemove(i)
  <2>1. /\ UNCHANGED <<plan, standby, head, recMu>> /\ Pipe!To(i, "done") /\ disk' = NoRec
        /\ plan[i] = "delete"
        /\ pipeJob' = [k \in Pipe!Ops |-> IF pipeJob[k].step = "gone" THEN Pipe!NotSpawned ELSE pipeJob[k]]
    BY <1>20 DEF Pipe!DeleteRemove, Pipe!At
  <2>2. Pipe!NotSpawned \in PipeJobRecs /\ Pipe!NotSpawned.step = "none"
    BY DEF Pipe!NotSpawned, PipeJobRecs, JobSteps
  <2>3. JobsStand
    BY <2>1, <2>2 DEF JobsStand, PipeTypes
  <2>4. ~Undisturbed
    BY <2>1 DEF Undisturbed
  <2> QED
    BY <1>d, <1>g, <1>l, <2>1, <2>3, <2>4 DEF Reads, Locks
<1> QED
  BY <1>1, <1>2, <1>3, <1>4, <1>5, <1>6, <1>7, <1>8, <1>9, <1>10, <1>11, <1>12, <1>13, <1>14, <1>15,
     <1>16, <1>17, <1>18, <1>19, <1>20 DEF Pipe!OpStep

(* Every step of a job keeps them.                                         *)
LEMMA MutexJob ==
  ASSUME PipeTypes, MutexInv, NEW j \in Pipe!Ops,
         \/ \E mark \in {"crashed", "running", "failure"} : Pipe!MarkLoad(j, mark)
         \/ Pipe!JobEnds(j) \/ Pipe!SettleStep(j)
  PROVE  PipeTypes' /\ MutexInv'
<1>d. disk \in PipeRecs \cup {NoRec} /\ pipeJob[j] \in PipeJobRecs
  BY DEF PipeTypes
<1>s. ASSUME NEW s \in {"settle", "settleRec", "unregister", "gone"}, Pipe!StepJob(j, s),
             UNCHANGED <<plan, standby, head, op, disk, recMu>>
      PROVE  PipeTypes' /\ MutexInv'
  <2> DEFINE r == [pipeJob[j] EXCEPT !.step = s]
  <2>1. pipeJob' = [pipeJob EXCEPT ![j] = r]
    BY <1>s DEF Pipe!StepJob
  <2>2. r \in PipeJobRecs /\ r.step = s
    BY <1>d DEF PipeJobRecs, JobSteps
  <2> HIDE DEF r
  <2> QED
    BY <1>d, <1>s, <2>1, <2>2, JobKeeps
<1>1. ASSUME NEW mark \in {"crashed", "running", "failure"}, Pipe!MarkLoad(j, mark)
      PROVE  PipeTypes' /\ MutexInv'
  <2>1. /\ UNCHANGED <<plan, standby, head, op, disk>> /\ recMu = Free /\ recMu' = <<"job", j>>
        /\ disk \in PipeRecs
        /\ pipeJob' = [pipeJob EXCEPT ![j].step = "mark", ![j].mark = mark, ![j].marks = @ + 1,
                                      ![j].rec = disk]
    BY <1>d, <1>1 DEF Pipe!MarkLoad, Pipe!MarkApplies
  <2>2. PICK n \in Nat : n = pipeJob[j].marks + 1
    BY <1>d DEF PipeJobRecs
  <2> DEFINE r == [pipeJob[j] EXCEPT !.step = "mark", !.mark = mark, !.marks = n, !.rec = disk]
  <2>3. pipeJob' = [pipeJob EXCEPT ![j] = r]
    BY <1>d, <2>1, <2>2 DEF PipeTypes, PipeJobRecs
  <2>4. r \in PipeJobRecs /\ r.step = "mark" /\ r.rec = disk /\ r.mark \in Pipe!States
    BY <1>d, <2>1 DEF PipeJobRecs, JobSteps, Pipe!States
  <2> HIDE DEF r
  <2> QED
    BY <2>1, <2>3, <2>4, JobKeeps
<1>2. CASE Pipe!JobEnds(j)
  BY <1>2, <1>s DEF Pipe!JobEnds
<1>3. CASE Pipe!MarkSave(j)
  <2>1. /\ UNCHANGED <<plan, standby, head, op>> /\ pipeJob[j].step = "mark"
        /\ disk' = [pipeJob[j].rec EXCEPT !.state = pipeJob[j].mark]
        /\ recMu' = Free \/ recMu' = recMu
        /\ pipeJob' = [pipeJob EXCEPT ![j].step = "running", ![j].mark = "none", ![j].rec = NoRec]
    BY <1>3 DEF Pipe!MarkSave
  <2>2. pipeJob[j].rec \in PipeRecs /\ pipeJob[j].mark \in Pipe!States
    BY <2>1 DEF PipeTypes
  <2>3. disk' \in PipeRecs
    BY <2>1, <2>2 DEF PipeRecs
  <2> DEFINE r == [pipeJob[j] EXCEPT !.step = "running", !.mark = "none", !.rec = NoRec]
  <2>4. pipeJob' = [pipeJob EXCEPT ![j] = r]
    BY <1>d, <2>1 DEF PipeTypes, PipeJobRecs
  <2>5. r \in PipeJobRecs /\ r.step = "running"
    BY <1>d DEF PipeJobRecs, JobSteps
  <2> HIDE DEF r
  <2> QED
    BY <2>1, <2>3, <2>4, <2>5, JobKeeps
<1>4. CASE Pipe!SettleCount(j)
  BY <1>4, <1>s DEF Pipe!SettleCount
<1>5. CASE Pipe!SettleLoad(j)
  <2>1. /\ UNCHANGED <<plan, standby, head, op, disk>> /\ recMu = Free /\ recMu' = <<"job", j>>
        /\ pipeJob' = [pipeJob EXCEPT ![j].step = "settleSave", ![j].rec = disk]
    BY <1>5 DEF Pipe!SettleLoad
  <2> DEFINE r == [pipeJob[j] EXCEPT !.step = "settleSave", !.rec = disk]
  <2>2. pipeJob' = [pipeJob EXCEPT ![j] = r]
    BY <1>d, <2>1 DEF PipeTypes, PipeJobRecs
  <2>3. r \in PipeJobRecs /\ r.step = "settleSave"
    BY <1>d DEF PipeJobRecs, JobSteps
  <2> HIDE DEF r
  <2> QED
    BY <1>d, <2>1, <2>2, <2>3, JobKeeps
<1>6. CASE Pipe!SettleSave(j)
  <2>1. /\ UNCHANGED <<plan, standby, head, op>> /\ pipeJob[j].step = "settleSave" /\ recMu' = Free
        /\ \/ disk' = disk
           \/ pipeJob[j].rec # NoRec /\ disk' = [pipeJob[j].rec EXCEPT !.state = "standby"]
        /\ pipeJob' = [pipeJob EXCEPT ![j].step = "unregister", ![j].rec = NoRec]
    BY <1>6 DEF Pipe!SettleSave
  <2>2. pipeJob[j].rec \in PipeRecs \cup {NoRec}
    BY <1>d DEF PipeJobRecs
  <2>3. disk' \in PipeRecs \cup {NoRec}
    BY <1>d, <2>1, <2>2 DEF PipeRecs, Pipe!States
  <2> DEFINE r == [pipeJob[j] EXCEPT !.step = "unregister", !.rec = NoRec]
  <2>4. pipeJob' = [pipeJob EXCEPT ![j] = r]
    BY <1>d, <2>1 DEF PipeTypes, PipeJobRecs
  <2>5. r \in PipeJobRecs /\ r.step = "unregister"
    BY <1>d DEF PipeJobRecs, JobSteps
  <2> HIDE DEF r
  <2> QED
    BY <2>1, <2>3, <2>4, <2>5, JobKeeps
<1>7. CASE Pipe!Unregister(j)
  BY <1>7, <1>s DEF Pipe!Unregister
<1> QED
  BY <1>1, <1>2, <1>3, <1>4, <1>5, <1>6, <1>7 DEF Pipe!SettleStep

(* A stop lasts: who writes a record that is not stopped is a start.       *)
LEMMA StopLasts ==
  ASSUME PipeTypes, MutexInv, Pipe!Next, ~standby, disk # NoRec, disk.stopped,
         \A i \in Pipe!Ops : plan[i] \notin {"update", "delete"}
  PROVE  disk'.stopped \/ \E i \in Pipe!Ops : Pipe!StartSave(i)
<1>d. disk \in PipeRecs /\ Undisturbed
  BY DEF PipeTypes, Undisturbed
<1>1. PICK i \in Pipe!Ops :
        \/ Pipe!Commit(i) \/ Pipe!Request(i) \/ Pipe!OpStep(i)
        \/ \E mark \in {"crashed", "running", "failure"} : Pipe!MarkLoad(i, mark)
        \/ Pipe!JobEnds(i) \/ Pipe!SettleStep(i)
  BY DEF Pipe!Next
<1>2. CASE Pipe!StopSave(i)
  <2>1. plan[i] = "stop" /\ op[i].step = "save" /\ disk' = op[i].rec
    BY <1>2 DEF Pipe!StopSave, Pipe!At
  <2> QED
    BY <2>1 DEF MutexInv
<1>3. CASE Pipe!UpdateSave(i) \/ Pipe!DeleteRemove(i) \/ Pipe!ParkSave(i)
  <2>1. plan[i] \in {"update", "delete"} \/ op[i].step = "parkSave"
    BY <1>3 DEF Pipe!UpdateSave, Pipe!DeleteRemove, Pipe!ParkSave, Pipe!At
  <2> QED
    BY <2>1 DEF PipeTypes
<1>4. CASE Pipe!MarkSave(i)
  <2>1. pipeJob[i].step = "mark" /\ disk' = [pipeJob[i].rec EXCEPT !.state = pipeJob[i].mark]
    BY <1>4 DEF Pipe!MarkSave
  <2>2. pipeJob[i].rec = disk
    BY <1>d, <2>1 DEF MutexInv
  <2>3. disk'.stopped = disk.stopped
    BY <1>d, <2>1, <2>2 DEF PipeRecs
  <2> QED
    BY <2>3
<1>5. CASE Pipe!Activate(i) \/ Pipe!SettleSave(i)
  <2>1. disk' = disk
    BY <1>5 DEF Pipe!Activate, Pipe!SettleSave
  <2> QED
    BY <2>1
<1>6. CASE \/ Pipe!Commit(i) \/ Pipe!Request(i) \/ Pipe!TriggerList(i) \/ Pipe!TriggerLoad(i)
           \/ Pipe!TriggerPair(i) \/ Pipe!RunLoad(i) \/ Pipe!Launch(i) \/ Pipe!WaitEnds(i)
           \/ Pipe!StopLock(i) \/ Pipe!StartLock(i) \/ Pipe!StartChain(i) \/ Pipe!Unlock(i)
           \/ Pipe!UpdateLoad(i) \/ Pipe!Park(i) \/ Pipe!DeleteLoad(i) \/ Pipe!DeleteLate(i)
  <2>1. disk' = disk
    BY <1>6 DEF Pipe!Commit, Pipe!Request, Pipe!Begin, Pipe!TriggerList, Pipe!TriggerLoad,
         Pipe!TriggerPair, Pipe!RunLoad, Pipe!Launch, Pipe!WaitEnds, Pipe!StopLock, Pipe!StartLock,
         Pipe!StartChain, Pipe!Unlock, Pipe!UpdateLoad, Pipe!Park, Pipe!DeleteLoad, Pipe!DeleteLate
  <2> QED
    BY <2>1
<1>7. CASE \/ \E mark \in {"crashed", "running", "failure"} : Pipe!MarkLoad(i, mark)
           \/ Pipe!JobEnds(i) \/ Pipe!SettleCount(i) \/ Pipe!SettleLoad(i) \/ Pipe!Unregister(i)
  <2>1. disk' = disk
    BY <1>7 DEF Pipe!MarkLoad, Pipe!JobEnds, Pipe!SettleCount, Pipe!SettleLoad, Pipe!Unregister
  <2> QED
    BY <2>1
<1> QED
  BY <1>1, <1>2, <1>3, <1>4, <1>5, <1>6, <1>7 DEF Pipe!OpStep, Pipe!SettleStep

(* The activation count: a job that runs was launched by an operation that *)
(* is past its launch, so nobody is counted twice.                         *)
Launched == {"done", "unlock", "park", "parkSave"}
Ran == {"running", "mark", "settle"}
CountInv ==
  /\ standbyActive \in Nat
  /\ \A i \in Pipe!Ops : pipeJob[i].step \notin {"none", "record"} => op[i].step \in Launched
  /\ standby => standbyActive = Cardinality({i \in Pipe!Ops : Pipe!Counted(i)})

(* An operation goes on and no job moves in or out of the counted steps.   *)
LEMMA CountQuiet ==
  ASSUME CountInv, UNCHANGED <<plan, standby, standbyActive>>, NEW i \in Pipe!Ops, NEW s,
         \A k \in Pipe!Ops : op'[k].step = IF k = i THEN s ELSE op[k].step,
         s # "launch", op[i].step # "launch", op[i].step \in Launched => s \in Launched,
         \A k \in Pipe!Ops : /\ pipeJob'[k].step \in Ran <=> pipeJob[k].step \in Ran
                             /\ pipeJob[k].step \in {"none", "record"}
                                  => pipeJob'[k].step \in {"none", "record"}
  PROVE  CountInv'
<1>1. Pipe!Ops' = Pipe!Ops
  BY DEF Pipe!Ops
<1>2. {k \in Pipe!Ops : Pipe!Counted(k)}' = {k \in Pipe!Ops : Pipe!Counted(k)}
  BY <1>1 DEF Pipe!Counted, Ran
<1> QED
  BY <1>1, <1>2 DEF CountInv

(* A job goes on, and is counted as before.                                *)
LEMMA CountJob ==
  ASSUME CountInv, UNCHANGED <<plan, standby, standbyActive, op>>, NEW j \in Pipe!Ops, NEW s,
         \A k \in Pipe!Ops : pipeJob'[k].step = IF k = j THEN s ELSE pipeJob[k].step,
         s \in Ran <=> pipeJob[j].step \in Ran, pipeJob[j].step \notin {"none", "record"}
  PROVE  CountInv'
<1>1. Pipe!Ops' = Pipe!Ops
  BY DEF Pipe!Ops
<1>2. {k \in Pipe!Ops : Pipe!Counted(k)}' = {k \in Pipe!Ops : Pipe!Counted(k)}
  BY <1>1 DEF Pipe!Counted, Ran
<1> QED
  BY <1>1, <1>2 DEF CountInv

LEMMA CountActivate ==
  ASSUME PipeTypes, CountInv, NEW i \in Pipe!Ops, Pipe!Activate(i)
  PROVE  CountInv'
<1>1. /\ UNCHANGED <<plan, standby, pipeJob>> /\ op[i].step = "activate" /\ Pipe!To(i, "launch")
      /\ IF standby THEN standbyActive' = standbyActive + 1 ELSE standbyActive' = standbyActive
  BY DEF Pipe!Activate
<1>2. Pipe!Ops' = Pipe!Ops
  BY <1>1 DEF Pipe!Ops
<1>3. \A k \in Pipe!Ops : op'[k].step = IF k = i THEN "launch" ELSE op[k].step
  BY <1>1 DEF Pipe!To, PipeTypes, OpRecs
<1>4. pipeJob[i].step \in {"none", "record"}
  BY <1>1 DEF CountInv, Launched
<1> DEFINE C == {k \in Pipe!Ops : Pipe!Counted(k)}
<1>5. C' = C \cup {i} /\ i \notin C
  BY <1>1, <1>2, <1>3, <1>4 DEF Pipe!Counted
<1>6. IsFiniteSet(C)
  BY OpsAreNumbered, FS_Subset
<1>7. Cardinality(C') = Cardinality(C) + 1
  BY <1>5, <1>6, FS_AddElement
<1>8. standby => standbyActive = Cardinality(C)
  BY DEF CountInv
<1>9. \A k \in Pipe!Ops : pipeJob'[k].step \notin {"none", "record"} => op'[k].step \in Launched
  BY <1>1, <1>3, <1>4 DEF CountInv
<1>10. standbyActive' \in Nat
  BY <1>1 DEF CountInv
<1> HIDE DEF C
<1>11. standby' => standbyActive' = Cardinality(C')
  BY <1>1, <1>7, <1>8
<1> QED
  BY <1>2, <1>9, <1>10, <1>11 DEF CountInv, C

LEMMA CountLaunch ==
  ASSUME PipeTypes, CountInv, NEW i \in Pipe!Ops, Pipe!Launch(i)
  PROVE  CountInv'
<1>1. /\ UNCHANGED <<plan, standby, standbyActive>> /\ op[i].step = "launch"
      /\ \E s \in {"unlock", "park", "done"} : Pipe!To(i, s)
  BY DEF Pipe!Launch
<1>2. Pipe!Ops' = Pipe!Ops
  BY <1>1 DEF Pipe!Ops
<1>3. op'[i].step \in Launched /\ \A k \in Pipe!Ops : k # i => op'[k] = op[k]
  BY <1>1 DEF Pipe!To, PipeTypes, OpRecs, Launched
<1>4. pipeJob'[i].step = "running" /\ \A k \in Pipe!Ops : k # i => pipeJob'[k] = pipeJob[k]
  BY DEF Pipe!Launch, Pipe!Spawned, Pipe!NotSpawned, PipeTypes, PipeJobRecs
<1>5. {k \in Pipe!Ops : Pipe!Counted(k)}' = {k \in Pipe!Ops : Pipe!Counted(k)}
  BY <1>1, <1>2, <1>3, <1>4 DEF Pipe!Counted
<1> QED
  BY <1>1, <1>2, <1>3, <1>4, <1>5 DEF CountInv

LEMMA CountSettle ==
  ASSUME PipeTypes, CountInv, NEW j \in Pipe!Ops, Pipe!SettleCount(j)
  PROVE  CountInv'
<1>1. /\ UNCHANGED <<plan, standby, op>> /\ pipeJob[j].step = "settle"
      /\ standbyActive' = IF standbyActive = 0 THEN 0 ELSE standbyActive - 1
      /\ \E s \in {"unregister", "settleRec"} : Pipe!StepJob(j, s)
  BY DEF Pipe!SettleCount
<1>2. Pipe!Ops' = Pipe!Ops
  BY <1>1 DEF Pipe!Ops
<1>3. /\ pipeJob'[j].step \in {"unregister", "settleRec"}
      /\ \A k \in Pipe!Ops : k # j => pipeJob'[k] = pipeJob[k]
  BY <1>1 DEF Pipe!StepJob, PipeTypes, PipeJobRecs
<1>4. op[j].step \in Launched
  BY <1>1 DEF CountInv
<1> DEFINE C == {k \in Pipe!Ops : Pipe!Counted(k)}
<1>5. C' = C \ {j} /\ j \in C
  BY <1>1, <1>2, <1>3, <1>4 DEF Pipe!Counted, Launched
<1>6. IsFiniteSet(C)
  BY OpsAreNumbered, FS_Subset
<1>7. Cardinality(C') = Cardinality(C) - 1 /\ Cardinality(C) \in Nat
  BY <1>5, <1>6, FS_RemoveElement, FS_CardinalityType
<1>8. Cardinality(C) # 0
  BY <1>5, <1>6, FS_EmptySet
<1>9. standby => standbyActive = Cardinality(C)
  BY DEF CountInv
<1>10. \A k \in Pipe!Ops : pipeJob'[k].step \notin {"none", "record"} => op'[k].step \in Launched
  BY <1>1, <1>3, <1>4 DEF CountInv
<1>11. standbyActive' \in Nat
  BY <1>1 DEF CountInv
<1> HIDE DEF C
<1>12. standby' => standbyActive' = Cardinality(C')
  BY <1>1, <1>7, <1>8, <1>9
<1> QED
  BY <1>2, <1>10, <1>11, <1>12 DEF CountInv, C

(* The steps at which an operation stands before each of its actions.      *)
LEMMA CountOp ==
  ASSUME PipeTypes, CountInv, NEW i \in Pipe!Ops, Pipe!Commit(i) \/ Pipe!Request(i) \/ Pipe!OpStep(i)
  PROVE  CountInv'
<1>t. \A k \in Pipe!Ops : op[k] \in OpRecs /\ pipeJob[k] \in PipeJobRecs
  BY DEF PipeTypes
<1>q. ASSUME UNCHANGED <<plan, standby, standbyActive, pipeJob>>, NEW s,
             Pipe!To(i, s) \/ (\E stored : Pipe!ToWith(i, s, stored)),
             s # "launch", op[i].step # "launch", op[i].step \in Launched => s \in Launched
      PROVE  CountInv'
  <2>1. \A k \in Pipe!Ops : op'[k].step = IF k = i THEN s ELSE op[k].step
    BY <1>q DEF Pipe!To, Pipe!ToWith, PipeTypes, OpRecs
  <2> QED
    BY <1>q, <2>1, CountQuiet
<1>c. ASSUME UNCHANGED <<plan, standby, standbyActive>>, NEW stored, Pipe!CancelJobs(i, stored),
             op[i].step \in {"lock", "load"}
      PROVE  CountInv'
  <2>1. \A k \in Pipe!Ops : op'[k].step = IF k = i THEN "wait" ELSE op[k].step
    BY <1>c DEF Pipe!CancelJobs, PipeTypes, OpRecs
  <2>2. \A k \in Pipe!Ops : pipeJob'[k].step = pipeJob[k].step
    BY <1>c, <1>t DEF Pipe!CancelJobs, PipeJobRecs
  <2> QED
    BY <1>c, <2>1, <2>2, CountQuiet DEF Launched
<1>n. ASSUME UNCHANGED <<plan, standby, standbyActive>>, op[i].step \in {"pair", "load"},
             Pipe!To(i, "activate") \/ (\E stored : Pipe!ToWith(i, "activate", stored)),
             NEW v, pipeJob' = [pipeJob EXCEPT ![i] =
               [Pipe!NotSpawned EXCEPT !.step = "record", !.head = head, !.version = v]]
      PROVE  CountInv'
  <2>1. \A k \in Pipe!Ops : op'[k].step = IF k = i THEN "activate" ELSE op[k].step
    BY <1>n DEF Pipe!To, Pipe!ToWith, PipeTypes, OpRecs
  <2>2. pipeJob'[i].step = "record" /\ \A k \in Pipe!Ops : k # i => pipeJob'[k] = pipeJob[k]
    BY <1>n DEF Pipe!NotSpawned, PipeTypes
  <2>3. pipeJob[i].step \in {"none", "record"}
    BY <1>n DEF CountInv, Launched
  <2> QED
    BY <1>n, <2>1, <2>2, <2>3, CountQuiet DEF Launched, Ran
<1>1. CASE Pipe!Commit(i) \/ Pipe!Request(i)
  <2>1. /\ UNCHANGED <<plan, standby, standbyActive, pipeJob>> /\ op[i].step = "idle"
        /\ \E s \in {"list", "load", "lock"} : Pipe!To(i, s)
    BY <1>1 DEF Pipe!Commit, Pipe!Request, Pipe!Begin, Pipe!NoOp
  <2> QED
    BY <1>q, <2>1 DEF Launched
<1>2. CASE Pipe!TriggerList(i) \/ Pipe!TriggerLoad(i)
  <2>1. /\ UNCHANGED <<plan, standby, standbyActive, pipeJob>> /\ op[i].step \in {"list", "load"}
        /\ \/ \E s \in {"load", "done"} : Pipe!To(i, s)
           \/ Pipe!ToWith(i, "pair", disk)
    BY <1>2 DEF Pipe!TriggerList, Pipe!TriggerLoad, Pipe!At
  <2> QED
    BY <1>q, <2>1 DEF Launched
<1>3. CASE Pipe!TriggerPair(i)
  <2>1. /\ UNCHANGED <<plan, standby, standbyActive>> /\ op[i].step = "pair"
        /\ \/ Pipe!To(i, "done") /\ pipeJob' = pipeJob
           \/ Pipe!To(i, "activate") /\ Pipe!Spawned(i, "record")
    BY <1>3 DEF Pipe!TriggerPair, Pipe!At
  <2> QED
    BY <1>q, <1>n, <2>1 DEF Launched, Pipe!Spawned
<1>4. CASE Pipe!RunLoad(i)
  <2>1. /\ UNCHANGED <<plan, standby, standbyActive>> /\ op[i].step = "load"
        /\ \/ Pipe!To(i, "done") /\ pipeJob' = pipeJob
           \/ /\ Pipe!ToWith(i, "activate", disk)
              /\ pipeJob' = [pipeJob EXCEPT ![i] = [Pipe!NotSpawned EXCEPT
                               !.step = "record", !.head = head, !.version = disk.version]]
    BY <1>4 DEF Pipe!RunLoad, Pipe!At
  <2> QED
    BY <1>q, <1>n, <2>1 DEF Launched
<1>5. CASE Pipe!Activate(i)
  BY <1>5, CountActivate
<1>6. CASE Pipe!Launch(i)
  BY <1>6, CountLaunch
<1>7. CASE Pipe!WaitEnds(i)
  <2>1. /\ UNCHANGED <<plan, standby, standbyActive, pipeJob>> /\ op[i].step = "wait"
        /\ op' = [op EXCEPT ![i].step = Pipe!AfterWait(i), ![i].waits = {}]
    BY <1>7 DEF Pipe!WaitEnds, Pipe!Waited
  <2>2. Pipe!AfterWait(i) \in {"save", "late"}
    BY <2>1 DEF PipeTypes, Pipe!AfterWait
  <2>3. PICK s \in {"save", "late"} : s = Pipe!AfterWait(i)
    BY <2>2
  <2>4. \A k \in Pipe!Ops : op'[k].step = IF k = i THEN s ELSE op[k].step
    BY <2>1, <2>3 DEF PipeTypes, OpRecs
  <2> QED
    BY <2>1, <2>4, CountQuiet DEF Launched
<1>8. CASE Pipe!StopLock(i)
  <2>1. /\ UNCHANGED <<plan, standby, standbyActive>> /\ op[i].step = "lock"
        /\ (Pipe!To(i, "done") /\ pipeJob' = pipeJob) \/ \E stored : Pipe!CancelJobs(i, stored)
    BY <1>8 DEF Pipe!StopLock, Pipe!At
  <2> QED
    BY <1>q, <1>c, <2>1 DEF Launched
<1>9. CASE Pipe!StopSave(i) \/ Pipe!StartLock(i)
  <2>1. /\ UNCHANGED <<plan, standby, standbyActive, pipeJob>> /\ op[i].step \in {"save", "lock"}
        /\ Pipe!To(i, "done") \/ Pipe!ToWith(i, "save", disk)
    BY <1>9 DEF Pipe!StopSave, Pipe!StartLock, Pipe!At
  <2> QED
    BY <1>q, <2>1 DEF Launched
<1>10. CASE Pipe!StartSave(i)
  <2>1. /\ UNCHANGED <<plan, standby, standbyActive, pipeJob>> /\ op[i].step = "save"
        /\ \E stored : op' = [op EXCEPT ![i].step = "chain", ![i].rec = stored]
    BY <1>10 DEF Pipe!StartSave, Pipe!At, PipeTypes, OpRecs
  <2>2. \E stored : Pipe!ToWith(i, "chain", stored)
    BY <2>1 DEF Pipe!ToWith
  <2> QED
    BY <1>q, <2>1, <2>2 DEF Launched
<1>11. CASE Pipe!StartChain(i) \/ Pipe!Unlock(i)
  <2>1. /\ UNCHANGED <<plan, standby, standbyActive, pipeJob>>
        /\ \/ op[i].step = "chain" /\ \E s \in {"activate", "unlock"} : Pipe!To(i, s)
           \/ op[i].step = "unlock" /\ Pipe!To(i, "done")
    BY <1>11 DEF Pipe!StartChain, Pipe!Unlock, Pipe!At
  <2> QED
    BY <1>q, <2>1 DEF Launched
<1>12. CASE Pipe!UpdateLoad(i) \/ Pipe!DeleteLoad(i)
  <2>1. /\ UNCHANGED <<plan, standby, standbyActive>> /\ op[i].step = "load"
        /\ \/ Pipe!ToWith(i, "save", NoRec) /\ pipeJob' = pipeJob
           \/ Pipe!To(i, "done") /\ pipeJob' = pipeJob
           \/ Pipe!CancelJobs(i, disk)
    BY <1>12 DEF Pipe!UpdateLoad, Pipe!DeleteLoad, Pipe!At
  <2> QED
    BY <1>q, <1>c, <2>1 DEF Launched
<1>13. CASE Pipe!UpdateSave(i)
  <2>1. /\ UNCHANGED <<plan, standby, standbyActive, pipeJob>> /\ op[i].step = "save"
        /\ \E s \in {"activate", "park"} : \E stored : Pipe!ToWith(i, s, stored)
    BY <1>13 DEF Pipe!UpdateSave, Pipe!At
  <2> QED
    BY <1>q, <2>1 DEF Launched
<1>14. CASE Pipe!Park(i) \/ Pipe!ParkSave(i)
  <2>1. /\ UNCHANGED <<plan, standby, standbyActive, pipeJob>> /\ op[i].step \in {"park", "parkSave"}
        /\ \E s \in {"parkSave", "done"} : Pipe!To(i, s)
    BY <1>14 DEF Pipe!Park, Pipe!ParkSave
  <2> QED
    BY <1>q, <2>1 DEF Launched
<1>15. CASE Pipe!DeleteLate(i)
  BY <1>15, <1>q DEF Launched, Pipe!DeleteLate, Pipe!At
<1>16. CASE Pipe!DeleteRemove(i)
  <2>1. /\ UNCHANGED <<plan, standby, standbyActive>> /\ Pipe!To(i, "done") /\ op[i].step = "remove"
        /\ pipeJob' = [k \in Pipe!Ops |-> IF pipeJob[k].step = "gone" THEN Pipe!NotSpawned ELSE pipeJob[k]]
    BY <1>16 DEF Pipe!DeleteRemove, Pipe!At
  <2>2. \A k \in Pipe!Ops : op'[k].step = IF k = i THEN "done" ELSE op[k].step
    BY <2>1 DEF Pipe!To, PipeTypes, OpRecs
  <2>3. \A k \in Pipe!Ops : \/ pipeJob'[k] = pipeJob[k]
                            \/ pipeJob[k].step = "gone" /\ pipeJob'[k].step = "none"
    BY <2>1 DEF Pipe!NotSpawned
  <2> QED
    BY <2>1, <2>2, <2>3, CountQuiet DEF Launched, Ran
<1> QED
  BY <1>1, <1>2, <1>3, <1>4, <1>5, <1>6, <1>7, <1>8, <1>9, <1>10, <1>11, <1>12, <1>13, <1>14, <1>15,
     <1>16 DEF Pipe!OpStep

PipeInv == PipeTypes /\ MutexInv /\ CountInv

LEMMA PipeInitial ==
  ASSUME Pipe!Init PROVE PipeInv
<1>1. /\ plan \in Plans /\ standby \in BOOLEAN /\ head = 0 /\ standbyActive = 0
      /\ disk = [state |-> IF standby THEN "standby" ELSE "running", stopped |-> FALSE,
                 stoppedAt |-> 0, version |-> 1]
      /\ op = [i \in Pipe!Ops |-> [step |-> "idle", rec |-> NoRec, waits |-> {}]]
      /\ pipeJob = [i \in Pipe!Ops |-> Pipe!NotSpawned]
  BY DEF Pipe!Init, Pipe!NoOp
<1>2. disk \in PipeRecs
  <2>1. PICK s \in Pipe!States : s = IF standby THEN "standby" ELSE "running"
    BY DEF Pipe!States
  <2> QED
    BY <1>1, <2>1 DEF PipeRecs
<1>3. [step |-> "idle", rec |-> NoRec, waits |-> {}] \in OpRecs
  BY DEF OpRecs, OpSteps
<1>4. Pipe!NotSpawned \in PipeJobRecs /\ Pipe!NotSpawned.step = "none"
  BY DEF Pipe!NotSpawned, PipeJobRecs, JobSteps
<1>5. \A i \in Pipe!Ops : op[i].step = "idle" /\ pipeJob[i].step = "none"
  BY <1>1, <1>4
<1>6. PipeTypes
  BY <1>1, <1>2, <1>3, <1>4, <1>5 DEF PipeTypes, Reads
<1>7. MutexInv
  BY <1>5 DEF MutexInv, Locks
<1>8. {i \in Pipe!Ops : Pipe!Counted(i)} = {}
  BY <1>5 DEF Pipe!Counted
<1>9. CountInv
  BY <1>1, <1>5, <1>8, FS_EmptySet DEF CountInv
<1> QED
  BY <1>6, <1>7, <1>9 DEF PipeInv

LEMMA PipeStep ==
  ASSUME PipeInv, [Pipe!Next]_pipeVars
  PROVE  PipeInv'
<1>u. CASE UNCHANGED pipeVars
  <2>1. Pipe!Ops' = Pipe!Ops /\ (Undisturbed' <=> Undisturbed)
    BY <1>u DEF Pipe!Ops, Undisturbed, pipeVars
  <2>2. OpRecs' = OpRecs
    BY <2>1 DEF OpRecs
  <2>3. {k \in Pipe!Ops : Pipe!Counted(k)}' = {k \in Pipe!Ops : Pipe!Counted(k)}
    BY <1>u, <2>1 DEF Pipe!Counted, pipeVars
  <2>4. PipeTypes'
    BY <1>u, <2>1, <2>2 DEF PipeInv, PipeTypes, pipeVars
  <2>5. MutexInv'
    BY <1>u, <2>1 DEF PipeInv, MutexInv, pipeVars
  <2>6. CountInv'
    BY <1>u, <2>1, <2>3 DEF PipeInv, CountInv, pipeVars
  <2> QED
    BY <2>4, <2>5, <2>6 DEF PipeInv
<1>n. CASE Pipe!Next
  <2>1. PICK i \in Pipe!Ops :
          \/ Pipe!Commit(i) \/ Pipe!Request(i) \/ Pipe!OpStep(i)
          \/ \E mark \in {"crashed", "running", "failure"} : Pipe!MarkLoad(i, mark)
          \/ Pipe!JobEnds(i) \/ Pipe!SettleStep(i)
    BY <1>n DEF Pipe!Next
  <2>2. PipeTypes' /\ MutexInv'
    BY <2>1, MutexOp, MutexJob DEF PipeInv
  <2>3. CountInv'
    <3>j. ASSUME UNCHANGED <<plan, standby, standbyActive, op>>, NEW s,
                 \A k \in Pipe!Ops : pipeJob'[k].step = IF k = i THEN s ELSE pipeJob[k].step,
                 s \in Ran <=> pipeJob[i].step \in Ran, pipeJob[i].step \notin {"none", "record"}
          PROVE  CountInv'
      BY <3>j, CountJob DEF PipeInv
    <3>t. pipeJob \in [Pipe!Ops -> PipeJobRecs]
      BY DEF PipeInv, PipeTypes
    <3>3. ASSUME NEW mark \in {"crashed", "running", "failure"}, Pipe!MarkLoad(i, mark) PROVE CountInv'
      <4>1. \A k \in Pipe!Ops : pipeJob'[k].step = IF k = i THEN "mark" ELSE pipeJob[k].step
        BY <3>t, <3>3 DEF Pipe!MarkLoad, PipeJobRecs
      <4> QED
        BY <3>j, <3>3, <4>1 DEF Pipe!MarkLoad, Ran
    <3>4. CASE Pipe!MarkSave(i)
      <4>1. \A k \in Pipe!Ops : pipeJob'[k].step = IF k = i THEN "running" ELSE pipeJob[k].step
        BY <3>t, <3>4 DEF Pipe!MarkSave, PipeJobRecs
      <4> QED
        BY <3>j, <3>4, <4>1 DEF Pipe!MarkSave, Ran
    <3>5. CASE Pipe!JobEnds(i)
      <4>1. \A k \in Pipe!Ops : pipeJob'[k].step = IF k = i THEN "settle" ELSE pipeJob[k].step
        BY <3>t, <3>5 DEF Pipe!JobEnds, Pipe!StepJob, PipeJobRecs
      <4> QED
        BY <3>j, <3>5, <4>1 DEF Pipe!JobEnds, Ran
    <3>6. CASE Pipe!SettleCount(i)
      BY <3>6, CountSettle DEF PipeInv
    <3>7. CASE Pipe!SettleLoad(i)
      <4>1. \A k \in Pipe!Ops : pipeJob'[k].step = IF k = i THEN "settleSave" ELSE pipeJob[k].step
        BY <3>t, <3>7 DEF Pipe!SettleLoad, PipeJobRecs
      <4> QED
        BY <3>j, <3>7, <4>1 DEF Pipe!SettleLoad, Ran
    <3>8. CASE Pipe!SettleSave(i)
      <4>1. \A k \in Pipe!Ops : pipeJob'[k].step = IF k = i THEN "unregister" ELSE pipeJob[k].step
        BY <3>t, <3>8 DEF Pipe!SettleSave, PipeJobRecs
      <4> QED
        BY <3>j, <3>8, <4>1 DEF Pipe!SettleSave, Ran
    <3>9. CASE Pipe!Unregister(i)
      <4>1. \A k \in Pipe!Ops : pipeJob'[k].step = IF k = i THEN "gone" ELSE pipeJob[k].step
        BY <3>t, <3>9 DEF Pipe!Unregister, Pipe!StepJob, PipeJobRecs
      <4> QED
        BY <3>j, <3>9, <4>1 DEF Pipe!Unregister, Ran
    <3>10. CASE Pipe!Commit(i) \/ Pipe!Request(i) \/ Pipe!OpStep(i)
      BY <3>10, CountOp DEF PipeInv
    <3> QED
      BY <2>1, <3>3, <3>4, <3>5, <3>6, <3>7, <3>8, <3>9, <3>10 DEF Pipe!SettleStep
  <2> QED
    BY <2>2, <2>3 DEF PipeInv
<1> QED
  BY <1>u, <1>n

----------------------------------------------------------------------------
(* The parts together.                                                     *)

ProgressInv == HostInv /\ WaveInv /\ FlushInv /\ PoolInv /\ PipeInv

(* A step of the whole is a step, or a stutter, of each part.              *)
LEMMA ProgressParts ==
  [ProgressNext]_progressVars =>
    /\ [Host!Next]_hostVars /\ [Wait!Next]_waitVars /\ [Next]_vars
    /\ [Pipe!Next]_pipeVars
<1>1. CASE UNCHANGED progressVars
  BY <1>1 DEF progressVars
<1>2. CASE ProgressNext
  BY <1>2 DEF ProgressNext
<1> QED
  BY <1>1, <1>2

LEMMA ProgressInitial == ProgressInit => ProgressInv
<1> SUFFICES ASSUME ProgressInit PROVE ProgressInv
  OBVIOUS
<1>1. HostInv
  <2>1. /\ gpus = [j \in HostJobs |-> <<>>] /\ state = [j \in HostJobs |-> "waiting"]
        /\ call = [p \in Host!Pools |-> [n |-> 0, step |-> "idle"]]
    BY DEF ProgressInit, Host!Init
  <2>2. DOMAIN <<>> = {}
    OBVIOUS
  <2>3. \A j \in HostJobs : ~Holds(j) /\ gpus[j] = <<>>
    BY <2>1 DEF Holds
  <2>4. \A j \in HostJobs : \A s \in Host!Slots(j) : call[<<j, s>>].step # "calling"
    BY <2>1, PoolsAndAttempts
  <2>5. call \in [Host!Pools -> [n : Nat, step : {"idle", "calling"} \cup Host!Ends]]
    BY <2>1
  <2> QED
    BY <2>1, <2>2, <2>3, <2>4, <2>5 DEF HostInv
<1>2. /\ mode \in [Wait!Stages -> Modes] /\ owed = {0}
      /\ waveJob = [i \in Wait!Stages |-> [state |-> "none", out |-> "none"]]
      /\ flush = [step |-> "register", verdict |-> "wait", woken |-> FALSE, relevant |-> {}]
  BY DEF ProgressInit, Wait!Init, Wait!NotSpawned
<1>3. WaveInv
  <2>1. mode \in [Wait!Stages -> {"running", "standby", "stopped"}]
    BY <1>2, ProgressAssumption
  <2>2. waveJob \in [Wait!Stages -> JobRecords]
    BY <1>2 DEF JobRecords
  <2>3. owed \subseteq 0 .. ChainLength
    BY <1>2, ProgressAssumption
  <2> QED
    BY <1>2, <2>1, <2>2, <2>3 DEF WaveInv, WaveTypes
<1>4. FlushInv
  <2>1. \A i \in Wait!Stages : SmoothJob(i)
    BY <1>2 DEF SmoothJob
  <2> QED
    BY <1>2, <2>1 DEF FlushInv
<1> QED
  BY <1>1, <1>3, <1>4, PoolInit, PipeInitial DEF ProgressInit, ProgressInv

LEMMA ProgressInductive == ProgressInv /\ [ProgressNext]_progressVars => ProgressInv'
BY ProgressParts, HostStep, WaitStep, PoolStep, PipeStep DEF ProgressInv

LEMMA ProgressAlways == ProgressSpec => []ProgressInv
BY ProgressInitial, ProgressInductive, PTL DEF ProgressSpec

(* Two attempts in flight on an execution host have no device in common,   *)
(* however the devices are split over jobs and slots (datum_engine.go).    *)
THEOREM DatumsAreApart == ProgressSpec => []DatumsApart
<1>1. ProgressInv => DatumsApart
  BY HostApart DEF ProgressInv, DatumsApart
<1> QED
  BY <1>1, ProgressAlways, PTL

(* A flush that returns has every job of the wave, all of them terminal,   *)
(* whatever the length of the chain (wait.go, flushSet).                   *)
THEOREM FlushIsComplete == ProgressSpec => []FlushComplete
<1>1. ProgressInv => FlushComplete
  BY FlushWhole DEF ProgressInv
<1> QED
  BY <1>1, ProgressAlways, PTL

(* The pool that runs beside the rest loses no datum, and one request to   *)
(* restart a datum fails none (datum_engine.go, datum_api.go).             *)
THEOREM PoolIsSound ==
  ASSUME \A q, r \in Requests : q = r
  PROVE  ProgressSpec => []PoolSound
<1>1. ProgressInv /\ HarmInv /\ [ProgressNext]_progressVars => HarmInv'
  BY ProgressParts, HarmStep DEF ProgressInv
<1>2. ProgressInit => HarmInv
  BY HarmInit DEF ProgressInit
<1>3. ProgressInv /\ HarmInv => PoolSound
  BY PoolInvOnce, HarmlessInv DEF ProgressInv, PoolSound
<1>4. ProgressSpec => []HarmInv
  BY <1>1, <1>2, ProgressAlways, PTL DEF ProgressSpec
<1> QED
  BY <1>3, <1>4, ProgressAlways, PTL

(* The activation count of a standby pipeline is the number of its jobs    *)
(* that were activated and have not settled, and a stop lasts until a      *)
(* start, for every plan of operations (pipeline.go, jobs.go).             *)
THEOREM PipelineStateIsKept == ProgressSpec => PipelineStateKept
<1>1. ProgressInv => Pipe!StandbyCountExact
  BY DEF ProgressInv, PipeInv, CountInv, Pipe!StandbyCountExact, Pipe!Cardinality, Cardinality
<1>2. ASSUME ProgressInv, [ProgressNext]_progressVars
      PROVE  [/\ ~standby /\ disk # NoRec /\ disk.stopped
              /\ \A i \in Pipe!Ops : plan[i] \notin {"update", "delete"}
              => disk'.stopped \/ \E i \in Pipe!Ops : Pipe!StartSave(i)]_pipeVars
  <2>1. CASE Pipe!Next
    BY <1>2, <2>1, StopLasts DEF ProgressInv, PipeInv
  <2>2. CASE UNCHANGED pipeVars
    BY <2>2
  <2> QED
    BY <1>2, <2>1, <2>2, ProgressParts
<1>3. ProgressSpec => Pipe!StopIsDurable
  BY <1>2, ProgressAlways, PTL DEF ProgressSpec, Pipe!StopIsDurable, Pipe!vars, pipeVars
<1>4. ProgressSpec => []Pipe!StandbyCountExact
  BY <1>1, ProgressAlways, PTL
<1> QED
  BY <1>3, <1>4 DEF PipelineStateKept
=============================================================================
