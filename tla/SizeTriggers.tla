---------------------------- MODULE SizeTriggers ----------------------------
(***************************************************************************)
(* One size trigger (trigger.go): the bytes that commits add to a watched  *)
(* branch accumulate in a ledger on disk, and for every full threshold the *)
(* content is committed to the accumulation branch, where it triggers the  *)
(* pipeline (commitRevision, jobs.go).                                     *)
(*                                                                         *)
(* Commits are finished by concurrent requests.  Each request adds its own *)
(* commit's bytes under the ledger's mutex and fires outside of it.  The   *)
(* branch holds one file, of which the size matters.                       *)
(***************************************************************************)
EXTENDS Integers, Sequences, Functions

CONSTANTS
  SizeBytes,  \* the threshold
  Sizes,      \* the sizes the file may have
  MaxCommits,
  MayCrash    \* the daemon may restart

VARIABLES
  size,    \* the watched branch: the file's size in each commit
  request, \* the request that finished each commit: its step, its firings to come
  ledger,  \* the bytes accumulated since the last firing
  fired,   \* the accumulation branch: which commit's content each commit has
  lost     \* history: the commits whose requests a crash cut off

vars == <<size, request, ledger, fired, lost>>

Commits == DOMAIN size

TypeOK ==
  /\ size \in Seq(Sizes) /\ Len(size) <= MaxCommits
  /\ DOMAIN request = Commits
  /\ \A c \in Commits : request[c] \in [step : {"finished", "firing", "over"}, fires : Nat]
  /\ ledger \in Nat /\ fired \in Seq(Commits) /\ lost \subseteq Commits

Init == size = <<>> /\ request = <<>> /\ ledger = 0 /\ fired = <<>> /\ lost = {}

(* commitDelta: the bytes of a new file, or by which it grew.              *)
commitDelta(c) ==
  LET parent == IF c = 1 THEN 0 ELSE size[c - 1] IN
  IF size[c] > parent THEN size[c] - parent ELSE 0

(* A commit of the watched branch is finished.                             *)
FinishCommit(bytes) ==
  /\ Len(size) < MaxCommits
  /\ size' = Append(size, bytes)
  /\ request' = Append(request, [step |-> "finished", fires |-> 0])
  /\ UNCHANGED <<ledger, fired, lost>>

(* Mutant of Fires: an oversized commit fires once.                        *)
FiresOnce(accum) == IF accum >= SizeBytes THEN 1 ELSE 0

(* One firing for each full threshold.                                     *)
Fires(accum) == accum \div SizeBytes

(* fireTrigger, under the ledger's mutex: the bytes are added, the full    *)
(* thresholds taken off, the rest saved.                                   *)
fireTrigger(c) ==
  LET accum == ledger + commitDelta(c) IN
  /\ request[c].step = "finished"
  /\ request' = [request EXCEPT ![c] = [step |-> "firing", fires |-> Fires(accum)]]
  /\ ledger' = accum % SizeBytes
  /\ UNCHANGED <<size, fired, lost>>

(* fireOnce: the content of the request's commit is committed to the       *)
(* accumulation branch, which triggers the pipeline.                       *)
fireOnce(c) ==
  /\ request[c].step = "firing" /\ request[c].fires > 0
  /\ request' = [request EXCEPT ![c].fires = @ - 1]
  /\ fired' = Append(fired, c)
  /\ UNCHANGED <<size, ledger, lost>>

Done(c) ==
  /\ request[c].step = "firing" /\ request[c].fires = 0
  /\ request' = [request EXCEPT ![c].step = "over"]
  /\ UNCHANGED <<size, ledger, fired, lost>>

(* A restart: requests are gone, branches and ledger are on disk.          *)
Restart ==
  /\ MayCrash /\ \E c \in Commits : request[c].step # "over"
  /\ lost' = lost \cup {c \in Commits : request[c].step # "over"}
  /\ request' = [c \in Commits |-> [step |-> "over", fires |-> 0]]
  /\ UNCHANGED <<size, ledger, fired>>

Next == \/ \E bytes \in Sizes : FinishCommit(bytes)
        \/ \E c \in Commits : fireTrigger(c) \/ fireOnce(c) \/ Done(c)
        \/ Restart

Spec == Init /\ [][Next]_vars

----------------------------------------------------------------------------
Counted == {c \in Commits : request[c].step # "finished"}
Owed == SumFunction([c \in Commits |-> request[c].fires])
Accumulated == SumFunction([c \in Counted |-> commitDelta(c)])

(* No byte is lost or counted twice, in whatever order the requests come:  *)
(* what was committed is what was fired for, what is about to be, and a    *)
(* rest smaller than the threshold (trigger.go: "an unserialized           *)
(* read-modify-write on the ledger file double-fires (or drops) threshold  *)
(* units").                                                                *)
BytesConserved ==
  lost = {} =>
    /\ Accumulated = SizeBytes * (Len(fired) + Owed) + ledger
    /\ ledger < SizeBytes

(* The same through a restart (trigger.go: "the ledger survives control-   *)
(* plane restarts without losing or double-counting bytes"). It fails: a   *)
(* crash between the save of the ledger and the firing loses the firing.   *)
BytesSurviveRestart ==
  Accumulated = SizeBytes * (Len(fired) + Owed) + ledger

(* The accumulation branch never goes back to older content (trigger.go: a *)
(* firing commits "the watched branch's current view"). It fails: two      *)
(* requests fire, outside of the mutex, in either order.                   *)
FiringsInOrder == \A n, m \in DOMAIN fired : n < m => fired[n] <= fired[m]
=============================================================================
