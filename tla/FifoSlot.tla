------------------------------ MODULE FifoSlot ------------------------------
(***************************************************************************)
(* What the per-pipeline job gate promises, without channels, cancels or   *)
(* goroutines: one slot, owned by at most one job, and a line of waiting   *)
(* jobs.  A job that arrives when the slot is free owns it at once; the    *)
(* slot only ever passes to the job at the front of the line; a waiting    *)
(* job may give up its place without disturbing the order of the others.   *)
(***************************************************************************)
EXTENDS Naturals, Sequences

CONSTANTS Jobs,   \* the jobs of one pipeline
          NoJob   \* the slot's owner when it is free; not a job

VARIABLES owner,  \* the job that owns the slot, or NoJob
          line    \* the waiting jobs, oldest first

slotVars == <<owner, line>>

SlotInit == owner = NoJob /\ line = <<>>

(* The line without its k-th job; the jobs behind it move up.              *)
Without(q, k) == [i \in 1 .. (Len(q) - 1) |-> IF i < k THEN q[i] ELSE q[i + 1]]

(* A job arrives: it owns a free slot at once, or joins the line.          *)
Arrive(j) ==
  \/ owner = NoJob /\ owner' = j /\ line' = line
  \/ owner # NoJob /\ line' = Append(line, j) /\ owner' = owner

(* A waiting job gives up.                                                 *)
GiveUp == \E k \in DOMAIN line : line' = Without(line, k) /\ owner' = owner

(* The owner is done: the front of the line gets the slot, if there is one. *)
HandOff ==
  /\ owner # NoJob
  /\ IF line = <<>> THEN owner' = NoJob /\ line' = line
                    ELSE owner' = Head(line) /\ line' = Tail(line)

SlotNext == GiveUp \/ HandOff \/ \E j \in Jobs : Arrive(j)

SlotSpec == SlotInit /\ [][SlotNext]_slotVars
=============================================================================
