----------------------------- MODULE MCJobGate -----------------------------
(* Bounds for JobGate: the jobs and the API goroutines are interchangeable. *)
EXTENDS JobGate, TLC

Symmetry == Permutations(Jobs) \cup Permutations(Callers)
=============================================================================
