----------------------------- MODULE Selection -----------------------------
(* The members of a sequence that are in a set, in their order.            *)
EXTENDS SequencesExt

Selected(s, P) == FoldLeft(LAMBDA acc, x : IF x \in P THEN Append(acc, x) ELSE acc, <<>>, s)
=============================================================================
