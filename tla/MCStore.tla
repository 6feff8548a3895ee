------------------------------ MODULE MCStore ------------------------------
(* Small stores: the paths x, x.t, x/y and .git/HEAD.                      *)
EXTENDS Store

Symmetry == Permutations(Commits) \cup Permutations(Contents)

X == <<"x">>
XT == <<"x.t">>
XY == <<"x", "y">>
Git == <<".git", "HEAD">>

(* In byte order '.' comes before '/'.                                     *)
Interleaved == <<X, XT, XY>>
WithMarker == <<Git, X>>
Single == <<X>>
=============================================================================
