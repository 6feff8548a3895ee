------------------------------ MODULE MCOutput ------------------------------
(* Small outputs: a job leaves the file x or nothing at all, and clients   *)
(* may put the delivery marker on the output branch as well.               *)
EXTENDS Output

X == <<"x">>
Git == <<".git", "HEAD">>
WithMarker == <<Git, X>>

Piece == CHOOSE v \in Contents : TRUE
NoOutput == {NoFiles}
MCOutDirs == {NoFiles, [NoFiles EXCEPT ![X] = <<Piece>>]}

Symmetry == Permutations(Commits) \cup Permutations(Jobs)
=============================================================================
