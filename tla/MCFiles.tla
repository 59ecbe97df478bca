------------------------------- MODULE MCFiles ------------------------------
EXTENDS PrivateFiles, TLC

CONSTANTS w1, w2, r1, r2, c1, c2

\* r1 uploads both files, r2 one of them again.
Uploads == r1 :> {c1, c2} @@ r2 :> {c1}

Symmetric == Permutations(Workers)
=============================================================================
