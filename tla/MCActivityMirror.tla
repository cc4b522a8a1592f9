-------------------------- MODULE MCActivityMirror --------------------------
EXTENDS ActivityMirror, TLC

CONSTANTS t1, t2, t3, h1, h2, p1, p2

HomeOf == h1 :> p1 @@ h2 :> p2
Symmetry == Permutations(Recognised)
=============================================================================
