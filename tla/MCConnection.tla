---------------------------- MODULE MCConnection ----------------------------
EXTENDS Connection, TLC

CONSTANTS s1, s2

RowsOf == (s1 :> 0) @@ (s2 :> 1)

Symmetry == Permutations(Threads)
=============================================================================
