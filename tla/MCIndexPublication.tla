------------------------- MODULE MCIndexPublication -------------------------
EXTENDS IndexPublication, TLC

CONSTANTS p1, p2, p3, a, b, t1, t2

SameConfig == [p \in Calls |-> "c1"]
NewConfig == [p \in Calls |-> "c2"]

Symmetry ==
    Permutations(Texts) \cup Permutations(Paths) \cup Permutations(Calls)
=============================================================================
