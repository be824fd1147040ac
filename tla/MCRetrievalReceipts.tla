------------------------- MODULE MCRetrievalReceipts -------------------------
EXTENDS RetrievalReceipts, TLC

CONSTANTS c1, c2, signature, body, t1, t2

EveryPair == Places \X Places
Symmetry == Permutations(Clients) \cup Permutations(Texts)
=============================================================================
