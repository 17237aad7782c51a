--------------------------- MODULE MCMultiColTopK ---------------------------
EXTENDS MultiColTopK

MCRanks == {-1, 1}
=============================================================================
