----------------------------- MODULE MCIndexStore -----------------------------
EXTENDS IndexStore, TLC

CONSTANTS short, long

MCDim == (short :> 1) @@ (long :> 2)
\* m_indtuples starts at -0.9 or at 0.2; always at 1.
MCGarbage == {-9, 2}
MCEnough == {10}
Symmetry == Permutations(Tid) \cup Permutations(Backend)
=============================================================================
