---------------------------- MODULE MCBktIterator ----------------------------
EXTENDS BktIterator, TLC

CONSTANTS s1, s2, s3, s4

\* s1 and s4 are equal.
MCCopies == (s1 :> {s4}) @@ [s \in Sample |-> {}]
MCDistance == {1, 2}
MCGraphs == {g \in [Sample -> SUBSET Sample] :
               g[s4] = {s1} /\ \A s \in Sample : s \notin g[s] /\ s4 \notin g[s]}
MCSymmetry == Permutations({s2, s3})
=============================================================================
