---------------------------- MODULE MCTopKSession ----------------------------
EXTENDS TopKSession

CONSTANTS a1, a2, b1, f1, f2, list, cursor, table

\* A target list of two calls, a cursor with one, a join of two in FROM.
MCQuery == [p \in Portals |-> CASE p = list -> <<a1, a2>>
                                [] p = cursor -> <<b1>>
                                [] p = table -> <<f1, f2>>]

\* No row, or two; ef and term_cond left to the default, negative or below k;
\* and a call of multicol_topk.
MCSqlArgs == {<<-1, 0, 1>>, <<2, 1, -2>>, <<0, 0>>}
MCTexts == {[where |-> w, limit |-> l] : w \in BOOLEAN, l \in {<<>>, <<1>>}}
=============================================================================
