--------------------------- MODULE MCSpannIterator ---------------------------
EXTENDS SpannIterator
CONSTANTS h1, h2, h3, v1, v2, v3, v4, v5

MCVector == {v1, v2, v3, v4, v5}
MCVidOf == (h1 :> v1) @@ (h2 :> v2) @@ (h3 :> v3)
\* Any lists of the two vectors that are no heads.
MCPostings == [HeadId -> {<< >>, <<v4>>, <<v5>>, <<v4, v5>>, <<v5, v4>>}]
==============================================================================
