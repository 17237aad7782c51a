--------------------------- MODULE MCHnswIterator ---------------------------
EXTENDS HnswIterator, TLC

\* Bottom layers with at most MaxLinks links from a node, none to itself.
CONSTANT MaxLinks
MCGraphs ==
  {g \in [Node -> SUBSET Node] :
     \A n \in Node : n \notin g[n] /\ Cardinality(g[n]) <= MaxLinks}
MCDistance == {1, 2, 3}
MCLoaded == {S \in SUBSET Node : Cardinality(S) # 1}
MCSymmetry == Permutations(Node) \cup Permutations(Iter)

(***************************************************************************)
(* Two kinds of behaviours.  In those that start with all nodes, one       *)
(* iterator at a time searches a graph that does not grow, with the only   *)
(* list, and a node may be marked deleted.  In the others nodes are        *)
(* inserted, at one distance, while two iterators are open.                *)
(***************************************************************************)
VARIABLE full
MCvars == <<vars, full>>

MCInit ==
  /\ Init
  /\ full = (elems = Node)
  /\ IF full THEN \A a, b \in Iter : dist[a] = dist[b]
     ELSE \A it \in Iter, n \in Node : dist[it][n] = 1

MCNext ==
  /\ Next
  /\ IF full
     THEN Cardinality({it \in Iter : phase'[it] # "none"}) <= 1 /\ allocated' = 1
     ELSE deleted' = {}
  /\ UNCHANGED full

MCSpec == MCInit /\ [][MCNext]_MCvars
=============================================================================
