---------------------------- MODULE HnswIterator ----------------------------
(***************************************************************************)
(* The iterative search src/patch/hnsw.patch adds to hnswlib: a            *)
(* ResultIterator walks the bottom layer of the HNSW graph best-first and  *)
(* returns one node per Next(), for as long as it is asked.  Its workspace *)
(* (candidate queue and visited list) lives from the constructor to        *)
(* Close(); the visited lists come from a pool that all iterators of the   *)
(* process and all insertions share.                                       *)
(*                                                                         *)
(* One process runs one call at a time, but several iterators may be open  *)
(* (two scans of one plan, two cursors) and points may be inserted or      *)
(* marked deleted between two calls of Next().                             *)
(***************************************************************************)
EXTENDS Integers, Sequences, FiniteSets, Functions

CONSTANTS
  Node,      \* internal ids; each has one label for ever
  Iter,      \* the iterators
  NoIter,    \* no call is running
  Distance,  \* the distances of nodes from a query
  Graphs,    \* the bottom layers to start from: [Node -> SUBSET Node]
  Loaded,    \* the sets of nodes to start from
  TagMod,    \* number of values of vl_type, 2^16 in hnswlib
  MaxLists,  \* bound: how many visited lists the process may allocate
  MaxDeleted \* bound: how many nodes may be marked deleted

ASSUME IteratorAssumption ==
  /\ NoIter \notin Iter
  /\ Distance \subseteq Int
  /\ Graphs \subseteq [Node -> SUBSET Node]
  /\ Loaded \subseteq SUBSET Node
  /\ TagMod \in Nat /\ TagMod > 1
  /\ MaxLists \in Nat \ {0}
  /\ MaxDeleted \in Nat

VARIABLES
  elems,      \* the nodes with id < cur_element_count
  links,      \* links[n]: get_linklist0(n)
  deleted,    \* the nodes marked deleted
  dist,       \* dist[it][n]: distance of node n from it's query
  pool,       \* visited_list_pool_: the free lists, front first
  allocated,  \* how many lists exist: they are 1 .. allocated
  tag,        \* tag[l]: VisitedList.curV
  mass,       \* mass[l][n]: VisitedList.mass
  phase,      \* of each iterator: "none", "open", "closed"
  vl,         \* vl[it]: the list of its workspace
  candidates, \* candidates[it]: WorkSpace.candidate_set
  isFirst,    \* m_isFirstResult_
  busy,       \* the iterator inside searchBaseLayerSTIterative
  start,      \* history: the node the bottom layer was entered at, {} before
  emitted,    \* history: the nodes returned, in order
  exhausted,  \* history: Next() has returned no result
  grown       \* history: a point was inserted since the iterator opened

graph == <<elems, links, deleted>>
lists == <<pool, allocated, tag, mass>>
iters == <<phase, vl, candidates, isFirst, start, emitted, exhausted, grown>>
vars == <<graph, dist, lists, iters, busy>>

Lists == 1 .. MaxLists

-----------------------------------------------------------------------------
(***************************************************************************)
(* hnswlib's VisitedListPool.  A list is handed out with a new tag, so     *)
(* that no node counts as visited; when the tag wraps, mass is cleared.    *)
(***************************************************************************)
NextTag(l) == (tag[l] + 1) % TagMod
FreshNoClear(l) == <<IF NextTag(l) = 0 THEN 1 ELSE NextTag(l), mass[l]>>
Fresh(l) ==
  IF NextTag(l) = 0 THEN <<1, [n \in Node |-> 0]>> ELSE <<NextTag(l), mass[l]>>

\* getFreeVisitedList: the front of the pool, a new list if it is empty.
FreeLists ==
  IF pool # << >> THEN {Head(pool)}
  ELSE IF allocated < MaxLists THEN {allocated + 1} ELSE {}

TakeList(l) ==
  /\ l \in FreeLists
  /\ pool' = IF pool = << >> THEN pool ELSE Tail(pool)
  /\ allocated' = IF pool = << >> THEN l ELSE allocated
  /\ tag' = [tag EXCEPT ![l] = Fresh(l)[1]]
  /\ mass' = [mass EXCEPT ![l] = Fresh(l)[2]]

Visited(it) == {n \in Node : mass[vl[it]][n] = tag[vl[it]]}

-----------------------------------------------------------------------------
Init ==
  /\ elems \in Loaded
  /\ links \in {g \in Graphs : \A n \in Node :
                 g[n] \subseteq elems /\ (n \notin elems => g[n] = {})}
  /\ deleted = {}
  /\ dist \in [Iter -> [Node -> Distance]]
  /\ pool = <<1>>
  /\ allocated = 1
  /\ tag = [l \in Lists |-> TagMod - 1]
  /\ mass = [l \in Lists |-> [n \in Node |-> 0]]
  /\ phase = [it \in Iter |-> "none"]
  /\ vl = [it \in Iter |-> 1]
  /\ candidates = [it \in Iter |-> {}]
  /\ isFirst = [it \in Iter |-> TRUE]
  /\ busy = NoIter
  /\ start = [it \in Iter |-> {}]
  /\ emitted = [it \in Iter |-> << >>]
  /\ exhausted = [it \in Iter |-> FALSE]
  /\ grown = [it \in Iter |-> FALSE]

(***************************************************************************)
(* The constructor of ResultIterator.                                      *)
(***************************************************************************)
Open(it) ==
  /\ busy = NoIter
  /\ phase[it] = "none"
  /\ \E l \in FreeLists : TakeList(l) /\ vl' = [vl EXCEPT ![it] = l]
  /\ phase' = [phase EXCEPT ![it] = "open"]
  /\ UNCHANGED <<graph, dist, candidates, isFirst, start, emitted, exhausted,
                 grown, busy>>

(***************************************************************************)
(* Next() and searchKnnIterative: an empty index has no result; the first  *)
(* call walks down the upper layers and queues the node it ends at.  Which *)
(* node that is depends on the upper layers: any node will do.             *)
(***************************************************************************)
NextOnEmpty(it) ==
  /\ busy = NoIter
  /\ phase[it] = "open"
  /\ elems = {}
  /\ isFirst' = [isFirst EXCEPT ![it] = FALSE]
  /\ exhausted' = [exhausted EXCEPT ![it] = TRUE]
  /\ UNCHANGED <<graph, dist, lists, phase, vl, candidates, start, emitted,
                 grown, busy>>

NextResult(it) ==
  /\ busy = NoIter
  /\ phase[it] = "open"
  /\ elems # {}
  /\ \/ /\ isFirst[it]
        /\ \E entry \in elems :
             /\ candidates' = [candidates EXCEPT ![it] = @ \cup {entry}]
             /\ start' = [start EXCEPT ![it] = {entry}]
     \/ ~isFirst[it] /\ UNCHANGED <<candidates, start>>
  /\ isFirst' = [isFirst EXCEPT ![it] = FALSE]
  /\ busy' = it
  /\ UNCHANGED <<graph, dist, lists, phase, vl, emitted, exhausted, grown>>

(***************************************************************************)
(* searchBaseLayerSTIterative: one iteration of its while loop.  It pops   *)
(* the nearest candidate, queues the neighbours that were not visited, and *)
(* returns the node unless it is marked deleted.                           *)
(***************************************************************************)
Farthest(it) ==
  {n \in candidates[it] : \A m \in candidates[it] : dist[it][m] <= dist[it][n]}
Nearest(it) ==
  {n \in candidates[it] : \A m \in candidates[it] : dist[it][n] <= dist[it][m]}

AllNeighbours(it, n) == links[n]
Neighbours(it, n) == links[n] \ (Visited(it) \cup {n})

MarkNew(l, new) ==
  mass' = [mass EXCEPT ![l] =
            [m \in Node |-> IF m \in new THEN tag[l] ELSE @[m]]]

ExpandUnmarked(it, n) ==
  LET new == Neighbours(it, n)
  IN  /\ candidates' = [candidates EXCEPT ![it] = (@ \ {n}) \cup new]
      /\ MarkNew(vl[it], new)
Expand(it, n) ==
  LET new == Neighbours(it, n)
  IN  /\ candidates' = [candidates EXCEPT ![it] = (@ \ {n}) \cup new]
      /\ MarkNew(vl[it], new \cup {n})

Return(it, n) ==
  /\ busy = it
  /\ n \in Nearest(it)
  /\ n \notin deleted
  /\ Expand(it, n)
  /\ emitted' = [emitted EXCEPT ![it] = Append(@, n)]
  /\ busy' = NoIter
  /\ UNCHANGED <<graph, dist, pool, allocated, tag, phase, vl, isFirst, start,
                 exhausted, grown>>

SkipDeleted(it, n) ==
  /\ busy = it
  /\ n \in Nearest(it)
  /\ n \in deleted
  /\ Expand(it, n)
  /\ UNCHANGED <<graph, dist, pool, allocated, tag, phase, vl, isFirst, start,
                 emitted, exhausted, grown, busy>>

NoResult(it) ==
  /\ busy = it
  /\ candidates[it] = {}
  /\ exhausted' = [exhausted EXCEPT ![it] = TRUE]
  /\ busy' = NoIter
  /\ UNCHANGED <<graph, dist, lists, phase, vl, candidates, isFirst, start,
                 emitted, grown>>

(***************************************************************************)
(* searchIndexIterativeEnd gives the list back, at Close() or in the       *)
(* destructor, whichever comes first.                                      *)
(***************************************************************************)
KeepWorkspace(it) == phase' = phase
DropWorkspace(it) == phase' = [phase EXCEPT ![it] = "closed"]

ReleaseList(l) ==
  /\ pool' = <<l>> \o pool
  /\ UNCHANGED <<allocated, tag, mass>>

\* The iterator and its workspace are freed.
Free(it) ==
  /\ phase' = [phase EXCEPT ![it] = "none"]
  /\ vl' = [vl EXCEPT ![it] = 1]
  /\ candidates' = [candidates EXCEPT ![it] = {}]
  /\ isFirst' = [isFirst EXCEPT ![it] = TRUE]
  /\ start' = [start EXCEPT ![it] = {}]
  /\ emitted' = [emitted EXCEPT ![it] = << >>]
  /\ exhausted' = [exhausted EXCEPT ![it] = FALSE]
  /\ grown' = [grown EXCEPT ![it] = FALSE]

Close(it) ==
  /\ busy = NoIter
  /\ phase[it] = "open"
  /\ ReleaseList(vl[it])
  /\ DropWorkspace(it)
  /\ UNCHANGED <<graph, dist, vl, candidates, isFirst, start, emitted,
                 exhausted, grown, busy>>

Destroy(it) ==
  /\ busy = NoIter
  /\ \/ phase[it] = "open" /\ ReleaseList(vl[it])
     \/ phase[it] = "closed" /\ UNCHANGED lists
  /\ Free(it)
  /\ UNCHANGED <<graph, dist, busy>>

\* A query that fails never ends its scans: iterator and list are lost.
Leak(it) ==
  /\ busy = NoIter
  /\ phase[it] = "open"
  /\ Free(it)
  /\ UNCHANGED <<graph, dist, lists, busy>>

(***************************************************************************)
(* hnswlib's addPoint: the new node links to some nodes, and some nodes    *)
(* link to it, in place of an older link when their list is full.  Its own *)
(* searches borrow a visited list.                                         *)
(***************************************************************************)
AddPoint(n) ==
  /\ busy = NoIter
  /\ n \notin elems
  /\ elems' = elems \cup {n}
  /\ \E out, in \in SUBSET elems, dropped \in elems \cup {n} :
       links' = [m \in Node |->
                  IF m = n THEN out
                  ELSE IF m \in in THEN (links[m] \ {dropped}) \cup {n}
                  ELSE links[m]]
  /\ IF elems = {} THEN UNCHANGED lists
     ELSE \E l \in FreeLists :
            LET v == Fresh(l)[1] IN
            /\ pool' = IF pool = << >> THEN <<l>> ELSE pool
            /\ allocated' = IF pool = << >> THEN l ELSE allocated
            /\ tag' = [tag EXCEPT ![l] = v]
            /\ mass' = [mass EXCEPT ![l] =
                         [m \in Node |-> IF m \in elems THEN v ELSE Fresh(l)[2][m]]]
  /\ grown' = [it \in Iter |-> phase[it] = "open"]
  /\ UNCHANGED <<deleted, dist, phase, vl, candidates, isFirst, start, emitted,
                 exhausted, busy>>

MarkDelete(n) ==
  /\ busy = NoIter
  /\ n \in elems \ deleted
  /\ Cardinality(deleted) < MaxDeleted
  /\ deleted' = deleted \cup {n}
  /\ UNCHANGED <<elems, links, dist, lists, iters, busy>>

Search(it) ==
  \/ \E n \in Node : Return(it, n) \/ SkipDeleted(it, n)
  \/ NoResult(it)

Next ==
  \/ \E it \in Iter :
       \/ Open(it)
       \/ NextOnEmpty(it)
       \/ NextResult(it)
       \/ Search(it)
       \/ Close(it)
       \/ Destroy(it)
       \/ Leak(it)
  \/ \E n \in Node : AddPoint(n) \/ MarkDelete(n)

Spec == Init /\ [][Next]_vars

-----------------------------------------------------------------------------
TypeOK ==
  /\ elems \in SUBSET Node
  /\ links \in [Node -> SUBSET Node]
  /\ deleted \in SUBSET Node
  /\ dist \in [Iter -> [Node -> Distance]]
  /\ pool \in Seq(Lists)
  /\ allocated \in Lists
  /\ tag \in [Lists -> 0 .. TagMod - 1]
  /\ mass \in [Lists -> [Node -> 0 .. TagMod - 1]]
  /\ phase \in [Iter -> {"none", "open", "closed"}]
  /\ vl \in [Iter -> Lists]
  /\ candidates \in [Iter -> SUBSET Node]
  /\ isFirst \in [Iter -> BOOLEAN]
  /\ busy \in {NoIter} \cup Iter
  /\ start \in [Iter -> SUBSET Node]
  /\ emitted \in [Iter -> Seq(Node)]
  /\ exhausted \in [Iter -> BOOLEAN]
  /\ grown \in [Iter -> BOOLEAN]

\* The smallest set of nodes that holds from and is closed under links.
Reachable(from) ==
  {n \in Node : \A S \in SUBSET Node :
     from \subseteq S /\ (\A m \in S : links[m] \subseteq S) => n \in S}

OpenIters == {it \in Iter : phase[it] = "open"}

(***************************************************************************)
(* A scan returns no row twice, whatever other iterators, insertions and   *)
(* deletions do between its calls: the visited marks of its list are its   *)
(* own, and the entry node, queued without a mark, gets it in time.        *)
(***************************************************************************)
ReturnsOnce(it) ==
  \A m, n \in 1 .. Len(emitted[it]) :
    emitted[it][m] = emitted[it][n] => m = n

EachOnce == \A it \in OpenIters : ReturnsOnce(it)

(***************************************************************************)
(* When Next() has no result, every node reachable from the entry node     *)
(* that is not marked deleted has been returned (if nothing was inserted   *)
(* meanwhile): skipped nodes are passed through, and no mark left by an    *)
(* earlier user of the list hides a node.                                  *)
(***************************************************************************)
ReachesAll ==
  \A it \in OpenIters :
    exhausted[it] /\ ~grown[it] =>
      Reachable(start[it]) \ deleted \subseteq Range(emitted[it])

(***************************************************************************)
(* The order is relaxed in one way only: a node nearer than one returned   *)
(* before it was found later.  It is not the entry node, and no node       *)
(* returned before that one links to it.                                   *)
(***************************************************************************)
FoundLate(it, x, m) ==
  /\ x \notin start[it]
  /\ \A j \in 1 .. m - 1 : x \notin links[emitted[it][j]]

RelaxedOrder(it) ==
  \A m, n \in 1 .. Len(emitted[it]) :
    m < n /\ dist[it][emitted[it][n]] < dist[it][emitted[it][m]] =>
      FoundLate(it, emitted[it][n], m)

InversionsAreNew == \A it \in OpenIters : ~grown[it] => RelaxedOrder(it)

(***************************************************************************)
(* A visited list belongs to one iterator or to the pool, once: a list     *)
(* released twice would let one scan hide the nodes of another.            *)
(***************************************************************************)
ListsOwnedOnce ==
  /\ \A a, b \in OpenIters : vl[a] = vl[b] => a = b
  /\ \A it \in OpenIters : vl[it] \notin Range(pool)
  /\ \A m, n \in 1 .. Len(pool) : pool[m] = pool[n] => m = n

-----------------------------------------------------------------------------
(***************************************************************************)
(* The inductive invariant.  What an open iterator has marked visited is   *)
(* what it has queued, returned or skipped as deleted, and the links of    *)
(* everything it has expanded lead to visited nodes; no mark of a list is  *)
(* ahead of its tag, so that the next tag is new to all nodes.             *)
(***************************************************************************)
MarksAreOwn(it) ==
  /\ tag[vl[it]] # 0
  /\ Range(emitted[it]) \subseteq Visited(it)
  /\ Range(emitted[it]) \cap candidates[it] = {}
  /\ candidates[it] \subseteq Visited(it) \cup start[it]
  /\ Visited(it) \subseteq candidates[it] \cup Range(emitted[it]) \cup deleted

Expanded(it) == Visited(it) \ candidates[it]

LinksAreFollowed(it) ==
  /\ ~grown[it] => \A n \in Expanded(it) : links[n] \subseteq Visited(it)
  /\ start[it] \subseteq Visited(it) \cup candidates[it]
  /\ isFirst[it] => /\ Visited(it) = {} /\ candidates[it] = {}
                    /\ emitted[it] = << >> /\ start[it] = {} /\ ~exhausted[it]
  /\ exhausted[it] => candidates[it] = {}
  /\ busy = it => ~isFirst[it]

\* The entry node is expanded first; a candidate nearer than a node returned
\* before was queued after it.
QueueIsLate(it) ==
  /\ start[it] \subseteq Visited(it) \/ start[it] = candidates[it]
  /\ start[it] = {} \/ \E n \in Node : start[it] = {n}
  /\ ~grown[it] =>
       /\ RelaxedOrder(it)
       /\ \A m \in 1 .. Len(emitted[it]) : \A x \in candidates[it] :
            dist[it][x] < dist[it][emitted[it][m]] => FoundLate(it, x, m)

MarksNotAhead == \A l \in Lists, n \in Node : mass[l][n] <= tag[l]

ListsKnown ==
  /\ \A it \in OpenIters : vl[it] <= allocated
  /\ \A n \in 1 .. Len(pool) : pool[n] <= allocated

UnopenedIsFresh ==
  \A it \in Iter : phase[it] = "none" =>
    /\ isFirst[it] /\ ~exhausted[it]
    /\ candidates[it] = {} /\ start[it] = {} /\ emitted[it] = << >>

NodesKnown ==
  /\ \A n \in Node : links[n] \subseteq elems
  /\ \A it \in OpenIters : candidates[it] \subseteq elems

IInv ==
  /\ TypeOK
  /\ ListsOwnedOnce
  /\ ListsKnown
  /\ UnopenedIsFresh
  /\ NodesKnown
  /\ MarksNotAhead
  /\ \A it \in OpenIters :
       /\ ReturnsOnce(it)
       /\ MarksAreOwn(it)
       /\ LinksAreFollowed(it)
       /\ QueueIsLate(it)
  /\ busy # NoIter => busy \in OpenIters

=============================================================================
