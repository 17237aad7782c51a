---------------------------- MODULE BktIterator ----------------------------
(***************************************************************************)
(* The iterative search src/patch/spann.patch adds to SPTAG's BKT index: a *)
(* best-first walk of a neighbourhood graph whose starting points come     *)
(* from a tree, a few more of them whenever the queue has nothing near.    *)
(* It serves two callers: a ResultIterator (an sptag scan) takes one       *)
(* result per Next(); the SPANN iterator takes batches of heads, after an  *)
(* ordinary search that found the nearest.                                 *)
(*                                                                         *)
(* Equal vectors are one sample of the tree and the graph, the centre, and *)
(* its copies; the last neighbour of a centre refers to them.  Workspaces  *)
(* come from a pool.                                                       *)
(***************************************************************************)
EXTENDS Integers, Sequences, FiniteSets, Functions

CONSTANTS
  Sample,   \* the vectors of the index
  Graphs,   \* the neighbours of each: [Sample -> SUBSET Sample]
  CopiesOf, \* [Sample -> SUBSET Sample]: the copies each sample is centre of
  Distance, \* distances from a target
  HeadBatch,\* how many heads SPANN takes at once
  MaxScans  \* bound: how many scans use the workspace

Copies == UNION {CopiesOf[s] : s \in Sample}
Centre == Sample \ Copies

ASSUME BktAssumption ==
  /\ Distance \subseteq Int
  /\ CopiesOf \in [Sample -> SUBSET Sample]
  /\ \A s \in Sample : CopiesOf[s] # {} => s \in Centre
  /\ \A s, t \in Sample : CopiesOf[s] \cap CopiesOf[t] # {} => s = t
  /\ Graphs \subseteq [Sample -> SUBSET Sample]
  /\ HeadBatch \in Nat \ {0} /\ MaxScans \in Nat

VARIABLES
  links,    \* m_pGraph
  dist,     \* distance of each sample from the target
  user,     \* "none", "iterator" or "heads": who searches
  isFirst,  \* m_isFirstResult
  cells,    \* samples the tree has not yielded yet: below m_SPTQueue
  checked,  \* nodeCheckStatus
  queue,    \* m_NGQueue: <<sample, TRUE if its centre brought it>>
  found,    \* samples p_query has got in this call
  busy,     \* inside SearchIterative
  scans,    \* how many scans began
  top,      \* history: what the ordinary search found, and what of the tree
            \* was left after it
  returned, \* history: the samples returned by this scan
  ended     \* history: there was no result

history == <<top, returned, ended>>
vars == <<links, dist, user, isFirst, cells, checked, queue, found, busy, scans,
          history>>

\* Copies have no neighbours: their graph rows are overwritten with -1.
LinksOf(g) == [s \in Sample |-> IF s \in Copies THEN {} ELSE g[s] \cap Centre]

Init ==
  /\ links \in {LinksOf(g) : g \in Graphs}
  /\ dist \in {d \in [Sample -> Distance] :
                 \A s \in Sample : \A c \in CopiesOf[s] : d[c] = d[s]}
  /\ user = "none" /\ isFirst = TRUE
  /\ cells = {} /\ checked = {} /\ queue = {} /\ found = << >>
  /\ busy = FALSE /\ scans = 0
  /\ top = [results |-> {}, cells |-> {}] /\ returned = << >> /\ ended = FALSE

-----------------------------------------------------------------------------
\* Reset() of a workspace that is as its last user left it.
KeepMarks == UNCHANGED checked
ClearMarks == checked' = {}

\* GetIterator, or GetSPANNIterator's RentWorkSpace.
Open(u) ==
  /\ user = "none" /\ scans < MaxScans
  /\ user' = u
  /\ scans' = scans + 1
  /\ isFirst' = TRUE
  /\ ClearMarks
  /\ queue' = {} /\ cells' = {} /\ found' = << >>
  /\ UNCHANGED <<links, dist, busy, history>>

Close ==
  /\ user # "none" /\ ~busy
  /\ user' = "none"
  /\ top' = [results |-> {}, cells |-> {}] /\ returned' = << >> /\ ended' = FALSE
  /\ UNCHANGED <<links, dist, isFirst, cells, checked, queue, found, busy, scans>>

(***************************************************************************)
(* SearchTrees marks and queues some samples, which ones depends on the    *)
(* tree; it goes on until something is queued or the tree is empty.        *)
(***************************************************************************)
TreeYields(s, left, marks) ==
  s \subseteq left /\ s # {} /\ (s \subseteq marks => s = left)

\* InitSearchTrees and the first SearchTrees.
FirstNext ==
  /\ user = "iterator" /\ isFirst /\ ~busy
  /\ \E s \in SUBSET Centre :
       /\ TreeYields(s, Centre, checked)
       /\ cells' = Centre \ s
       /\ queue' = {<<m, FALSE>> : m \in s \ checked}
       /\ checked' = checked \cup s
  /\ isFirst' = FALSE /\ found' = << >> /\ busy' = TRUE
  /\ UNCHANGED <<links, dist, user, scans, history>>

(***************************************************************************)
(* SearchIndexIterativeFromNeareast: an ordinary search, whose marks and   *)
(* queue are dropped; its results are queued again.  What it has taken of  *)
(* the tree is not put back.                                               *)
(***************************************************************************)
FirstHeads ==
  /\ user = "heads" /\ isFirst /\ ~busy
  /\ \E results \in SUBSET Sample, taken \in SUBSET Centre :
       /\ results # {} /\ Cardinality(results) <= HeadBatch
       /\ taken # {}
       /\ cells' = Centre \ taken
       /\ queue' = {<<m, FALSE>> : m \in results}
       /\ checked' = results
       /\ top' = [results |-> results, cells |-> cells']
  /\ isFirst' = FALSE /\ found' = << >> /\ busy' = TRUE
  /\ UNCHANGED <<links, dist, user, scans, returned, ended>>

LaterNext ==
  /\ user # "none" /\ ~isFirst /\ ~busy
  /\ found' = << >> /\ busy' = TRUE
  /\ UNCHANGED <<links, dist, user, isFirst, cells, checked, queue, scans, history>>

-----------------------------------------------------------------------------
Batch == IF user = "heads" THEN HeadBatch ELSE 1

Nearest == {e \in queue : \A f \in queue : dist[e[1]] <= dist[f[1]]}

\* The neighbours the loop queues.
EveryNeighbour(s) == links[s]
Unchecked(s) == links[s] \ checked

(***************************************************************************)
(* One iteration of SearchIterative: take the nearest sample, queue its    *)
(* copies unmarked and its unmarked neighbours, and look into the tree if  *)
(* that may have something nearer than the queue.                          *)
(***************************************************************************)
Visit(e) ==
  LET new == Unchecked(e[1])
      left == (queue \ {e}) \cup {<<c, TRUE>> : c \in CopiesOf[e[1]]}
                            \cup {<<m, FALSE>> : m \in new}
      marks == checked \cup new
  IN  /\ busy /\ Len(found) < Batch
      /\ e \in Nearest
      /\ found' = Append(found, e[1])
      /\ \/ /\ left # {} \/ cells = {}
            /\ queue' = left /\ checked' = marks
            /\ UNCHANGED cells
         \/ \E s \in SUBSET cells :
              /\ TreeYields(s, cells, marks)
              /\ cells' = cells \ s
              /\ queue' = left \cup {<<m, FALSE>> : m \in s \ marks}
              /\ checked' = marks \cup s
      /\ UNCHANGED <<links, dist, user, isFirst, busy, scans, history>>

\* The batch is full or the queue empty; the results are sorted.
Sorted(s) ==
  \A i, j \in DOMAIN s : i < j => dist[s[i]] <= dist[s[j]]
Orders(s) == {r \in [DOMAIN s -> Range(s)] :
                /\ \A x \in Range(s) : Cardinality({i \in DOMAIN s : s[i] = x})
                                       = Cardinality({i \in DOMAIN s : r[i] = x})
                /\ Sorted(r)}

EndCall ==
  /\ busy /\ (Len(found) = Batch \/ queue = {})
  /\ busy' = FALSE
  /\ found' = << >>
  /\ \E r \in Orders(found) : returned' = returned \o r
  /\ ended' = (ended \/ found = << >>)
  /\ UNCHANGED <<links, dist, user, isFirst, cells, checked, queue, scans, top>>

Next ==
  \/ \E u \in {"iterator", "heads"} : Open(u)
  \/ Close
  \/ FirstNext \/ FirstHeads \/ LaterNext
  \/ \E e \in queue : Visit(e)
  \/ EndCall

Spec == Init /\ [][Next]_vars

-----------------------------------------------------------------------------
\* The smallest set that holds from and is closed under links and copies.
Reachable(from) ==
  {n \in Sample : \A S \in SUBSET Sample :
     from \subseteq S /\ (\A m \in S : links[m] \cup CopiesOf[m] \subseteq S)
       => n \in S}

(***************************************************************************)
(* An sptag scan that ends has returned every vector, copies too: the tree *)
(* brings what the graph does not connect.  A search for heads ends with   *)
(* all that can be reached from its first results and what the first       *)
(* search left of the tree: other heads are lost, with their lists.        *)
(***************************************************************************)
From == IF user = "heads" THEN top.results \cup top.cells ELSE Centre

ReturnsAll == ended => Reachable(From) \subseteq Range(returned)

(***************************************************************************)
(* No head comes twice, but for a copy that the first search found: the    *)
(* search marks it, and its centre queues it again without looking.        *)
(***************************************************************************)
HeadsOnce ==
  \A i, j \in 1 .. Len(returned) :
    returned[i] = returned[j] /\ i # j => returned[i] \in Copies \cap top.results

(***************************************************************************)
(* The sptag access method sees what VectorSource says: every vector at    *)
(* most once, copies too, no pause, and nothing after the end.             *)
(***************************************************************************)
Scanning == user = "iterator"
Source == INSTANCE VectorSource WITH
  Vector <- Sample, pauses <- 0,
  yielded <- IF Scanning THEN returned ELSE << >>,
  ended <- Scanning /\ ended

ImplementsSource == Source!Spec

-----------------------------------------------------------------------------
(***************************************************************************)
(* An inductive invariant.  Out are the samples that left the queue; only  *)
(* a copy that the first search found may be Twice in the queue.           *)
(***************************************************************************)
TypeOK ==
  /\ links \in [Sample -> SUBSET Centre]
  /\ dist \in [Sample -> Distance]
  /\ user \in {"none", "iterator", "heads"}
  /\ isFirst \in BOOLEAN
  /\ cells \in SUBSET Centre
  /\ checked \in SUBSET Sample
  /\ queue \in SUBSET (Sample \X BOOLEAN)
  /\ found \in Seq(Sample)
  /\ busy \in BOOLEAN
  /\ scans \in 0 .. MaxScans
  /\ top \in [results : SUBSET Sample, cells : SUBSET Centre]
  /\ returned \in Seq(Sample)
  /\ ended \in BOOLEAN

Out == Range(returned) \cup Range(found)
Queued == {e[1] : e \in queue}
Twice == Copies \cap top.results

PhasesFit ==
  /\ ~busy => found = << >>
  /\ Len(found) <= Batch
  /\ busy => user # "none" /\ ~isFirst
  /\ user = "none" \/ isFirst =>
       returned = << >> /\ ~ended /\ top.results = {} /\ top.cells = {}
  /\ user # "none" /\ isFirst => checked = {} /\ queue = {}
  /\ user = "iterator" => top.results = {}
  /\ ended => queue = {} /\ found = << >>

\* A centre is queued with its mark, a copy when its centre is out.
ComesOnce ==
  user # "none" =>
    /\ \A e \in queue : IF e[2] THEN e[1] \in Copies
                        ELSE e[1] \in (Centre \cup top.results) \cap checked
    /\ Queued \cap Out \subseteq Twice
    /\ Out \cap Centre \subseteq checked
    /\ \A s \in Centre \ Out : CopiesOf[s] \cap (Queued \cup Out) \subseteq top.results
    /\ Range(found) \cap Range(returned) \subseteq Twice
    /\ \A i, j \in DOMAIN found : found[i] = found[j] /\ i # j => found[i] \in Twice

ReachesAll ==
  user # "none" /\ ~isFirst =>
    /\ \A m \in Out : links[m] \subseteq checked /\ CopiesOf[m] \subseteq Out \cup Queued
    /\ checked \subseteq Out \cup Queued
    /\ From \subseteq checked \cup cells
    /\ queue = {} => cells = {}

IInv ==
  /\ TypeOK
  /\ PhasesFit
  /\ ComesOnce
  /\ HeadsOnce
  /\ ReachesAll

=============================================================================
