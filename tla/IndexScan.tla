------------------------------ MODULE IndexScan ------------------------------
(***************************************************************************)
(* An index scan of a vector index, as PostgreSQL's executor calls it:     *)
(* what the four access methods of src/src (hnsw, sptag, spann, pase_hnsw) *)
(* have in common.  Their gettuple functions are in modules of their own.  *)
(*                                                                         *)
(* The iterator of the index library (HnswIterator, SpannIterator) yields  *)
(* some of the rows, each once, in an order that is roughly ascending:     *)
(* here in any.                                                            *)
(***************************************************************************)
EXTENDS Integers, Sequences, FiniteSets, SequencesExt

CONSTANTS
  Row,         \* the rows
  NoRow,       \* gettuple returned false
  Distance,    \* the distances from a query
  Methods,     \* the access methods; "plain" is one of PostgreSQL's own
  StopAfter,   \* how many rows out of range end a call: 3 hnsw, 5 sptag,
               \* 200 spann
  ReadAhead,   \* how many rows are read at once: 10000 spann, 188 pase
  OrderQueue,  \* 86: scanState->range of an ordered hnsw scan
  RangeQueue,  \* 50: queueThreshold of an hnsw range scan
  Kinds,       \* which kinds of scan the executor asks for
  NullArgs     \* whether the scan key may be NULL: a subset of BOOLEAN

ASSUME ScanAssumption ==
  /\ IsFiniteSet(Row)
  /\ NoRow \notin Row
  /\ Distance \subseteq Int
  /\ Methods \subseteq {"hnsw", "sptag", "spann", "pase", "plain"}
  /\ StopAfter \in [{"hnsw", "sptag", "spann"} -> Nat \ {0}]
  /\ ReadAhead \in [{"spann", "pase"} -> Nat \ {0}]
  /\ {OrderQueue, RangeQueue} \subseteq Nat \ {0}
  /\ Kinds \subseteq {"order", "range", "both", "neither"}
  /\ NullArgs \subseteq BOOLEAN

VARIABLES
  pc,         \* "unopened", "idle" between calls, inside gettuple "call" or
              \* "prefetch", "ended", "crashed", "failed" with an ERROR
  method,     \* the access method
  kind,       \* whether orderByData and keyData are there
  argNull,    \* the key gettuple looks at has SK_ISNULL
  dist,       \* dist[r]: distance of row r from the query
  near,       \* the rows the method finds within the range condition
  first,      \* scanState->first
  workSpace,  \* "null", "bare" without an iterator, "iterating"
  inRange,    \* scanState->inRange
  queue,      \* the rows in distanceQueue or result of the workspace
  xsInorder,  \* scan->xs_inorder
  xsRecheck,  \* scan->xs_recheck, which no access method sets
  pending,    \* what the iterator, or the index, has not yielded yet
  paused,     \* the iterator has said once that it had no result for now
  misses,     \* i, a local of gettuple
  outcome,    \* the row the last call returned, or NoRow
  readAhead,  \* history: the rows read at once by the first call
  seen,       \* history: the rows the loop of gettuple looked at, in order
  returned,   \* history: the rows gettuple returned, in order
  open        \* history: iterators made and not closed

args == <<method, kind, argNull, dist, near, xsRecheck>>
source == <<pending, paused, readAhead>>
scanVars == <<pc, args, first, workSpace, inRange, queue, xsInorder, source,
              misses, outcome, seen, returned, open>>

Ordered == kind \in {"order", "both"}
Nearer(r, s) == dist[r] < dist[s]

\* The top of a queue is a greatest distance, or a least one.
Tops(rows) == {r \in rows : \A q \in rows : ~Nearer(r, q)}
Bottoms(rows) == {r \in rows : \A q \in rows : ~Nearer(q, r)}

\* The operator classes of pase_hnsw have no operator for a range.
Supported(m, k) == m = "pase" => k \in {"order", "neither"}

InitScan ==
  /\ pc = "unopened"
  /\ method \in Methods
  /\ kind \in {k \in Kinds : Supported(method, k)}
  /\ argNull = FALSE
  /\ dist \in [Row -> Distance]
  /\ near \in SUBSET Row
  /\ first = TRUE
  /\ workSpace = "null"
  /\ inRange = FALSE
  /\ queue = {}
  /\ xsInorder \in BOOLEAN   \* RelationGetIndexScan does not initialise it,
  /\ xsRecheck \in BOOLEAN   \* nor this one
  /\ pending = {}
  /\ paused = FALSE
  /\ misses = 0
  /\ outcome = NoRow
  /\ readAhead = {}
  /\ seen = << >>
  /\ returned = << >>
  /\ open = 0

-----------------------------------------------------------------------------
BeginScan ==
  /\ pc = "unopened"
  /\ pc' = "idle"
  /\ first' = TRUE
  /\ workSpace' = "null"
  /\ UNCHANGED <<args, inRange, queue, xsInorder, source, misses, outcome,
                 seen, returned, open>>

(***************************************************************************)
(* Rescan and end call EndScan of the library, which calls Close() of the  *)
(* iterator; a workspace that has none makes that a call on a null         *)
(* pointer.  pase_hnsw has no iterators, its EndScan does nothing.         *)
(***************************************************************************)
ForgetToClose == open' = open
Close == open' = IF workSpace = "iterating" THEN open - 1 ELSE open

Survives == method = "pase" \/ workSpace = "iterating"

DropWorkspace ==
  /\ Close
  /\ workSpace' = "null"
  /\ queue' = {}
  /\ pending' = {}
  /\ paused' = FALSE

\* The caller has new keys: d are the distances from the new query.
ReScan(d, null, within) ==
  /\ pc = "idle"
  /\ pc' = IF workSpace = "null" \/ Survives THEN pc ELSE "crashed"
  /\ DropWorkspace
  /\ first' = TRUE
  /\ dist' = d
  /\ argNull' = null
  /\ near' = within
  /\ outcome' = NoRow
  /\ readAhead' = {}
  /\ seen' = << >>
  /\ returned' = << >>
  /\ UNCHANGED <<method, kind, xsRecheck, inRange, xsInorder, misses>>

EndScan ==
  /\ pc = "idle"
  /\ pc' = IF Survives THEN "ended" ELSE "crashed"
  /\ DropWorkspace
  /\ UNCHANGED <<args, first, inRange, xsInorder, misses, outcome, readAhead,
                 seen, returned>>

-----------------------------------------------------------------------------
(***************************************************************************)
(* The first call of gettuple makes the workspace and returns false if     *)
(* there is no key or it is NULL; otherwise it makes the iterator.         *)
(* pase_hnsw raises an ERROR when it has no ORDER BY.                      *)
(***************************************************************************)
HasKey == kind # "neither" /\ ~argNull

NothingToFind ==
  /\ pc = "idle"
  /\ first
  /\ ~HasKey
  /\ workSpace' = "bare"
  /\ queue' = {}
  /\ outcome' = NoRow
  /\ pc' = IF method = "pase" /\ kind = "neither" THEN "failed" ELSE pc
  /\ UNCHANGED <<args, first, inRange, xsInorder, source, misses, seen,
                 returned, open>>

StartIterator(m) ==
  /\ pc = "idle"
  /\ first
  /\ method = m
  /\ HasKey
  /\ workSpace' = "iterating"
  /\ open' = open + 1
  /\ pending' \in SUBSET Row
  /\ queue' = {}
  /\ inRange' = IF Ordered THEN inRange ELSE FALSE
  /\ first' = FALSE
  /\ misses' = 0
  /\ UNCHANGED <<args, paused, outcome, readAhead, seen, returned>>

\* The executor does not ask again after it was told there are no more rows.
LaterCall ==
  /\ pc = "idle"
  /\ ~first
  /\ outcome # NoRow
  /\ misses' = 0
  /\ pc' = "call"
  /\ UNCHANGED <<args, first, workSpace, inRange, queue, xsInorder, source,
                 outcome, seen, returned, open>>

(***************************************************************************)
(* In the loop of gettuple: the iterator yields row r, or has no more; the *)
(* call returns a row, returns false, or goes on with the next row.        *)
(***************************************************************************)
LookAt(r) == seen' = Append(seen, r)

Yield(r) ==
  /\ r \in pending
  /\ pending' = pending \ {r}
  /\ LookAt(r)
  /\ UNCHANGED <<paused, readAhead>>

Return(r) ==
  /\ outcome' = r
  /\ returned' = Append(returned, r)
  /\ pc' = "idle"

ReturnFalse ==
  /\ outcome' = NoRow
  /\ pc' = "idle"
  /\ UNCHANGED returned

Continue == UNCHANGED <<pc, outcome, returned>>

InLoop(m) ==
  /\ pc = "call"
  /\ method = m
  /\ UNCHANGED <<args, first, workSpace, open>>

Exhausted(m) ==
  /\ InLoop(m)
  /\ pending = {}
  /\ ReturnFalse
  /\ UNCHANGED <<inRange, queue, xsInorder, source, misses, seen>>

\* A row out of range: Stop of them in one call end the scan.
StopsEarly == misses' + 1 >= StopAfter[method]
Stops == misses' >= StopAfter[method]

Miss ==
  /\ misses' = misses + 1
  /\ IF inRange /\ Stops THEN ReturnFalse ELSE Continue
  /\ UNCHANGED inRange

-----------------------------------------------------------------------------
\* A range condition asks for a ball around a vector: that of the scan if there
\* is no ORDER BY.
Balls(d) ==
  CASE kind = "range" ->
         {{}} \cup {{r \in Row : d[r] <= range} : range \in Distance}
    [] kind = "both" -> SUBSET Row
    [] OTHER -> {{}}

NewKeys ==
  \E d \in [Row -> Distance], null \in NullArgs :
    \E within \in Balls(d) : ReScan(d, null, within)

-----------------------------------------------------------------------------
TypeOK ==
  /\ pc \in {"unopened", "idle", "prefetch", "call", "ended", "crashed", "failed"}
  /\ method \in Methods
  /\ kind \in Kinds
  /\ argNull \in BOOLEAN
  /\ dist \in [Row -> Distance]
  /\ near \in SUBSET Row
  /\ first \in BOOLEAN
  /\ workSpace \in {"null", "bare", "iterating"}
  /\ inRange \in BOOLEAN
  /\ queue \in SUBSET Row
  /\ xsInorder \in BOOLEAN
  /\ xsRecheck \in BOOLEAN
  /\ pending \in SUBSET Row
  /\ paused \in BOOLEAN
  /\ misses \in 0 .. Cardinality(Row)
  /\ outcome \in Row \cup {NoRow}
  /\ readAhead \in SUBSET Row
  /\ seen \in Seq(Row)
  /\ returned \in Seq(Row)
  /\ open \in 0 .. 1

(***************************************************************************)
(* A range scan loses no row it was given: it returned every row within    *)
(* the threshold that its loop looked at, each once and in that order.  In *)
(* particular the row on which an hnsw scan gives up is not one of them:   *)
(* it is no nearer than rows that were out of range.                       *)
(***************************************************************************)
ReturnsWhatIsInRange ==
  kind = "range" =>
    /\ Range(returned) = Range(seen) \cap near
    /\ \A j, k \in 1 .. Len(returned) : j < k =>
         /\ returned[j] # returned[k]
         /\ \E m, n \in 1 .. Len(seen) :
              m < n /\ seen[m] = returned[j] /\ seen[n] = returned[k]

(***************************************************************************)
(* The workspace owns the one iterator that is open; a rescan and the end  *)
(* of the scan close it, so that its visited list goes back to the pool.   *)
(***************************************************************************)
ClosesIterators == open = (IF workSpace = "iterating" THEN 1 ELSE 0)

(***************************************************************************)
(* README.md: "It preserves all the features of PostgreSQL", and           *)
(* pase_hnsw_gettuple: "No items will match if null".  A scan whose key is *)
(* NULL finds nothing, and the server survives the rescan or the end that  *)
(* follows.  Refuted, but for pase: that call made a workspace and no      *)
(* iterator, and EndScan calls Close() on the iterator.                    *)
(***************************************************************************)
SurvivesNull ==
  [][workSpace = "bare" /\ workSpace' = "null" => pc' # "crashed"]_scanVars

(***************************************************************************)
(* README.md: "The query will retrieve vector data that is within the      *)
(* distance threshold."  The executor drops a row it is told to recheck.   *)
(***************************************************************************)
WithinThreshold ==
  kind \in {"range", "both"} /\ ~xsRecheck => Range(returned) \subseteq near

=============================================================================
