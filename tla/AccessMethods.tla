---------------------------- MODULE AccessMethods ----------------------------
(***************************************************************************)
(* The executor of PostgreSQL and an index scan of any of the access       *)
(* methods.  It begins the scan, gives it keys, fetches as many rows as it *)
(* likes, gives it other keys (the inner side of a join), and ends it.     *)
(***************************************************************************)
EXTENDS HnswScan, SptagScan, SpannScan, PaseScan

Start == StartHnsw \/ StartSptag \/ StartSpann \/ StartPase
Loop == HnswLoop \/ SptagLoop \/ SpannLoop \/ PaseLoop

Init == InitScan /\ near \in Balls(dist)

Next ==
  \/ BeginScan
  \/ NewKeys
  \/ NothingToFind
  \/ Start
  \/ LaterCall
  \/ Loop
  \/ EndScan

Spec == Init /\ [][Next]_scanVars

-----------------------------------------------------------------------------
(***************************************************************************)
(* Rows that were read at once are returned before all others, nearest     *)
(* first, over any number of calls.                                        *)
(***************************************************************************)
ReadAheadComesFirst ==
  \A j, k \in 1 .. Len(seen) : j < k /\ seen[k] \in readAhead =>
    seen[j] \in readAhead /\ ~Nearer(seen[k], seen[j])

(***************************************************************************)
(* A scan that ends although its iterator would still yield rows has a     *)
(* reason: the last StopAfter rows were all out of range; for hnsw, no row *)
(* was in range yet and the last was no nearer than RangeQueue others; for *)
(* spann, no row it had read ahead was in range, or it had read ahead      *)
(* ReadAhead rows before the iterator paused; for pase, it had asked for   *)
(* ReadAhead rows and no more.                                             *)
(***************************************************************************)
LastOutOfRange ==
  LET n == Len(seen) IN
  /\ kind = "range" /\ n > StopAfter[method]
  /\ \A j \in n - StopAfter[method] + 1 .. n : seen[j] \notin near

NoApproach ==
  LET n == Len(seen) IN
  /\ kind = "range" /\ n > RangeQueue /\ returned = << >>
  /\ Cardinality({j \in 1 .. n - 1 : ~Nearer(seen[n], seen[j])}) >= RangeQueue

NoneAhead == kind = "range" /\ returned = << >> /\ readAhead \cap near = {}

PausedLate == paused /\ Cardinality(readAhead) >= ReadAhead["spann"]

AskedForNoMore == Cardinality(readAhead) = ReadAhead["pase"]

Finished == pc = "idle" /\ ~first /\ outcome = NoRow

GivesUpWithReason ==
  Finished =>
    \/ pending = {}
    \/ method \in {"hnsw", "sptag", "spann"} /\ LastOutOfRange
    \/ method = "hnsw" /\ NoApproach
    \/ method = "spann" /\ (NoneAhead \/ PausedLate)
    \/ method = "pase" /\ AskedForNoMore

(***************************************************************************)
(* Whatever the reason, of the rows it had read ahead the scan leaves none *)
(* behind that the query asks for: in its queue remain only rows out of    *)
(* range.                                                                  *)
(***************************************************************************)
LeavesNoneBehind ==
  Finished => readAhead \cap (IF Ordered THEN Row ELSE near) \subseteq Range(returned)

-----------------------------------------------------------------------------
(***************************************************************************)
(* An inductive invariant.  Ahead is what was read at once and not looked  *)
(* at yet; a scan is Serving from the first call that made an iterator on. *)
(***************************************************************************)
Ahead == IF method \in {"spann", "pase"} THEN queue ELSE {}
Serving == pc \in {"prefetch", "call", "idle"} /\ ~first /\ method # "plain"

BeginsAnew ==
  /\ Supported(method, kind)
  /\ pc = "unopened" => first /\ workSpace = "null"
  /\ first => workSpace # "iterating" /\ outcome = NoRow /\ readAhead = {}
  /\ first => seen = << >> /\ returned = << >>
  /\ pc \in {"prefetch", "call"} => ~first
  /\ pc = "prefetch" => method = "spann" /\ seen = << >> /\ readAhead = queue
  /\ Serving => HasKey

YieldsOnce ==
  /\ \A j, k \in 1 .. Len(seen) : seen[j] = seen[k] => j = k
  /\ \A k \in 1 .. Len(seen) : seen[k] \notin pending \cup Ahead
  /\ pending \cap readAhead = {}

ReadAheadIsKept ==
  Serving =>
    /\ Ahead \subseteq readAhead
    /\ readAhead \subseteq Ahead \cup Range(seen)
    /\ \A k \in 1 .. Len(seen), q \in Ahead :
         seen[k] \in readAhead /\ ~Nearer(q, seen[k])

\* pase leaves rows out only beyond those it asked for.
PendsBeyond ==
  method = "pase" /\ pending # {} => AskedForNoMore

ReadsUntilPaused ==
  Serving /\ method = "spann" /\ pc # "prefetch" =>
    paused \/ pending = {} \/ Cardinality(readAhead) >= ReadAhead["spann"]

\* In this call every row looked at since the first miss was out of range.
CountsMisses ==
  pc \in {"prefetch", "call"} /\ method # "pase" =>
    /\ misses <= Len(seen)
    /\ \A k \in Len(seen) - misses + 1 .. Len(seen) : seen[k] \notin near

NearIsBall ==
  kind = "range" => \A r \in near, s \in Row \ near : Nearer(r, s)

KnowsInRange ==
  Serving /\ kind = "range" =>
    /\ inRange <=> \E k \in 1 .. Len(seen) : seen[k] \in near
    /\ method = "hnsw" /\ ~inRange => queue \subseteq Range(seen)

OrderedReturnsAll == Ordered => returned = seen

\* Of the rows returned before it claims an order, hnsw keeps the nearest.
KeepsNearest ==
  Serving /\ method = "hnsw" /\ Ordered /\ ~xsInorder =>
    /\ queue \subseteq Range(returned)
    /\ Cardinality(queue) <= OrderQueue
    /\ Cardinality(queue) < OrderQueue => Range(returned) \subseteq queue
    /\ \A r \in Range(returned) \ queue, q \in queue : ~Nearer(r, q)

ScanInv ==
  /\ TypeOK
  /\ BeginsAnew
  /\ ClosesIterators
  /\ YieldsOnce
  /\ ReadAheadIsKept
  /\ ReadAheadComesFirst
  /\ PendsBeyond
  /\ ReadsUntilPaused
  /\ CountsMisses
  /\ NearIsBall
  /\ KnowsInRange
  /\ OrderedReturnsAll
  /\ ReturnsWhatIsInRange
  /\ KeepsNearest
  /\ InOrderMeans
  /\ method # "plain" => GivesUpWithReason /\ LeavesNoneBehind

\* No action of this module makes a plain scan return a row.
IInv == ScanInv /\ (method = "plain" => first)

=============================================================================
