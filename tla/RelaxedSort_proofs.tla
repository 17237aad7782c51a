------------------------- MODULE RelaxedSort_proofs -------------------------
(***************************************************************************)
(* SortInv of RelaxedSort is inductive, for any number of rows, any LIMIT  *)
(* and any flag that other scans leave behind; what follows from it; and   *)
(* that the query delivers ranked rows.                                    *)
(***************************************************************************)
EXTENDS RelaxedSort, AccessMethods_proofs

LEMMA NeedsSortStays ==
  ASSUME method' = method, shape' = shape
  PROVE  NeedsSort' = NeedsSort
BY DEF NeedsSort, PathIsSorted, Relaxed, Relaxes

LEMMA ResultFacts ==
  ASSUME SortInv
  PROVE  /\ result \in Seq(Row) /\ Len(result) \in Nat /\ EachOnce(result)
         /\ Range(result) \subseteq Row /\ IsFiniteSet(Range(result))
         /\ Len(result) = Cardinality(Range(result))
         /\ IsFiniteSet(Row) /\ Limit \in Nat
<1>1. result \in Seq(Row) /\ EachOnce(result)
  BY DEF SortInv, SortTypeOK, ResultOnce, EachOnce
<1>2. IsFiniteSet(Row) /\ Limit \in Nat
  BY ScanAssumption, SortAssumption
<1>3. Len(result) \in Nat /\ Range(result) \subseteq Row
  BY <1>1, RangeFacts
<1>4. Len(result) = Cardinality(Range(result))
  BY <1>1, <1>2, LenOfEachOnce
<1>5. IsFiniteSet(Range(result))
  BY <1>2, <1>3, FS_Subset
<1>. QED  BY <1>1, <1>2, <1>3, <1>4, <1>5

\* A row more in the result.
LEMMA AppendOnce ==
  ASSUME SortInv, NEW r \in Row \ Range(result), result' = Append(result, r)
  PROVE  /\ result' \in Seq(Row) /\ Len(result') = Len(result) + 1
         /\ Range(result') = Range(result) \cup {r}
         /\ \A j, k \in 1 .. Len(result') : result'[j] = result'[k] => j = k
<1>. result \in Seq(Row) /\ Len(result) \in Nat /\ EachOnce(result)
  BY ResultFacts
<1>1. /\ result' \in Seq(Row) /\ Len(result') = Len(result) + 1
      /\ \A k \in 1 .. Len(result) : result'[k] = result[k]
      /\ result'[Len(result) + 1] = r
      /\ Range(result') = Range(result) \cup {r}
      /\ \A k \in 1 .. Len(result') : k = Len(result) + 1 \/ k \in 1 .. Len(result)
  BY AppendFacts
<1>2. \A k \in 1 .. Len(result) : result[k] # r
  BY RangeFacts
<1>3. ASSUME NEW j \in 1 .. Len(result'), NEW k \in 1 .. Len(result'), result'[j] = result'[k]
      PROVE  j = k
  BY <1>1, <1>2, <1>3 DEF EachOnce
<1>. QED  BY <1>1, <1>3

-----------------------------------------------------------------------------
(* The scan under the query.                                               *)

LEMMA PlainFetchKeeps ==
  ASSUME ScanInv, PlainFetch, pc = "idle"
  PROVE  ScanInv'
<1>. TypeOK /\ BeginsAnew /\ ClosesIterators /\ YieldsOnce
  BY DEF ScanInv
<1>. /\ method' = method /\ kind' = kind /\ argNull' = argNull /\ dist' = dist
     /\ near' = near /\ xsRecheck' = xsRecheck /\ first' = FALSE /\ workSpace' = workSpace
     /\ open' = open /\ inRange' = inRange /\ queue' = queue /\ xsInorder' = xsInorder
     /\ readAhead' = readAhead /\ misses' = misses /\ seen' = seen
     /\ returned' = returned /\ pc' = pc /\ paused' = paused /\ method = "plain"
  BY DEF PlainFetch, args
<1>0. /\ pending' \in SUBSET Row /\ outcome' \in Row \cup {NoRow}
      /\ first \/ pending' \subseteq pending
  BY DEF PlainFetch, TypeOK
<1>. ~Serving' /\ ~Serving /\ Ahead' = {} /\ Ahead = {} /\ Ordered' = Ordered
  BY DEF Serving, Ahead, Ordered
<1>1. TypeOK' /\ BeginsAnew' /\ ClosesIterators'
  BY <1>0 DEF TypeOK, BeginsAnew, Supported, ClosesIterators
<1>2. YieldsOnce'
  <2>1. CASE first
    <3>1. seen = << >> /\ readAhead = {} /\ 1 .. Len(seen) = {}
      BY <2>1 DEF BeginsAnew
    <3>. QED  BY <3>1 DEF YieldsOnce
  <2>2. CASE pending' \subseteq pending
    BY <2>2 DEF YieldsOnce
  <2>. QED  BY <1>0, <2>1, <2>2
<1>3. ReadAheadIsKept' /\ ReadAheadComesFirst' /\ PendsBeyond' /\ ReadsUntilPaused'
  BY DEF ScanInv, ReadAheadIsKept, ReadAheadComesFirst, PendsBeyond, AskedForNoMore, ReadsUntilPaused, Nearer
<1>4. CountsMisses' /\ NearIsBall'
  BY DEF ScanInv, CountsMisses, NearIsBall, Nearer
<1>5. KnowsInRange' /\ OrderedReturnsAll' /\ ReturnsWhatIsInRange' /\ KeepsNearest'
  BY DEF ScanInv, KnowsInRange, OrderedReturnsAll, ReturnsWhatIsInRange, KeepsNearest
<1>6. InOrderMeans'
  BY DEF InOrderMeans
<1>. QED  BY <1>1, <1>2, <1>3, <1>4, <1>5, <1>6 DEF ScanInv

(***************************************************************************)
(* What a step in the loop of an ordered scan comes to: the iterator reads *)
(* ahead or has no more, or a row that was not returned before is.         *)
(***************************************************************************)
SameScan == UNCHANGED <<args, first>>
Rests ==
  /\ SameScan
  /\ seen' = seen /\ returned' = returned
  /\ pending' \cup Ahead' = pending \cup Ahead
  /\ pc' \in {"prefetch", "call"} \/ (pc' = "idle" /\ outcome' = NoRow)
  /\ method = "hnsw" => queue' = queue

LEMMA OrderedLoop ==
  ASSUME ScanInv, Loop, Ordered
  PROVE  \/ Rests
         \/ \E r \in Row : /\ Looks(r) /\ Gives(r)
                           /\ method = "hnsw" => queue' \subseteq queue \cup {r}
<1>1. CASE HnswLoop
  <2>1. CASE Exhausted("hnsw")
    BY <2>1 DEF Exhausted, InLoop, ReturnFalse, Rests, SameScan, Ahead, source, args
  <2>2. ASSUME NEW r \in Row, OrderedRow(r)
        PROVE  /\ Looks(r) /\ Gives(r)
               /\ method = "hnsw" => queue' \subseteq queue \cup {r}
    <3>1. OrderQueue \in Nat \ {0}
      BY ScanAssumption
    <3>2. Looks(r) /\ Gives(r)
      BY <2>2 DEF OrderedRow, InLoop, Yield, LookAt, Looks, Gives, Return, Ahead, args
    <3>3. queue' = queue \/ Remember(r, OrderQueue)
      BY <2>2 DEF OrderedRow
    <3>4. queue' \subseteq queue \cup {r}
      BY <3>1, <3>3, RememberFacts
    <3>. QED  BY <3>2, <3>4
  <2>3. \A r \in Row : ~GiveUp(r) /\ ~InRangeRow(r) /\ ~OutOfRangeRow(r)
    BY DEF GiveUp, InRangeRow, OutOfRangeRow
  <2>. QED  BY <1>1, <2>1, <2>2, <2>3 DEF HnswLoop
<1>2. CASE SptagLoop
  <2>1. CASE Exhausted("sptag")
    BY <2>1 DEF Exhausted, InLoop, ReturnFalse, Rests, SameScan, Ahead, source, args
  <2>2. ASSUME NEW r \in Row, SptagRow(r)
        PROVE  Looks(r) /\ Gives(r) /\ method = "sptag"
    BY <2>2 DEF SptagRow, InLoop, Yield, LookAt, Looks, Gives, Return, Ahead, args
  <2>. QED  BY <1>2, <2>1, <2>2 DEF SptagLoop
<1>3. CASE SpannLoop
  <2>1. CASE PrefetchDry
    <3>1. method = "spann"
      BY <2>1 DEF PrefetchDry, Prefetching, ScanInv, BeginsAnew
    <3>. QED  BY <2>1, <3>1 DEF PrefetchDry, Prefetching, Rests, SameScan, Ahead, args
  <2>2. CASE SpannDry
    BY <2>2 DEF SpannDry, InLoop, ReturnFalse, Rests, SameScan, Ahead, args
  <2>3. ASSUME NEW r \in Row, Prefetch(r)
        PROVE  Rests
    <3>1. method = "spann" /\ method' = method /\ queue \subseteq Row
      BY <2>3 DEF Prefetch, Prefetching, ScanInv, BeginsAnew, TypeOK, args
    <3>2. Ahead = queue /\ Ahead' = queue'
      BY <3>1 DEF Ahead
    <3>3. /\ r \in pending /\ pending' = pending \ {r} /\ queue' = queue \cup {r}
          /\ SameScan /\ seen' = seen /\ returned' = returned /\ pc' \in {"prefetch", "call"}
      BY <2>3 DEF Prefetch, Prefetching, SameScan
    <3>. QED  BY <3>1, <3>2, <3>3 DEF Rests
  <2>4. ASSUME NEW r \in Row, SpannRow(r)
        PROVE  Looks(r) /\ Gives(r) /\ method = "spann"
    <3>1. /\ method = "spann" /\ pc = "call" /\ Return(r) /\ UNCHANGED <<args, first>>
          /\ Take(r)
      BY <2>4 DEF SpannRow, InLoop
    <3>2. Ahead = queue /\ Ahead' = queue'
      BY <3>1 DEF Ahead, args
    <3>3. Looks(r)
      BY <3>1, <3>2 DEF Take, NearestFirst, Yield, LookAt, Looks, Return, source
    <3>. QED  BY <3>1, <3>3 DEF Gives
  <2>. QED  BY <1>3, <2>1, <2>2, <2>3, <2>4 DEF SpannLoop
<1>4. CASE PaseLoop
  <2>1. CASE PaseEnd
    BY <2>1 DEF PaseEnd, InLoop, ReturnFalse, Rests, SameScan, Ahead, source, args
  <2>2. ASSUME NEW r \in Row, PaseRow(r)
        PROVE  Looks(r) /\ Gives(r) /\ method = "pase"
    <3>1. /\ method = "pase" /\ pc = "call" /\ Return(r) /\ UNCHANGED <<args, first>>
          /\ r \in Bottoms(queue) /\ queue' = queue \ {r} /\ LookAt(r)
          /\ UNCHANGED source
      BY <2>2 DEF PaseRow, InLoop
    <3>2. Ahead = queue /\ Ahead' = queue'
      BY <3>1 DEF Ahead, args
    <3>3. Looks(r)
      BY <3>1, <3>2 DEF LookAt, Looks, Return, source
    <3>. QED  BY <3>1, <3>3 DEF Gives
  <2>. QED  BY <1>4, <2>1, <2>2 DEF PaseLoop
<1>. QED  BY <1>1, <1>2, <1>3, <1>4 DEF Loop

-----------------------------------------------------------------------------
(* Steps of SortInv.                                                       *)

\* Up to the end of the scan: what was fetched and passed on stays the same.
LEMMA FetchingKeeps ==
  ASSUME SortInv, ScanInv', method' = method, dist' = dist,
         UNCHANGED <<shape, passing, tuples, result>>,
         phase \in {"plan", "fetch", "scan", "row"},
         phase' \in {"fetch", "scan", "row"},
         delivered' \subseteq Row, inorder' \in BOOLEAN,
         PhasesFit', FetchesAll',
         (Fetched \ Waiting)' \cap passing = (Fetched \ Waiting) \cap passing
  PROVE  SortInv'
<1>. NeedsSort' = NeedsSort
  BY NeedsSortStays
<1>1. SortTypeOK'
  BY DEF SortInv, SortTypeOK, ScanInv
<1>2. Sorts'
  BY DEF SortInv, Sorts, Nearer
<1>3. Passes'
  BY DEF SortInv, Passes
<1>4. ResultOnce'
  BY DEF SortInv, ResultOnce
<1>. QED  BY <1>1, <1>2, <1>3, <1>4 DEF SortInv

LEMMA StartQueryKeeps ==
  ASSUME SortInv, StartQuery
  PROVE  SortInv'
<1>. ScanInv /\ PhasesFit /\ FetchesAll /\ BeginsAnew
  BY DEF SortInv, ScanInv
<1>. /\ method' = method /\ kind' = kind /\ argNull' = argNull /\ dist' = dist
     /\ pending' = pending /\ readAhead' = readAhead /\ seen' = seen /\ returned' = returned
     /\ pc' = "idle" /\ first' = TRUE /\ pc = "unopened" /\ phase = "plan" /\ first
     /\ phase' = "fetch" /\ delivered' = delivered /\ inorder' = inorder
     /\ passing' = passing
  BY DEF StartQuery, BeginScan, args, source, BeginsAnew
<1>1. ScanInv'
  BY BeginScanKeeps DEF StartQuery
<1>2. PhasesFit'
  BY DEF PhasesFit, Ordered
<1>3. Waiting = {} /\ Waiting' = {} /\ Fetched' = Fetched
  BY DEF Waiting, Fetched
<1>4. FetchesAll'
  BY <1>3 DEF FetchesAll
<1>. QED  BY <1>1, <1>2, <1>3, <1>4, FetchingKeeps DEF SortInv, SortTypeOK, StartQuery

LEMMA StartFacts ==
  ASSUME ScanInv, Start
  PROVE  /\ method' = method /\ kind' = kind /\ argNull' = argNull /\ dist' = dist
         /\ method # "plain" /\ first /\ ~first'
         /\ pc' \in {"prefetch", "call"}
         /\ seen' = << >> /\ returned' = << >> /\ seen = << >> /\ returned = << >>
         /\ Ahead' = readAhead'
         /\ method = "hnsw" => queue' = {}
<1>1. first => readAhead = {} /\ seen = << >> /\ returned = << >>
  BY DEF ScanInv, BeginsAnew
<1>2. CASE StartHnsw
  BY <1>1, <1>2 DEF StartHnsw, StartIterator, Ahead, args
<1>3. CASE StartSptag
  BY <1>1, <1>3 DEF StartSptag, StartIterator, Ahead, args
<1>4. CASE StartSpann
  BY <1>1, <1>4 DEF StartSpann, StartIterator, Ahead, args
<1>5. CASE StartPase
  BY <1>1, <1>5 DEF StartPase, Ahead, args
<1>. QED  BY <1>2, <1>3, <1>4, <1>5 DEF Start

LEMMA FetchKeeps ==
  ASSUME SortInv, Fetch
  PROVE  SortInv'
<1>. ScanInv /\ PhasesFit /\ FetchesAll /\ TypeOK
  BY DEF SortInv, ScanInv
<1>. /\ phase = "fetch" /\ phase' = "scan" /\ method # "plain" /\ passing' = passing
     /\ inorder' = inorder /\ UNCHANGED <<shape, passing, tuples, result>>
  BY DEF Fetch
<1>. Waiting = {}
  BY DEF Waiting
<1>1. CASE Start /\ delivered' = pending' \cup readAhead'
  <2>. /\ method' = method /\ kind' = kind /\ argNull' = argNull /\ dist' = dist
       /\ first /\ ~first'
       /\ pc' \in {"prefetch", "call"}
       /\ seen' = << >> /\ returned' = << >> /\ returned = << >>
       /\ Ahead' = readAhead'
       /\ method = "hnsw" => queue' = {}
    BY <1>1, StartFacts
  <2>. Range(<< >>) = {}
    BY NothingFacts
  <2>1. ScanInv'
    BY <1>1, StartKeeps
  <2>2. delivered' \subseteq Row
    BY <1>1, <2>1 DEF ScanInv, TypeOK
  <2>3. PhasesFit'
    BY DEF PhasesFit, Ordered
  <2>4. Waiting' = {} /\ Fetched' = {} /\ Fetched = {}
    BY DEF Waiting, Fetched
  <2>5. FetchesAll'
    BY <1>1, <2>4 DEF FetchesAll
  <2>. QED  BY <2>1, <2>2, <2>3, <2>4, <2>5, FetchingKeeps DEF SortInv, SortTypeOK
<1>2. CASE LaterCall /\ delivered' = delivered
  <2>. /\ method' = method /\ kind' = kind /\ argNull' = argNull /\ dist' = dist
       /\ pending' = pending /\ readAhead' = readAhead /\ seen' = seen /\ returned' = returned
       /\ pc' = "call" /\ first' = first /\ ~first /\ queue' = queue
    BY <1>2 DEF LaterCall, args, source
  <2>1. ScanInv'
    BY <1>2, LaterCallKeeps
  <2>2. PhasesFit'
    BY DEF PhasesFit, Ordered
  <2>3. Waiting' = {} /\ Fetched' = Fetched /\ Ahead' = Ahead
    BY DEF Waiting, Fetched, Ahead
  <2>4. FetchesAll'
    BY <1>2, <2>3 DEF FetchesAll
  <2>. QED  BY <1>2, <2>1, <2>2, <2>3, <2>4, FetchingKeeps DEF SortInv, SortTypeOK
<1>. QED  BY <1>1, <1>2 DEF Fetch

LEMMA ScanKeeps ==
  ASSUME SortInv, Scan
  PROVE  SortInv'
<1>. ScanInv /\ PhasesFit /\ FetchesAll /\ BeginsAnew
  BY DEF SortInv, ScanInv
<1>. /\ phase = "scan" /\ phase' = phase /\ passing' = passing /\ delivered' = delivered
     /\ inorder' = inorder /\ UNCHANGED <<shape, passing, tuples, result>>
  BY DEF Scan, sortVars
<1>1. ScanInv' /\ Loop /\ Ordered /\ ~first
  BY LoopKeeps DEF Scan, PhasesFit
<1>2. pc \in {"prefetch", "call"} /\ method # "plain"
  <2>1. pc \in {"prefetch", "call"}
    BY <1>1 DEF Loop, HnswLoop, SptagLoop, SpannLoop, PaseLoop, Exhausted, OrderedRow,
       GiveUp, InRangeRow, OutOfRangeRow, SptagRow, PrefetchDry, SpannDry, Prefetch,
       SpannRow, PaseEnd, PaseRow, InLoop, Prefetching
  <2>. QED  BY <2>1 DEF PhasesFit
<1>3. Waiting = {} /\ Fetched = Range(returned)
  BY <1>2 DEF Waiting, Fetched
<1>4. CASE Rests
  <2>. /\ method' = method /\ kind' = kind /\ argNull' = argNull /\ dist' = dist
       /\ first' = first /\ seen' = seen /\ returned' = returned
    BY <1>4 DEF Rests, SameScan, args
  <2>1. Waiting' = {} /\ Fetched' = Fetched
    BY <1>2, <1>4 DEF Waiting, Fetched, Rests
  <2>2. PhasesFit'
    BY <1>2, <1>4 DEF PhasesFit, Ordered, Rests
  <2>3. FetchesAll'
    BY <1>1, <1>2, <1>4, <2>1 DEF FetchesAll, Rests
  <2>. QED  BY <1>1, <1>3, <2>1, <2>2, <2>3, FetchingKeeps DEF SortInv, SortTypeOK
<1>5. ASSUME NEW r \in Row, Looks(r), Gives(r), method = "hnsw" => queue' \subseteq queue \cup {r}
      PROVE  SortInv'
  <2>. /\ method' = method /\ kind' = kind /\ argNull' = argNull /\ dist' = dist
       /\ first' = first /\ pc' = "idle" /\ outcome' = r
    BY <1>5 DEF Looks, Gives, Return, args
  <2>0. r # NoRow
    BY ScanAssumption
  <2>1. Range(returned') = Range(returned) \cup {r} /\ Range(seen') = Range(seen) \cup {r}
    BY <1>5, GivesInOrder, LooksAtNew
  <2>2. r \notin Range(returned)
    <3>1. returned = seen
      BY <1>1 DEF ScanInv, OrderedReturnsAll
    <3>. QED  BY <1>5, <3>1, LooksAtNew
  <2>3. Waiting' = {r} /\ Fetched' = Fetched \cup {r} /\ r \notin Fetched
    BY <1>2, <1>3, <2>0, <2>1, <2>2 DEF Waiting, Fetched
  <2>4. PhasesFit'
    BY <1>2 DEF PhasesFit, Ordered
  <2>5. pending' \cup Ahead' \cup Range(seen') = pending \cup Ahead \cup Range(seen)
    <3>1. CASE Ahead = {} /\ Ahead' = {} /\ r \in pending /\ pending' = pending \ {r}
      BY <2>1, <3>1
    <3>2. CASE r \in Ahead /\ Ahead' = Ahead \ {r} /\ pending' = pending
      BY <2>1, <3>2
    <3>. QED  BY <1>5, <3>1, <3>2 DEF Looks, Bottoms
  <2>6. FetchesAll'
    BY <1>1, <1>2, <1>5, <2>1, <2>3, <2>5 DEF FetchesAll
  <2>. QED  BY <1>1, <1>3, <2>3, <2>4, <2>6, FetchingKeeps DEF SortInv, SortTypeOK
<1>. QED  BY <1>1, <1>4, <1>5, OrderedLoop

LEMMA FetchPlainKeeps ==
  ASSUME SortInv, PlainFetch
  PROVE  SortInv'
<1>. ScanInv /\ PhasesFit /\ FetchesAll /\ TypeOK /\ BeginsAnew
  BY DEF SortInv, ScanInv
<1>. /\ method' = method /\ kind' = kind /\ argNull' = argNull /\ dist' = dist
     /\ method = "plain" /\ phase = "fetch" /\ passing' = passing /\ inorder' = inorder
     /\ pc' = pc /\ pc = "idle" /\ first' = FALSE
     /\ UNCHANGED <<shape, passing, tuples, result>>
     /\ phase' = (IF first THEN "fetch" ELSE "scan")
  BY DEF PlainFetch, args, PhasesFit
<1>1. ScanInv'
  BY PlainFetchKeeps
<1>. Waiting = {} /\ Fetched = delivered \ pending /\ Fetched' = delivered' \ pending'
  BY DEF Waiting, Fetched
<1>2. PhasesFit'
  BY DEF PhasesFit, Ordered
<1>3. CASE first /\ pending' \in SUBSET Row /\ delivered' = pending'
  <2>1. Fetched = {} /\ Fetched' = {} /\ Waiting' = {}
    BY <1>3 DEF FetchesAll, Waiting
  <2>2. FetchesAll'
    BY <1>3, <2>1 DEF FetchesAll
  <2>. QED  BY <1>1, <1>2, <1>3, <2>1, <2>2, FetchingKeeps DEF SortInv, SortTypeOK
<1>4. CASE ~first /\ delivered' = delivered /\ pending = {} /\ outcome' = NoRow /\ pending' = pending
  <2>1. Fetched' = Fetched /\ Waiting' = {}
    BY <1>4 DEF Waiting
  <2>2. FetchesAll'
    BY <1>4, <2>1 DEF FetchesAll
  <2>. QED  BY <1>1, <1>2, <1>4, <2>1, <2>2, FetchingKeeps DEF SortInv, SortTypeOK
<1>5. ASSUME ~first, delivered' = delivered,
             NEW r \in pending, pending' = pending \ {r}, outcome' = r
      PROVE  SortInv'
  <2>1. r \in Row /\ r # NoRow /\ r \in delivered
    BY <1>5, ScanAssumption DEF FetchesAll, TypeOK
  <2>2. Fetched' = Fetched \cup {r} /\ Waiting' = {r} /\ r \notin Fetched
    BY <1>5, <2>1 DEF Waiting
  <2>3. FetchesAll'
    BY <1>5, <2>2 DEF FetchesAll
  <2>. QED  BY <1>1, <1>2, <1>5, <2>2, <2>3, FetchingKeeps DEF SortInv, SortTypeOK
<1>. QED  BY <1>3, <1>4, <1>5 DEF PlainFetch

LEMMA SameScanVars ==
  ASSUME UNCHANGED scanVars
  PROVE  /\ method' = method /\ kind' = kind /\ argNull' = argNull /\ dist' = dist
         /\ pc' = pc /\ first' = first /\ queue' = queue /\ pending' = pending
         /\ outcome' = outcome /\ readAhead' = readAhead /\ seen' = seen
         /\ returned' = returned /\ xsInorder' = xsInorder /\ Ahead' = Ahead
BY DEF scanVars, args, source, Ahead

LEMMA GotRowKeeps ==
  ASSUME SortInv, GotRow
  PROVE  SortInv'
<1>. ScanInv /\ PhasesFit /\ FetchesAll /\ TypeOK
  BY DEF SortInv, ScanInv
<1>0. UNCHANGED scanVars
  BY DEF GotRow
<1>. /\ method' = method /\ kind' = kind /\ argNull' = argNull /\ dist' = dist
     /\ pc' = pc /\ first' = first /\ queue' = queue /\ pending' = pending
     /\ outcome' = outcome /\ readAhead' = readAhead /\ seen' = seen
     /\ returned' = returned /\ Ahead' = Ahead
  BY <1>0, SameScanVars
<1>. /\ phase = "scan" /\ pc = "idle" /\ outcome # NoRow /\ inorder' = xsInorder
     /\ phase' = (IF outcome \in passing THEN "row" ELSE "fetch")
     /\ delivered' = delivered /\ passing' = passing
     /\ UNCHANGED <<shape, passing, tuples, result>>
  BY DEF GotRow, CopyFlag
<1>1. ScanInv'
  BY <1>0, ScanStutters
<1>2. PhasesFit'
  BY DEF PhasesFit, Ordered
<1>3. /\ Fetched' = Fetched /\ Waiting = {outcome}
      /\ Waiting' = IF outcome \in passing THEN {outcome} ELSE {}
  BY DEF Fetched, Waiting
<1>4. FetchesAll'
  BY <1>3 DEF FetchesAll
<1>. QED  BY <1>1, <1>2, <1>3, <1>4, FetchingKeeps DEF SortInv, SortTypeOK, TypeOK

LEMMA OtherScanKeeps ==
  ASSUME SortInv, OtherScan
  PROVE  SortInv'
<1>. ScanInv /\ PhasesFit /\ FetchesAll /\ TypeOK
  BY DEF SortInv, ScanInv
<1>0. UNCHANGED scanVars
  BY DEF OtherScan
<1>. /\ method' = method /\ kind' = kind /\ argNull' = argNull /\ dist' = dist
     /\ pc' = pc /\ first' = first /\ queue' = queue /\ pending' = pending
     /\ outcome' = outcome /\ readAhead' = readAhead /\ seen' = seen
     /\ returned' = returned /\ Ahead' = Ahead
  BY <1>0, SameScanVars
<1>. /\ phase = "row" /\ phase' = phase /\ inorder' \in Others
     /\ delivered' = delivered /\ passing' = passing
     /\ UNCHANGED <<shape, passing, tuples, result>>
  BY DEF OtherScan
<1>1. ScanInv'
  BY <1>0, ScanStutters
<1>2. PhasesFit'
  BY DEF PhasesFit, Ordered, NeedsSort
<1>3. Fetched' = Fetched /\ Waiting' = Waiting
  BY DEF Fetched, Waiting
<1>4. FetchesAll'
  BY <1>3 DEF FetchesAll
<1>5. inorder' \in BOOLEAN
  BY SortAssumption
<1>. QED  BY <1>1, <1>2, <1>3, <1>4, <1>5, FetchingKeeps DEF SortInv, SortTypeOK

LEMMA ScanRests ==
  ASSUME SortInv, UNCHANGED scanVars, delivered' = delivered, Waiting' \subseteq Waiting
  PROVE  ScanInv' /\ FetchesAll' /\ Fetched' = Fetched
<1>. ScanInv /\ FetchesAll
  BY DEF SortInv
<1>. /\ method' = method /\ first' = first /\ queue' = queue /\ pending' = pending
     /\ seen' = seen /\ returned' = returned /\ Ahead' = Ahead
  BY SameScanVars
<1>1. Fetched' = Fetched
  BY DEF Fetched
<1>2. FetchesAll'
  BY <1>1 DEF FetchesAll
<1>. QED  BY <1>1, <1>2, ScanStutters

LEMMA NoMoreRowsKeeps ==
  ASSUME SortInv, NoMoreRows
  PROVE  SortInv'
<1>. ScanInv /\ PhasesFit /\ FetchesAll /\ TypeOK
  BY DEF SortInv, ScanInv
<1>0. UNCHANGED scanVars
  BY DEF NoMoreRows
<1>. /\ method' = method /\ kind' = kind /\ argNull' = argNull /\ dist' = dist
     /\ pc' = pc /\ first' = first /\ outcome' = outcome
  BY <1>0, SameScanVars
<1>. /\ phase = "scan" /\ pc = "idle" /\ outcome = NoRow
     /\ phase' = (IF NeedsSort THEN "sorted" ELSE "done")
     /\ UNCHANGED <<shape, passing, delivered, inorder, tuples, result>>
  BY DEF NoMoreRows
<1>. NeedsSort' = NeedsSort
  BY NeedsSortStays
<1>1. Waiting' = {} /\ Waiting = {}
  BY DEF Waiting
<1>2. ScanInv' /\ FetchesAll' /\ Fetched' = Fetched
  BY <1>0, <1>1, ScanRests
<1>3. PhasesFit'
  BY DEF PhasesFit, Ordered
<1>4. SortTypeOK'
  BY <1>2 DEF SortInv, SortTypeOK, ScanInv
<1>5. Sorts'
  BY <1>1, <1>2 DEF SortInv, Sorts, Nearer
<1>6. Passes'
  BY <1>1, <1>2 DEF SortInv, Passes
<1>7. ResultOnce'
  BY DEF SortInv, ResultOnce
<1>. QED  BY <1>2, <1>3, <1>4, <1>5, <1>6, <1>7 DEF SortInv

\* The row at the Sort was not put there before.
LEMMA RowIsNew ==
  ASSUME SortInv, phase = "row"
  PROVE  IF outcome = NoRow THEN Waiting = {}
         ELSE /\ Waiting = {outcome} /\ outcome \in Row /\ outcome \in passing
              /\ outcome \in Fetched
              /\ NeedsSort => outcome \notin tuples
              /\ ~NeedsSort => outcome \notin Range(result)
<1>1. pc = "idle" /\ outcome \in passing /\ TypeOK
  BY DEF SortInv, PhasesFit, SortTypeOK
<1>2. CASE outcome # NoRow
  <2>1. Waiting = {outcome} /\ outcome \in Row
    BY <1>1, <1>2 DEF Waiting, TypeOK
  <2>. QED  BY <1>1, <1>2, <2>1 DEF SortInv, FetchesAll, Sorts, Passes
<1>. QED  BY <1>1, <1>2 DEF Waiting

LEMMA PutKeeps ==
  ASSUME SortInv, Put
  PROVE  SortInv'
<1>. ScanInv /\ PhasesFit /\ FetchesAll /\ TypeOK /\ Sorts
  BY DEF SortInv, ScanInv
<1>0. UNCHANGED scanVars
  BY DEF Put
<1>. /\ method' = method /\ kind' = kind /\ argNull' = argNull /\ dist' = dist
     /\ pc' = pc /\ first' = first /\ outcome' = outcome
  BY <1>0, SameScanVars
<1>. /\ phase = "row" /\ pc = "idle" /\ outcome \in passing /\ NeedsSort /\ ~first
     /\ tuples' = tuples \cup {outcome}
     /\ phase' = (IF inorder /\ Cardinality(tuples') >= Limit THEN "sorted" ELSE "fetch")
     /\ UNCHANGED <<shape, passing, delivered, inorder, result>>
  BY DEF Put, HeapFull, Bound, PhasesFit
<1>. NeedsSort' = NeedsSort
  BY NeedsSortStays
<1>1. outcome \in Row /\ Waiting = {outcome} /\ outcome \in Fetched
  <2>1. outcome # NoRow
    BY ScanAssumption DEF SortInv, SortTypeOK
  <2>. QED  BY <2>1, RowIsNew
<1>2. Waiting' = {}
  BY DEF Waiting
<1>3. ScanInv' /\ FetchesAll' /\ Fetched' = Fetched
  BY <1>0, <1>2, ScanRests
<1>4. PhasesFit'
  BY DEF PhasesFit, Ordered
<1>5. SortTypeOK'
  BY <1>1, <1>3 DEF SortInv, SortTypeOK, ScanInv
<1>6. tuples' = (Fetched' \ Waiting') \cap passing'
  BY <1>1, <1>2, <1>3 DEF Sorts
<1>7. result = << >> /\ Range(<< >>) = {}
  BY NothingFacts DEF Sorts
<1>8. Sorts'
  BY <1>6, <1>7 DEF Sorts, Nearer
<1>9. Passes' /\ ResultOnce'
  BY DEF Passes, SortInv, ResultOnce
<1>. QED  BY <1>3, <1>4, <1>5, <1>8, <1>9 DEF SortInv

LEMMA PassOnKeeps ==
  ASSUME SortInv, PassOn
  PROVE  SortInv'
<1>. ScanInv /\ PhasesFit /\ FetchesAll /\ TypeOK /\ Passes
  BY DEF SortInv, ScanInv
<1>0. UNCHANGED scanVars
  BY DEF PassOn
<1>. /\ method' = method /\ kind' = kind /\ argNull' = argNull /\ dist' = dist
     /\ pc' = pc /\ first' = first /\ outcome' = outcome
  BY <1>0, SameScanVars
<1>. /\ phase = "row" /\ pc = "idle" /\ outcome \in passing /\ ~NeedsSort /\ ~first
     /\ result' = Append(result, outcome)
     /\ phase' = (IF Limit > 0 /\ Len(result') = Limit THEN "done" ELSE "fetch")
     /\ UNCHANGED <<shape, passing, delivered, inorder, tuples>>
  BY DEF PassOn, PhasesFit
<1>. NeedsSort' = NeedsSort
  BY NeedsSortStays
<1>1. outcome \in Row \ Range(result) /\ Waiting = {outcome} /\ outcome \in Fetched
  <2>1. outcome # NoRow
    BY ScanAssumption DEF SortInv, SortTypeOK
  <2>. QED  BY <2>1, RowIsNew
<1>2. Waiting' = {}
  BY DEF Waiting
<1>3. ScanInv' /\ FetchesAll' /\ Fetched' = Fetched
  BY <1>0, <1>2, ScanRests
<1>4. PhasesFit'
  BY DEF PhasesFit, Ordered
<1>5. /\ result' \in Seq(Row) /\ Len(result') = Len(result) + 1
      /\ Range(result') = Range(result) \cup {outcome}
      /\ \A j, k \in 1 .. Len(result') : result'[j] = result'[k] => j = k
  BY <1>1, AppendOnce
<1>6. SortTypeOK'
  BY <1>3, <1>5 DEF SortInv, SortTypeOK, ScanInv
<1>7. Len(result) \in Nat /\ Limit \in Nat /\ (Limit > 0 => Len(result) < Limit)
  BY ResultFacts DEF Passes
<1>8. Passes'
  BY <1>1, <1>2, <1>3, <1>5, <1>7 DEF Passes
<1>9. Sorts' /\ ResultOnce'
  BY <1>5, <1>7 DEF Sorts, ResultOnce
<1>. QED  BY <1>3, <1>4, <1>6, <1>8, <1>9 DEF SortInv

LEMMA EmitKeeps ==
  ASSUME SortInv, NEW r \in Row, Emit(r)
  PROVE  SortInv'
<1>. ScanInv /\ PhasesFit /\ FetchesAll /\ TypeOK /\ Sorts
  BY DEF SortInv, ScanInv
<1>0. UNCHANGED scanVars
  BY DEF Emit
<1>. /\ method' = method /\ kind' = kind /\ argNull' = argNull /\ dist' = dist
     /\ pc' = pc /\ first' = first /\ outcome' = outcome
  BY <1>0, SameScanVars
<1>. /\ phase = "sorted" /\ phase' = phase /\ (Limit > 0 => Len(result) < Limit)
     /\ r \in tuples \ Range(result) /\ result' = Append(result, r)
     /\ \A q \in tuples \ Range(result) : ~Nearer(q, r)
     /\ UNCHANGED <<shape, passing, delivered, inorder, tuples>>
  BY DEF Emit, EmitNearest
<1>. NeedsSort /\ NeedsSort' = NeedsSort
  BY NeedsSortStays DEF PhasesFit
<1>1. Waiting = {} /\ Waiting' = {}
  BY DEF Waiting
<1>2. ScanInv' /\ FetchesAll' /\ Fetched' = Fetched
  BY <1>0, <1>1, ScanRests
<1>3. PhasesFit'
  BY DEF PhasesFit, Ordered
<1>4. /\ result' \in Seq(Row) /\ Len(result') = Len(result) + 1
      /\ Range(result') = Range(result) \cup {r}
      /\ \A j, k \in 1 .. Len(result') : result'[j] = result'[k] => j = k
  BY AppendOnce
<1>5. SortTypeOK'
  BY <1>2, <1>4 DEF SortInv, SortTypeOK, ScanInv
<1>6. ASSUME NEW s \in Range(result'), NEW q \in tuples \ Range(result')
      PROVE  ~Nearer(q, s)
  BY <1>4, <1>6 DEF Sorts
<1>7. Sorts'
  BY <1>1, <1>2, <1>4, <1>6 DEF Sorts, Nearer
<1>8. Len(result) \in Nat /\ Limit \in Nat
  BY ResultFacts
<1>9. Passes' /\ ResultOnce'
  BY <1>4, <1>8 DEF Passes, ResultOnce
<1>. QED  BY <1>2, <1>3, <1>5, <1>7, <1>9 DEF SortInv

LEMMA FinishKeeps ==
  ASSUME SortInv, Finish
  PROVE  SortInv'
<1>. ScanInv /\ PhasesFit /\ FetchesAll /\ TypeOK /\ Sorts
  BY DEF SortInv, ScanInv
<1>0. UNCHANGED scanVars
  BY DEF Finish
<1>. /\ method' = method /\ kind' = kind /\ argNull' = argNull /\ dist' = dist
     /\ pc' = pc /\ first' = first /\ outcome' = outcome
  BY <1>0, SameScanVars
<1>. /\ phase = "sorted" /\ phase' = "done"
     /\ (Limit > 0 /\ Len(result) = Limit) \/ tuples \subseteq Range(result)
     /\ UNCHANGED <<shape, passing, delivered, inorder, tuples, result>>
  BY DEF Finish
<1>. NeedsSort /\ NeedsSort' = NeedsSort
  BY NeedsSortStays DEF PhasesFit
<1>1. Waiting = {} /\ Waiting' = {}
  BY DEF Waiting
<1>2. ScanInv' /\ FetchesAll' /\ Fetched' = Fetched
  BY <1>0, <1>1, ScanRests
<1>3. PhasesFit'
  BY DEF PhasesFit, Ordered
<1>4. SortTypeOK'
  BY <1>2 DEF SortInv, SortTypeOK, ScanInv
<1>5. Sorts'
  BY <1>1, <1>2 DEF Sorts, Nearer
<1>6. Passes' /\ ResultOnce'
  BY DEF Passes, SortInv, ResultOnce
<1>. QED  BY <1>2, <1>3, <1>4, <1>5, <1>6 DEF SortInv

LEMMA SortStutters ==
  ASSUME SortInv, UNCHANGED vars
  PROVE  SortInv'
<1>0. UNCHANGED scanVars /\ UNCHANGED sortVars
  BY DEF vars
<1>. /\ method' = method /\ kind' = kind /\ argNull' = argNull /\ dist' = dist
     /\ pc' = pc /\ first' = first /\ outcome' = outcome
  BY <1>0, SameScanVars
<1>. UNCHANGED <<phase, shape, passing, delivered, inorder, tuples, result>>
  BY <1>0 DEF sortVars
<1>. NeedsSort' = NeedsSort
  BY NeedsSortStays
<1>1. Waiting' = Waiting
  BY DEF Waiting
<1>2. ScanInv' /\ FetchesAll' /\ Fetched' = Fetched
  BY <1>0, <1>1, ScanRests
<1>3. SortTypeOK' /\ PhasesFit'
  BY <1>2 DEF SortInv, SortTypeOK, ScanInv, PhasesFit, Ordered
<1>4. Sorts' /\ Passes' /\ ResultOnce'
  BY <1>1, <1>2 DEF SortInv, Sorts, Passes, ResultOnce, Nearer
<1>. QED  BY <1>2, <1>3, <1>4 DEF SortInv

LEMMA SortStarts ==
  ASSUME InitSort
  PROVE  SortInv
<1>0. InitScan /\ near = {}
  BY DEF InitSort
<1>1. ScanInv
  BY <1>0, InitKeeps DEF NearIsBall
<1>. /\ phase = "plan" /\ shape \in Shapes /\ passing \in SUBSET Row /\ delivered = {}
     /\ inorder = FALSE /\ tuples = {} /\ result = << >>
  BY DEF InitSort
<1>. /\ pc = "unopened" /\ kind \in Kinds /\ argNull = FALSE /\ first /\ pending = {}
     /\ outcome = NoRow /\ returned = << >> /\ queue = {}
  BY <1>0 DEF InitScan
<1>. Range(<< >>) = {} /\ Len(<< >>) = 0 /\ << >> \in Seq(Row)
  BY NothingFacts
<1>2. SortTypeOK
  BY <1>1 DEF SortTypeOK, ScanInv
<1>3. PhasesFit
  BY SortAssumption DEF PhasesFit, Ordered
<1>4. Fetched = {} /\ Waiting = {}
  BY DEF Fetched, Waiting
<1>5. FetchesAll
  BY <1>4 DEF FetchesAll
<1>6. Sorts /\ Passes /\ ResultOnce
  BY <1>4, SortAssumption DEF Sorts, Passes, ResultOnce
<1>. QED  BY <1>1, <1>2, <1>3, <1>5, <1>6 DEF SortInv

(***************************************************************************)
(* At every moment of a query the Sort holds exactly the rows the scan has *)
(* returned that satisfy the WHERE clause, and what has left it are its    *)
(* nearest; without a Sort those rows are the result.                      *)
(***************************************************************************)
THEOREM SortInductive == SortSpec => []SortInv
<1>1. InitSort => SortInv
  BY SortStarts
<1>2. SortInv /\ [NextSort]_vars => SortInv'
  <2>. SUFFICES ASSUME SortInv, [NextSort]_vars PROVE SortInv'
    OBVIOUS
  <2>1. CASE StartQuery
    BY <2>1, StartQueryKeeps
  <2>2. CASE Fetch
    BY <2>2, FetchKeeps
  <2>3. CASE Scan
    BY <2>3, ScanKeeps
  <2>4. CASE PlainFetch
    BY <2>4, FetchPlainKeeps
  <2>5. CASE GotRow
    BY <2>5, GotRowKeeps
  <2>6. CASE NoMoreRows
    BY <2>6, NoMoreRowsKeeps
  <2>7. CASE OtherScan
    BY <2>7, OtherScanKeeps
  <2>8. CASE Put
    BY <2>8, PutKeeps
  <2>9. CASE PassOn
    BY <2>9, PassOnKeeps
  <2>10. ASSUME NEW r \in Row, Emit(r) PROVE SortInv'
    BY <2>10, EmitKeeps
  <2>11. CASE Finish
    BY <2>11, FinishKeeps
  <2>12. CASE UNCHANGED vars
    BY <2>12, SortStutters
  <2>. QED
    BY <2>1, <2>2, <2>3, <2>4, <2>5, <2>6, <2>7, <2>8, <2>9, <2>10, <2>11, <2>12
    DEF NextSort
<1>. QED  BY <1>1, <1>2, PTL DEF SortSpec

-----------------------------------------------------------------------------
(* What the query returns.                                                 *)

\* At the end, what was fetched is what the index yielded, but for an early stop.
LEMMA FetchedIsAnswer ==
  ASSUME SortInv, phase = "done"
  PROVE  /\ Waiting = {} /\ Fetched \subseteq Row /\ IsFiniteSet(Answer)
         /\ Fetched \cap passing \subseteq Answer
         /\ outcome = NoRow => Fetched \cap passing = Answer
<1>. ScanInv /\ PhasesFit /\ FetchesAll /\ SortTypeOK
  BY DEF SortInv
<1>. TypeOK /\ YieldsOnce /\ ReadAheadIsKept /\ OrderedReturnsAll
  BY DEF ScanInv
<1>. pc = "idle" /\ ~first /\ Ordered
  BY DEF PhasesFit
<1>1. Waiting = {}
  BY DEF Waiting
<1>2. Answer \subseteq Row
  BY DEF Answer, SortTypeOK
<1>3. IsFiniteSet(Answer)
  BY <1>2, FS_Subset, ScanAssumption
<1>4. CASE method = "plain"
  <2>1. Fetched = delivered \ pending
    BY <1>4 DEF Fetched
  <2>. QED  BY <1>1, <1>3, <2>1 DEF Answer, Abandoned, SortTypeOK
<1>5. CASE method # "plain"
  <2>1. returned = seen /\ seen \in Seq(Row) /\ Fetched = Range(seen)
    BY <1>5 DEF OrderedReturnsAll, Fetched, TypeOK
  <2>2. /\ Range(seen) \subseteq Row
        /\ \A q \in Range(seen) : \E k \in 1 .. Len(seen) : seen[k] = q
    BY <2>1, RangeFacts
  <2>3. Range(seen) \cap (pending \cup Ahead) = {}
    BY <2>2 DEF YieldsOnce
  <2>4. delivered = pending \cup Ahead \cup Range(seen)
    BY <1>5 DEF FetchesAll
  <2>5. outcome = NoRow => Ahead = {}
    <3>1. Ahead \subseteq readAhead
      BY <1>5 DEF ReadAheadIsKept, Serving
    <3>2. outcome = NoRow => readAhead \subseteq Range(returned)
      BY <1>5 DEF ScanInv, LeavesNoneBehind, Finished, TypeOK
    <3>. QED  BY <2>1, <2>3, <3>1, <3>2
  <2>6. outcome = NoRow => Fetched = delivered \ pending
    BY <2>1, <2>3, <2>4, <2>5
  <2>. QED  BY <1>1, <1>3, <2>1, <2>2, <2>4, <2>6 DEF Answer, Abandoned
<1>. QED  BY <1>4, <1>5

LEMMA AnswerIsFull ==
  ASSUME SortInv, Limit > 0 \/ method # "plain"
  PROVE  FullAnswer
<1>. SUFFICES ASSUME phase = "done"
     PROVE Len(result) = (IF Limit > 0 /\ Limit < Cardinality(Answer) THEN Limit
                          ELSE Cardinality(Answer))
  BY DEF FullAnswer
<1>. DEFINE P == Fetched \cap passing
<1>1. Len(result) = Cardinality(Range(result)) /\ Limit \in Nat /\ Len(result) \in Nat
  BY ResultFacts
<1>2. Limit > 0 => Len(result) <= Limit
  BY DEF SortInv, ResultOnce
<1>3. /\ Waiting = {} /\ IsFiniteSet(Answer) /\ P \subseteq Answer
      /\ outcome = NoRow => P = Answer
  BY FetchedIsAnswer
<1>4. /\ IsFiniteSet(P) /\ Cardinality(P) \in Nat /\ Cardinality(Answer) \in Nat
      /\ Cardinality(P) <= Cardinality(Answer)
      /\ outcome = NoRow => Cardinality(P) = Cardinality(Answer)
  BY <1>3, FS_Subset, FS_CardinalityType
<1>. HIDE DEF P
<1>5. CASE ~NeedsSort
  <2>1. Range(result) = P /\ (outcome = NoRow \/ (Limit > 0 /\ Len(result) = Limit))
    BY <1>3, <1>5 DEF SortInv, Passes, P
  <2>2. CASE outcome = NoRow
    <3>1. Len(result) = Cardinality(Answer)
      BY <1>1, <1>4, <2>1, <2>2
    <3>. QED  BY <1>1, <1>2, <3>1
  <2>3. CASE Limit > 0 /\ Len(result) = Limit
    BY <1>1, <1>4, <2>1, <2>3
  <2>. QED  BY <2>1, <2>2, <2>3
<1>6. CASE NeedsSort
  <2>1. /\ tuples = P /\ Range(result) \subseteq P
        /\ outcome = NoRow \/ Cardinality(P) >= Limit
        /\ P \subseteq Range(result) \/ (Limit > 0 /\ Len(result) = Limit)
    BY <1>3, <1>6 DEF SortInv, Sorts, P
  <2>2. Cardinality(Range(result)) <= Cardinality(P)
    BY <1>4, <2>1, FS_Subset
  <2>3. P \subseteq Range(result) => Len(result) = Cardinality(P)
    <3>1. P \subseteq Range(result) => P = Range(result)
      BY ONLY <2>1
    <3>. QED  BY ONLY <1>1, <3>1
  <2>4. CASE outcome = NoRow
    <3>1. Cardinality(P) = Cardinality(Answer)
      BY <1>4, <2>4
    <3>. QED  BY <1>1, <1>2, <1>4, <2>1, <2>2, <2>3, <3>1
  <2>5. CASE Cardinality(P) >= Limit /\ Limit > 0
    BY <1>1, <1>2, <1>4, <2>1, <2>2, <2>3, <2>5
  <2>6. Limit > 0
    BY <1>1, <1>6 DEF NeedsSort, PathIsSorted, Relaxed
  <2>. QED  BY <2>1, <2>4, <2>5, <2>6
<1>. QED  BY <1>5, <1>6

(***************************************************************************)
(* Stopping early never makes an answer short.  Without a LIMIT over an    *)
(* index of PostgreSQL's own it does: NoRowLost is about that case.        *)
(***************************************************************************)
THEOREM EnoughRows ==
  ASSUME Limit > 0 \/ "plain" \notin Methods
  PROVE  SortSpec => []FullAnswer
<1>1. SortInv => FullAnswer
  <2>1. SortInv => method \in Methods
    BY DEF SortInv, SortTypeOK, TypeOK
  <2>. QED  BY <2>1, AnswerIsFull
<1>. QED  BY <1>1, SortInductive, PTL

\* Of the rows read ahead those not fetched are no nearer than any fetched.
LEMMA BasisIsFetched ==
  ASSUME SortInv, phase = "done", Relaxed, delivered \subseteq passing
  PROVE  /\ tuples = Range(seen)
         /\ Basis \subseteq Row
         /\ Basis \subseteq tuples \/ tuples \subseteq Basis
         /\ \A r \in tuples, q \in Basis \ tuples : ~Nearer(q, r)
<1>. ScanInv /\ PhasesFit /\ FetchesAll /\ Sorts
  BY DEF SortInv
<1>. TypeOK /\ ReadAheadIsKept /\ OrderedReturnsAll
  BY DEF ScanInv
<1>. pc = "idle" /\ ~first /\ Ordered /\ method \in {"hnsw", "spann"}
  BY DEF PhasesFit, Relaxed, Relaxes
<1>1. returned = seen /\ seen \in Seq(Row) /\ Fetched = Range(seen)
  BY DEF OrderedReturnsAll, Fetched, TypeOK
<1>2. \A q \in Range(seen) : \E k \in 1 .. Len(seen) : seen[k] = q
  BY <1>1, RangeFacts
<1>3. tuples = Range(seen)
  <2>1. Range(seen) \subseteq delivered
    BY DEF FetchesAll
  <2>2. Waiting = {} /\ NeedsSort
    BY DEF Waiting, NeedsSort
  <2>. QED  BY <1>1, <2>1, <2>2 DEF Sorts
<1>4. Basis \subseteq Row
  BY DEF Basis, TypeOK
<1>5. CASE method = "hnsw"
  <2>1. Basis \subseteq Range(returned)
    BY <1>5 DEF Basis, FetchesAll
  <2>. QED  BY <1>1, <1>3, <1>4, <2>1
<1>6. CASE method = "spann"
  <2>1. Basis = readAhead
    BY <1>6 DEF Basis
  <2>2. /\ readAhead \subseteq Ahead \cup Range(seen)
        /\ \A k \in 1 .. Len(seen), q \in Ahead :
             seen[k] \in readAhead /\ ~Nearer(q, seen[k])
    BY <1>6 DEF ReadAheadIsKept, Serving
  <2>3. CASE Ahead = {}
    BY <1>3, <1>4, <2>1, <2>2, <2>3
  <2>4. CASE Ahead # {}
    <3>1. \A x \in Range(seen) : x \in readAhead
      BY <1>2, <2>2, <2>4
    <3>2. \A r \in Range(seen), q \in Ahead : ~Nearer(q, r)
      BY <1>2, <2>2
    <3>. QED  BY <1>3, <1>4, <2>1, <2>2, <3>1, <3>2
  <2>. QED  BY <2>3, <2>4
<1>. QED  BY <1>5, <1>6

LEMMA SettledIsExact ==
  ASSUME SortInv
  PROVE  ExactIfSettled
<1>. SUFFICES ASSUME phase = "done", Relaxed, delivered \subseteq passing,
                     delivered \subseteq tuples \/ Settled,
                     NEW r \in Range(result), NEW q \in delivered \ Range(result)
     PROVE ~Nearer(q, r)
  BY DEF ExactIfSettled
<1>1. /\ tuples \subseteq Row /\ delivered \subseteq Row
      /\ \A s \in Row : dist[s] \in Int
  BY ScanAssumption DEF SortInv, SortTypeOK, TypeOK
<1>2. /\ Range(result) \subseteq tuples
      /\ \A s \in Range(result), t \in tuples \ Range(result) : ~Nearer(t, s)
  BY DEF SortInv, Sorts, NeedsSort
<1>3. CASE q \in tuples
  BY <1>2, <1>3
<1>4. CASE q \notin tuples /\ Settled
  <2>1. /\ Limit <= Cardinality(Basis)
        /\ \A s \in delivered \ Basis, b \in Basis : ~Nearer(s, b)
    BY <1>4 DEF Settled
  <2>2. CASE q \in Basis
    BY <1>2, <1>4, <2>2, BasisIsFetched
  <2>3. CASE q \notin Basis /\ r \in Basis
    BY <2>1, <2>3
  <2>4. CASE q \notin Basis /\ r \notin Basis
    <3>1. Basis \subseteq tuples /\ Basis \subseteq Row
      BY <1>2, <2>4, BasisIsFetched
    <3>2. ~(Basis \subseteq Range(result))
      <4>. SUFFICES ASSUME Basis \subseteq Range(result) PROVE FALSE
        OBVIOUS
      <4>1. /\ IsFiniteSet(Range(result)) /\ Limit \in Nat /\ Limit > 0
            /\ Cardinality(Range(result)) <= Limit
        BY ResultFacts DEF SortInv, ResultOnce, Relaxed
      <4>2. /\ IsFiniteSet(Basis) /\ Cardinality(Basis) \in Nat
            /\ Cardinality(Basis \cup {r}) = Cardinality(Basis) + 1
        BY <4>1, <2>4, FS_Subset, FS_CardinalityType, FS_AddElement
      <4>3. Cardinality(Basis \cup {r}) <= Cardinality(Range(result))
        BY <4>1, FS_Subset
      <4>4. Cardinality(Range(result)) \in Nat
        BY <4>1, FS_CardinalityType
      <4>. QED  BY <2>1, <4>1, <4>2, <4>3, <4>4
    <3>3. PICK b \in Basis : b \notin Range(result)
      BY <3>2
    <3>4. ~Nearer(b, r) /\ ~Nearer(q, b) /\ b \in Row /\ q \in Row /\ r \in Row
      BY <1>1, <1>2, <2>1, <2>4, <3>1, <3>3
    <3>5. dist[b] \in Int /\ dist[q] \in Int /\ dist[r] \in Int
      BY <1>1, <3>4
    <3>. QED  BY <3>4, <3>5 DEF Nearer
  <2>. QED  BY <2>2, <2>3, <2>4
<1>. QED  BY <1>3, <1>4

(***************************************************************************)
(* The early stop is exact when xs_inorder was right, for every LIMIT: the *)
(* answer is the nearest rows the index has if no other row is nearer than *)
(* one of those the claim rests on, and these are as many as the LIMIT.    *)
(***************************************************************************)
THEOREM EarlyStopIsExact == SortSpec => []ExactIfSettled
<1>1. SortInv => ExactIfSettled
  BY SettledIsExact
<1>. QED  BY <1>1, SortInductive, PTL

-----------------------------------------------------------------------------
(* The query implements RankedRows.                                        *)

\* A step before the Sort returns rows, or one of a plan without a Sort.
LEMMA QueryRests ==
  ASSUME method' = method, dist' = dist, shape' = shape, tuples' = tuples,
         NeedsSort => result' = result,
         NeedsSort => (phase' = "done" <=> phase = "done")
  PROVE  UNCHANGED Promise!vars
<1>. NeedsSort' = NeedsSort
  BY NeedsSortStays
<1>. QED  BY DEF Promise!vars

LEMMA LoopKeepsQuery ==
  ASSUME SortInv, Scan
  PROVE  method' = method /\ dist' = dist
<1>1. ScanInv /\ Loop /\ Ordered
  BY DEF SortInv, PhasesFit, Scan
<1>2. CASE Rests
  BY <1>2 DEF Rests, SameScan, args
<1>3. ASSUME NEW r \in Row, Looks(r), Gives(r)
      PROVE  method' = method /\ dist' = dist
  BY <1>3 DEF Looks, args
<1>. QED  BY <1>1, <1>2, <1>3, OrderedLoop

LEMMA PutRefines ==
  ASSUME SortInv, Put
  PROVE  Promise!Scan(outcome)
<1>. UNCHANGED scanVars
  BY DEF Put
<1>. dist' = dist /\ method' = method
  BY SameScanVars
<1>. /\ phase = "row" /\ NeedsSort /\ phase' \in {"sorted", "fetch"}
     /\ tuples' = tuples \cup {outcome} /\ result' = result /\ shape' = shape
  BY DEF Put
<1>. NeedsSort' = NeedsSort
  BY NeedsSortStays
<1>1. result = << >>
  BY DEF SortInv, Sorts
<1>2. outcome # NoRow
  BY ScanAssumption DEF SortInv, PhasesFit, SortTypeOK
<1>3. outcome \notin tuples
  BY <1>2, RowIsNew
<1>. QED  BY <1>1, <1>3 DEF Promise!Scan

LEMMA EmitRefines ==
  ASSUME SortInv, NEW r \in Row, Emit(r)
  PROVE  Promise!Deliver(r)
<1>. UNCHANGED scanVars
  BY DEF Emit
<1>. dist' = dist /\ method' = method
  BY SameScanVars
<1>. /\ phase = "sorted" /\ phase' = phase /\ (Limit > 0 => Len(result) < Limit)
     /\ r \in tuples \ Range(result) /\ result' = Append(result, r)
     /\ \A q \in tuples \ Range(result) : ~Nearer(q, r)
     /\ tuples' = tuples /\ shape' = shape
  BY DEF Emit, EmitNearest
<1>. NeedsSort /\ NeedsSort' = NeedsSort
  BY NeedsSortStays DEF SortInv, PhasesFit
<1>1. Promise!Rest = tuples \ Range(result)
  BY DEF Promise!Rest, Promise!Range, Range
<1>2. tuples \subseteq Row /\ \A s \in Row : dist[s] \in Int
  BY ScanAssumption DEF SortInv, SortTypeOK, TypeOK
<1>3. \A q \in Promise!Rest : dist[r] <= dist[q]
  <2>. SUFFICES ASSUME NEW q \in Promise!Rest PROVE dist[r] <= dist[q]
    OBVIOUS
  <2>1. ~Nearer(q, r) /\ dist[q] \in Int /\ dist[r] \in Int
    BY <1>1, <1>2
  <2>. QED  BY <2>1 DEF Nearer
<1>4. Len(result) < (IF Limit > 0 THEN Limit ELSE Cardinality(Row))
  <2>1. /\ IsFiniteSet(Row) /\ Range(result) \subseteq Row
        /\ Len(result) = Cardinality(Range(result)) /\ Len(result) \in Nat
    BY ResultFacts
  <2>2. Range(result) # Row
    OBVIOUS
  <2>3. Cardinality(Range(result)) <= Cardinality(Row)
    BY <2>1, FS_Subset
  <2>4. Cardinality(Range(result)) # Cardinality(Row)
    BY <2>1, <2>2, FS_Subset
  <2>5. Cardinality(Row) \in Nat
    BY <2>1, FS_CardinalityType
  <2>. QED  BY <2>1, <2>3, <2>4, <2>5
<1>. QED  BY <1>1, <1>3, <1>4 DEF Promise!Deliver

LEMMA FinishRefines ==
  ASSUME SortInv, Finish
  PROVE  Promise!Close
<1>. UNCHANGED scanVars
  BY DEF Finish
<1>. dist' = dist /\ method' = method
  BY SameScanVars
<1>. /\ phase = "sorted" /\ phase' = "done"
     /\ (Limit > 0 /\ Len(result) = Limit) \/ tuples \subseteq Range(result)
     /\ tuples' = tuples /\ shape' = shape /\ result' = result
  BY DEF Finish
<1>. NeedsSort /\ NeedsSort' = NeedsSort
  BY NeedsSortStays DEF SortInv, PhasesFit
<1>1. Promise!Rest = tuples \ Range(result)
  BY DEF Promise!Rest, Promise!Range, Range
<1>2. Limit \in Nat
  BY SortAssumption
<1>. QED  BY <1>1, <1>2 DEF Promise!Close

LEMMA QueryRefines ==
  ASSUME SortInv, [NextSort]_vars
  PROVE  [Promise!Next]_(Promise!vars)
<1>1. CASE StartQuery
  BY <1>1, QueryRests DEF StartQuery, BeginScan, args
<1>2. CASE Fetch
  <2>1. method' = method /\ dist' = dist
    BY <1>2, StartFacts DEF Fetch, LaterCall, args, SortInv
  <2>. QED  BY <1>2, <2>1, QueryRests DEF Fetch
<1>3. CASE Scan
  BY <1>3, LoopKeepsQuery, QueryRests DEF Scan, sortVars
<1>4. CASE PlainFetch
  BY <1>4, QueryRests DEF PlainFetch, args
<1>5. CASE GotRow
  BY <1>5, SameScanVars, QueryRests DEF GotRow
<1>6. CASE NoMoreRows
  BY <1>6, SameScanVars, QueryRests DEF NoMoreRows
<1>7. CASE OtherScan
  BY <1>7, SameScanVars, QueryRests DEF OtherScan
<1>8. CASE Put
  <2>1. outcome \in Row
    BY <1>8 DEF Put, SortInv, PhasesFit, SortTypeOK
  <2>. QED  BY <1>8, <2>1, PutRefines DEF Promise!Next
<1>9. CASE PassOn
  BY <1>9, SameScanVars, QueryRests DEF PassOn
<1>10. ASSUME NEW r \in Row, Emit(r) PROVE Promise!Next
  BY <1>10, EmitRefines DEF Promise!Next
<1>11. CASE Finish
  BY <1>11, FinishRefines DEF Promise!Next
<1>12. CASE UNCHANGED vars
  BY <1>12, SameScanVars, QueryRests DEF vars, sortVars
<1>. QED
  BY <1>1, <1>2, <1>3, <1>4, <1>5, <1>6, <1>7, <1>8, <1>9, <1>10, <1>11, <1>12
  DEF NextSort

(***************************************************************************)
(* The executor with the Sort of the patch delivers the nearest of the     *)
(* rows it put into the Sort, nearest first, each once, and ends only when *)
(* it has the LIMIT or no more of them.                                    *)
(***************************************************************************)
THEOREM QueryRanksRows == SortSpec => PromiseSpec
<1>1. InitSort => Promise!Init
  <2>. SUFFICES ASSUME InitSort PROVE Promise!Init
    OBVIOUS
  <2>1. dist \in [Row -> Distance]
    BY DEF InitSort, InitScan
  <2>2. dist \in [Row -> Int]
    BY <2>1, ScanAssumption
  <2>. QED  BY <2>2 DEF InitSort, Promise!Init
<1>2. SortInv /\ [NextSort]_vars => [Promise!Next]_(Promise!vars)
  BY QueryRefines
<1>. QED  BY <1>1, <1>2, SortInductive, PTL DEF SortSpec, PromiseSpec, Promise!Spec

=============================================================================
