------------------------------- MODULE HnswScan -------------------------------
(***************************************************************************)
(* hnsw_gettuple of src/src/hnswindex.cpp.  A scan with an ORDER BY        *)
(* returns whatever the iterator yields and decides when to claim that the *)
(* rows come in order (xs_inorder).  A scan with only a range condition    *)
(* returns the rows within the threshold and decides when to give up.      *)
(***************************************************************************)
EXTENDS IndexScan

StartHnsw ==
  /\ StartIterator("hnsw")
  /\ xsInorder' = FALSE
  /\ pc' = "call"

\* Push the distance of r, after a pop if the queue has size of them.
PopNearest(size) ==
  IF Cardinality(queue) = size THEN {{r} : r \in Bottoms(queue)} ELSE {{}}
Popped(size) == IF Cardinality(queue) = size THEN {{r} : r \in Tops(queue)} ELSE {{}}
Remember(r, size) == \E out \in Popped(size) : queue' = (queue \ out) \cup {r}

(***************************************************************************)
(* With an ORDER BY: every row is returned.  A row beyond OrderQueue that  *)
(* is farther than the nearest OrderQueue rows so far makes the scan claim *)
(* to be in order from there on.                                           *)
(***************************************************************************)
TurnsInOrder(r) ==
  Cardinality(queue) = OrderQueue /\ \A q \in queue : Nearer(q, r)

OrderedRow(r) ==
  /\ InLoop("hnsw")
  /\ Ordered
  /\ Yield(r)
  /\ \/ xsInorder /\ UNCHANGED <<xsInorder, queue>>
     \/ /\ ~xsInorder /\ TurnsInOrder(r)
        /\ xsInorder' = TRUE
        /\ UNCHANGED queue
     \/ /\ ~xsInorder /\ ~TurnsInOrder(r)
        /\ Remember(r, OrderQueue)
        /\ UNCHANGED xsInorder
  /\ Return(r)
  /\ UNCHANGED <<inRange, misses>>

(***************************************************************************)
(* With only a range condition.  Until a row is in range, the scan gives   *)
(* up on the first row that is no nearer than RangeQueue rows before it.   *)
(***************************************************************************)
IsAmongFirst(r) == Cardinality(queue) < RangeQueue
Approaches(r) ==
  Cardinality(queue) < RangeQueue \/ \E q \in queue : Nearer(r, q)

GiveUp(r) ==
  /\ InLoop("hnsw")
  /\ ~Ordered
  /\ ~inRange /\ ~Approaches(r)
  /\ Yield(r)
  /\ ReturnFalse
  /\ UNCHANGED <<inRange, queue, xsInorder, misses>>

Track(r) ==
  \/ inRange /\ UNCHANGED queue
  \/ ~inRange /\ Approaches(r) /\ Remember(r, RangeQueue)

InRangeRow(r) ==
  /\ InLoop("hnsw")
  /\ ~Ordered
  /\ r \in near
  /\ Yield(r)
  /\ Track(r)
  /\ inRange' = TRUE
  /\ Return(r)
  /\ UNCHANGED <<xsInorder, misses>>

OutOfRangeRow(r) ==
  /\ InLoop("hnsw")
  /\ ~Ordered
  /\ r \notin near
  /\ Yield(r)
  /\ Track(r)
  /\ Miss
  /\ UNCHANGED xsInorder

HnswLoop ==
  \/ Exhausted("hnsw")
  \/ \E r \in Row : OrderedRow(r) \/ GiveUp(r) \/ InRangeRow(r) \/ OutOfRangeRow(r)

-----------------------------------------------------------------------------
(***************************************************************************)
(* xs_inorder means what the executor takes it for, no more and no less: a *)
(* row has been returned that is farther than OrderQueue rows before it.   *)
(* It does not outlive a rescan, whose first call resets it.               *)
(***************************************************************************)
InOrderMeans ==
  method = "hnsw" /\ Ordered /\ ~first =>
    (xsInorder <=> \E k \in 1 .. Len(returned) :
       Cardinality({j \in 1 .. k - 1 : Nearer(returned[j], returned[k])})
         >= OrderQueue)

=============================================================================
