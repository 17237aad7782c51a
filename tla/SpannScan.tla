------------------------------ MODULE SpannScan ------------------------------
(***************************************************************************)
(* spann_gettuple of src/src/spannindex.cpp.  The first call reads rows    *)
(* until the iterator pauses after its first batch (see SpannIterator), or *)
(* ReadAhead of them, and all calls return these first, nearest first;     *)
(* from the first row on the scan claims to be in order.  When they are    *)
(* used up it returns what the iterator yields; a pause is then the end.   *)
(***************************************************************************)
EXTENDS IndexScan

StartSpann ==
  /\ StartIterator("spann")
  /\ xsInorder' = TRUE
  /\ pc' = "prefetch"

Prefetching ==
  /\ pc = "prefetch"
  /\ UNCHANGED <<args, first, workSpace, inRange, xsInorder, misses, outcome,
                 seen, returned, open>>

Prefetch(r) ==
  /\ Prefetching
  /\ r \in pending
  /\ pending' = pending \ {r}
  /\ queue' = queue \cup {r}
  /\ readAhead' = readAhead \cup {r}
  /\ pc' = IF Cardinality(queue') >= ReadAhead["spann"] THEN "call" ELSE pc
  /\ UNCHANGED paused

\* GetNet returned false, because the iterator paused or ended.
NoResult ==
  \/ ~paused /\ paused' = TRUE
  \/ pending = {} /\ UNCHANGED paused

PrefetchDry ==
  /\ Prefetching
  /\ NoResult
  /\ pc' = "call"
  /\ UNCHANGED <<pending, queue, readAhead>>

-----------------------------------------------------------------------------
\* The next row: from the queue, or else from the iterator.
InAnyOrder == queue
NearestFirst == Bottoms(queue)

Take(r) ==
  \/ /\ r \in NearestFirst
     /\ queue' = queue \ {r}
     /\ LookAt(r)
     /\ UNCHANGED source
  \/ queue = {} /\ Yield(r) /\ UNCHANGED queue

SpannDry ==
  /\ InLoop("spann")
  /\ queue = {}
  /\ NoResult
  /\ ReturnFalse
  /\ UNCHANGED <<inRange, queue, xsInorder, pending, readAhead, misses, seen>>

SpannRow(r) ==
  /\ InLoop("spann")
  /\ Take(r)
  /\ \/ Ordered /\ Return(r) /\ UNCHANGED <<inRange, misses>>
     \/ ~Ordered /\ r \in near /\ inRange' = TRUE /\ Return(r) /\ UNCHANGED misses
     \/ ~Ordered /\ r \notin near /\ inRange /\ Miss
     \/ /\ ~Ordered /\ r \notin near /\ ~inRange
        /\ IF queue' = {} THEN ReturnFalse ELSE Continue
        /\ UNCHANGED <<inRange, misses>>
  /\ UNCHANGED xsInorder

SpannLoop ==
  \/ PrefetchDry
  \/ SpannDry
  \/ \E r \in Row : Prefetch(r) \/ SpannRow(r)

=============================================================================
