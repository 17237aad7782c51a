------------------------------ MODULE SptagScan ------------------------------
(***************************************************************************)
(* sptag_gettuple of src/src/index.cpp.  It never claims an order          *)
(* (xs_inorder keeps what was in the memory) and, with a range condition,  *)
(* does not give up before a row was in range.                             *)
(***************************************************************************)
EXTENDS IndexScan

StartSptag ==
  /\ StartIterator("sptag")
  /\ pc' = "call"
  /\ UNCHANGED xsInorder

SptagRow(r) ==
  /\ InLoop("sptag")
  /\ Yield(r)
  /\ IF Ordered THEN Return(r) /\ UNCHANGED <<inRange, misses>>
     ELSE \/ r \in near /\ inRange' = TRUE /\ Return(r) /\ UNCHANGED misses
          \/ r \notin near /\ Miss
  /\ UNCHANGED <<queue, xsInorder>>

SptagLoop == Exhausted("sptag") \/ \E r \in Row : SptagRow(r)

=============================================================================
