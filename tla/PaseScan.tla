------------------------------- MODULE PaseScan -------------------------------
(***************************************************************************)
(* pase_hnsw_gettuple of src/src/pase_hnswindex.cpp.  There is no          *)
(* iterator: the first call asks the library for the ReadAhead nearest     *)
(* rows, and the calls return these, nearest first.  What the index has    *)
(* besides stays pending: no call ever returns it.                         *)
(***************************************************************************)
EXTENDS IndexScan

StartPase ==
  /\ pc = "idle"
  /\ first
  /\ method = "pase"
  /\ HasKey
  /\ workSpace' = "bare"
  /\ queue' \in {rows \in SUBSET Row : Cardinality(rows) <= ReadAhead["pase"]}
  /\ pending' \in {{}} \cup (IF Cardinality(queue') = ReadAhead["pase"]
                           THEN SUBSET (Row \ queue') ELSE {})
  /\ readAhead' = queue'
  /\ first' = FALSE
  /\ pc' = "call"
  /\ UNCHANGED <<args, inRange, xsInorder, paused, misses, outcome, seen,
                 returned, open>>

PaseRow(r) ==
  /\ InLoop("pase")
  /\ r \in Bottoms(queue)
  /\ queue' = queue \ {r}
  /\ LookAt(r)
  /\ Return(r)
  /\ UNCHANGED <<inRange, xsInorder, source, misses>>

PaseEnd ==
  /\ InLoop("pase")
  /\ queue = {}
  /\ ReturnFalse
  /\ UNCHANGED <<inRange, queue, xsInorder, source, misses, seen>>

PaseLoop == PaseEnd \/ \E r \in Row : PaseRow(r)

=============================================================================
