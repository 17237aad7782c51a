----------------------------- MODULE RankedRows -----------------------------
(***************************************************************************)
(* What a top-k operator promises its caller, whatever it does inside: it  *)
(* first scans some rows, then delivers the best K of the rows it scanned, *)
(* best first and each once, scanning no more, and then closes.  How many  *)
(* rows it scans is its own affair: that is the approximation.             *)
(***************************************************************************)
EXTENDS Integers, Sequences, Functions

CONSTANTS
  Tid,  \* the rows
  K     \* how many the caller may fetch

VARIABLES
  score,    \* score[t]: the rank of row t, smallest best; never changes
  scanned,  \* the rows the operator has looked at
  result,   \* the rows delivered, in order
  closed    \* the operator has told its caller that there are no more rows

vars == <<score, scanned, result, closed>>

Init ==
  /\ score \in [Tid -> Int]
  /\ scanned = {}
  /\ result = << >>
  /\ closed = FALSE

Scan(t) ==
  /\ ~closed
  /\ result = << >>
  /\ t \notin scanned
  /\ scanned' = scanned \cup {t}
  /\ UNCHANGED <<score, result, closed>>

Rest == scanned \ Range(result)

Deliver(t) ==
  /\ ~closed
  /\ Len(result) < K
  /\ t \in Rest
  /\ \A u \in Rest : score[t] <= score[u]
  /\ result' = Append(result, t)
  /\ UNCHANGED <<score, scanned, closed>>

Close ==
  /\ ~closed
  /\ Len(result) >= K \/ Rest = {}
  /\ closed' = TRUE
  /\ UNCHANGED <<score, scanned, result>>

Next ==
  \/ \E t \in Tid : Scan(t)
  \/ \E t \in Tid : Deliver(t)
  \/ Close

Spec == Init /\ [][Next]_vars

=============================================================================
