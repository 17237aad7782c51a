---------------------------- MODULE VectorSource ----------------------------
(***************************************************************************)
(* What an access method may rely on when it calls Next() of an iterator   *)
(* of an index library: each vector comes at most once, in some order; the *)
(* iterator may say once, before its end, that it has no result although   *)
(* more will come; after its end it has none.                              *)
(***************************************************************************)
EXTENDS Sequences, Functions

CONSTANT Vector

VARIABLES
  yielded,  \* the vectors returned since the iterator was made, in order
  pauses,   \* how often it has said that it has no result for now
  ended     \* it has said so for good

vars == <<yielded, pauses, ended>>

Init ==
  /\ yielded = << >>
  /\ pauses = 0
  /\ ended = FALSE

Restart ==
  /\ yielded' = << >>
  /\ pauses' = 0
  /\ ended' = FALSE

Yield(v) ==
  /\ ~ended
  /\ v \notin Range(yielded)
  /\ yielded' = Append(yielded, v)
  /\ UNCHANGED <<pauses, ended>>

Pause ==
  /\ pauses = 0
  /\ ~ended
  /\ pauses' = 1
  /\ UNCHANGED <<yielded, ended>>

Finish ==
  /\ ended' = TRUE
  /\ UNCHANGED <<yielded, pauses>>

Next ==
  \/ Restart
  \/ \E v \in Vector : Yield(v)
  \/ Pause
  \/ Finish

Spec == Init /\ [][Next]_vars

=============================================================================
