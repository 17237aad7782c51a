---------------------------- MODULE MultiColTopK ----------------------------
(***************************************************************************)
(* The operator of src/src/multicol_topk.cpp: the loop of execFagins with  *)
(* a heap of k rows instead of ef, here from the SQL arguments on.         *)
(***************************************************************************)
EXTENDS Integers, TopKArgs

CONSTANTS Tid, Ranks, NULL, NumChild,  \* as in Fagins
  KArg, TermCondArg                    \* the SQL integers k and term_cond

VARIABLES rank, reach, pending, pc, orderbyId, drops, finish, procPq, seenSet,
  resultStack, memctx, returned, nullFrom, sinceChange

Args == multicolTopkArgs(KArg, TermCondArg)

\* The capacity execFaginsM compares proc_pq->size() with.
OneLess == Args.ef - 1
Capacity == Args.ef

Op == INSTANCE Fagins WITH
  Ef <- Capacity, K <- Args.maxCalls, TermCond <- Args.termCond

vars == Op!vars

InitFaginsStateM == Op!Init

\* A child that runs dry ends the loop.
ExhaustedKeepGoing ==
  /\ pc = "fetch"
  /\ pending[orderbyId] = {}
  /\ pc' = "check"
  /\ UNCHANGED <<rank, reach, pending, orderbyId, drops, finish, procPq, seenSet,
                 resultStack, memctx, returned, nullFrom, sinceChange>>
Exhausted == Op!ChildExhausted

\* The loop over the children and the check after each round.
ScanM ==
  \/ Exhausted
  \/ \E t \in Tid : Op!SkipSeen(t) \/ Op!Drop(t) \/ Op!Keep(t)
  \/ Op!CheckTermCond

\* Emptying the heap and returning one row.
OutputM == Op!Drain \/ Op!Emit \/ Op!EndOfRows

\* The calls of multicol_topk().
multicol_topk == Op!Call

Next == ScanM \/ OutputM \/ multicol_topk

Spec == InitFaginsStateM /\ [][Next]_vars /\ WF_vars(Next)

-----------------------------------------------------------------------------
(***************************************************************************)
(* multicol_topk() keeps no spare candidates, its heap is as large as the  *)
(* answer: it still delivers the best rows of all it scanned, in order.    *)
(***************************************************************************)
PromiseSpec == Op!PromiseSpec

(***************************************************************************)
(* Each query ends, even when whole rounds bring only rows that were seen  *)
(* before and so count as neither drop nor change.                         *)
(***************************************************************************)
Termination == Op!Termination

=============================================================================
