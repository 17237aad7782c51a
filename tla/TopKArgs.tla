------------------------------ MODULE TopKArgs ------------------------------
(***************************************************************************)
(* How topk() (src/src/topk.cpp) and multicol_topk()                       *)
(* (src/src/multicol_topk.cpp) turn their SQL integers into the state of   *)
(* the operator.  The arguments are signed in SQL, read as unsigned, and   *)
(* the row limit is read back into a signed int.                           *)
(***************************************************************************)
EXTENDS Integers

CONSTANT Modulus   \* number of values of a machine word: 2^32 in the code

ASSUME ModulusAssumption ==
  Modulus \in Nat /\ Modulus > 64 /\ Modulus % 2 = 0

Half == Modulus \div 2
SqlInt == -Half .. Half - 1

\* PG_GETARG_UINT32
AsUint32(n) == n % Modulus

\* int max_calls = funcctx->max_calls
AsInt(u) == IF u < Half THEN u ELSE u - Modulus

DefaultEf == 64
DefaultTermCond == 50

TermCondOf(termCond) ==
  IF AsUint32(termCond) = 0 THEN DefaultTermCond ELSE AsUint32(termCond)

EfAsGiven(k, ef) == IF AsUint32(ef) = 0 THEN DefaultEf ELSE AsUint32(ef)
EfOf(k, ef) ==
  LET given == IF AsUint32(ef) = 0 THEN DefaultEf ELSE AsUint32(ef)
  IN  IF given < AsUint32(k) THEN AsUint32(k) ELSE given

(***************************************************************************)
(* What the first call hands to InitFaginsState, and max_calls.            *)
(***************************************************************************)
topkArgs(k, ef, termCond) ==
  [ef |-> EfOf(k, ef), termCond |-> TermCondOf(termCond),
   maxCalls |-> AsInt(AsUint32(k))]

\* multicol_topk has no ef argument: its heap holds k rows.
multicolTopkArgs(k, termCond) ==
  [ef |-> AsUint32(k), termCond |-> TermCondOf(termCond),
   maxCalls |-> AsInt(AsUint32(k))]

-----------------------------------------------------------------------------
\* What module Fagins assumes of its constants Ef, K and TermCond.
FitsOperator(args) ==
  /\ args.ef \in Nat /\ args.maxCalls \in Int /\ args.termCond \in Nat
  /\ args.maxCalls > 0 => args.ef >= args.maxCalls
  /\ args.termCond > 0

(***************************************************************************)
(* Whatever integers the query passes, the operator starts in a state its  *)
(* loop can run in: the heap holds at least as many rows as may be         *)
(* fetched, so top() is never called on an empty heap; a zero term_cond    *)
(* never stops the scan before it begins; and a negative k fetches nothing *)
(* although it reads as a huge unsigned one.                               *)
(***************************************************************************)
ArgsFitOperator ==
  \A k, ef, termCond \in SqlInt :
    /\ FitsOperator(topkArgs(k, ef, termCond))
    /\ FitsOperator(multicolTopkArgs(k, termCond))
    /\ topkArgs(k, ef, termCond).maxCalls = k

=============================================================================
