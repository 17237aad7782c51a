------------------------------- MODULE Fagins -------------------------------
(***************************************************************************)
(* The multi-index top-k operator of src/src/topk.cpp: execFagins and the  *)
(* calls of the set-returning function topk() that drive it.               *)
(*                                                                         *)
(* One child index scan per ORDER BY expression yields rows in a roughly   *)
(* ascending order of that expression only.  The operator visits the       *)
(* children round-robin, ranks each row it has not seen before with the    *)
(* whole rank expression, keeps the best Ef rows in a max-heap, and stops  *)
(* when a child is exhausted or TermCond new rows in a row did not enter   *)
(* the heap.  It then turns the heap into a stack, best row on top, and    *)
(* returns one row per call.                                               *)
(*                                                                         *)
(* A child scan is an approximate index: all that is assumed of it is that *)
(* it returns a finite set of rows, each once, in some order.              *)
(***************************************************************************)
EXTENDS Integers, Sequences, FiniteSets, Functions

CONSTANTS
  Tid,       \* heap TIDs of the rows of the table (castToUint64 is injective)
  Ranks,     \* the non-NULL values of the rank expression
  NULL,      \* SQL NULL
  NumChild,  \* number of ORDER BY expressions: one index scan for each
  Ef,        \* capacity of proc_pq: FaginsState.ef
  K,         \* max_calls: how many rows the caller may fetch, <= 0 for none
  TermCond   \* FaginsState.term_cond

ASSUME FaginsAssumption ==
  /\ IsFiniteSet(Tid)
  /\ Ranks \subseteq Int
  /\ NULL \notin Ranks
  /\ NumChild \in Nat \ {0}
  /\ Ef \in Nat
  /\ K \in Int
  /\ K > 0 => Ef >= K
  /\ TermCond \in Nat \ {0}

VARIABLES
  rank,         \* rank[t]: value of the rank expression on row t
  reach,        \* reach[c]: the rows child c's index scan can deliver
  pending,      \* pending[c]: those it has not delivered yet
  pc,           \* "idle" between two calls, else where the call is
  orderbyId,    \* the child of the current iteration of the for loop
  drops,        \* consecutive_drops, a local of execFagins
  finish,       \* FaginsState.finish
  procPq,       \* FaginsState.proc_pq
  seenSet,      \* FaginsState.seenSet
  resultStack,  \* FaginsState.result_stack, top first
  memctx,       \* CurrentMemoryContext: 0 is the caller's, c is child c's
  returned,     \* history: the rows the caller got, in order
  nullFrom,     \* history: the child whose scan ended the loop, 0 for none
  sinceChange   \* history: the rows first seen since proc_pq last changed

Children == 1 .. NumChild

scan == <<pending, seenSet, sinceChange>>
vars == <<rank, reach, pending, pc, orderbyId, drops, finish, procPq,
          seenSet, resultStack, memctx, returned, nullFrom, sinceChange>>

\* A heap entry is a copy of the tuple in child src's slot.
Item == [tid : Tid, src : Children]
Tids(items) == {i.tid : i \in items}

(***************************************************************************)
(* castAttrToFloat: a NULL rank counts as 0.                               *)
(***************************************************************************)
Score(t) == IF rank[t] = NULL THEN 0 ELSE rank[t]

\* The entries priority_queue::top() may return: the heap leaves ties open.
Bottoms(items) == {i \in items : \A j \in items : Score(i.tid) <= Score(j.tid)}
Tops(items) == {i \in items : \A j \in items : Score(j.tid) <= Score(i.tid)}

-----------------------------------------------------------------------------
Init ==
  \* with one child the rank is the index's own distance, which is never NULL
  /\ rank \in [Tid -> IF NumChild = 1 THEN Ranks ELSE Ranks \cup {NULL}]
  /\ reach \in [Children -> SUBSET Tid]
  /\ pending = reach
  /\ pc = "idle"
  /\ orderbyId = 1
  /\ drops = 0
  /\ finish = FALSE
  /\ procPq = {}
  /\ seenSet = {}
  /\ resultStack = << >>
  /\ memctx = 0
  /\ returned = << >>
  /\ nullFrom = 0
  /\ sinceChange = {}

(***************************************************************************)
(* topk(): one call of the set-returning function.  call_cntr is the       *)
(* number of rows returned so far.  Past max_calls it ends the scans.      *)
(***************************************************************************)
Call ==
  /\ pc = "idle"
  /\ pc' = IF Len(returned) >= K THEN "done"
           ELSE IF finish THEN "drain" ELSE "fetch"
  /\ orderbyId' = 1
  /\ drops' = 0
  /\ UNCHANGED <<rank, reach, finish, procPq, resultStack, memctx, returned,
                 nullFrom, scan>>

(***************************************************************************)
(* One iteration of the for loop over the children.  It runs in the memory *)
(* context of the child and switches back at its end.                      *)
(***************************************************************************)
StayInChildContext == memctx' = orderbyId
SwitchBack == UNCHANGED memctx

NextChild ==
  IF orderbyId < NumChild
  THEN orderbyId' = orderbyId + 1 /\ pc' = pc
  ELSE orderbyId' = 1 /\ pc' = "check"

Finish == finish' = TRUE

\* ExecProcNode returns an empty slot: leave the for loop.
ChildExhausted ==
  /\ pc = "fetch"
  /\ pending[orderbyId] = {}
  /\ Finish
  /\ nullFrom' = orderbyId
  /\ SwitchBack
  /\ pc' = "check"
  /\ UNCHANGED <<rank, reach, orderbyId, drops, procPq, resultStack, returned,
                 scan>>

Fetch(t) ==
  /\ pc = "fetch"
  /\ t \in pending[orderbyId]
  /\ pending' = [pending EXCEPT ![orderbyId] = @ \ {t}]
  /\ NextChild
  /\ UNCHANGED <<rank, reach, finish, resultStack, returned, nullFrom>>

\* "continue" skips the switch back to the old memory context.
SkipSeen(t) ==
  /\ Fetch(t)
  /\ t \in seenSet
  /\ StayInChildContext
  /\ UNCHANGED <<drops, procPq, seenSet, sinceChange>>

Forget(t) == UNCHANGED seenSet
MarkSeen(t) == seenSet' = seenSet \cup {t}

\* proc_pq.top() is a greatest entry: it is greater if any is.
Fits(t) ==
  \/ Cardinality(procPq) < Ef
  \/ \E i \in procPq : Score(i.tid) > Score(t)

Drop(t) ==
  /\ Fetch(t)
  /\ t \notin seenSet
  /\ MarkSeen(t)
  /\ ~Fits(t)
  /\ drops' = drops + 1
  /\ sinceChange' = sinceChange \cup {t}
  /\ SwitchBack
  /\ UNCHANGED procPq

CountOn == drops' = drops + 1
ResetDrops == drops' = 0

\* What the heap may drop to make room: nothing while it is not full.
Popped == IF Cardinality(procPq) = Ef THEN {{i} : i \in Tops(procPq)} ELSE {{}}

Keep(t) ==
  /\ Fetch(t)
  /\ t \notin seenSet
  /\ MarkSeen(t)
  /\ Fits(t)
  /\ \E out \in Popped :
       procPq' = (procPq \ out) \cup {[tid |-> t, src |-> orderbyId]}
  /\ ResetDrops
  /\ sinceChange' = {}
  /\ SwitchBack

(***************************************************************************)
(* After the for loop: the termination condition and the while condition.  *)
(***************************************************************************)
PastTermCond == drops > TermCond
ReachedTermCond == drops >= TermCond

CheckTermCond ==
  /\ pc = "check"
  /\ finish' = (finish \/ ReachedTermCond)
  /\ pc' = IF finish' THEN "drain" ELSE "fetch"
  /\ orderbyId' = 1
  /\ UNCHANGED <<rank, reach, drops, procPq, resultStack, memctx, returned,
                 nullFrom, scan>>

(***************************************************************************)
(* One iteration of the loop that empties the heap onto the stack.         *)
(***************************************************************************)
Push(i) == resultStack' = <<i>> \o resultStack

Drain ==
  /\ pc = "drain"
  /\ \E i \in Tops(procPq) : procPq' = procPq \ {i} /\ Push(i)
  /\ UNCHANGED <<rank, reach, pc, orderbyId, drops, finish, memctx, returned,
                 nullFrom, scan>>

(***************************************************************************)
(* Return the top of the stack to the caller.                              *)
(***************************************************************************)
Peek == UNCHANGED resultStack
Pop == resultStack' = Tail(resultStack)

Emit ==
  /\ pc = "drain"
  /\ procPq = {}
  /\ resultStack # << >>
  /\ returned' = Append(returned, Head(resultStack))
  /\ Pop
  /\ pc' = "idle"
  /\ UNCHANGED <<rank, reach, orderbyId, drops, finish, procPq, memctx,
                 nullFrom, scan>>

\* An empty slot: topk() goes to finish and ends the child scans.
EndOfRows ==
  /\ pc = "drain"
  /\ procPq = {}
  /\ resultStack = << >>
  /\ pc' = "done"
  /\ UNCHANGED <<rank, reach, orderbyId, drops, finish, procPq, resultStack,
                 memctx, returned, nullFrom, scan>>

Next ==
  \/ Call
  \/ ChildExhausted
  \/ \E t \in Tid : SkipSeen(t)
  \/ \E t \in Tid : Drop(t)
  \/ \E t \in Tid : Keep(t)
  \/ CheckTermCond
  \/ Drain
  \/ Emit
  \/ EndOfRows

\* The executor calls topk() until it reports the end of the set, and a call
\* is one thread that nothing blocks: the next step is always taken.
Spec == Init /\ [][Next]_vars /\ WF_vars(Next)

-----------------------------------------------------------------------------
TypeOK ==
  /\ rank \in [Tid -> Ranks \cup {NULL}]
  /\ reach \in [Children -> SUBSET Tid]
  /\ pending \in [Children -> SUBSET Tid]
  /\ pc \in {"idle", "fetch", "check", "drain", "done"}
  /\ orderbyId \in Children
  /\ drops \in Nat
  /\ finish \in BOOLEAN
  /\ procPq \in SUBSET Item
  /\ seenSet \in SUBSET Tid
  /\ resultStack \in Seq(Item)
  /\ memctx \in {0} \cup Children
  /\ returned \in Seq(Item)
  /\ nullFrom \in {0} \cup Children
  /\ sinceChange \in SUBSET Tid

\* Every entry the operator still holds or has handed over.
Held == procPq \cup Range(resultStack) \cup Range(returned)

(***************************************************************************)
(* The heap never loses a row it should keep: what has been popped or      *)
(* refused is no better than anything kept, and the number of rows kept is *)
(* Ef as soon as Ef different rows have been seen.  It relates the entries *)
(* of proc_pq, result_stack and the rows returned to seenSet, through      *)
(* every fetch, pop, drain and return.                                     *)
(***************************************************************************)
KeepsBest ==
  /\ Tids(Held) \subseteq seenSet
  /\ \A t \in seenSet \ Tids(Held) : \A i \in Held : Score(i.tid) <= Score(t)
  /\ Cardinality(seenSet) >= Ef => Cardinality(Held) = Ef
  /\ Cardinality(seenSet) < Ef =>
       Tids(Held) = seenSet /\ Cardinality(Held) = Cardinality(seenSet)

(***************************************************************************)
(* A row that several children deliver is ranked and returned once.        *)
(***************************************************************************)
NoDuplicates ==
  /\ \A i, j \in Held : i.tid = j.tid => i = j
  /\ \A m, n \in 1 .. Len(returned) :
       returned[m].tid = returned[n].tid => m = n

(***************************************************************************)
(* What the caller of topk() gets at the end when a child scan ran dry: no *)
(* row of that child is missing unless K rows at least as good were        *)
(* returned.  So with an index that delivers the whole table the answer is *)
(* exact, whatever the other children did.                                 *)
(***************************************************************************)
ExactWhenExhausted ==
  pc = "done" /\ nullFrom # 0 =>
    \A t \in reach[nullFrom] \ Tids(Range(returned)) :
      /\ Len(returned) = K
      /\ \A i \in Range(returned) : Score(i.tid) <= Score(t)

(***************************************************************************)
(* sql/vectordb.sql: "term_cond is the number of consecutive drops of      *)
(* table row after a priority queue is stable".  When the operator stops   *)
(* for that reason the heap is full and at least TermCond different rows   *)
(* seen last are no better than anything it holds ...                      *)
(***************************************************************************)
StopsWhenStable ==
  finish /\ nullFrom = 0 =>
    /\ Cardinality(sinceChange) >= TermCond
    /\ Cardinality(Held) = Ef
    /\ \A t \in sinceChange, i \in Held : Score(i.tid) <= Score(t)

(***************************************************************************)
(* ... and the check at the end of each round does not come late by more   *)
(* than the rest of the round.                                             *)
(***************************************************************************)
StopsInTime == Cardinality(sinceChange) < TermCond + NumChild

(***************************************************************************)
(* Between two calls CurrentMemoryContext is the caller's unless some row  *)
(* came from two children: only the "continue" on a seen row leaves the    *)
(* context of a child current, and then it is the context of a child that  *)
(* delivered such a row.                                                   *)
(***************************************************************************)
Delivered(c) == reach[c] \ pending[c]

ContextLeaksOnlyOnSeen ==
  memctx # 0 =>
    \E d \in Children \ {memctx} : Delivered(memctx) \cap Delivered(d) # {}

(***************************************************************************)
(* Each query ends: the loop cannot go round for ever, even when whole     *)
(* rounds bring only rows that were seen and so count as neither drop nor  *)
(* change.                                                                 *)
(***************************************************************************)
Termination == <>(pc = "done")

(***************************************************************************)
(* What topk() promises, as a specification of its own.                    *)
(***************************************************************************)
ResultTids == [n \in 1 .. Len(returned) |-> returned[n].tid]

Promise == INSTANCE RankedRows WITH
  scanned <- seenSet, result <- ResultTids, closed <- (pc = "done"),
  score <- [t \in Tid |-> Score(t)]

PromiseSpec == Promise!Spec

(***************************************************************************)
(* README.md: "It preserves all the features of PostgreSQL", where an      *)
(* ascending ORDER BY puts NULLs last.  Here a row with a NULL rank (one   *)
(* of its vectors is NULL, another child delivered it) ranks as 0.         *)
(***************************************************************************)
NullsLast ==
  \A m, n \in 1 .. Len(returned) :
    rank[returned[m].tid] = NULL /\ m < n => rank[returned[n].tid] = NULL

-----------------------------------------------------------------------------
(***************************************************************************)
(* The inductive invariant behind the safety properties: the heap, the     *)
(* stack and the rows returned are disjoint and in order (returned before  *)
(* stacked, stacked before what is still in the heap), nothing leaves the  *)
(* heap for the stack before the scan is over, and drops counts the rows   *)
(* of sinceChange.  It speaks of every step of execFagins.                 *)
(***************************************************************************)
SeenIsDelivered ==
  /\ \A c \in Children : pending[c] \subseteq reach[c]
  /\ \A t \in Tid : t \in seenSet <=> \E c \in Children : t \in Delivered(c)

Injective(s) == \A m, n \in 1 .. Len(s) : s[m].tid = s[n].tid => m = n
Ascending(s) ==
  \A m, n \in 1 .. Len(s) : m < n => Score(s[m].tid) <= Score(s[n].tid)
NoWorse(better, worse) ==
  \A i \in better, j \in worse : Score(i.tid) <= Score(j.tid)

Disjoint ==
  /\ \A i, j \in Held : i.tid = j.tid => i = j
  /\ Injective(returned) /\ Injective(resultStack)
  /\ Range(returned) \cap Range(resultStack) = {}
  /\ procPq \cap (Range(returned) \cup Range(resultStack)) = {}

Ordered ==
  /\ Ascending(returned) /\ Ascending(resultStack)
  /\ NoWorse(Range(returned), Range(resultStack) \cup procPq)
  /\ NoWorse(procPq, Range(resultStack))

Phases ==
  /\ pc \in {"fetch", "check"} \/ ~finish => returned = << >> /\ resultStack = << >>
  /\ pc = "idle" => procPq = {}
  /\ pc \in {"fetch", "check", "drain"} => Len(returned) < K
  /\ returned # << >> => Len(returned) <= K
  /\ pc = "done" => Len(returned) >= K \/ (procPq = {} /\ resultStack = << >>)
  /\ pc = "drain" => finish
  /\ pc = "fetch" => ~finish
  /\ pc = "check" /\ finish => nullFrom # 0
  /\ nullFrom # 0 => finish /\ pending[nullFrom] = {} /\ K > 0

Counting ==
  /\ sinceChange \subseteq seenSet \ Tids(Held)
  /\ pc \in {"fetch", "check"} => Cardinality(sinceChange) = drops
  /\ pc = "fetch" => drops < TermCond + orderbyId - 1
  /\ pc = "idle" /\ ~finish => sinceChange = {}
  /\ finish /\ nullFrom = 0 => Cardinality(sinceChange) >= TermCond
  /\ StopsInTime

IInv ==
  /\ TypeOK
  /\ SeenIsDelivered
  /\ IsFiniteSet(Held)
  /\ KeepsBest
  /\ Disjoint
  /\ Ordered
  /\ Phases
  /\ Counting

=============================================================================
