---------------------------- MODULE Fagins_proofs ----------------------------
(***************************************************************************)
(* Proofs about Fagins: the inductive invariant IInv, and from it the      *)
(* safety properties of the operator, for every table, every number of     *)
(* children, every heap capacity, limit and termination condition.         *)
(***************************************************************************)
EXTENDS Fagins, TLAPS, FiniteSetTheorems, SequenceTheorems, FunctionTheorems

USE FaginsAssumption

-----------------------------------------------------------------------------
(* Facts about sequences of heap entries.                                  *)

\* Pushing an entry on the stack: its rows, and how they are numbered.
LEMMA ConsFacts ==
  ASSUME NEW S, NEW s \in Seq(S), NEW i \in S
  PROVE  /\ <<i>> \o s \in Seq(S)
         /\ Len(<<i>> \o s) = Len(s) + 1
         /\ (<<i>> \o s)[1] = i
         /\ \A n \in 1 .. Len(s) : (<<i>> \o s)[n + 1] = s[n]
         /\ \A n \in 2 .. Len(s) + 1 : (<<i>> \o s)[n] = s[n - 1]
         /\ Range(<<i>> \o s) = Range(s) \cup {i}
<1>1. <<i>> \in Seq(S) /\ Len(<<i>>) = 1 /\ <<i>>[1] = i
  OBVIOUS
<1>2. /\ <<i>> \o s \in Seq(S)
      /\ Len(<<i>> \o s) = Len(s) + 1
      /\ \A n \in 1 .. Len(s) + 1 :
           (<<i>> \o s)[n] = IF n <= 1 THEN <<i>>[n] ELSE s[n - 1]
  BY <1>1, ConcatProperties
<1>3. /\ (<<i>> \o s)[1] = i
      /\ \A n \in 1 .. Len(s) : (<<i>> \o s)[n + 1] = s[n]
      /\ \A n \in 2 .. Len(s) + 1 : (<<i>> \o s)[n] = s[n - 1]
  BY <1>1, <1>2, LenProperties
<1>4. Range(<<i>> \o s) = Range(s) \cup {i}
  <2>1. DOMAIN (<<i>> \o s) = 1 .. Len(s) + 1 /\ DOMAIN s = 1 .. Len(s)
    BY <1>2, LenProperties
  <2>2. ASSUME NEW n \in 1 .. Len(s) + 1
        PROVE  (<<i>> \o s)[n] \in Range(s) \cup {i}
    <3>1. CASE n = 1
      BY <3>1, <1>3
    <3>2. CASE n # 1
      BY <3>2, <1>3, <2>1, LenProperties DEF Range
    <3>3. QED
      BY <3>1, <3>2
  <2>3. ASSUME NEW x \in Range(s) \cup {i}
        PROVE  \E n \in 1 .. Len(s) + 1 : (<<i>> \o s)[n] = x
    <3>1. CASE x = i
      BY <3>1, <1>3, LenProperties
    <3>2. CASE x \in Range(s)
      <4>1. PICK n \in 1 .. Len(s) : s[n] = x
        BY <3>2, <2>1 DEF Range
      <4>2. n + 1 \in 1 .. Len(s) + 1 /\ (<<i>> \o s)[n + 1] = x
        BY <4>1, <1>3, LenProperties
      <4>3. QED
        BY <4>2
    <3>3. QED
      BY <3>1, <3>2
  <2>4. QED
    BY <2>1, <2>2, <2>3 DEF Range
<1>5. QED
  BY <1>2, <1>3, <1>4

\* Popping the top of the stack.
LEMMA TailFacts ==
  ASSUME NEW S, NEW s \in Seq(S), s # << >>
  PROVE  /\ Head(s) \in S /\ Tail(s) \in Seq(S)
         /\ Len(s) \in Nat \ {0}
         /\ Len(Tail(s)) = Len(s) - 1
         /\ Head(s) = s[1]
         /\ \A n \in 1 .. Len(Tail(s)) : Tail(s)[n] = s[n + 1]
         /\ Range(s) = Range(Tail(s)) \cup {Head(s)}
<1>1. /\ Head(s) \in S /\ Tail(s) \in Seq(S)
      /\ Len(s) \in Nat \ {0}
      /\ Len(Tail(s)) = Len(s) - 1
      /\ \A n \in 1 .. Len(Tail(s)) : Tail(s)[n] = s[n + 1]
  BY HeadTailProperties, EmptySeq
<1>2. Head(s) = s[1]
  OBVIOUS
<1>3. DOMAIN s = 1 .. Len(s) /\ DOMAIN Tail(s) = 1 .. Len(s) - 1
  BY <1>1, LenProperties
<1>4. ASSUME NEW n \in 1 .. Len(s)
      PROVE  s[n] \in Range(Tail(s)) \cup {Head(s)}
  <2>1. CASE n = 1
    BY <2>1, <1>2
  <2>2. CASE n # 1
    <3>1. n - 1 \in 1 .. Len(s) - 1 /\ Tail(s)[n - 1] = s[n]
      BY <2>2, <1>1
    <3>2. QED
      BY <3>1, <1>3 DEF Range
  <2>3. QED
    BY <2>1, <2>2
<1>5. ASSUME NEW x \in Range(Tail(s)) \cup {Head(s)}
      PROVE  \E n \in 1 .. Len(s) : s[n] = x
  <2>1. CASE x = Head(s)
    BY <2>1, <1>1, <1>2
  <2>2. CASE x \in Range(Tail(s))
    <3>1. PICK n \in 1 .. Len(s) - 1 : Tail(s)[n] = x
      BY <2>2, <1>3 DEF Range
    <3>2. n + 1 \in 1 .. Len(s) /\ s[n + 1] = x
      BY <3>1, <1>1
    <3>3. QED
      BY <3>2
  <2>3. QED
    BY <2>1, <2>2
<1>6. Range(s) = Range(Tail(s)) \cup {Head(s)}
  BY <1>3, <1>4, <1>5 DEF Range
<1>7. QED
  BY <1>1, <1>2, <1>6

\* Returning an entry to the caller.
LEMMA AppendFacts ==
  ASSUME NEW S, NEW s \in Seq(S), NEW i \in S
  PROVE  /\ Append(s, i) \in Seq(S)
         /\ Len(s) \in Nat
         /\ Len(Append(s, i)) = Len(s) + 1
         /\ Append(s, i)[Len(s) + 1] = i
         /\ \A n \in 1 .. Len(s) : Append(s, i)[n] = s[n]
         /\ Range(Append(s, i)) = Range(s) \cup {i}
<1>1. /\ Append(s, i) \in Seq(S)
      /\ Len(s) \in Nat
      /\ Len(Append(s, i)) = Len(s) + 1
      /\ Append(s, i)[Len(s) + 1] = i
      /\ \A n \in 1 .. Len(s) : Append(s, i)[n] = s[n]
  BY AppendProperties, LenProperties
<1>2. DOMAIN s = 1 .. Len(s) /\ DOMAIN Append(s, i) = 1 .. Len(s) + 1
  BY <1>1, LenProperties
<1>3. ASSUME NEW n \in 1 .. Len(s) + 1
      PROVE  Append(s, i)[n] \in Range(s) \cup {i}
  <2>1. CASE n = Len(s) + 1
    BY <2>1, <1>1
  <2>2. CASE n \in 1 .. Len(s)
    BY <2>2, <1>1, <1>2 DEF Range
  <2>3. QED
    BY <2>1, <2>2, <1>1
<1>4. ASSUME NEW x \in Range(s) \cup {i}
      PROVE  \E n \in 1 .. Len(s) + 1 : Append(s, i)[n] = x
  <2>1. CASE x = i
    BY <2>1, <1>1
  <2>2. CASE x \in Range(s)
    <3>1. PICK n \in 1 .. Len(s) : s[n] = x
      BY <2>2, <1>2 DEF Range
    <3>2. n \in 1 .. Len(s) + 1 /\ Append(s, i)[n] = x
      BY <3>1, <1>1
    <3>3. QED
      BY <3>2
  <2>3. QED
    BY <2>1, <2>2
<1>5. Range(Append(s, i)) = Range(s) \cup {i}
  BY <1>2, <1>3, <1>4 DEF Range
<1>6. QED
  BY <1>1, <1>5

\* An empty sequence has no rows.
LEMMA EmptyFacts == Range(<< >>) = {} /\ Len(<< >>) = 0
  BY DEF Range

\* All the entries of a sequence are of its element set.
LEMMA RangeType ==
  ASSUME NEW S, NEW s \in Seq(S)
  PROVE  Range(s) \subseteq S /\ \A n \in 1 .. Len(s) : s[n] \in Range(s)
  BY LenProperties, ElementOfSeq DEF Range

-----------------------------------------------------------------------------
(* Steps that leave the heap, the stack and the rows returned alone.       *)

\* The variables of the rows kept; none of these steps changes them.
kept == <<rank, seenSet, procPq, resultStack, returned>>

LEMMA SameRows ==
  ASSUME IInv, UNCHANGED kept
  PROVE  IsFiniteSet(Held)' /\ KeepsBest' /\ Disjoint' /\ Ordered'
<1>1. Held' = Held
  BY DEF kept, Held
<1>2. IsFiniteSet(Held)' /\ KeepsBest'
  BY <1>1 DEF kept, IInv, KeepsBest, Score, Tids
<1>3. Disjoint'
  BY <1>1 DEF kept, IInv, Disjoint, Injective
<1>4. Ordered'
  BY DEF kept, IInv, Ordered, Ascending, NoWorse, Score
<1>5. QED
  BY <1>2, <1>3, <1>4

LEMMA SameScan ==
  ASSUME IInv, UNCHANGED <<reach, pending, seenSet>>
  PROVE  SeenIsDelivered'
BY DEF IInv, SeenIsDelivered, Delivered

LEMMA SameCount ==
  ASSUME IInv, UNCHANGED kept, UNCHANGED sinceChange
  PROVE  (sinceChange \subseteq seenSet \ Tids(Held))' /\ StopsInTime'
<1>1. Held' = Held
  BY DEF kept, Held
<1>2. Tids(Held)' = Tids(Held)
  BY <1>1 DEF Tids
<1>3. QED
  BY <1>2 DEF kept, IInv, Counting, StopsInTime

LEMMA CallStep ==
  ASSUME IInv, Call
  PROVE  IInv'
<1> USE DEF Call, scan
<1>1. UNCHANGED kept /\ UNCHANGED <<reach, pending, seenSet>>
  BY DEF kept
<1>2. TypeOK'
  BY DEF IInv, TypeOK, Children
<1>3. SeenIsDelivered' /\ IsFiniteSet(Held)' /\ KeepsBest' /\ Disjoint' /\ Ordered'
  BY <1>1, SameRows, SameScan
<1>4. Phases'
  BY EmptyFacts DEF IInv, TypeOK, Phases
<1>5. Counting'
  <2>1. Cardinality({}) = 0
    BY FS_EmptySet
  <2>2. (sinceChange \subseteq seenSet \ Tids(Held))' /\ StopsInTime'
    BY <1>1, SameCount
  <2>3. pc' = "fetch" => ~finish /\ drops' = 0 /\ orderbyId' = 1 /\ sinceChange = {}
    BY DEF IInv, Counting
  <2>4. pc' \notin {"check", "idle"}
    OBVIOUS
  <2>5. finish /\ nullFrom = 0 => Cardinality(sinceChange) >= TermCond
    BY DEF IInv, Counting
  <2>6. (pc \in {"fetch", "check"} => Cardinality(sinceChange) = drops)'
    BY <2>1, <2>3, <2>4
  <2>7. (pc = "fetch" => drops < TermCond + orderbyId - 1)'
    BY <2>3
  <2>8. (finish /\ nullFrom = 0 => Cardinality(sinceChange) >= TermCond)'
    BY <2>5
  <2>9. QED
    BY <2>2, <2>4, <2>6, <2>7, <2>8 DEF Counting
<1>6. QED
  BY <1>2, <1>3, <1>4, <1>5 DEF IInv

LEMMA ExhaustedStep ==
  ASSUME IInv, ChildExhausted
  PROVE  IInv'
<1> USE DEF ChildExhausted, scan, Finish, SwitchBack
<1>1. UNCHANGED kept /\ UNCHANGED <<reach, pending, seenSet>>
  BY DEF kept
<1>2. TypeOK'
  BY DEF IInv, TypeOK, Children
<1>3. SeenIsDelivered' /\ IsFiniteSet(Held)' /\ KeepsBest' /\ Disjoint' /\ Ordered'
  BY <1>1, SameRows, SameScan
<1>4. Phases'
  BY EmptyFacts DEF IInv, TypeOK, Phases, Children
<1>5. Counting'
  <2>1. (sinceChange \subseteq seenSet \ Tids(Held))' /\ StopsInTime'
    BY <1>1, SameCount
  <2>2. Counting /\ drops \in Nat /\ orderbyId \in Nat /\ Phases
    BY DEF IInv, TypeOK, Children
  <2>3. nullFrom' # 0 /\ pc' = "check" /\ UNCHANGED <<drops, sinceChange>>
    BY <2>2 DEF IInv, TypeOK, Children
  <2>4. Cardinality(sinceChange) = drops
    BY <2>2 DEF Counting
  <2>5. QED
    BY <2>1, <2>3, <2>4 DEF Counting
<1>6. QED
  BY <1>2, <1>3, <1>4, <1>5 DEF IInv

LEMMA CheckStep ==
  ASSUME IInv, CheckTermCond
  PROVE  IInv'
<1> USE DEF CheckTermCond, scan, ReachedTermCond
<1>1. UNCHANGED kept /\ UNCHANGED <<reach, pending, seenSet>>
  BY DEF kept
<1>2. TypeOK'
  BY DEF IInv, TypeOK, Children
<1>3. SeenIsDelivered' /\ IsFiniteSet(Held)' /\ KeepsBest' /\ Disjoint' /\ Ordered'
  BY <1>1, SameRows, SameScan
<1>4. Phases'
  BY EmptyFacts DEF IInv, TypeOK, Phases, Children
<1>5. Counting'
  <2>1. (sinceChange \subseteq seenSet \ Tids(Held))' /\ StopsInTime'
    BY <1>1, SameCount
  <2>2. Counting /\ drops \in Nat /\ orderbyId \in Nat /\ Phases
    BY DEF IInv, TypeOK, Children
  <2>3. UNCHANGED <<drops, sinceChange, nullFrom>> /\ Cardinality(sinceChange) = drops
    BY <2>2 DEF Counting
  <2>4. (pc = "fetch" => drops < TermCond + orderbyId - 1)'
    <3>1. drops >= TermCond => pc' = "drain"
      OBVIOUS
    <3>2. QED
      BY <2>2, <3>1
  <2>5. pc' \in {"fetch", "drain"}
    OBVIOUS
  <2>6. (finish /\ nullFrom = 0 => Cardinality(sinceChange) >= TermCond)'
    <3>1. finish /\ nullFrom = 0 => Cardinality(sinceChange) >= TermCond
      BY <2>2 DEF Counting
    <3>2. QED
      BY <2>2, <2>3, <3>1
  <2>7. QED
    BY <2>1, <2>3, <2>4, <2>5, <2>6 DEF Counting
<1>6. QED
  BY <1>2, <1>3, <1>4, <1>5 DEF IInv

LEMMA EndStep ==
  ASSUME IInv, EndOfRows
  PROVE  IInv'
<1> USE DEF EndOfRows, scan
<1>1. UNCHANGED kept /\ UNCHANGED <<reach, pending, seenSet>>
  BY DEF kept
<1>2. TypeOK'
  BY DEF IInv, TypeOK, Children
<1>3. SeenIsDelivered' /\ IsFiniteSet(Held)' /\ KeepsBest' /\ Disjoint' /\ Ordered'
  BY <1>1, SameRows, SameScan
<1>4. Phases'
  BY EmptyFacts DEF IInv, TypeOK, Phases, Children
<1>5. Counting'
  <2>1. (sinceChange \subseteq seenSet \ Tids(Held))' /\ StopsInTime'
    BY <1>1, SameCount
  <2>2. Counting /\ drops \in Nat /\ orderbyId \in Nat /\ Phases
    BY DEF IInv, TypeOK, Children
  <2>3. QED
    BY <2>1, <2>2 DEF Counting, Phases, Children
<1>6. QED
  BY <1>2, <1>3, <1>4, <1>5 DEF IInv

-----------------------------------------------------------------------------
(* One row fetched.                                                        *)

LEMMA NextChildFacts ==
  ASSUME orderbyId \in Children, pc = "fetch", NextChild
  PROVE  /\ orderbyId' \in Children
         /\ \/ pc' = "fetch" /\ orderbyId' = orderbyId + 1
            \/ pc' = "check" /\ orderbyId = NumChild
<1>1. CASE orderbyId < NumChild
  BY <1>1 DEF NextChild, Children
<1>2. CASE ~(orderbyId < NumChild)
  BY <1>2 DEF NextChild, Children
<1>3. QED
  BY <1>1, <1>2

\* What the fetch itself does, whatever becomes of the row.
LEMMA FetchFacts ==
  ASSUME IInv, NEW t \in Tid, Fetch(t)
  PROVE  /\ pending' \in [Children -> SUBSET Tid]
         /\ orderbyId' \in Children
         /\ \/ pc' = "fetch" /\ orderbyId' = orderbyId + 1
            \/ pc' = "check" /\ orderbyId = NumChild
         /\ returned = << >> /\ resultStack = << >> /\ ~finish /\ nullFrom = 0
         /\ \A c \in Children : pending'[c] \subseteq reach[c]
         /\ \A u \in Tid : (\E c \in Children : u \in reach[c] \ pending'[c])
                           <=> u = t \/ \E c \in Children : u \in Delivered(c)
<1> USE DEF Fetch
<1>1. orderbyId \in Children /\ t \in pending[orderbyId] /\ pending \in [Children -> SUBSET Tid]
  BY DEF IInv, TypeOK
<1>2. pending' \in [Children -> SUBSET Tid]
  BY <1>1
<1>3. /\ orderbyId' \in Children
      /\ \/ pc' = "fetch" /\ orderbyId' = orderbyId + 1
         \/ pc' = "check" /\ orderbyId = NumChild
  BY <1>1, NextChildFacts
<1>4. returned = << >> /\ resultStack = << >> /\ ~finish /\ nullFrom = 0
  BY DEF IInv, Phases
<1>5. \A c \in Children : pending'[c] \subseteq reach[c]
  BY <1>1 DEF IInv, SeenIsDelivered
<1>6. \A c \in Children : pending'[c] = IF c = orderbyId THEN pending[c] \ {t} ELSE pending[c]
  BY <1>1
<1>7. \A u \in Tid : (\E c \in Children : u \in reach[c] \ pending'[c])
                      <=> u = t \/ \E c \in Children : u \in Delivered(c)
  <2>1. t \in reach[orderbyId]
    BY <1>1 DEF IInv, SeenIsDelivered
  <2>2. QED
    BY <2>1, <1>1, <1>6 DEF Delivered
<1>8. QED
  BY <1>2, <1>3, <1>4, <1>5, <1>7

LEMMA SkipStep ==
  ASSUME IInv, NEW t \in Tid, SkipSeen(t)
  PROVE  IInv'
<1> USE DEF SkipSeen, StayInChildContext
<1>1. UNCHANGED kept /\ UNCHANGED <<reach, finish, nullFrom>>
  BY DEF kept, Fetch
<1>2. TypeOK'
  BY FetchFacts, <1>1 DEF IInv, TypeOK, Fetch
<1>3. IsFiniteSet(Held)' /\ KeepsBest' /\ Disjoint' /\ Ordered'
  BY <1>1, SameRows
<1>4. SeenIsDelivered'
  BY <1>1, FetchFacts DEF IInv, SeenIsDelivered, Delivered
<1>5. Phases'
  <2>1. pc' \in {"fetch", "check"} /\ returned' = << >> /\ resultStack' = << >>
        /\ ~finish' /\ nullFrom' = 0
    BY <1>1, FetchFacts DEF kept
  <2>2. Len(returned) < K
    BY DEF Fetch, IInv, Phases
  <2>3. QED
    BY <1>1, <2>1, <2>2 DEF Phases, kept
<1>6. Counting'
  <2>1. /\ pc = "fetch" /\ orderbyId \in Children
        /\ \/ pc' = "fetch" /\ orderbyId' = orderbyId + 1
           \/ pc' = "check" /\ orderbyId = NumChild
        /\ ~finish /\ UNCHANGED <<drops, sinceChange, seenSet, finish, nullFrom>>
    BY <1>1, FetchFacts DEF kept, Fetch, IInv, TypeOK
  <2>2. Counting /\ drops \in Nat
    BY DEF IInv, TypeOK
  <2>3. (sinceChange \subseteq seenSet \ Tids(Held))' /\ StopsInTime'
    BY <1>1, <2>1, SameCount
  <2>4. QED
    BY <2>1, <2>2, <2>3 DEF Counting, Children
<1>7. QED
  BY <1>2, <1>3, <1>4, <1>5, <1>6 DEF IInv

LEMMA ScoreType ==
  ASSUME TypeOK, NEW t \in Tid
  PROVE  Score(t) \in Int
<1>1. rank[t] \in Ranks \cup {NULL}
  BY DEF TypeOK
<1>2. Ranks \subseteq Int
  BY FaginsAssumption
<1>3. CASE rank[t] = NULL
  BY <1>3 DEF Score
<1>4. CASE rank[t] # NULL
  <2>1. rank[t] \in Int
    BY <1>1, <1>2, <1>4
  <2>2. QED
    BY <2>1, <1>4 DEF Score
<1>5. QED
  BY <1>3, <1>4

\* While rows are fetched, all that is held is in the heap.
LEMMA HeldIsHeap ==
  ASSUME returned = << >>, resultStack = << >>
  PROVE  Held = procPq
BY EmptyFacts DEF Held

LEMMA SeenIsFinite ==
  ASSUME IInv
  PROVE  IsFiniteSet(seenSet) /\ IsFiniteSet(sinceChange)
BY FS_Subset DEF IInv, TypeOK

\* A row seen for the first time, whether it is kept or not.
LEMMA NewRowFacts ==
  ASSUME IInv, NEW t \in Tid, Fetch(t), t \notin seenSet, MarkSeen(t)
  PROVE  /\ SeenIsDelivered'
         /\ seenSet' = seenSet \cup {t} /\ seenSet' \in SUBSET Tid
         /\ Cardinality(seenSet') = Cardinality(seenSet) + 1
         /\ Cardinality(seenSet) \in Nat /\ Cardinality(procPq) \in Nat
         /\ IsFiniteSet(procPq) /\ procPq \in SUBSET Item
         /\ Held = procPq
         /\ t \notin Tids(procPq) /\ t \notin sinceChange
<1>1. returned = << >> /\ resultStack = << >>
  BY FetchFacts
<1>2. seenSet' = seenSet \cup {t} /\ seenSet' \in SUBSET Tid
  BY DEF MarkSeen, IInv, TypeOK
<1>3. SeenIsDelivered'
  BY <1>2, FetchFacts DEF IInv, SeenIsDelivered, Delivered, Fetch
<1>4. Held = procPq
  BY <1>1, HeldIsHeap
<1>5. Cardinality(seenSet) \in Nat /\ Cardinality(seenSet') = Cardinality(seenSet) + 1
  BY <1>2, SeenIsFinite, FS_AddElement, FS_CardinalityType
<1>6. IsFiniteSet(procPq) /\ procPq \in SUBSET Item /\ Cardinality(procPq) \in Nat
  BY <1>4, FS_CardinalityType DEF IInv, TypeOK
<1>7. t \notin Tids(procPq) /\ t \notin sinceChange
  BY <1>4 DEF IInv, KeepsBest, Counting
<1>8. QED
  BY <1>2, <1>3, <1>4, <1>5, <1>6, <1>7

LEMMA DropStep ==
  ASSUME IInv, NEW t \in Tid, Drop(t)
  PROVE  IInv'
<1> USE DEF Drop, SwitchBack
<1>1. Fetch(t) /\ t \notin seenSet /\ MarkSeen(t) /\ ~Fits(t)
  OBVIOUS
<1>2. UNCHANGED <<rank, reach, finish, procPq, resultStack, returned, nullFrom, memctx>>
  BY DEF Fetch
<1>3. Held' = procPq /\ Held = procPq
  BY <1>1, <1>2, NewRowFacts DEF Held
<1>4. Tids(Held)' = Tids(procPq)
  BY <1>3 DEF Tids
<1>5. TypeOK'
  <2>1. seenSet' \in SUBSET Tid /\ sinceChange' \in SUBSET Tid /\ drops' \in Nat
    BY <1>1, NewRowFacts DEF IInv, TypeOK
  <2>2. QED
    BY <1>1, <1>2, <2>1, FetchFacts DEF IInv, TypeOK
<1>6. SeenIsDelivered'
  BY <1>1, NewRowFacts
<1>7. IsFiniteSet(Held)'
  BY <1>3, <1>1, NewRowFacts
<1>8. \A i \in procPq : Score(i.tid) \in Int
  BY <1>1, NewRowFacts, ScoreType DEF IInv, Item
<1>9. Score(t) \in Int
  BY ScoreType DEF IInv
<1>10. Cardinality(procPq) >= Ef /\ \A i \in procPq : Score(i.tid) <= Score(t)
  BY <1>1, <1>8, <1>9, NewRowFacts DEF Fits
<1>11. Cardinality(procPq) = Ef /\ Cardinality(seenSet) >= Ef
  BY <1>1, <1>3, <1>10, NewRowFacts DEF IInv, KeepsBest
<1>12. KeepsBest'
  <2>1. Tids(procPq) \subseteq seenSet'
    BY <1>1, <1>3, NewRowFacts DEF IInv, KeepsBest
  <2>2. \A u \in seenSet' \ Tids(procPq) : \A i \in procPq : Score(i.tid) <= Score(u)
    BY <1>1, <1>3, <1>10, NewRowFacts DEF IInv, KeepsBest
  <2>3. ~(Cardinality(seenSet') < Ef) /\ Cardinality(procPq) = Ef
    BY <1>1, <1>11, NewRowFacts
  <2>4. \A u \in seenSet' \ Tids(procPq) : \A i \in procPq : Score(i.tid)' <= Score(u)'
    BY <1>2, <2>2 DEF Score
  <2>5. QED
    BY <1>3, <1>4, <2>1, <2>3, <2>4 DEF KeepsBest
<1>13. Disjoint'
  BY <1>2, <1>3 DEF IInv, Disjoint, Injective
<1>14. Ordered'
  BY <1>2 DEF IInv, Ordered, Ascending, NoWorse, Score
<1>15. /\ pc = "fetch" /\ orderbyId \in Children
       /\ \/ pc' = "fetch" /\ orderbyId' = orderbyId + 1
          \/ pc' = "check" /\ orderbyId = NumChild
       /\ ~finish /\ returned = << >> /\ resultStack = << >> /\ nullFrom = 0
  BY <1>1, FetchFacts DEF Fetch, IInv, TypeOK
<1>16. Phases'
  <2>1. Len(returned) < K
    BY <1>15 DEF IInv, Phases
  <2>2. QED
    BY <1>2, <1>15, <2>1 DEF Phases
<1>17. Counting'
  <2>1. Counting /\ drops \in Nat
    BY DEF IInv, TypeOK
  <2>2. Cardinality(sinceChange') = drops'
    <3>1. Cardinality(sinceChange) = drops
      BY <1>15, <2>1 DEF Counting
    <3>2. QED
      BY <1>1, <3>1, NewRowFacts, SeenIsFinite, FS_AddElement
  <2>3. sinceChange' \subseteq seenSet' \ Tids(procPq)
    <3>1. sinceChange \subseteq seenSet \ Tids(procPq)
      BY <1>3, <2>1 DEF Counting
    <3>2. QED
      BY <1>1, <3>1, NewRowFacts
  <2>4. drops < TermCond + orderbyId - 1
    BY <1>15, <2>1 DEF Counting
  <2>5. drops' < TermCond + NumChild /\ (pc' = "fetch" => drops' < TermCond + orderbyId' - 1)
    BY <1>15, <2>1, <2>4 DEF Children
  <2>6. QED
    BY <1>2, <1>4, <1>15, <2>2, <2>3, <2>5 DEF Counting, StopsInTime
<1>18. QED
  BY <1>5, <1>6, <1>7, <1>12, <1>13, <1>14, <1>16, <1>17 DEF IInv

\* The heap once the row is in it, with or without a row popped.
LEMMA KeptHeap ==
  ASSUME IInv, NEW t \in Tid, Keep(t), NEW out \in Popped,
         procPq' = (procPq \ out) \cup {[tid |-> t, src |-> orderbyId]}
  PROVE  /\ procPq' \in SUBSET Item /\ IsFiniteSet(procPq')
         /\ \A i, j \in procPq' : i.tid = j.tid => i = j
         /\ Cardinality(procPq') = IF Cardinality(procPq) = Ef THEN Ef
                                   ELSE Cardinality(procPq) + 1
         /\ Cardinality(procPq) # Ef => out = {}
         /\ Tids(procPq') = Tids(procPq \ out) \cup {t}
         /\ Tids(out) \cap Tids(procPq') = {}
<1> DEFINE new == [tid |-> t, src |-> orderbyId]
<1>1. Fetch(t) /\ t \notin seenSet /\ MarkSeen(t)
  BY DEF Keep
<1>2. /\ IsFiniteSet(procPq) /\ procPq \in SUBSET Item /\ Cardinality(procPq) \in Nat
      /\ t \notin Tids(procPq) /\ Held = procPq
  BY <1>1, NewRowFacts
<1>3. \A i, j \in procPq : i.tid = j.tid => i = j
  BY <1>2 DEF IInv, Disjoint
<1>4. new \in Item /\ new \notin procPq /\ new.tid = t
  BY <1>2 DEF IInv, TypeOK, Item, Tids
<1>5. out \subseteq procPq
  BY DEF Popped, Tops
<1>6. procPq' \in SUBSET Item
  BY <1>2, <1>4
<1>7. IsFiniteSet(procPq \ out) /\ new \notin procPq \ out
  BY <1>2, <1>4, FS_Subset
<1>8. /\ IsFiniteSet(procPq') /\ Cardinality(procPq') = Cardinality(procPq \ out) + 1
      /\ Cardinality(procPq \ out) \in Nat
  BY <1>7, FS_AddElement, FS_CardinalityType
<1>9. \A i, j \in procPq' : i.tid = j.tid => i = j
  BY <1>2, <1>3, <1>4 DEF Tids
<1>10. Tids(procPq') = Tids(procPq \ out) \cup {t}
  BY <1>4 DEF Tids
<1>11. Tids(out) \cap Tids(procPq') = {}
  BY <1>2, <1>3, <1>5, <1>10 DEF Tids
<1>12. CASE Cardinality(procPq) = Ef
  <2>1. PICK i \in procPq : out = {i}
    BY <1>12 DEF Popped, Tops
  <2>2. Cardinality(procPq \ out) = Cardinality(procPq) - 1
    BY <1>2, <2>1, FS_RemoveElement
  <2>3. Cardinality(procPq') = Ef
    BY <1>2, <1>8, <1>12, <2>2
  <2>4. QED
    BY <1>6, <1>8, <1>9, <1>10, <1>11, <1>12, <2>3
<1>13. CASE Cardinality(procPq) # Ef
  <2>1. out = {}
    BY <1>13 DEF Popped
  <2>2. procPq \ out = procPq
    BY <2>1
  <2>3. QED
    BY <1>6, <1>8, <1>9, <1>10, <1>11, <1>13, <2>1, <2>2
<1>14. QED
  BY <1>12, <1>13

\* No row outside the new heap is better than a row in it.
LEMMA KeptIsBest ==
  ASSUME IInv, NEW t \in Tid, Keep(t), NEW out \in Popped,
         procPq' = (procPq \ out) \cup {[tid |-> t, src |-> orderbyId]},
         NEW u \in seenSet', u \notin Tids(procPq'), NEW i \in procPq'
  PROVE  Score(i.tid) <= Score(u)
<1>1. Fetch(t) /\ t \notin seenSet /\ MarkSeen(t) /\ Fits(t)
  BY DEF Keep
<1>2. /\ procPq \in SUBSET Item /\ Held = procPq /\ seenSet' = seenSet \cup {t}
      /\ seenSet' \in SUBSET Tid
  BY <1>1, NewRowFacts
<1>3. /\ Tids(procPq') = Tids(procPq \ out) \cup {t} /\ procPq' \in SUBSET Item
      /\ Cardinality(procPq) # Ef => out = {}
  BY KeptHeap
<1>4. u \in seenSet /\ u \in Tid /\ u # t /\ i.tid \in Tid
  BY <1>2, <1>3 DEF Item
<1>5. \A x \in Tid : Score(x) \in Int
  BY ScoreType DEF IInv
<1>6. CASE u \notin Tids(procPq)
  <2>1. \A j \in procPq : Score(j.tid) <= Score(u)
    BY <1>2, <1>4, <1>6 DEF IInv, KeepsBest
  <2>2. CASE i \in procPq
    BY <2>1, <2>2
  <2>3. CASE i \notin procPq
    <3>1. i.tid = t
      BY <2>3
    <3>2. CASE Cardinality(procPq) < Ef
      <4>1. Cardinality(seenSet) < Ef
        BY <1>1, <1>2, <3>2, NewRowFacts DEF IInv, KeepsBest
      <4>2. QED
        BY <4>1, <1>2, <1>4, <1>6 DEF IInv, KeepsBest
    <3>3. CASE ~(Cardinality(procPq) < Ef)
      <4>1. PICK j \in procPq : Score(j.tid) > Score(t)
        BY <1>1, <3>3 DEF Fits
      <4>2. j.tid \in Tid /\ Score(j.tid) <= Score(u)
        BY <1>2, <2>1 DEF Item
      <4>3. QED
        BY <3>1, <4>1, <4>2, <1>4, <1>5
    <3>4. QED
      BY <3>2, <3>3
  <2>4. QED
    BY <2>2, <2>3
<1>7. CASE u \in Tids(procPq)
  <2>1. PICK v \in procPq : v.tid = u
    BY <1>7 DEF Tids
  <2>2. v \in out
    BY <2>1, <1>3 DEF Tids
  <2>3. Cardinality(procPq) = Ef /\ v \in Tops(procPq)
    BY <2>2, <1>3 DEF Popped
  <2>4. \A j \in procPq : Score(j.tid) <= Score(u)
    BY <2>1, <2>3 DEF Tops
  <2>5. CASE i \in procPq
    BY <2>4, <2>5
  <2>6. CASE i \notin procPq
    <3>1. i.tid = t
      BY <2>6
    <3>2. PICK j \in procPq : Score(j.tid) > Score(t)
      BY <1>1, <2>3 DEF Fits
    <3>3. j.tid \in Tid /\ Score(j.tid) <= Score(u)
      BY <1>2, <2>4 DEF Item
    <3>4. QED
      BY <3>1, <3>2, <3>3, <1>4, <1>5
  <2>7. QED
    BY <2>5, <2>6
<1>8. QED
  BY <1>6, <1>7

LEMMA KeepStep ==
  ASSUME IInv, NEW t \in Tid, Keep(t)
  PROVE  IInv'
<1> USE DEF SwitchBack, ResetDrops
<1>1. Fetch(t) /\ t \notin seenSet /\ MarkSeen(t) /\ drops' = 0 /\ sinceChange' = {}
  BY DEF Keep
<1>2. UNCHANGED <<rank, reach, finish, resultStack, returned, nullFrom, memctx>>
  BY DEF Keep, Fetch
<1>3. PICK out \in Popped :
        procPq' = (procPq \ out) \cup {[tid |-> t, src |-> orderbyId]}
  BY DEF Keep
<1>4. returned = << >> /\ resultStack = << >>
  BY <1>1, FetchFacts
<1>5. Held' = procPq' /\ Held = procPq
  BY <1>2, <1>4, HeldIsHeap, EmptyFacts DEF Held
<1>6. Tids(Held)' = Tids(procPq')
  BY <1>5 DEF Tids
<1>7. procPq' \in SUBSET Item /\ IsFiniteSet(procPq')
  BY <1>3, KeptHeap
<1>8. TypeOK'
  <2>1. seenSet' \in SUBSET Tid
    BY <1>1, NewRowFacts
  <2>2. QED
    BY <1>1, <1>2, <1>7, <2>1, FetchFacts DEF IInv, TypeOK
<1>9. SeenIsDelivered'
  BY <1>1, NewRowFacts
<1>10. KeepsBest'
  <2>1. Tids(procPq') \subseteq seenSet'
    <3>1. Tids(procPq) \subseteq seenSet /\ seenSet' = seenSet \cup {t}
      BY <1>1, <1>5, NewRowFacts DEF IInv, KeepsBest
    <3>2. Tids(procPq') = Tids(procPq \ out) \cup {t}
      BY <1>3, KeptHeap
    <3>3. QED
      BY <3>1, <3>2 DEF Tids
  <2>2. \A u \in seenSet' \ Tids(procPq') : \A i \in procPq' : Score(i.tid) <= Score(u)
    BY <1>3, KeptIsBest
  <2>3. \A u \in seenSet' \ Tids(procPq') : \A i \in procPq' : Score(i.tid)' <= Score(u)'
    BY <1>2, <2>2 DEF Score
  <2>4. /\ Cardinality(seenSet') = Cardinality(seenSet) + 1
        /\ Cardinality(seenSet) \in Nat /\ Cardinality(procPq) \in Nat
    BY <1>1, NewRowFacts
  <2>5. /\ Cardinality(seenSet) >= Ef => Cardinality(procPq) = Ef
        /\ Cardinality(seenSet) < Ef =>
             Tids(procPq) = seenSet /\ Cardinality(procPq) = Cardinality(seenSet)
    BY <1>5 DEF IInv, KeepsBest
  <2>6. /\ Cardinality(procPq') = IF Cardinality(procPq) = Ef THEN Ef
                                  ELSE Cardinality(procPq) + 1
        /\ Cardinality(procPq) # Ef => out = {}
        /\ Tids(procPq') = Tids(procPq \ out) \cup {t}
    BY <1>3, KeptHeap
  <2>7. Cardinality(seenSet') >= Ef => Cardinality(procPq') = Ef
    BY <2>4, <2>5, <2>6
  <2>8. Cardinality(seenSet') < Ef =>
          Tids(procPq') = seenSet' /\ Cardinality(procPq') = Cardinality(seenSet')
    <3>1. SUFFICES ASSUME Cardinality(seenSet') < Ef
                   PROVE  Tids(procPq') = seenSet' /\ Cardinality(procPq') = Cardinality(seenSet')
      OBVIOUS
    <3>2. Cardinality(seenSet) < Ef /\ Cardinality(procPq) # Ef
      BY <3>1, <2>4, <2>5
    <3>3. out = {} /\ Tids(procPq) = seenSet
      BY <3>2, <2>5, <2>6
    <3>4. seenSet' = seenSet \cup {t}
      BY <1>1, NewRowFacts
    <3>5. procPq \ out = procPq
      BY <3>3
    <3>6. Tids(procPq') = seenSet'
      BY <3>3, <3>4, <3>5, <2>6
    <3>7. QED
      BY <3>2, <3>6, <2>4, <2>5, <2>6
  <2>9. QED
    BY <1>5, <1>6, <2>1, <2>3, <2>7, <2>8 DEF KeepsBest
<1>11. Disjoint'
  <2>1. \A i, j \in procPq' : i.tid = j.tid => i = j
    BY <1>3, KeptHeap
  <2>2. returned' = << >> /\ resultStack' = << >> /\ Range(<< >>) = {} /\ Len(<< >>) = 0
    BY <1>2, <1>4, EmptyFacts
  <2>3. QED
    BY <1>5, <2>1, <2>2 DEF Disjoint, Injective
<1>12. Ordered'
  BY <1>2, <1>4, EmptyFacts DEF Ordered, Ascending, NoWorse
<1>13. /\ pc = "fetch" /\ orderbyId \in Children
       /\ \/ pc' = "fetch" /\ orderbyId' = orderbyId + 1
          \/ pc' = "check" /\ orderbyId = NumChild
       /\ ~finish /\ nullFrom = 0
  BY <1>1, FetchFacts DEF Fetch, IInv, TypeOK
<1>14. Phases'
  <2>1. Len(returned) < K
    BY <1>13 DEF IInv, Phases
  <2>2. QED
    BY <1>2, <1>4, <1>13, <2>1 DEF Phases
<1>15. Counting'
  <2>1. Cardinality({}) = 0
    BY FS_EmptySet
  <2>2. 0 < TermCond + NumChild /\ (pc' = "fetch" => 0 < TermCond + orderbyId' - 1)
    BY <1>13 DEF Children
  <2>3. QED
    BY <1>1, <1>2, <1>13, <2>1, <2>2 DEF Counting, StopsInTime
<1>16. QED
  BY <1>5, <1>7, <1>8, <1>9, <1>10, <1>11, <1>12, <1>14, <1>15 DEF IInv

-----------------------------------------------------------------------------
(* The scan is over: the heap becomes the stack, the stack the result.     *)

LEMMA DrainStep ==
  ASSUME IInv, Drain
  PROVE  IInv'
<1> USE DEF Push
<1>1. PICK i \in Tops(procPq) : procPq' = procPq \ {i} /\ resultStack' = <<i>> \o resultStack
  BY DEF Drain
<1>2. /\ UNCHANGED <<rank, reach, pc, orderbyId, drops, finish, memctx, returned, nullFrom>>
      /\ UNCHANGED <<pending, seenSet, sinceChange>> /\ pc = "drain"
  BY DEF Drain, scan
<1>3. /\ i \in procPq /\ i \in Item /\ procPq \in SUBSET Item /\ resultStack \in Seq(Item)
      /\ returned \in Seq(Item)
      /\ \A j \in procPq : Score(j.tid) <= Score(i.tid)
  BY DEF Tops, IInv, TypeOK
<1>4. /\ resultStack' \in Seq(Item)
      /\ Len(resultStack') = Len(resultStack) + 1
      /\ resultStack'[1] = i
      /\ \A n \in 2 .. Len(resultStack) + 1 : resultStack'[n] = resultStack[n - 1]
      /\ Range(resultStack') = Range(resultStack) \cup {i}
  BY <1>1, <1>3, ConsFacts
<1>5. Held' = Held
  BY <1>1, <1>2, <1>3, <1>4 DEF Held
<1>6. TypeOK'
  BY <1>1, <1>2, <1>4 DEF IInv, TypeOK
<1>7. SeenIsDelivered'
  BY <1>2, SameScan
<1>8. IsFiniteSet(Held)' /\ KeepsBest'
  BY <1>2, <1>5 DEF IInv, KeepsBest, Score, Tids
<1>9. Len(resultStack) \in Nat /\ \A n \in 1 .. Len(resultStack) : resultStack[n] \in Range(resultStack)
  BY <1>3, LenProperties, RangeType
<1>10. Disjoint'
  <2>1. (\A x, y \in Held : x.tid = y.tid => x = y)'
    BY <1>5 DEF IInv, Disjoint
  <2>2. Injective(returned)'
    BY <1>2 DEF IInv, Disjoint, Injective
  <2>3. Injective(resultStack)'
    <3>1. \A n \in 2 .. Len(resultStack) + 1 :
            /\ n - 1 \in 1 .. Len(resultStack)
            /\ resultStack'[n] = resultStack[n - 1]
            /\ resultStack[n - 1] \in Range(resultStack)
      BY <1>4, <1>9
    <3>2. \A x \in Range(resultStack) : x.tid # i.tid
      BY <1>3 DEF IInv, Disjoint, Held
    <3>3. \A n \in 2 .. Len(resultStack) + 1 : resultStack'[n].tid # i.tid
      BY <3>1, <3>2
    <3>4. \A m, n \in 1 .. Len(resultStack) : resultStack[m].tid = resultStack[n].tid => m = n
      BY DEF IInv, Disjoint, Injective
    <3>5. ASSUME NEW m \in 1 .. Len(resultStack'), NEW n \in 1 .. Len(resultStack'),
                 resultStack'[m].tid = resultStack'[n].tid
          PROVE  m = n
      <4>1. CASE m = 1 \/ n = 1
        BY <3>3, <3>5, <4>1, <1>4, <1>9
      <4>2. CASE m # 1 /\ n # 1
        <5>1. m \in 2 .. Len(resultStack) + 1 /\ n \in 2 .. Len(resultStack) + 1
          BY <4>2, <1>4, <1>9
        <5>2. m - 1 = n - 1
          BY <5>1, <3>1, <3>4, <3>5
        <5>3. QED
          BY <5>1, <5>2
      <4>3. QED
        BY <4>1, <4>2
    <3>6. QED
      BY <3>5 DEF Injective
  <2>4. (Range(returned) \cap Range(resultStack) = {})'
    BY <1>2, <1>3, <1>4 DEF IInv, Disjoint
  <2>5. (procPq \cap (Range(returned) \cup Range(resultStack)) = {})'
    BY <1>1, <1>2, <1>4 DEF IInv, Disjoint
  <2>6. QED
    BY <2>1, <2>2, <2>3, <2>4, <2>5 DEF Disjoint
<1>11. Ordered'
  <2>1. Ascending(returned)'
    BY <1>2 DEF IInv, Ordered, Ascending, Score
  <2>2. \A n \in 2 .. Len(resultStack) + 1 : Score(i.tid) <= Score(resultStack'[n].tid)
    BY <1>3, <1>4, <1>9 DEF IInv, Ordered, NoWorse
  <2>3. \A m, n \in 2 .. Len(resultStack) + 1 :
          m < n => Score(resultStack'[m].tid) <= Score(resultStack'[n].tid)
    <3>1. \A m, n \in 1 .. Len(resultStack) :
            m < n => Score(resultStack[m].tid) <= Score(resultStack[n].tid)
      BY DEF IInv, Ordered, Ascending
    <3>2. QED
      BY <3>1, <1>4, <1>9
  <2>4. \A m, n \in 1 .. Len(resultStack') :
          m < n => Score(resultStack'[m].tid) <= Score(resultStack'[n].tid)
    BY <2>2, <2>3, <1>4, <1>9
  <2>5. Ascending(resultStack)'
    BY <2>4, <1>2 DEF Ascending, Score
  <2>6. \A x \in Range(returned'), y \in Range(resultStack') \cup procPq' :
          Score(x.tid) <= Score(y.tid)
    BY <1>1, <1>2, <1>3, <1>4 DEF IInv, Ordered, NoWorse
  <2>7. \A x \in procPq', y \in Range(resultStack') : Score(x.tid) <= Score(y.tid)
    BY <1>1, <1>3, <1>4 DEF IInv, Ordered, NoWorse
  <2>8. QED
    BY <2>1, <2>5, <2>6, <2>7, <1>2 DEF Ordered, NoWorse, Score
<1>12. Phases'
  BY <1>2 DEF IInv, Phases
<1>13. Counting'
  <2>1. Tids(Held)' = Tids(Held)
    BY <1>5 DEF Tids
  <2>2. QED
    BY <1>2, <2>1 DEF IInv, Counting, StopsInTime
<1>14. QED
  BY <1>6, <1>7, <1>8, <1>10, <1>11, <1>12, <1>13, <1>5 DEF IInv

LEMMA EmitStep ==
  ASSUME IInv, Emit
  PROVE  IInv'
<1> USE DEF Pop
<1> DEFINE i == Head(resultStack)
<1>1. /\ pc = "drain" /\ procPq = {} /\ resultStack # << >> /\ pc' = "idle"
      /\ returned' = Append(returned, i) /\ resultStack' = Tail(resultStack)
  BY DEF Emit
<1>2. /\ UNCHANGED <<rank, reach, orderbyId, drops, finish, procPq, memctx, nullFrom>>
      /\ UNCHANGED <<pending, seenSet, sinceChange>>
  BY DEF Emit, scan
<1>3. resultStack \in Seq(Item) /\ returned \in Seq(Item)
  BY DEF IInv, TypeOK
<1>4. /\ i \in Item /\ resultStack' \in Seq(Item)
      /\ Len(resultStack) \in Nat \ {0}
      /\ Len(resultStack') = Len(resultStack) - 1
      /\ i = resultStack[1]
      /\ \A n \in 1 .. Len(resultStack') : resultStack'[n] = resultStack[n + 1]
      /\ Range(resultStack) = Range(resultStack') \cup {i}
  BY <1>1, <1>3, TailFacts
<1>5. /\ returned' \in Seq(Item)
      /\ Len(returned) \in Nat
      /\ Len(returned') = Len(returned) + 1
      /\ returned'[Len(returned) + 1] = i
      /\ \A n \in 1 .. Len(returned) : returned'[n] = returned[n]
      /\ Range(returned') = Range(returned) \cup {i}
  BY <1>1, <1>3, <1>4, AppendFacts
<1>6. Held' = Held
  BY <1>2, <1>4, <1>5 DEF Held
<1>7. TypeOK'
  BY <1>1, <1>2, <1>4, <1>5 DEF IInv, TypeOK
<1>8. SeenIsDelivered'
  BY <1>2, SameScan
<1>9. IsFiniteSet(Held)' /\ KeepsBest'
  BY <1>2, <1>6 DEF IInv, KeepsBest, Score, Tids
<1>10. /\ \A n \in 1 .. Len(resultStack') : resultStack'[n] \in Range(resultStack')
       /\ \A n \in 1 .. Len(returned) : returned[n] \in Range(returned)
       /\ i \in Range(resultStack)
  BY <1>3, <1>4, RangeType
<1>11. Disjoint'
  <2>1. (\A x, y \in Held : x.tid = y.tid => x = y)'
    BY <1>6 DEF IInv, Disjoint
  <2>2. \A m, n \in 1 .. Len(resultStack) : resultStack[m].tid = resultStack[n].tid => m = n
    BY DEF IInv, Disjoint, Injective
  <2>3. Injective(resultStack)'
    BY <2>2, <1>4 DEF Injective
  <2>4. \A x \in Range(returned) : x.tid # i.tid
    BY <1>10 DEF IInv, Disjoint, Held
  <2>5. \A m, n \in 1 .. Len(returned) : returned[m].tid = returned[n].tid => m = n
    BY DEF IInv, Disjoint, Injective
  <2>6. \A m \in 1 .. Len(returned) : returned'[m].tid # i.tid
    BY <2>4, <1>5, <1>10
  <2>7. \A m, n \in 1 .. Len(returned') : returned'[m].tid = returned'[n].tid => m = n
    BY <2>5, <2>6, <1>5
  <2>8. i \notin Range(resultStack')
    <3>1. SUFFICES ASSUME NEW n \in 1 .. Len(resultStack'), resultStack'[n] = i
                   PROVE  FALSE
      BY <1>4, LenProperties DEF Range
    <3>2. n + 1 \in 1 .. Len(resultStack) /\ resultStack[n + 1] = resultStack[1]
      BY <1>4, <3>1
    <3>3. QED
      BY <2>2, <3>2, <1>4
  <2>9. (Range(returned) \cap Range(resultStack) = {})'
    BY <2>8, <1>4, <1>5 DEF IInv, Disjoint
  <2>10. QED
    BY <2>1, <2>3, <2>7, <2>9, <1>1, <1>2 DEF Disjoint, Injective
<1>12. Ordered'
  <2>1. \A x \in Range(returned), y \in Range(resultStack) : Score(x.tid) <= Score(y.tid)
    BY DEF IInv, Ordered, NoWorse
  <2>2. \A m, n \in 1 .. Len(resultStack) :
          m < n => Score(resultStack[m].tid) <= Score(resultStack[n].tid)
    BY DEF IInv, Ordered, Ascending
  <2>3. \A m, n \in 1 .. Len(returned) :
          m < n => Score(returned[m].tid) <= Score(returned[n].tid)
    BY DEF IInv, Ordered, Ascending
  <2>4. \A m \in 1 .. Len(returned) : Score(returned'[m].tid) <= Score(i.tid)
    BY <2>1, <1>5, <1>10
  <2>5. \A m, n \in 1 .. Len(returned') :
          m < n => Score(returned'[m].tid) <= Score(returned'[n].tid)
    BY <2>3, <2>4, <1>5
  <2>6. \A m, n \in 1 .. Len(resultStack') :
          m < n => Score(resultStack'[m].tid) <= Score(resultStack'[n].tid)
    BY <2>2, <1>4
  <2>7. \A y \in Range(resultStack') : Score(i.tid) <= Score(y.tid)
    <3>1. SUFFICES ASSUME NEW n \in 1 .. Len(resultStack')
                   PROVE  Score(i.tid) <= Score(resultStack'[n].tid)
      BY <1>4, LenProperties DEF Range
    <3>2. n + 1 \in 1 .. Len(resultStack) /\ 1 \in 1 .. Len(resultStack) /\ 1 < n + 1
      BY <1>4, <3>1
    <3>3. QED
      BY <2>2, <3>2, <1>4
  <2>8. \A x \in Range(returned'), y \in Range(resultStack') : Score(x.tid) <= Score(y.tid)
    BY <2>1, <2>7, <1>4, <1>5
  <2>9. QED
    BY <2>5, <2>6, <2>8, <1>1, <1>2 DEF Ordered, Ascending, NoWorse, Score
<1>13. Phases'
  <2>1. Len(returned) < K /\ finish
    BY <1>1 DEF IInv, Phases
  <2>2. nullFrom # 0 => pending[nullFrom] = {} /\ K > 0
    BY DEF IInv, Phases
  <2>3. QED
    BY <2>1, <2>2, <1>1, <1>2, <1>5 DEF Phases
<1>14. Counting'
  <2>1. Tids(Held)' = Tids(Held)
    BY <1>6 DEF Tids
  <2>2. finish
    BY <1>1 DEF IInv, Phases
  <2>3. QED
    BY <1>1, <1>2, <2>1, <2>2 DEF IInv, Counting, StopsInTime
<1>15. QED
  BY <1>6, <1>7, <1>8, <1>9, <1>11, <1>12, <1>13, <1>14 DEF IInv

-----------------------------------------------------------------------------
(* The inductive invariant.                                                *)

LEMMA InitInv ==
  ASSUME Init
  PROVE  IInv
<1> USE DEF Init
<1>1. Range(<< >>) = {} /\ Len(<< >>) = 0 /\ Cardinality({}) = 0 /\ IsFiniteSet({})
  BY EmptyFacts, FS_EmptySet
<1>2. Held = {} /\ Tids(Held) = {}
  BY <1>1 DEF Held, Tids
<1>3. TypeOK
  <2>1. rank \in [Tid -> Ranks \cup {NULL}]
    BY FaginsAssumption
  <2>2. 1 \in Children
    BY DEF Children
  <2>3. << >> \in Seq(Item)
    BY EmptySeq
  <2>4. resultStack \in Seq(Item) /\ returned \in Seq(Item)
    BY <2>3
  <2>5. /\ reach \in [Children -> SUBSET Tid] /\ pending \in [Children -> SUBSET Tid]
        /\ pc \in {"idle", "fetch", "check", "drain", "done"}
        /\ drops \in Nat /\ finish \in BOOLEAN
        /\ procPq \in SUBSET Item /\ seenSet \in SUBSET Tid /\ sinceChange \in SUBSET Tid
        /\ memctx \in {0} \cup Children /\ nullFrom \in {0} \cup Children
    OBVIOUS
  <2>6. QED
    BY <2>1, <2>2, <2>4, <2>5 DEF TypeOK
<1>4. SeenIsDelivered
  BY DEF SeenIsDelivered, Delivered
<1>5. KeepsBest
  BY <1>1, <1>2 DEF KeepsBest
<1>6. Disjoint
  BY <1>1, <1>2 DEF Disjoint, Injective
<1>7. Ordered
  BY <1>1 DEF Ordered, Ascending, NoWorse
<1>8. Phases
  BY <1>1 DEF Phases
<1>9. Counting
  BY <1>1, <1>2 DEF Counting, StopsInTime
<1>10. QED
  BY <1>1, <1>2, <1>3, <1>4, <1>5, <1>6, <1>7, <1>8, <1>9 DEF IInv

LEMMA StutterStep ==
  ASSUME IInv, UNCHANGED vars
  PROVE  IInv'
<1> USE DEF vars, scan
<1>1. UNCHANGED kept /\ UNCHANGED <<reach, pending, seenSet, sinceChange>>
  BY DEF kept
<1>2. TypeOK'
  BY DEF IInv, TypeOK
<1>3. SeenIsDelivered' /\ IsFiniteSet(Held)' /\ KeepsBest' /\ Disjoint' /\ Ordered'
  BY <1>1, SameRows, SameScan
<1>4. Phases'
  BY DEF IInv, Phases
<1>5. Counting'
  <2>1. (sinceChange \subseteq seenSet \ Tids(Held))' /\ StopsInTime'
    BY <1>1, SameCount
  <2>2. QED
    BY <2>1 DEF IInv, Counting
<1>6. QED
  BY <1>2, <1>3, <1>4, <1>5 DEF IInv

LEMMA NextInv ==
  ASSUME IInv, [Next]_vars
  PROVE  IInv'
<1>1. CASE Call
  BY <1>1, CallStep
<1>2. CASE ChildExhausted
  BY <1>2, ExhaustedStep
<1>3. ASSUME NEW t \in Tid, SkipSeen(t) PROVE IInv'
  BY <1>3, SkipStep
<1>4. ASSUME NEW t \in Tid, Drop(t) PROVE IInv'
  BY <1>4, DropStep
<1>5. ASSUME NEW t \in Tid, Keep(t) PROVE IInv'
  BY <1>5, KeepStep
<1>6. CASE CheckTermCond
  BY <1>6, CheckStep
<1>7. CASE Drain
  BY <1>7, DrainStep
<1>8. CASE Emit
  BY <1>8, EmitStep
<1>9. CASE EndOfRows
  BY <1>9, EndStep
<1>10. CASE UNCHANGED vars
  BY <1>10, StutterStep
<1>11. QED
  BY <1>1, <1>2, <1>3, <1>4, <1>5, <1>6, <1>7, <1>8, <1>9, <1>10 DEF Next

(***************************************************************************)
(* The inductive invariant holds: heap, stack and rows returned are        *)
(* disjoint, ordered, complete and counted at every step of execFagins.    *)
(***************************************************************************)
THEOREM Inductive == Spec => []IInv
<1>1. Init => IInv
  BY InitInv
<1>2. IInv /\ [Next]_vars => IInv'
  BY NextInv
<1>3. QED
  BY <1>1, <1>2, PTL DEF Spec

-----------------------------------------------------------------------------
(* The safety properties.                                                  *)

(***************************************************************************)
(* The state of the operator stays within its types.                       *)
(***************************************************************************)
THEOREM TypeCorrect == Spec => []TypeOK
<1>1. IInv => TypeOK
  BY DEF IInv
<1>2. QED
  BY <1>1, Inductive, PTL

(***************************************************************************)
(* execFagins never loses a row it should keep.                            *)
(***************************************************************************)
THEOREM NeverLosesARow == Spec => []KeepsBest
<1>1. IInv => KeepsBest
  BY DEF IInv
<1>2. QED
  BY <1>1, Inductive, PTL

(***************************************************************************)
(* A row that several children deliver is ranked and returned once.        *)
(***************************************************************************)
THEOREM ReturnedOnce == Spec => []NoDuplicates
<1>1. IInv => NoDuplicates
  BY DEF IInv, Disjoint, Injective, NoDuplicates
<1>2. QED
  BY <1>1, Inductive, PTL

(***************************************************************************)
(* When consecutive drops end the scan, the heap is full and at least      *)
(* TermCond rows seen last are no better than anything in it.              *)
(***************************************************************************)
THEOREM StopIsStable == Spec => []StopsWhenStable
<1>1. IInv => StopsWhenStable
  <2>1. SUFFICES ASSUME IInv, finish, nullFrom = 0
                 PROVE  /\ Cardinality(sinceChange) >= TermCond
                        /\ Cardinality(Held) = Ef
                        /\ \A t \in sinceChange, i \in Held : Score(i.tid) <= Score(t)
    BY DEF StopsWhenStable
  <2>2. Cardinality(sinceChange) >= TermCond /\ sinceChange \subseteq seenSet \ Tids(Held)
    BY <2>1 DEF IInv, Counting
  <2>3. sinceChange # {}
    BY <2>2, FS_EmptySet
  <2>4. Cardinality(seenSet) \in Nat
    BY <2>1, SeenIsFinite, FS_CardinalityType
  <2>5. ~(Cardinality(seenSet) < Ef)
    BY <2>1, <2>2, <2>3 DEF IInv, KeepsBest
  <2>6. Cardinality(Held) = Ef
    BY <2>1, <2>4, <2>5 DEF IInv, KeepsBest
  <2>7. QED
    BY <2>1, <2>2, <2>6 DEF IInv, KeepsBest
<1>2. QED
  BY <1>1, Inductive, PTL

(***************************************************************************)
(* The scan goes on for less than one round past TermCond drops.           *)
(***************************************************************************)
THEOREM StopIsTimely == Spec => []StopsInTime
<1>1. IInv => StopsInTime
  BY DEF IInv, Counting
<1>2. QED
  BY <1>1, Inductive, PTL

\* The caller has had no more different rows than calls.
LEMMA RangeIsBounded ==
  ASSUME NEW S, NEW s \in Seq(S)
  PROVE  Cardinality(Range(s)) <= Len(s) /\ Len(s) \in Nat
<1>1. Len(s) \in Nat /\ s \in [1 .. Len(s) -> S]
  BY LenProperties
<1>2. s \in Surjection(1 .. Len(s), Range(s))
  BY <1>1, Fun_RangeProperties
<1>3. IsFiniteSet(1 .. Len(s)) /\ Cardinality(1 .. Len(s)) = Len(s)
  BY <1>1, FS_Interval
<1>4. QED
  BY <1>1, <1>2, <1>3, FS_Surjection

\* When nothing is left to return, fewer than K rows means all rows seen.
LEMMA NothingLeft ==
  ASSUME IInv, procPq = {}, resultStack = << >>, Len(returned) < K
  PROVE  Tids(Held) = seenSet /\ Held = Range(returned)
<1>1. Held = Range(returned)
  BY EmptyFacts DEF Held
<1>2. Cardinality(Held) <= Len(returned) /\ Len(returned) \in Nat
  BY <1>1, RangeIsBounded DEF IInv, TypeOK
<1>3. Cardinality(Held) \in Nat /\ Cardinality(seenSet) \in Nat
  BY SeenIsFinite, FS_CardinalityType DEF IInv
<1>4. Cardinality(Held) < Ef
  BY <1>2, <1>3
<1>5. Cardinality(seenSet) < Ef
  BY <1>3, <1>4 DEF IInv, KeepsBest
<1>6. QED
  BY <1>1, <1>5 DEF IInv, KeepsBest

(***************************************************************************)
(* Once a child scan ran dry, no row of it is missing from the result of   *)
(* topk() unless K rows at least as good were returned.                    *)
(***************************************************************************)
THEOREM ExactOnExhaustion == Spec => []ExactWhenExhausted
<1>1. IInv => ExactWhenExhausted
  <2>1. SUFFICES ASSUME IInv, pc = "done", nullFrom # 0,
                        NEW t \in reach[nullFrom] \ Tids(Range(returned))
                 PROVE  /\ Len(returned) = K
                        /\ \A i \in Range(returned) : Score(i.tid) <= Score(t)
    BY DEF ExactWhenExhausted
  <2>2. nullFrom \in Children /\ pending[nullFrom] = {} /\ K > 0 /\ t \in Tid
    BY <2>1 DEF IInv, TypeOK, Phases
  <2>3. t \in seenSet
    BY <2>1, <2>2 DEF IInv, SeenIsDelivered, Delivered
  <2>4. Len(returned) >= K
    <3>1. SUFFICES ASSUME ~(Len(returned) >= K) PROVE FALSE
      OBVIOUS
    <3>2. procPq = {} /\ resultStack = << >>
      BY <2>1, <3>1 DEF IInv, Phases
    <3>3. Len(returned) < K
      BY <3>1, RangeIsBounded DEF IInv, TypeOK
    <3>4. t \in Tids(Range(returned))
      BY <2>1, <2>3, <3>2, <3>3, NothingLeft
    <3>5. QED
      BY <3>4, <2>1
  <2>5. Len(returned) = K
    <3>1. returned # << >>
      BY <2>2, <2>4, EmptyFacts
    <3>2. QED
      BY <2>1, <2>4, <3>1, RangeIsBounded DEF IInv, TypeOK, Phases
  <2>6. ASSUME NEW i \in Range(returned)
        PROVE  Score(i.tid) <= Score(t)
    <3>1. CASE t \in Tids(Held)
      <4>1. PICK j \in Held : j.tid = t
        BY <3>1 DEF Tids
      <4>2. j \in procPq \cup Range(resultStack)
        BY <2>1, <4>1 DEF Held, Tids
      <4>3. QED
        BY <2>1, <2>6, <4>1, <4>2 DEF IInv, Ordered, NoWorse
    <3>2. CASE t \notin Tids(Held)
      BY <2>1, <2>3, <2>6, <3>2 DEF IInv, KeepsBest, Held
    <3>3. QED
      BY <3>1, <3>2
  <2>7. QED
    BY <2>5, <2>6
<1>2. QED
  BY <1>1, Inductive, PTL

-----------------------------------------------------------------------------
(* The memory context.                                                     *)

LEMMA ContextInv ==
  ASSUME IInv, ContextLeaksOnlyOnSeen, [Next]_vars
  PROVE  ContextLeaksOnlyOnSeen'
<1>1. \A c \in Children : Delivered(c) \subseteq Tid
  BY DEF IInv, TypeOK, Delivered
<1>2. memctx \in {0} \cup Children
  BY DEF IInv, TypeOK
<1>3. ASSUME UNCHANGED memctx, \A c \in Children : Delivered(c) \subseteq Delivered(c)'
      PROVE  ContextLeaksOnlyOnSeen'
  BY <1>2, <1>3 DEF ContextLeaksOnlyOnSeen
<1>4. ASSUME NEW t \in Tid, Fetch(t)
      PROVE  /\ \A c \in Children : Delivered(c) \subseteq Delivered(c)'
             /\ \E c \in Children : /\ c = orderbyId
                                   /\ t \in Delivered(c)' /\ t \notin Delivered(c)
  <2>1. /\ orderbyId \in Children /\ t \in pending[orderbyId]
        /\ pending \in [Children -> SUBSET Tid] /\ t \in reach[orderbyId]
        /\ pending' = [pending EXCEPT ![orderbyId] = @ \ {t}] /\ reach' = reach
    BY <1>4 DEF Fetch, IInv, TypeOK, SeenIsDelivered
  <2>2. \A c \in Children : pending'[c] = IF c = orderbyId THEN pending[c] \ {t} ELSE pending[c]
    BY <2>1
  <2>3. \A c \in Children : Delivered(c) \subseteq Delivered(c)'
    BY <2>1, <2>2 DEF Delivered
  <2>4. PICK c \in Children : c = orderbyId
    BY <2>1
  <2>5. t \in Delivered(c)' /\ t \notin Delivered(c)
    BY <2>1, <2>2, <2>4 DEF Delivered
  <2>6. QED
    BY <2>3, <2>4, <2>5
<1>5. ASSUME NEW t \in Tid, SkipSeen(t)
      PROVE  ContextLeaksOnlyOnSeen'
  <2>1. Fetch(t) /\ t \in seenSet /\ memctx' = orderbyId
    BY <1>5 DEF SkipSeen, StayInChildContext
  <2>2. PICK d \in Children : t \in Delivered(d)
    BY <2>1 DEF IInv, SeenIsDelivered
  <2>3. PICK c \in Children : c = orderbyId /\ t \in Delivered(c)' /\ t \notin Delivered(c)
    BY <2>1, <1>4
  <2>4. d # c /\ t \in Delivered(d)' /\ memctx' = c
    BY <2>1, <2>2, <2>3, <1>4
  <2>5. t \in reach'[memctx'] \ pending'[memctx'] /\ t \in reach'[d] \ pending'[d]
    BY <2>3, <2>4 DEF Delivered
  <2>6. QED
    BY <2>4, <2>5 DEF ContextLeaksOnlyOnSeen, Delivered
<1>6. ASSUME NEW t \in Tid, Drop(t) \/ Keep(t)
      PROVE  ContextLeaksOnlyOnSeen'
  <2>1. Fetch(t) /\ UNCHANGED memctx
    BY <1>6 DEF Drop, Keep, SwitchBack
  <2>2. QED
    BY <2>1, <1>3, <1>4
<1>7. CASE Call \/ ChildExhausted \/ CheckTermCond \/ Drain \/ Emit \/ EndOfRows \/ UNCHANGED vars
  <2>1. UNCHANGED <<memctx, reach, pending>>
    BY <1>7 DEF Call, ChildExhausted, CheckTermCond, Drain, Emit, EndOfRows, SwitchBack, scan, vars
  <2>2. \A c \in Children : Delivered(c) \subseteq Delivered(c)'
    BY <2>1 DEF Delivered
  <2>3. QED
    BY <2>1, <2>2, <1>3
<1>8. QED
  BY <1>5, <1>6, <1>7 DEF Next

(***************************************************************************)
(* The caller's memory context is only left when two children delivered a  *)
(* row in common.                                                          *)
(***************************************************************************)
THEOREM ContextIsMostlyRestored == Spec => []ContextLeaksOnlyOnSeen
<1>1. Init => ContextLeaksOnlyOnSeen
  BY DEF Init, ContextLeaksOnlyOnSeen
<1>2. IInv /\ ContextLeaksOnlyOnSeen /\ [Next]_vars => ContextLeaksOnlyOnSeen'
  BY ContextInv
<1>3. QED
  BY <1>1, <1>2, Inductive, PTL DEF Spec

-----------------------------------------------------------------------------
(* The operator implements RankedRows.                                     *)

\* The rows delivered, by their TIDs.
LEMMA ResultFacts ==
  ASSUME IInv
  PROVE  /\ ResultTids \in Seq(Tid) /\ Len(ResultTids) = Len(returned)
         /\ Range(ResultTids) = Tids(Range(returned))
         /\ returned = << >> => ResultTids = << >>
         /\ Promise!Rest = seenSet \ Tids(Range(returned))
<1>1. returned \in Seq(Item) /\ Len(returned) \in Nat
  BY RangeIsBounded DEF IInv, TypeOK
<1>2. \A n \in 1 .. Len(returned) : returned[n].tid \in Tid
  <2>1. \A n \in 1 .. Len(returned) : returned[n] \in Item
    BY <1>1, ElementOfSeq
  <2>2. QED
    BY <2>1 DEF Item
<1>3. ResultTids \in Seq(Tid) /\ Len(ResultTids) = Len(returned)
  <2>1. ResultTids \in [1 .. Len(returned) -> Tid]
    BY <1>2 DEF ResultTids
  <2>2. ResultTids \in Seq(Tid)
    BY <1>1, <2>1, SeqDef
  <2>3. QED
    BY <1>1, <2>1, <2>2, LenProperties
<1>4. Range(ResultTids) = Tids(Range(returned))
  <2>1. DOMAIN returned = 1 .. Len(returned) /\ DOMAIN ResultTids = 1 .. Len(returned)
    BY <1>1, LenProperties DEF ResultTids
  <2>2. \A n \in 1 .. Len(returned) : ResultTids[n] = returned[n].tid
    BY DEF ResultTids
  <2>3. QED
    BY <2>1, <2>2 DEF Range, Tids
<1>5. returned = << >> => ResultTids = << >>
  BY <1>3, EmptySeq, EmptyFacts
<1>6. Promise!Rest = seenSet \ Range(ResultTids)
  BY DEF Promise!Rest, Promise!Range, Range
<1>7. QED
  BY <1>3, <1>4, <1>5, <1>6

\* A first row seen is a Scan of the abstract operator.
LEMMA NewRowRefines ==
  ASSUME IInv, NEW t \in Tid, Drop(t) \/ Keep(t)
  PROVE  Promise!Scan(t)
<1>1. Fetch(t) /\ t \notin seenSet /\ MarkSeen(t) /\ UNCHANGED <<rank, returned>>
  BY DEF Drop, Keep, Fetch
<1>2. returned = << >> /\ pc = "fetch" /\ pc' \in {"fetch", "check"}
  BY <1>1, FetchFacts DEF Fetch
<1>3. ResultTids = << >> /\ ResultTids' = ResultTids
  BY <1>1, <1>2, ResultFacts DEF ResultTids
<1>4. [u \in Tid |-> Score(u)]' = [u \in Tid |-> Score(u)]
  BY <1>1 DEF Score
<1>5. QED
  BY <1>1, <1>2, <1>3, <1>4 DEF Promise!Scan, MarkSeen

\* Returning the top of the stack delivers a best row of the rest.
LEMMA EmitRefines ==
  ASSUME IInv, Emit
  PROVE  \E t \in Tid : Promise!Deliver(t)
<1> DEFINE i == Head(resultStack)
<1>1. /\ pc = "drain" /\ procPq = {} /\ resultStack # << >> /\ pc' = "idle"
      /\ returned' = Append(returned, i) /\ UNCHANGED <<rank, seenSet>>
  BY DEF Emit, scan
<1>2. resultStack \in Seq(Item) /\ returned \in Seq(Item)
  BY DEF IInv, TypeOK
<1>3. /\ i \in Item /\ i = resultStack[1] /\ Len(resultStack) \in Nat \ {0}
      /\ Len(returned) \in Nat /\ Len(returned') = Len(returned) + 1
      /\ returned'[Len(returned) + 1] = i
      /\ \A n \in 1 .. Len(returned) : returned'[n] = returned[n]
  BY <1>1, <1>2, TailFacts, AppendFacts
<1>4. i \in Range(resultStack) /\ i.tid \in Tid
  BY <1>2, <1>3, RangeType DEF Item
<1>5. /\ ResultTids \in Seq(Tid) /\ Len(ResultTids) = Len(returned)
      /\ Range(ResultTids) = Tids(Range(returned))
  BY ResultFacts
<1>6. ResultTids' = Append(ResultTids, i.tid)
  <2>1. ResultTids' = [n \in 1 .. Len(returned) + 1 |-> returned'[n].tid]
    BY <1>3 DEF ResultTids
  <2>2. /\ Append(ResultTids, i.tid) \in Seq(Tid)
        /\ Len(Append(ResultTids, i.tid)) = Len(returned) + 1
        /\ Append(ResultTids, i.tid)[Len(returned) + 1] = i.tid
        /\ \A n \in 1 .. Len(returned) : Append(ResultTids, i.tid)[n] = ResultTids[n]
    BY <1>4, <1>5, AppendFacts
  <2>3. Append(ResultTids, i.tid) \in [1 .. Len(returned) + 1 -> Tid]
    BY <2>2, LenProperties
  <2>4. \A n \in 1 .. Len(returned) : ResultTids[n] = returned[n].tid
    BY DEF ResultTids
  <2>5. ASSUME NEW n \in 1 .. Len(returned) + 1
        PROVE  Append(ResultTids, i.tid)[n] = returned'[n].tid
    <3>1. CASE n = Len(returned) + 1
      BY <3>1, <2>2, <1>3
    <3>2. CASE n \in 1 .. Len(returned)
      BY <3>2, <2>2, <2>4, <1>3
    <3>3. n \in 1 .. Len(returned) \/ n = Len(returned) + 1
      BY <1>3
    <3>4. QED
      BY <3>1, <3>2, <3>3
  <2>6. QED
    BY <2>1, <2>3, <2>5
<1>7. Len(ResultTids) < K
  BY <1>1, <1>5 DEF IInv, Phases
<1>8. i.tid \in Promise!Rest
  <2>1. i.tid \in seenSet
    BY <1>4 DEF IInv, KeepsBest, Held, Tids
  <2>2. i.tid \notin Tids(Range(returned))
    <3>1. \A j \in Range(returned) : j.tid # i.tid
      BY <1>4 DEF IInv, Disjoint, Held
    <3>2. QED
      BY <3>1 DEF Tids
  <2>3. QED
    BY <2>1, <2>2, ResultFacts
<1>9. ASSUME NEW u \in Promise!Rest
      PROVE  Score(i.tid) <= Score(u)
  <2>1. u \in seenSet /\ u \notin Tids(Range(returned)) /\ u \in Tid
    BY <1>9, ResultFacts DEF IInv, TypeOK
  <2>2. CASE u \in Tids(Held)
    <3>1. PICK j \in Range(resultStack) : j.tid = u
      BY <2>1, <2>2, <1>1 DEF Held, Tids
    <3>2. PICK n \in 1 .. Len(resultStack) : resultStack[n] = j
      BY <1>2, LenProperties DEF Range
    <3>3. CASE n = 1
      <4>1. Score(u) \in Int
        BY <2>1, ScoreType DEF IInv
      <4>2. QED
        BY <3>1, <3>2, <3>3, <4>1, <1>3
    <3>4. CASE n # 1
      <4>1. 1 \in 1 .. Len(resultStack) /\ 1 < n
        BY <3>2, <3>4, <1>3
      <4>2. QED
        BY <3>1, <3>2, <4>1, <1>3 DEF IInv, Ordered, Ascending
    <3>5. QED
      BY <3>3, <3>4
  <2>3. CASE u \notin Tids(Held)
    BY <2>1, <2>3, <1>4 DEF IInv, KeepsBest, Held
  <2>4. QED
    BY <2>2, <2>3
<1>10. Promise!Rest \subseteq Tid
  BY ResultFacts DEF IInv, TypeOK
<1>11. \A u \in Promise!Rest : [v \in Tid |-> Score(v)][i.tid] <= [v \in Tid |-> Score(v)][u]
  BY <1>4, <1>9, <1>10
<1>12. [u \in Tid |-> Score(u)]' = [u \in Tid |-> Score(u)]
  BY <1>1 DEF Score
<1>13. Promise!Deliver(i.tid)
  BY <1>1, <1>6, <1>7, <1>8, <1>11, <1>12 DEF Promise!Deliver
<1>14. QED
  BY <1>4, <1>13

\* The steps that end the result: max_calls is reached, or nothing is left.
LEMMA EndRefines ==
  ASSUME IInv, EndOfRows \/ (Call /\ pc' = "done")
  PROVE  Promise!Close
<1>1. pc # "done" /\ pc' = "done" /\ UNCHANGED <<rank, seenSet, returned>>
  BY DEF EndOfRows, Call, scan
<1>2. ResultTids' = ResultTids /\ [u \in Tid |-> Score(u)]' = [u \in Tid |-> Score(u)]
  BY <1>1 DEF ResultTids, Score
<1>3. Len(ResultTids) >= K \/ Promise!Rest = {}
  <2>1. CASE Call /\ pc' = "done"
    BY <2>1, ResultFacts DEF Call
  <2>2. CASE EndOfRows
    <3>1. procPq = {} /\ resultStack = << >> /\ Len(returned) < K
      BY <2>2 DEF EndOfRows, IInv, Phases
    <3>2. Range(ResultTids) = seenSet
      BY <3>1, NothingLeft, ResultFacts
    <3>3. QED
      BY <3>2, ResultFacts
  <2>3. QED
    BY <2>1, <2>2
<1>4. QED
  BY <1>1, <1>2, <1>3 DEF Promise!Close

LEMMA NextRefines ==
  ASSUME IInv, [Next]_vars
  PROVE  [Promise!Next]_(Promise!vars)
<1>1. ASSUME UNCHANGED <<rank, seenSet, returned>>, pc' = "done" <=> pc = "done"
      PROVE  UNCHANGED Promise!vars
  BY <1>1 DEF Promise!vars, ResultTids, Score
<1>2. ASSUME NEW t \in Tid, Drop(t) \/ Keep(t)
      PROVE  Promise!Next
  BY <1>2, NewRowRefines DEF Promise!Next
<1>3. ASSUME NEW t \in Tid, SkipSeen(t)
      PROVE  UNCHANGED Promise!vars
  <2>1. UNCHANGED <<rank, seenSet, returned>> /\ Fetch(t)
    BY <1>3 DEF SkipSeen, Fetch
  <2>2. pc = "fetch" /\ pc' \in {"fetch", "check"}
    BY <2>1, FetchFacts DEF Fetch
  <2>3. QED
    BY <2>1, <2>2, <1>1
<1>4. CASE Call
  <2>1. CASE pc' = "done"
    BY <1>4, <2>1, EndRefines DEF Promise!Next
  <2>2. CASE pc' # "done"
    BY <1>1, <1>4, <2>2 DEF Call, scan
  <2>3. QED
    BY <2>1, <2>2
<1>5. CASE ChildExhausted \/ CheckTermCond \/ Drain \/ UNCHANGED vars
  BY <1>1, <1>5 DEF ChildExhausted, CheckTermCond, Drain, vars, scan
<1>6. CASE Emit
  BY <1>6, EmitRefines DEF Promise!Next
<1>7. CASE EndOfRows
  BY <1>7, EndRefines DEF Promise!Next
<1>8. QED
  BY <1>2, <1>3, <1>4, <1>5, <1>6, <1>7 DEF Next

LEMMA InitRefines == Init => Promise!Init
<1> SUFFICES ASSUME Init PROVE Promise!Init
  OBVIOUS
<1>1. IInv
  BY InitInv
<1>2. [t \in Tid |-> Score(t)] \in [Tid -> Int]
  BY <1>1, ScoreType DEF IInv
<1>3. ResultTids = << >>
  BY <1>1, ResultFacts DEF Init
<1>4. QED
  BY <1>2, <1>3 DEF Init, Promise!Init

(***************************************************************************)
(* topk() delivers the best K of the rows execFagins has seen, best first, *)
(* each once, and closes only when it owes no more.                        *)
(***************************************************************************)
THEOREM ImplementsRankedRows == Spec => PromiseSpec
<1>1. Init => Promise!Init
  BY InitRefines
<1>2. IInv /\ [Next]_vars => [Promise!Next]_(Promise!vars)
  BY NextRefines
<1>3. QED
  BY <1>1, <1>2, Inductive, PTL DEF Spec, PromiseSpec, Promise!Spec

-----------------------------------------------------------------------------
(***************************************************************************)
(* multicol_topk().  Its loop has the same steps, so what was proved of    *)
(* execFagins carries over, definition by definition, once the constants   *)
(* of Fagins are what MultiColTopK makes of the SQL arguments.             *)
(***************************************************************************)
CONSTANTS Modulus, KArg, TermCondArg

MultiCol == INSTANCE MultiColTopK

ArgsOfMultiCol ==
  /\ Ef = MultiCol!Capacity
  /\ K = MultiCol!Args.maxCalls
  /\ TermCond = MultiCol!Args.termCond

LEMMA SameScore == \A t : MultiCol!Op!Score(t) = Score(t)
  BY DEF MultiCol!Op!Score, Score

LEMMA SameTops ==
  ASSUME NEW items
  PROVE  MultiCol!Op!Tops(items) = Tops(items)
  BY SameScore DEF MultiCol!Op!Tops, Tops

LEMMA SameCardinality == \A S : MultiCol!Op!Cardinality(S) = Cardinality(S)
  BY DEF MultiCol!Op!Cardinality, Cardinality

\* The steps of the loop over the children that fetch a row.
LEMMA SameFetch ==
  ASSUME ArgsOfMultiCol, NEW t
  PROVE  /\ MultiCol!Op!SkipSeen(t) => SkipSeen(t)
         /\ MultiCol!Op!Drop(t) => Drop(t)
         /\ MultiCol!Op!Keep(t) => Keep(t)
<1>1. MultiCol!Op!Fetch(t) <=> Fetch(t)
  BY DEF MultiCol!Op!Fetch, Fetch, MultiCol!Op!NextChild, NextChild
<1>2. MultiCol!Op!SkipSeen(t) => SkipSeen(t)
  BY <1>1 DEF MultiCol!Op!SkipSeen, SkipSeen, MultiCol!Op!StayInChildContext,
              StayInChildContext
<1>3. MultiCol!Op!Fits(t) <=> Fits(t)
  BY SameScore, SameCardinality DEF ArgsOfMultiCol, MultiCol!Op!Fits, Fits
<1>4. MultiCol!Op!Drop(t) => Drop(t)
  BY <1>1, <1>3 DEF MultiCol!Op!Drop, Drop, MultiCol!Op!MarkSeen, MarkSeen,
                    MultiCol!Op!SwitchBack, SwitchBack
<1>5. MultiCol!Op!Popped = Popped
  BY SameTops, SameCardinality DEF ArgsOfMultiCol, MultiCol!Op!Popped, Popped
<1>6. MultiCol!Op!Keep(t) => Keep(t)
  BY <1>1, <1>3, <1>5 DEF MultiCol!Op!Keep, Keep, MultiCol!Op!MarkSeen, MarkSeen,
                          MultiCol!Op!SwitchBack, SwitchBack,
                          MultiCol!Op!ResetDrops, ResetDrops
<1>7. QED
  BY <1>2, <1>4, <1>6

\* Every other step.
LEMMA SameRest ==
  ASSUME ArgsOfMultiCol
  PROVE  /\ MultiCol!Op!Call => Call
         /\ MultiCol!Op!ChildExhausted => ChildExhausted
         /\ MultiCol!Op!CheckTermCond => CheckTermCond
         /\ MultiCol!Op!Drain => Drain
         /\ MultiCol!Op!Emit => Emit
         /\ MultiCol!Op!EndOfRows => EndOfRows
<1> USE DEF MultiCol!Op!scan, scan
<1>1. MultiCol!Op!Call => Call
  BY DEF ArgsOfMultiCol, MultiCol!Op!Call, Call
<1>2. MultiCol!Op!ChildExhausted => ChildExhausted
  BY DEF MultiCol!Op!ChildExhausted, ChildExhausted, MultiCol!Op!Finish, Finish,
         MultiCol!Op!SwitchBack, SwitchBack
<1>3. MultiCol!Op!CheckTermCond => CheckTermCond
  BY DEF ArgsOfMultiCol, MultiCol!Op!CheckTermCond, CheckTermCond,
         MultiCol!Op!ReachedTermCond, ReachedTermCond
<1>4. MultiCol!Op!Drain => Drain
  BY SameTops DEF MultiCol!Op!Drain, Drain, MultiCol!Op!Push, Push
<1>5. MultiCol!Op!Emit => Emit
  BY DEF MultiCol!Op!Emit, Emit, MultiCol!Op!Pop, Pop
<1>6. MultiCol!Op!EndOfRows => EndOfRows
  BY DEF MultiCol!Op!EndOfRows, EndOfRows
<1>7. QED
  BY <1>1, <1>2, <1>3, <1>4, <1>5, <1>6

LEMMA SameSteps ==
  ASSUME ArgsOfMultiCol
  PROVE  /\ MultiCol!InitFaginsStateM => Init
         /\ [MultiCol!Next]_(MultiCol!vars) => [Next]_vars
<1>1. MultiCol!InitFaginsStateM => Init
  BY DEF MultiCol!InitFaginsStateM, MultiCol!Op!Init, Init, MultiCol!Op!Children,
         Children
<1>2. MultiCol!Next => Next
  BY SameFetch, SameRest DEF MultiCol!Next, MultiCol!ScanM, MultiCol!Exhausted,
     MultiCol!OutputM, MultiCol!multicol_topk, Next
<1>3. UNCHANGED MultiCol!vars => UNCHANGED vars
  BY DEF MultiCol!vars, MultiCol!Op!vars, vars
<1>4. QED
  BY <1>1, <1>2, <1>3

\* The two operators make the same promise.
LEMMA SamePromise ==
  ASSUME ArgsOfMultiCol
  PROVE  /\ Promise!Init => MultiCol!Op!Promise!Init
         /\ [Promise!Next]_(Promise!vars)
              => [MultiCol!Op!Promise!Next]_(MultiCol!Op!Promise!vars)
<1>1. MultiCol!Op!ResultTids = ResultTids /\ MultiCol!Op!ResultTids' = ResultTids'
  BY DEF MultiCol!Op!ResultTids, ResultTids
<1>2. /\ [t \in Tid |-> MultiCol!Op!Score(t)] = [t \in Tid |-> Score(t)]
      /\ [t \in Tid |-> MultiCol!Op!Score(t)]' = [t \in Tid |-> Score(t)]'
  BY DEF MultiCol!Op!Score, Score
<1>3. Promise!Init => MultiCol!Op!Promise!Init
  BY <1>1, <1>2 DEF Promise!Init, MultiCol!Op!Promise!Init
<1>4. UNCHANGED Promise!vars => UNCHANGED MultiCol!Op!Promise!vars
  BY <1>1, <1>2 DEF Promise!vars, MultiCol!Op!Promise!vars
<1>5. MultiCol!Op!Promise!Rest = Promise!Rest
  BY <1>1 DEF MultiCol!Op!Promise!Rest, Promise!Rest, MultiCol!Op!Promise!Range,
              Promise!Range
<1>6. Promise!Next => MultiCol!Op!Promise!Next
  BY <1>1, <1>2, <1>5
     DEF ArgsOfMultiCol, Promise!Next, Promise!Scan, Promise!Deliver, Promise!Close,
         MultiCol!Op!Promise!Next, MultiCol!Op!Promise!Scan,
         MultiCol!Op!Promise!Deliver, MultiCol!Op!Promise!Close
<1>7. QED
  BY <1>3, <1>4, <1>6

(***************************************************************************)
(* multicol_topk() keeps the same promise although its heap holds no more  *)
(* rows than the answer: for all arguments that give the operator what it  *)
(* needs, which are all SQL integers (ArgsAreFit in TopKSession_proofs).   *)
(***************************************************************************)
THEOREM MultiColRanksRows ==
  ASSUME ArgsOfMultiCol
  PROVE  MultiCol!Spec => MultiCol!PromiseSpec
<1>1. MultiCol!InitFaginsStateM => IInv
  BY SameSteps, InitInv
<1>2. IInv /\ [MultiCol!Next]_(MultiCol!vars) => IInv'
  BY SameSteps, NextInv
<1>3. MultiCol!InitFaginsStateM => MultiCol!Op!Promise!Init
  BY SameSteps, InitRefines, SamePromise
<1>4. IInv /\ [MultiCol!Next]_(MultiCol!vars)
        => [MultiCol!Op!Promise!Next]_(MultiCol!Op!Promise!vars)
  BY SameSteps, NextRefines, SamePromise
<1>5. QED
  BY <1>1, <1>2, <1>3, <1>4, PTL
     DEF MultiCol!Spec, MultiCol!PromiseSpec, MultiCol!Op!PromiseSpec,
         MultiCol!Op!Promise!Spec

=============================================================================
