------------------------ MODULE AccessMethods_proofs ------------------------
(***************************************************************************)
(* IInv of AccessMethods is inductive, for any number of rows, any         *)
(* distances and any length of the queues, and what follows from it.       *)
(***************************************************************************)
EXTENDS AccessMethods, FiniteSetTheorems, FunctionTheorems, SequenceTheorems,
        TLAPS

(* Sequences of rows, and the positions of rows in them.                   *)

LEMMA RangeFacts ==
  ASSUME NEW S, NEW s \in Seq(S)
  PROVE  /\ Len(s) \in Nat
         /\ \A k \in 1 .. Len(s) : s[k] \in S /\ s[k] \in Range(s)
         /\ \A x : x \in Range(s) <=> \E k \in 1 .. Len(s) : s[k] = x
         /\ Range(s) \subseteq S
<1>1. Len(s) \in Nat /\ DOMAIN s = 1 .. Len(s) /\ \A k \in 1 .. Len(s) : s[k] \in S
  BY LenProperties, ElementOfSeq
<1>. QED  BY <1>1 DEF Range

LEMMA AppendFacts ==
  ASSUME NEW S, NEW s \in Seq(S), NEW x \in S
  PROVE  /\ Append(s, x) \in Seq(S)
         /\ Len(Append(s, x)) = Len(s) + 1
         /\ \A k \in 1 .. Len(s) : Append(s, x)[k] = s[k]
         /\ Append(s, x)[Len(s) + 1] = x
         /\ Range(Append(s, x)) = Range(s) \cup {x}
         /\ \A k \in 1 .. Len(Append(s, x)) : k = Len(s) + 1 \/ k \in 1 .. Len(s)
<1>1. /\ Append(s, x) \in Seq(S)
      /\ Len(Append(s, x)) = Len(s) + 1
      /\ \A k \in 1 .. Len(s) : Append(s, x)[k] = s[k]
      /\ Append(s, x)[Len(s) + 1] = x
  BY AppendProperties
<1>2. Len(s) \in Nat
  BY LenProperties
<1>3. \A k \in 1 .. Len(Append(s, x)) : k = Len(s) + 1 \/ k \in 1 .. Len(s)
  BY <1>1, <1>2
<1>4. Range(Append(s, x)) = Range(s) \cup {x}
  <2>. DEFINE t == Append(s, x)
  <2>. t \in Seq(S)
    BY <1>1
  <2>. HIDE DEF t
  <2>1. ASSUME NEW y \in Range(t)
        PROVE  y \in Range(s) \cup {x}
    <3>1. PICK k \in 1 .. Len(t) : t[k] = y
      BY RangeFacts
    <3>2. k = Len(s) + 1 \/ k \in 1 .. Len(s)
      BY <1>3 DEF t
    <3>. QED  BY <1>1, <3>1, <3>2, RangeFacts DEF t
  <2>2. ASSUME NEW y \in Range(s)
        PROVE  y \in Range(t)
    <3>1. PICK k \in 1 .. Len(s) : s[k] = y
      BY RangeFacts
    <3>2. k \in 1 .. Len(t) /\ t[k] = y
      BY <1>1, <1>2, <3>1 DEF t
    <3>. QED  BY <3>2, RangeFacts
  <2>3. x \in Range(t)
    <3>1. Len(s) + 1 \in 1 .. Len(t) /\ t[Len(s) + 1] = x
      BY <1>1, <1>2 DEF t
    <3>. QED  BY <3>1, RangeFacts
  <2>. QED  BY <2>1, <2>2, <2>3 DEF t
<1>. QED  BY <1>1, <1>3, <1>4

LEMMA NothingFacts ==
  ASSUME NEW S
  PROVE  << >> \in Seq(S) /\ Len(<< >>) = 0 /\ Range(<< >>) = {}
BY EmptySeq DEF Range

EachOnce(s) == \A j, k \in 1 .. Len(s) : s[j] = s[k] => j = k

Holds(s, P, A) == \A a : a \in A <=> \E k \in P : s[k] = a

LEMMA PositionsOf ==
  ASSUME NEW S, IsFiniteSet(S), NEW s \in Seq(S), EachOnce(s),
         NEW P \in SUBSET (1 .. Len(s)),
         NEW A, Holds(s, P, A)
  PROVE  /\ IsFiniteSet(P) /\ IsFiniteSet(A)
         /\ Cardinality(P) \in Nat
         /\ Cardinality(P) = Cardinality(A)
<1>. DEFINE f == [k \in P |-> s[k]]
<1>1. IsFiniteSet(A)
  <2>1. A \subseteq S
    BY ElementOfSeq DEF Holds
  <2>. QED  BY <2>1, FS_Subset
<1>2. f \in Bijection(P, A)
  <2>1. f \in [P -> A]
    BY DEF Holds
  <2>2. \A j, k \in P : f[j] = f[k] => j = k
    BY DEF EachOnce
  <2>3. \A a \in A : \E k \in P : f[k] = a
    BY DEF Holds
  <2>. QED  BY <2>1, <2>2, <2>3, Fun_IsBij
<1>3. IsFiniteSet(P)
  <2>1. f \in Injection(P, A)
    BY <1>2, Fun_BijectionProperties
  <2>. QED  BY <1>1, <2>1, FS_Injection
<1>4. Cardinality(A) = Cardinality(P)
  <2>1. ExistsBijection(P, A)
    BY <1>2 DEF ExistsBijection
  <2>. QED  BY <1>3, <2>1, FS_Bijection
<1>. QED  BY <1>1, <1>3, <1>4, FS_CardinalityType

LEMMA LenOfEachOnce ==
  ASSUME NEW S, IsFiniteSet(S), NEW s \in Seq(S), EachOnce(s)
  PROVE  /\ Cardinality(S) \in Nat
         /\ Len(s) = Cardinality(Range(s))
         /\ Len(s) <= Cardinality(S)
<1>1. Len(s) \in Nat /\ Range(s) = {s[k] : k \in 1 .. Len(s)} /\ Range(s) \subseteq S
  BY RangeFacts
<1>2. Cardinality(1 .. Len(s)) = Cardinality(Range(s))
  <2>1. Holds(s, 1 .. Len(s), Range(s))
    BY <1>1 DEF Holds
  <2>2. 1 .. Len(s) \in SUBSET (1 .. Len(s))
    OBVIOUS
  <2>. QED  BY <2>1, <2>2, PositionsOf
<1>3. Cardinality(1 .. Len(s)) = Len(s)
  <2>1. 1 \in Int /\ Len(s) \in Int /\ Len(s) \in Nat
    BY <1>1
  <2>2. \A a, b \in Int : Cardinality(a .. b) = IF a > b THEN 0 ELSE b - a + 1
    BY FS_Interval
  <2>3. Cardinality(1 .. Len(s)) = IF 1 > Len(s) THEN 0 ELSE Len(s) - 1 + 1
    BY <2>1, <2>2
  <2>. QED  BY <2>1, <2>3
<1>4. Cardinality(Range(s)) <= Cardinality(S)
  BY <1>1, FS_Subset
<1>. QED  BY <1>2, <1>3, <1>4, FS_CardinalityType

-----------------------------------------------------------------------------
(* What ScanInv says of a scan.                                            *)

LEMMA SeenFacts ==
  ASSUME ScanInv
  PROVE  /\ IsFiniteSet(Row) /\ Cardinality(Row) \in Nat
         /\ seen \in Seq(Row) /\ Len(seen) \in Nat
         /\ EachOnce(seen)
         /\ Len(seen) <= Cardinality(Row)
         /\ \A k \in 1 .. Len(seen) : seen[k] \in Row /\ seen[k] \in Range(seen)
         /\ \A x : x \in Range(seen) <=> \E k \in 1 .. Len(seen) : seen[k] = x
         /\ returned \in Seq(Row) /\ Len(returned) \in Nat
         /\ \A k \in 1 .. Len(returned) :
              returned[k] \in Row /\ returned[k] \in Range(returned)
         /\ \A x : x \in Range(returned) <=>
              \E k \in 1 .. Len(returned) : returned[k] = x
         /\ Range(seen) \subseteq Row /\ Range(returned) \subseteq Row
<1>1. IsFiniteSet(Row)
  BY ScanAssumption
<1>2. seen \in Seq(Row) /\ returned \in Seq(Row)
  BY DEF ScanInv, TypeOK
<1>3. EachOnce(seen)
  BY DEF ScanInv, YieldsOnce, EachOnce
<1>4. Cardinality(Row) \in Nat /\ Len(seen) <= Cardinality(Row)
  BY <1>1, <1>2, <1>3, LenOfEachOnce
<1>. QED  BY <1>1, <1>2, <1>3, <1>4, RangeFacts

LEMMA AheadFacts ==
  ASSUME TypeOK
  PROVE  Ahead \subseteq Row /\ queue \subseteq Row
BY DEF TypeOK, Ahead

(***************************************************************************)
(* The loop of gettuple looks at row r: the nearest of what was read ahead *)
(* or, when that is used up, whatever the iterator yields.                 *)
(***************************************************************************)
Looks(r) ==
  /\ pc = "call" /\ method # "plain"
  /\ UNCHANGED <<args, first, readAhead>>
  /\ r \in Row
  /\ seen' = Append(seen, r)
  /\ \/ Ahead = {} /\ Ahead' = {} /\ r \in pending /\ pending' = pending \ {r}
     \/ r \in Bottoms(Ahead) /\ Ahead' = Ahead \ {r} /\ pending' = pending
  /\ pc' \in {"call", "idle"}

LEMMA LooksAtNew ==
  ASSUME ScanInv, NEW r, Looks(r)
  PROVE  /\ r \in Row /\ r \notin Range(seen)
         /\ seen' \in Seq(Row) /\ Len(seen') = Len(seen) + 1
         /\ \A k \in 1 .. Len(seen) : seen'[k] = seen[k]
         /\ seen'[Len(seen) + 1] = r
         /\ Range(seen') = Range(seen) \cup {r}
         /\ \A k \in 1 .. Len(seen') : k = Len(seen) + 1 \/ k \in 1 .. Len(seen)
         /\ Len(seen) \in Nat
         /\ YieldsOnce'
         /\ Len(seen') <= Cardinality(Row)
         /\ Serving /\ Serving'
<1>. YieldsOnce /\ BeginsAnew
  BY DEF ScanInv
<1>0. Serving /\ Serving'
  BY DEF BeginsAnew, Serving, Looks, args
<1>. seen \in Seq(Row) /\ Len(seen) \in Nat /\ r \in Row
  BY SeenFacts DEF Looks
<1>1. /\ seen' \in Seq(Row) /\ Len(seen') = Len(seen) + 1
      /\ \A k \in 1 .. Len(seen) : seen'[k] = seen[k]
      /\ seen'[Len(seen) + 1] = r
      /\ Range(seen') = Range(seen) \cup {r}
      /\ \A k \in 1 .. Len(seen') : k = Len(seen) + 1 \/ k \in 1 .. Len(seen)
  BY AppendFacts DEF Looks
<1>2. r \in pending \cup Ahead /\ pending' \cup Ahead' \subseteq pending \cup Ahead
      /\ pending' \subseteq pending /\ readAhead' = readAhead
  BY DEF Looks, Bottoms
<1>3. r \notin Range(seen) /\ \A k \in 1 .. Len(seen) : seen[k] # r
  BY <1>2, SeenFacts DEF YieldsOnce
<1>4. r \notin pending' \cup Ahead'
  <2>1. CASE r \in pending /\ Ahead' = {} /\ pending' = pending \ {r}
    BY <2>1
  <2>2. CASE r \in Bottoms(Ahead) /\ Ahead' = Ahead \ {r} /\ pending' = pending
    <3>1. Ahead \subseteq readAhead
      BY <1>0 DEF ScanInv, ReadAheadIsKept
    <3>2. r \in readAhead
      BY <2>2, <3>1 DEF Bottoms
    <3>. QED  BY <2>2, <3>2 DEF YieldsOnce
  <2>. QED  BY <2>1, <2>2 DEF Looks
<1>5. YieldsOnce'
  <2>1. ASSUME NEW j \in 1 .. Len(seen'), NEW k \in 1 .. Len(seen'), seen'[j] = seen'[k]
        PROVE  j = k
    BY <1>1, <1>3, <2>1 DEF YieldsOnce
  <2>2. ASSUME NEW k \in 1 .. Len(seen')
        PROVE  seen'[k] \notin pending' \cup Ahead'
    <3>1. CASE k = Len(seen) + 1
      BY <1>1, <1>4, <3>1
    <3>2. CASE k \in 1 .. Len(seen)
      BY <1>1, <1>2, <3>2 DEF YieldsOnce
    <3>. QED  BY <1>1, <3>1, <3>2
  <2>3. pending' \cap readAhead' = {}
    BY <1>2 DEF YieldsOnce
  <2>. QED  BY <2>1, <2>2, <2>3 DEF YieldsOnce
<1>6. Len(seen') <= Cardinality(Row)
  <2>1. EachOnce(seen')
    BY <1>5 DEF YieldsOnce, EachOnce
  <2>. QED  BY <1>1, <2>1, SeenFacts, LenOfEachOnce
<1>. QED  BY <1>0, <1>1, <1>3, <1>5, <1>6

LEMMA LooksInOrder ==
  ASSUME ScanInv, NEW r, Looks(r)
  PROVE  ReadAheadIsKept' /\ ReadAheadComesFirst'
<1>. ReadAheadIsKept /\ ReadAheadComesFirst /\ YieldsOnce
  BY DEF ScanInv
<1>. Serving /\ Len(seen) \in Nat /\ readAhead' = readAhead /\ dist' = dist
  BY LooksAtNew DEF Looks, args
<1>0. dist \in [Row -> Int] /\ Ahead \subseteq Row
  BY ScanAssumption, AheadFacts DEF ScanInv, TypeOK
<1>1. Ahead' \subseteq readAhead' /\ readAhead' \subseteq Ahead' \cup Range(seen')
  BY LooksAtNew DEF Looks, ReadAheadIsKept, Bottoms
<1>2. ASSUME NEW k \in 1 .. Len(seen'), NEW q \in Ahead'
      PROVE  seen'[k] \in readAhead' /\ ~(dist[q] < dist[seen'[k]])
  <2>1. q \in Ahead /\ r \in Bottoms(Ahead)
    BY DEF Looks
  <2>2. CASE k \in 1 .. Len(seen)
    BY <2>1, <2>2, LooksAtNew DEF ReadAheadIsKept, Nearer
  <2>3. CASE k = Len(seen) + 1
    BY <2>1, <2>3, LooksAtNew DEF ReadAheadIsKept, Nearer, Bottoms
  <2>. QED  BY <2>2, <2>3, LooksAtNew
<1>3. ASSUME NEW j \in 1 .. Len(seen'), NEW k \in 1 .. Len(seen'),
             j < k, seen'[k] \in readAhead'
      PROVE  seen'[j] \in readAhead' /\ ~(dist[seen'[k]] < dist[seen'[j]])
  <2>0. j \in 1 .. Len(seen) /\ seen'[j] = seen[j]
    BY <1>3, LooksAtNew
  <2>1. CASE k \in 1 .. Len(seen)
    BY <1>3, <2>0, <2>1, LooksAtNew DEF ReadAheadComesFirst, Nearer
  <2>2. CASE k = Len(seen) + 1
    <3>1. seen'[k] = r
      BY <2>2, LooksAtNew
    <3>2. r \notin pending
      BY <1>3, <3>1 DEF YieldsOnce
    <3>3. r \in Ahead
      BY <3>2 DEF Looks, Bottoms
    <3>. QED  BY <2>0, <3>1, <3>3 DEF ReadAheadIsKept, Nearer
  <2>. QED  BY <2>1, <2>2, LooksAtNew
<1>. QED  BY <1>1, <1>2, <1>3 DEF ReadAheadIsKept, ReadAheadComesFirst, Nearer

(***************************************************************************)
(* What becomes of the row: the call returns it, or drops one that is out  *)
(* of range, and then goes on or returns false.                            *)
(***************************************************************************)
Gives(r) == Return(r) /\ (Ordered \/ r \in near)
Drops(r) ==
  /\ ~Ordered /\ r \notin near
  /\ returned' = returned /\ inRange' = inRange
  /\ Continue \/ ReturnFalse

LEMMA GivesInOrder ==
  ASSUME ScanInv, NEW r, Looks(r), Gives(r)
  PROVE  /\ returned' \in Seq(Row)
         /\ Len(returned') = Len(returned) + 1
         /\ \A k \in 1 .. Len(returned) : returned'[k] = returned[k]
         /\ returned'[Len(returned) + 1] = r
         /\ Range(returned') = Range(returned) \cup {r}
         /\ \A k \in 1 .. Len(returned') : k = Len(returned) + 1 \/ k \in 1 .. Len(returned)
         /\ OrderedReturnsAll' /\ ReturnsWhatIsInRange'
<1>. /\ returned \in Seq(Row) /\ Len(returned) \in Nat /\ Len(seen) \in Nat /\ r \in Row
     /\ returned' = Append(returned, r) /\ seen' = Append(seen, r)
     /\ kind' = kind /\ near' = near
  BY SeenFacts DEF Looks, Gives, Return, args
<1>1. /\ returned' \in Seq(Row)
      /\ Len(returned') = Len(returned) + 1
      /\ \A k \in 1 .. Len(returned) : returned'[k] = returned[k]
      /\ returned'[Len(returned) + 1] = r
      /\ Range(returned') = Range(returned) \cup {r}
      /\ \A k \in 1 .. Len(returned') : k = Len(returned) + 1 \/ k \in 1 .. Len(returned)
  BY AppendFacts
<1>2. OrderedReturnsAll'
  BY DEF ScanInv, OrderedReturnsAll, Ordered
<1>3. ASSUME kind = "range"
      PROVE  ReturnsWhatIsInRange'
  <2>0. r \in near /\ ReturnsWhatIsInRange
    BY <1>3 DEF Gives, Ordered, ScanInv
  <2>1. Range(returned') = Range(seen') \cap near'
    BY <1>1, <1>3, <2>0, LooksAtNew DEF ReturnsWhatIsInRange
  <2>2. ASSUME NEW j \in 1 .. Len(returned'), NEW k \in 1 .. Len(returned'), j < k
        PROVE  /\ returned'[j] # returned'[k]
               /\ \E m, n \in 1 .. Len(seen') :
                    m < n /\ seen'[m] = returned'[j] /\ seen'[n] = returned'[k]
    <3>1. j \in 1 .. Len(returned) /\ returned'[j] = returned[j]
      BY <1>1, <2>2
    <3>2. CASE k \in 1 .. Len(returned)
      <4>1. returned'[k] = returned[k]
        BY <1>1, <3>2
      <4>2. PICK m \in 1 .. Len(seen), n \in 1 .. Len(seen) :
              m < n /\ seen[m] = returned[j] /\ seen[n] = returned[k]
        BY <1>3, <2>0, <2>2, <3>1, <3>2 DEF ReturnsWhatIsInRange
      <4>3. m \in 1 .. Len(seen') /\ n \in 1 .. Len(seen') /\ seen'[m] = seen[m] /\ seen'[n] = seen[n]
        BY LooksAtNew
      <4>4. returned[j] # returned[k]
        BY <1>3, <2>0, <2>2, <3>1, <3>2 DEF ReturnsWhatIsInRange
      <4>. QED  BY <3>1, <4>1, <4>2, <4>3, <4>4
    <3>3. CASE k = Len(returned) + 1
      <4>1. returned'[k] = r
        BY <1>1, <3>3
      <4>2. returned[j] \in Range(seen)
        BY <1>3, <2>0, <3>1, SeenFacts DEF ReturnsWhatIsInRange
      <4>3. PICK m \in 1 .. Len(seen) : seen[m] = returned[j]
        BY <4>2, SeenFacts
      <4>4. /\ m \in 1 .. Len(seen') /\ seen'[m] = returned[j] /\ m < Len(seen) + 1
            /\ Len(seen) + 1 \in 1 .. Len(seen') /\ seen'[Len(seen) + 1] = r
            /\ returned[j] # r
        BY <4>2, <4>3, LooksAtNew
      <4>. QED  BY <3>1, <4>1, <4>4
    <3>. QED  BY <1>1, <3>2, <3>3
  <2>. QED  BY <2>1, <2>2 DEF ReturnsWhatIsInRange
<1>4. ASSUME kind # "range"
      PROVE  ReturnsWhatIsInRange'
  BY <1>4 DEF ReturnsWhatIsInRange
<1>. QED  BY <1>1, <1>2, <1>3, <1>4

LEMMA DropsInOrder ==
  ASSUME ScanInv, NEW r, Looks(r), Drops(r)
  PROVE  OrderedReturnsAll' /\ ReturnsWhatIsInRange'
<1>. /\ returned' = returned /\ Len(seen) \in Nat /\ r \notin near /\ ~Ordered
     /\ kind' = kind /\ near' = near
  BY SeenFacts DEF Looks, Drops, args
<1>1. OrderedReturnsAll'
  BY DEF OrderedReturnsAll, Ordered
<1>2. ASSUME kind = "range"
      PROVE  ReturnsWhatIsInRange'
  <2>0. ReturnsWhatIsInRange
    BY DEF ScanInv
  <2>1. Range(returned') = Range(seen') \cap near'
    BY <1>2, <2>0, LooksAtNew DEF ReturnsWhatIsInRange
  <2>2. ASSUME NEW j \in 1 .. Len(returned), NEW k \in 1 .. Len(returned), j < k
        PROVE  /\ returned[j] # returned[k]
               /\ \E m, n \in 1 .. Len(seen') :
                    m < n /\ seen'[m] = returned[j] /\ seen'[n] = returned[k]
    <3>1. PICK m \in 1 .. Len(seen), n \in 1 .. Len(seen) :
            m < n /\ seen[m] = returned[j] /\ seen[n] = returned[k]
      BY <1>2, <2>0, <2>2 DEF ReturnsWhatIsInRange
    <3>2. m \in 1 .. Len(seen') /\ n \in 1 .. Len(seen') /\ seen'[m] = seen[m] /\ seen'[n] = seen[n]
      BY LooksAtNew
    <3>3. returned[j] # returned[k]
      BY <1>2, <2>0, <2>2 DEF ReturnsWhatIsInRange
    <3>. QED  BY <3>1, <3>2, <3>3
  <2>. QED  BY <2>1, <2>2 DEF ReturnsWhatIsInRange
<1>3. ASSUME kind # "range"
      PROVE  ReturnsWhatIsInRange'
  BY <1>3 DEF ReturnsWhatIsInRange
<1>. QED  BY <1>1, <1>2, <1>3

(***************************************************************************)
(* A step that looks at a row keeps ScanInv, if it keeps what the methods  *)
(* keep each in its own way.                                               *)
(***************************************************************************)
MethodPart ==
  /\ KnowsInRange
  /\ KeepsNearest
  /\ InOrderMeans
  /\ GivesUpWithReason
  /\ LeavesNoneBehind

LEMMA RowKeeps ==
  ASSUME ScanInv, NEW r, Looks(r), Gives(r) \/ Drops(r),
         UNCHANGED <<open, workSpace, paused>>,
         queue' \subseteq Row, inRange' \in BOOLEAN, xsInorder' \in BOOLEAN,
         \/ misses' = misses
         \/ Drops(r) /\ misses' = misses + 1 /\ method # "pase",
         MethodPart'
  PROVE  ScanInv'
<1>. TypeOK /\ BeginsAnew /\ ClosesIterators
  BY DEF ScanInv
<1>. /\ method' = method /\ kind' = kind /\ argNull' = argNull /\ dist' = dist
     /\ near' = near /\ xsRecheck' = xsRecheck /\ first' = first
     /\ readAhead' = readAhead /\ pc = "call" /\ r \in Row
     /\ open' = open /\ workSpace' = workSpace /\ paused' = paused
     /\ pc' \in {"call", "idle"}
  BY DEF Looks, args
<1>. /\ seen' \in Seq(Row) /\ Len(seen) \in Nat /\ Len(seen') = Len(seen) + 1
     /\ Len(seen') <= Cardinality(Row) /\ Cardinality(Row) \in Nat
     /\ Serving /\ Serving'
  BY LooksAtNew, SeenFacts
<1>1. pending' \subseteq pending /\ pending \subseteq Row
  BY DEF Looks, TypeOK
<1>2. returned' \in Seq(Row) /\ OrderedReturnsAll' /\ ReturnsWhatIsInRange'
  BY GivesInOrder, DropsInOrder, SeenFacts DEF Drops
<1>3. outcome' \in Row \cup {NoRow}
  BY DEF Gives, Return, Drops, Continue, ReturnFalse, TypeOK
<1>4. misses \in Nat /\ misses' \in Nat /\ misses' <= Cardinality(Row)
  <2>1. misses \in 0 .. Cardinality(Row) /\ Cardinality(Row) \in Nat
    BY DEF TypeOK
  <2>2. method # "pase" => misses <= Len(seen)
    BY DEF ScanInv, CountsMisses
  <2>. QED  BY <2>1, <2>2
<1>5. TypeOK'
  <2>1. misses' \in 0 .. Cardinality(Row)
    BY <1>4
  <2>2. pc' \in {"unopened", "idle", "prefetch", "call", "ended", "crashed", "failed"}
    OBVIOUS
  <2>3. pending' \in SUBSET Row /\ queue' \in SUBSET Row
    BY <1>1
  <2>. QED  BY <1>2, <1>3, <2>1, <2>2, <2>3 DEF TypeOK
<1>6. BeginsAnew'
  BY DEF BeginsAnew, Supported, HasKey, Serving
<1>7. ClosesIterators'
  BY DEF ClosesIterators
<1>8. YieldsOnce' /\ ReadAheadIsKept' /\ ReadAheadComesFirst'
  BY LooksAtNew, LooksInOrder
<1>9. ReadsUntilPaused'
  <2>1. pending = {} => pending' = {}
    BY <1>1
  <2>. QED  BY <2>1 DEF ScanInv, ReadsUntilPaused, Serving
<1>10. CountsMisses'
  <2>. SUFFICES ASSUME pc' = "call", method # "pase"
                PROVE  /\ misses' <= Len(seen')
                       /\ \A k \in Len(seen') - misses' + 1 .. Len(seen') : seen'[k] \notin near
    BY DEF CountsMisses
  <2>1. misses <= Len(seen) /\ \A k \in Len(seen) - misses + 1 .. Len(seen) : seen[k] \notin near
    BY DEF ScanInv, CountsMisses
  <2>2. Drops(r)
    BY DEF Gives, Return
  <2>3. r \notin near
    BY <2>2 DEF Drops
  <2>4. misses' <= Len(seen')
    BY <1>4, <2>1
  <2>5. ASSUME NEW k \in Len(seen') - misses' + 1 .. Len(seen')
        PROVE  seen'[k] \notin near
    <3>1. CASE k = Len(seen) + 1
      BY <2>3, <3>1, LooksAtNew
    <3>2. CASE k # Len(seen) + 1
      <4>1. k \in 1 .. Len(seen) /\ k \in Len(seen) - misses + 1 .. Len(seen)
        BY <1>4, <2>1, <3>2
      <4>. QED  BY <2>1, <4>1, LooksAtNew
    <3>. QED  BY <3>1, <3>2
  <2>. QED  BY <2>4, <2>5
<1>11. NearIsBall'
  BY DEF ScanInv, NearIsBall, Nearer
<1>12. PendsBeyond'
  BY <1>1 DEF ScanInv, PendsBeyond, AskedForNoMore
<1>. QED  BY <1>2, <1>5, <1>6, <1>7, <1>8, <1>9, <1>10, <1>11, <1>12 DEF ScanInv, MethodPart

LEMMA RangeScan ==
  ASSUME ScanInv, Serving, ~Ordered
  PROVE  kind = "range" /\ method \in {"hnsw", "sptag", "spann"}
<1>1. kind # "neither" /\ kind \in {"order", "range", "both", "neither"}
  BY ScanAssumption DEF ScanInv, TypeOK, BeginsAnew, HasKey
<1>2. method \in {"hnsw", "sptag", "spann", "pase"}
  BY ScanAssumption DEF ScanInv, TypeOK, Serving
<1>. QED  BY <1>1, <1>2 DEF ScanInv, BeginsAnew, Supported, Ordered

LEMMA KnowsRange ==
  ASSUME ScanInv, NEW r, Looks(r),
         (Gives(r) /\ (kind = "range" => inRange' = TRUE)) \/ Drops(r),
         inRange' \in BOOLEAN,
         method = "hnsw" /\ kind = "range" /\ ~inRange' => queue' \subseteq Range(seen')
  PROVE  KnowsInRange'
<1>. /\ kind' = kind /\ method' = method /\ near' = near /\ Serving
     /\ Len(seen) \in Nat /\ Len(seen') = Len(seen) + 1
  BY LooksAtNew DEF Looks, args
<1>. SUFFICES ASSUME kind = "range"
              PROVE  inRange' <=> \E k \in 1 .. Len(seen') : seen'[k] \in near
  BY DEF KnowsInRange
<1>0. (inRange <=> \E k \in 1 .. Len(seen) : seen[k] \in near) /\ inRange \in BOOLEAN
  BY DEF ScanInv, KnowsInRange, TypeOK
<1>1. CASE Gives(r) /\ inRange' = TRUE
  <2>1. r \in near
    BY <1>1 DEF Gives, Ordered
  <2>2. Len(seen) + 1 \in 1 .. Len(seen') /\ seen'[Len(seen) + 1] = r
    BY LooksAtNew
  <2>. QED  BY <1>1, <2>1, <2>2
<1>2. CASE Drops(r)
  <2>1. r \notin near /\ inRange' = inRange
    BY <1>2 DEF Drops
  <2>2. (\E k \in 1 .. Len(seen') : seen'[k] \in near) <=> \E k \in 1 .. Len(seen) : seen[k] \in near
    BY <2>1, LooksAtNew
  <2>. QED  BY <1>0, <2>1, <2>2
<1>. QED  BY <1>1, <1>2

\* A scan that stops after so many rows out of range says so.
LEMMA StopsForMisses ==
  ASSUME ScanInv, NEW r, Looks(r), Drops(r), method # "pase",
         misses' = misses + 1, inRange, Stops
  PROVE  LastOutOfRange'
<1>. /\ kind' = kind /\ method' = method /\ near' = near /\ Serving /\ r \notin near
     /\ Len(seen) \in Nat /\ Len(seen') = Len(seen) + 1 /\ pc = "call"
  BY LooksAtNew DEF Looks, args, Drops
<1>0. kind = "range" /\ method \in {"hnsw", "sptag", "spann"}
  BY RangeScan DEF Drops
<1>1. StopAfter[method] \in Nat \ {0} /\ misses \in Nat
  BY <1>0, ScanAssumption, SeenFacts DEF ScanInv, TypeOK
<1>2. PICK j \in 1 .. Len(seen) : seen[j] \in near
  BY <1>0 DEF ScanInv, KnowsInRange
<1>3. misses <= Len(seen) /\ \A k \in Len(seen) - misses + 1 .. Len(seen) : seen[k] \notin near
  BY <1>0 DEF ScanInv, CountsMisses
<1>4. j <= Len(seen) - misses
  BY <1>1, <1>2, <1>3
<1>5. Len(seen') > StopAfter[method] /\ misses + 1 >= StopAfter[method]
  <2>1. misses + 1 >= StopAfter[method]
    BY DEF Stops
  <2>. QED  BY <1>1, <1>2, <1>4, <2>1
<1>6. ASSUME NEW k \in Len(seen') - StopAfter[method] + 1 .. Len(seen')
      PROVE  seen'[k] \notin near
  <2>1. CASE k = Len(seen) + 1
    BY <2>1, LooksAtNew
  <2>2. CASE k # Len(seen) + 1
    <3>1. k \in 1 .. Len(seen) /\ k \in Len(seen) - misses + 1 .. Len(seen)
      BY <1>1, <1>3, <1>5, <2>2
    <3>. QED  BY <1>3, <3>1, LooksAtNew
  <2>. QED  BY <2>1, <2>2
<1>. QED  BY <1>0, <1>5, <1>6 DEF LastOutOfRange

\* Rows read ahead that remain behind a row out of range are out of range.
LEMMA DropsLeaveNone ==
  ASSUME ScanInv, NEW r, Looks(r), Drops(r)
  PROVE  LeavesNoneBehind'
<1>. /\ kind' = kind /\ method' = method /\ near' = near /\ Serving /\ Serving'
     /\ r \notin near /\ ~Ordered /\ ~Ordered' /\ readAhead' = readAhead
  BY LooksAtNew DEF Looks, args, Drops, Ordered
<1>0. kind = "range"
  BY RangeScan
<1>1. near \subseteq Row /\ Ahead \subseteq Row /\ r \in Row
  BY AheadFacts DEF ScanInv, TypeOK, Looks
<1>2. Range(returned') = Range(seen') \cap near
  BY <1>0, DropsInOrder DEF ReturnsWhatIsInRange
<1>3. ASSUME NEW s \in readAhead \cap near
      PROVE  s \in Range(returned')
  <2>1. s \in Ahead' \cup Range(seen')
    BY LooksInOrder DEF ReadAheadIsKept
  <2>2. s \notin Ahead'
    <3>. SUFFICES ASSUME s \in Ahead'
                  PROVE  FALSE
      OBVIOUS
    <3>1. r \in Bottoms(Ahead) /\ s \in Ahead
      BY DEF Looks
    <3>2. ~Nearer(s, r)
      BY <3>1 DEF Bottoms
    <3>3. Nearer(s, r)
      BY <1>0, <1>1 DEF ScanInv, NearIsBall
    <3>. QED  BY <3>2, <3>3
  <2>. QED  BY <1>2, <2>1, <2>2
<1>. QED  BY <1>3 DEF LeavesNoneBehind

LEMMA NotFinished ==
  ASSUME pc' # "idle" \/ outcome' # NoRow \/ first'
  PROVE  GivesUpWithReason' /\ LeavesNoneBehind'
BY DEF GivesUpWithReason, LeavesNoneBehind, Finished

LEMMA GivesGoesOn ==
  ASSUME ScanInv, NEW r, Looks(r), Gives(r)
  PROVE  GivesUpWithReason' /\ LeavesNoneBehind'
<1>1. outcome' = r /\ r \in Row
  BY DEF Gives, Return, Looks
<1>. QED  BY <1>1, NotFinished, ScanAssumption

LEMMA NotHnsw ==
  ASSUME method' # "hnsw"
  PROVE  KeepsNearest' /\ InOrderMeans'
BY DEF KeepsNearest, InOrderMeans

-----------------------------------------------------------------------------
(* sptag: rows of the iterator.                                            *)

LEMMA SptagRowKeeps ==
  ASSUME ScanInv, NEW r \in Row, SptagRow(r)
  PROVE  ScanInv'
<1>. /\ method = "sptag" /\ method' = method /\ pc = "call" /\ open' = open
     /\ workSpace' = workSpace /\ paused' = paused /\ queue' = queue
     /\ xsInorder' = xsInorder /\ first' = first
  BY DEF SptagRow, InLoop, Yield, args
<1>0. queue \subseteq Row /\ xsInorder \in BOOLEAN /\ inRange \in BOOLEAN
  BY DEF ScanInv, TypeOK
<1>1. CASE Ordered /\ Return(r) /\ inRange' = inRange /\ misses' = misses
  <2>1. Looks(r) /\ Gives(r)
    BY <1>1 DEF SptagRow, InLoop, Yield, LookAt, Looks, Gives, Return, Ahead, args
  <2>2. KnowsInRange'
    BY <1>0, <1>1, <2>1, KnowsRange DEF Ordered
  <2>. QED  BY <1>0, <1>1, <2>1, <2>2, GivesGoesOn, NotHnsw, RowKeeps DEF MethodPart
<1>2. CASE ~Ordered /\ r \in near /\ inRange' = TRUE /\ Return(r) /\ misses' = misses
  <2>1. Looks(r) /\ Gives(r)
    BY <1>2 DEF SptagRow, InLoop, Yield, LookAt, Looks, Gives, Return, Ahead, args
  <2>2. KnowsInRange'
    BY <1>2, <2>1, KnowsRange
  <2>. QED  BY <1>0, <1>2, <2>1, <2>2, GivesGoesOn, NotHnsw, RowKeeps DEF MethodPart
<1>3. CASE ~Ordered /\ r \notin near /\ Miss
  <2>1. Looks(r) /\ Drops(r) /\ misses' = misses + 1 /\ inRange' = inRange
    BY <1>3 DEF SptagRow, InLoop, Yield, LookAt, Looks, Drops, Miss, Continue,
                ReturnFalse, Ahead, args
  <2>2. KnowsInRange'
    BY <1>0, <2>1, KnowsRange
  <2>3. GivesUpWithReason'
    <3>1. CASE inRange /\ Stops
      <4>1. LastOutOfRange'
        BY <2>1, <3>1, StopsForMisses
      <4>. QED  BY <4>1 DEF GivesUpWithReason
    <3>2. CASE ~(inRange /\ Stops)
      BY <1>3, <3>2, NotFinished DEF Miss, Continue
    <3>. QED  BY <3>1, <3>2
  <2>4. LeavesNoneBehind'
    BY <2>1, DropsLeaveNone
  <2>. QED  BY <1>0, <2>1, <2>2, <2>3, <2>4, NotHnsw, RowKeeps DEF MethodPart
<1>. QED  BY <1>1, <1>2, <1>3 DEF SptagRow

-----------------------------------------------------------------------------
(* hnsw: the claim of an ordered scan.                                     *)

LEMMA RememberFacts ==
  ASSUME ScanInv, NEW r \in Row, NEW size \in Nat \ {0}, Remember(r, size)
  PROVE  /\ queue' \subseteq queue \cup {r}
         /\ \E out \in SUBSET queue :
              /\ queue' = (queue \ out) \cup {r}
              /\ Cardinality(queue) # size => out = {}
              /\ Cardinality(queue) = size => \E t \in Tops(queue) : out = {t}
<1>1. PICK out \in Popped(size) : queue' = (queue \ out) \cup {r}
  BY DEF Remember
<1>2. /\ Cardinality(queue) # size => out = {}
      /\ Cardinality(queue) = size => \E t \in Tops(queue) : out = {t}
  BY DEF Popped
<1>3. out \in SUBSET queue
  BY <1>2 DEF Tops
<1>. QED  BY <1>1, <1>2, <1>3

\* How many rows before k were nearer.
NearerBefore(s, k) == {j \in 1 .. k - 1 : Nearer(s[j], s[k])}

LEMMA ClaimMoves ==
  ASSUME ScanInv, NEW r, Looks(r), Gives(r), method = "hnsw", Ordered
  PROVE  LET closer == {q \in Range(returned) : Nearer(q, r)} IN
         /\ IsFiniteSet(closer) /\ Cardinality(closer) \in Nat
         /\ InOrderMeans' <=>
              (xsInorder' <=> xsInorder \/ Cardinality(closer) >= OrderQueue)
<1>. DEFINE closer == {q \in Range(returned) : Nearer(q, r)}
            n == Len(returned)
            At == {j \in 1 .. n : Nearer(returned[j], r)}
<1>. /\ dist' = dist /\ kind' = kind /\ method' = method /\ Serving /\ Serving'
     /\ n \in Nat /\ returned \in Seq(Row) /\ returned = seen /\ IsFiniteSet(Row)
     /\ Ordered' /\ xsInorder \in BOOLEAN
  BY LooksAtNew, SeenFacts DEF Looks, args, ScanInv, OrderedReturnsAll, Ordered, TypeOK
<1>. ~first /\ ~first'
  BY DEF Serving
<1>1. IsFiniteSet(closer) /\ Cardinality(closer) \in Nat
  <2>1. closer \subseteq Row
    BY SeenFacts
  <2>. QED  BY <2>1, FS_Subset, FS_CardinalityType
<1>2. Cardinality(At) = Cardinality(closer)
  <2>1. Holds(returned, At, closer)
    BY SeenFacts DEF Holds
  <2>2. EachOnce(returned) /\ returned \in Seq(Row) /\ IsFiniteSet(Row)
    BY SeenFacts
  <2>3. At \in SUBSET (1 .. Len(returned))
    OBVIOUS
  <2>. HIDE DEF At, closer
  <2>. QED  BY ONLY <2>1, <2>2, <2>3, PositionsOf
<1>3. /\ Len(returned') = n + 1 /\ returned'[n + 1] = r
      /\ \A k \in 1 .. n : returned'[k] = returned[k]
      /\ \A k \in 1 .. Len(returned') : k = n + 1 \/ k \in 1 .. n
  BY GivesInOrder
<1>. DEFINE Before(k) == {j \in 1 .. k - 1 : dist[returned'[j]] < dist[returned'[k]]}
<1>4. \A k \in 1 .. n : Before(k) = NearerBefore(returned, k)
  BY <1>3 DEF NearerBefore, Nearer
<1>5. Before(n + 1) = At
  <2>1. 1 .. (n + 1) - 1 = 1 .. n
    OBVIOUS
  <2>2. \A j \in 1 .. n : dist[returned'[j]] < dist[returned'[n + 1]] <=> Nearer(returned[j], r)
    BY <1>3 DEF Nearer
  <2>. QED  BY <2>1, <2>2
<1>6. InOrderMeans <=>
        (xsInorder <=> \E k \in 1 .. n : Cardinality(NearerBefore(returned, k)) >= OrderQueue)
  BY DEF InOrderMeans, NearerBefore
<1>7. InOrderMeans' <=>
        (xsInorder' <=> \E k \in 1 .. n + 1 : Cardinality(Before(k)) >= OrderQueue)
  BY <1>3 DEF InOrderMeans, Nearer
<1>8. (\E k \in 1 .. n + 1 : Cardinality(Before(k)) >= OrderQueue)
      <=> \/ \E k \in 1 .. n : Cardinality(NearerBefore(returned, k)) >= OrderQueue
          \/ Cardinality(At) >= OrderQueue
  <2>1. \A k \in 1 .. n + 1 : k = n + 1 \/ k \in 1 .. n
    OBVIOUS
  <2>2. n + 1 \in 1 .. n + 1 /\ \A k \in 1 .. n : k \in 1 .. n + 1
    OBVIOUS
  <2>. HIDE DEF Before, At
  <2>. QED  BY <1>4, <1>5, <2>1, <2>2
<1>9. InOrderMeans
  BY DEF ScanInv
<1>. QED  BY <1>1, <1>2, <1>6, <1>7, <1>8, <1>9

LEMMA NearestAreKept ==
  ASSUME ScanInv, NEW r, Looks(r), Gives(r), method = "hnsw", Ordered,
         ~xsInorder, ~TurnsInOrder(r), Remember(r, OrderQueue)
  PROVE  KeepsNearest' /\ Cardinality({q \in Range(returned) : Nearer(q, r)}) < OrderQueue
<1>. DEFINE closer == {q \in Range(returned) : Nearer(q, r)}
<1>. /\ dist' = dist /\ kind' = kind /\ method' = method /\ Serving /\ Serving'
     /\ IsFiniteSet(Row) /\ r \in Row /\ r \notin Range(returned)
     /\ Range(returned') = Range(returned) \cup {r} /\ Range(returned) \subseteq Row
  BY LooksAtNew, GivesInOrder, SeenFacts DEF Looks, args, ScanInv, OrderedReturnsAll
<1>0. OrderQueue \in Nat \ {0}
  BY ScanAssumption
<1>1. /\ queue \subseteq Range(returned)
      /\ Cardinality(queue) <= OrderQueue
      /\ Cardinality(queue) < OrderQueue => Range(returned) \subseteq queue
      /\ \A s \in Range(returned) \ queue, q \in queue : ~Nearer(s, q)
  BY DEF ScanInv, KeepsNearest
<1>2. IsFiniteSet(queue) /\ Cardinality(queue) \in Nat /\ queue \subseteq Row
  <2>1. queue \subseteq Row
    BY AheadFacts DEF ScanInv
  <2>. QED  BY <2>1, FS_Subset, FS_CardinalityType
<1>3. dist \in [Row -> Int]
  BY ScanAssumption DEF ScanInv, TypeOK
<1>4. PICK out \in SUBSET queue :
        /\ queue' = (queue \ out) \cup {r}
        /\ Cardinality(queue) # OrderQueue => out = {}
        /\ Cardinality(queue) = OrderQueue => \E t \in Tops(queue) : out = {t}
  BY <1>0, RememberFacts
<1>5. CASE Cardinality(queue) < OrderQueue
  <2>1. queue' = queue \cup {r} /\ Range(returned) = queue
    BY <1>0, <1>1, <1>2, <1>4, <1>5
  <2>2. Cardinality(queue') = Cardinality(queue) + 1
    BY <1>2, <2>1, FS_AddElement
  <2>3. Cardinality(queue') <= OrderQueue
    BY <1>0, <1>2, <1>5, <2>2
  <2>4. closer \subseteq queue
    BY <2>1
  <2>5. Cardinality(closer) <= Cardinality(queue) /\ Cardinality(closer) \in Nat
    BY <1>2, <2>4, FS_Subset, FS_CardinalityType
  <2>6. KeepsNearest'
    BY <2>1, <2>3 DEF KeepsNearest
  <2>. QED  BY <1>0, <1>2, <1>5, <2>5, <2>6
<1>6. CASE Cardinality(queue) = OrderQueue
  <2>1. PICK t \in Tops(queue) : out = {t}
    BY <1>4, <1>6
  <2>2. t \in queue /\ \A q \in queue : ~Nearer(t, q)
    BY <2>1 DEF Tops
  <2>3. PICK q \in queue : ~Nearer(q, r)
    BY <1>6 DEF TurnsInOrder
  <2>4. Cardinality(queue') = OrderQueue
    <3>1. IsFiniteSet(queue \ {t}) /\ Cardinality(queue \ {t}) = Cardinality(queue) - 1
      BY <1>2, <2>2, FS_RemoveElement
    <3>2. r \notin queue \ {t}
      BY <1>1
    <3>3. Cardinality((queue \ {t}) \cup {r}) = Cardinality(queue \ {t}) + 1
      BY <3>1, <3>2, FS_AddElement
    <3>. QED  BY <1>0, <1>2, <1>4, <1>6, <2>1, <3>1, <3>3
  <2>5. closer \subseteq queue \ {q}
    BY <1>1, <1>2, <1>3, <2>3 DEF Nearer
  <2>6. Cardinality(closer) < OrderQueue
    <3>1. IsFiniteSet(queue \ {q}) /\ Cardinality(queue \ {q}) = Cardinality(queue) - 1
      BY <1>2, FS_RemoveElement
    <3>2. Cardinality(closer) <= Cardinality(queue \ {q}) /\ Cardinality(closer) \in Nat
      BY <2>5, <3>1, FS_Subset, FS_CardinalityType
    <3>. QED  BY <1>0, <1>2, <1>6, <3>1, <3>2
  <2>7. ASSUME NEW s \in Range(returned') \ queue', NEW p \in queue'
        PROVE  ~(dist[s] < dist[p])
    <3>1. s \in Row /\ p \in Row /\ s \in Range(returned) /\ s # r
      BY <1>1, <1>2, <1>4
    <3>2. dist[t] <= dist[s]
      <4>1. CASE s \in queue
        BY <1>4, <2>1, <4>1, <3>1, <1>2, <1>3
      <4>2. CASE s \notin queue
        BY <1>1, <1>2, <1>3, <2>2, <3>1, <4>2 DEF Nearer
      <4>. QED  BY <4>1, <4>2
    <3>3. dist[p] <= dist[t]
      <4>1. CASE p = r
        BY <1>2, <1>3, <2>2, <2>3, <4>1 DEF Nearer
      <4>2. CASE p # r
        BY <1>2, <1>3, <1>4, <2>2, <4>2 DEF Nearer
      <4>. QED  BY <4>1, <4>2
    <3>. QED  BY <1>2, <1>3, <2>2, <3>1, <3>2, <3>3
  <2>8. queue' \subseteq Range(returned')
    BY <1>1, <1>4
  <2>9. KeepsNearest'
    BY <1>0, <2>4, <2>7, <2>8 DEF KeepsNearest, Nearer
  <2>. QED  BY <2>6, <2>9
<1>. QED  BY <1>0, <1>1, <1>2, <1>5, <1>6

LEMMA OrderedRowKeeps ==
  ASSUME ScanInv, NEW r \in Row, OrderedRow(r)
  PROVE  ScanInv'
<1>. /\ method = "hnsw" /\ method' = method /\ kind' = kind /\ Ordered
     /\ open' = open /\ workSpace' = workSpace /\ paused' = paused
     /\ inRange' = inRange /\ misses' = misses
  BY DEF OrderedRow, InLoop, Yield, args
<1>0. /\ queue \subseteq Row /\ xsInorder \in BOOLEAN /\ inRange \in BOOLEAN
      /\ OrderQueue \in Nat \ {0}
  BY ScanAssumption DEF ScanInv, TypeOK
<1>1. Looks(r) /\ Gives(r)
  BY DEF OrderedRow, InLoop, Yield, LookAt, Looks, Gives, Return, Ahead, args
<1>2. KnowsInRange'
  BY DEF KnowsInRange, Ordered
<1>. DEFINE closer == {q \in Range(returned) : Nearer(q, r)}
<1>3. /\ IsFiniteSet(closer) /\ Cardinality(closer) \in Nat
      /\ InOrderMeans' <=> (xsInorder' <=> xsInorder \/ Cardinality(closer) >= OrderQueue)
  BY <1>1, ClaimMoves
<1>4. xsInorder' \in BOOLEAN /\ queue' \subseteq Row /\ KeepsNearest' /\ InOrderMeans'
  <2>1. CASE xsInorder /\ xsInorder' = xsInorder /\ queue' = queue
    BY <1>0, <1>3, <2>1 DEF KeepsNearest
  <2>2. CASE ~xsInorder /\ TurnsInOrder(r) /\ xsInorder' = TRUE /\ queue' = queue
    <3>1. queue \subseteq closer
      BY <1>1, <2>2, LooksAtNew DEF TurnsInOrder, ScanInv, KeepsNearest
    <3>2. Cardinality(queue) <= Cardinality(closer)
      BY <1>3, <3>1, FS_Subset
    <3>3. Cardinality(queue) = OrderQueue
      BY <2>2 DEF TurnsInOrder
    <3>. HIDE DEF closer
    <3>4. Cardinality(closer) >= OrderQueue
      BY <1>0, <1>3, <3>2, <3>3
    <3>. QED  BY <1>0, <1>3, <2>2, <3>4 DEF KeepsNearest
  <2>3. CASE ~xsInorder /\ ~TurnsInOrder(r) /\ Remember(r, OrderQueue) /\ xsInorder' = xsInorder
    <3>1. KeepsNearest' /\ Cardinality(closer) < OrderQueue
      BY <1>1, <2>3, NearestAreKept
    <3>2. queue' \subseteq queue \cup {r}
      BY <1>0, <2>3, RememberFacts
    <3>. HIDE DEF closer
    <3>3. ~(Cardinality(closer) >= OrderQueue)
      BY <1>0, <1>3, <3>1
    <3>. QED  BY <1>0, <1>3, <2>3, <3>1, <3>2, <3>3
  <2>. QED  BY <2>1, <2>2, <2>3 DEF OrderedRow
<1>5. GivesUpWithReason' /\ LeavesNoneBehind'
  BY <1>1, GivesGoesOn
<1>. QED  BY <1>0, <1>1, <1>2, <1>4, <1>5, RowKeeps DEF MethodPart

-----------------------------------------------------------------------------
(* hnsw: a range scan.                                                     *)

LEMMA NotOrdered ==
  ASSUME ~Ordered'
  PROVE  KeepsNearest' /\ InOrderMeans'
BY DEF KeepsNearest, InOrderMeans

LEMMA TrackFacts ==
  ASSUME ScanInv, NEW r \in Row, Track(r)
  PROVE  queue' \subseteq queue \cup {r} /\ queue' \subseteq Row
<1>1. RangeQueue \in Nat \ {0} /\ queue \subseteq Row
  BY ScanAssumption DEF ScanInv, TypeOK
<1>2. CASE queue' = queue
  BY <1>1, <1>2
<1>3. CASE Remember(r, RangeQueue)
  BY <1>1, <1>3, RememberFacts
<1>. QED  BY <1>2, <1>3 DEF Track

LEMMA InRangeRowKeeps ==
  ASSUME ScanInv, NEW r \in Row, InRangeRow(r)
  PROVE  ScanInv'
<1>. /\ method = "hnsw" /\ method' = method /\ kind' = kind /\ ~Ordered /\ ~Ordered'
     /\ open' = open /\ workSpace' = workSpace /\ paused' = paused
     /\ inRange' = TRUE /\ misses' = misses /\ xsInorder' = xsInorder
  BY DEF InRangeRow, InLoop, Yield, args, Ordered
<1>0. queue' \subseteq Row /\ xsInorder \in BOOLEAN
  BY TrackFacts DEF InRangeRow, ScanInv, TypeOK
<1>1. Looks(r) /\ Gives(r)
  BY DEF InRangeRow, InLoop, Yield, LookAt, Looks, Gives, Return, Ahead, args
<1>2. KnowsInRange'
  BY <1>1, KnowsRange
<1>. QED  BY <1>0, <1>1, <1>2, GivesGoesOn, NotOrdered, RowKeeps DEF MethodPart

LEMMA OutOfRangeRowKeeps ==
  ASSUME ScanInv, NEW r \in Row, OutOfRangeRow(r)
  PROVE  ScanInv'
<1>. /\ method = "hnsw" /\ method' = method /\ kind' = kind /\ ~Ordered /\ ~Ordered'
     /\ open' = open /\ workSpace' = workSpace /\ paused' = paused
     /\ inRange' = inRange /\ misses' = misses + 1 /\ xsInorder' = xsInorder
  BY DEF OutOfRangeRow, InLoop, Yield, args, Ordered, Miss
<1>0. /\ queue' \subseteq queue \cup {r} /\ queue' \subseteq Row
      /\ xsInorder \in BOOLEAN /\ inRange \in BOOLEAN
  BY TrackFacts DEF OutOfRangeRow, ScanInv, TypeOK
<1>1. Looks(r) /\ Drops(r)
  BY DEF OutOfRangeRow, InLoop, Yield, LookAt, Looks, Drops, Miss, Continue,
         ReturnFalse, Ahead, args
<1>2. KnowsInRange'
  <2>1. ASSUME kind = "range", ~inRange
        PROVE  queue' \subseteq Range(seen')
    <3>1. queue \subseteq Range(seen)
      BY <1>1, <2>1, LooksAtNew DEF ScanInv, KnowsInRange
    <3>. QED  BY <1>0, <1>1, <3>1, LooksAtNew
  <2>. QED  BY <1>0, <1>1, <2>1, KnowsRange
<1>3. GivesUpWithReason'
  <2>1. CASE inRange /\ Stops
    <3>1. LastOutOfRange'
      BY <1>1, <2>1, StopsForMisses
    <3>. QED  BY <3>1 DEF GivesUpWithReason
  <2>2. CASE ~(inRange /\ Stops)
    <3>1. pc' = pc /\ pc = "call"
      BY <2>2 DEF OutOfRangeRow, InLoop, Miss, Continue
    <3>. QED  BY <3>1, NotFinished
  <2>. QED  BY <2>1, <2>2
<1>4. LeavesNoneBehind'
  BY <1>1, DropsLeaveNone
<1>. QED  BY <1>0, <1>1, <1>2, <1>3, <1>4, NotOrdered, RowKeeps DEF MethodPart

\* Where hnsw gives up it has seen RangeQueue rows that are no farther.
LEMMA GiveUpKeeps ==
  ASSUME ScanInv, NEW r \in Row, GiveUp(r)
  PROVE  ScanInv'
<1>. /\ method = "hnsw" /\ method' = method /\ kind' = kind /\ ~Ordered /\ ~Ordered'
     /\ dist' = dist /\ near' = near
     /\ open' = open /\ workSpace' = workSpace /\ paused' = paused /\ ~inRange
     /\ inRange' = inRange /\ misses' = misses /\ xsInorder' = xsInorder /\ queue' = queue
     /\ returned' = returned /\ pc = "call"
  BY DEF GiveUp, InLoop, Yield, args, Ordered, ReturnFalse
<1>0. /\ queue \subseteq Row /\ near \subseteq Row
      /\ xsInorder \in BOOLEAN /\ inRange \in BOOLEAN
      /\ RangeQueue \in Nat \ {0} /\ IsFiniteSet(Row) /\ dist \in [Row -> Int]
  BY ScanAssumption DEF ScanInv, TypeOK
<1>1. Looks(r)
  BY DEF GiveUp, InLoop, Yield, LookAt, Looks, ReturnFalse, Ahead, args
<1>. /\ Serving /\ Len(seen) \in Nat /\ Len(seen') = Len(seen) + 1
     /\ seen \in Seq(Row) /\ EachOnce(seen)
  BY <1>1, LooksAtNew, SeenFacts
<1>2. kind = "range"
  BY RangeScan
<1>3. queue \subseteq Range(seen) /\ \A k \in 1 .. Len(seen) : seen[k] \notin near
  BY <1>2 DEF ScanInv, KnowsInRange
<1>4. /\ IsFiniteSet(queue) /\ Cardinality(queue) \in Nat
      /\ Cardinality(queue) >= RangeQueue /\ \A q \in queue : ~Nearer(r, q)
  <2>1. IsFiniteSet(queue) /\ Cardinality(queue) \in Nat
    BY <1>0, FS_Subset, FS_CardinalityType
  <2>2. ~(Cardinality(queue) < RangeQueue) /\ \A q \in queue : ~Nearer(r, q)
    BY DEF GiveUp, Approaches
  <2>. QED  BY <1>0, <2>1, <2>2
<1>5. r \notin near
  <2>1. queue # {}
    BY <1>0, <1>4, FS_EmptySet
  <2>2. PICK q \in queue : ~Nearer(r, q)
    BY <1>4, <2>1
  <2>3. q \notin near
    BY <1>3, SeenFacts
  <2>. QED  BY <1>0, <1>2, <2>2, <2>3 DEF ScanInv, NearIsBall
<1>6. Drops(r)
  BY <1>5 DEF GiveUp, Drops
<1>7. KnowsInRange'
  <2>1. queue' \subseteq Range(seen')
    BY <1>1, <1>3, LooksAtNew
  <2>. QED  BY <1>0, <1>1, <1>6, <2>1, KnowsRange
<1>8. returned = << >>
  <2>1. Range(returned) = {}
    BY <1>2, <1>3, SeenFacts DEF ScanInv, ReturnsWhatIsInRange
  <2>2. Len(returned) = 0 /\ returned \in Seq(Row)
    BY <2>1, SeenFacts
  <2>. QED  BY <2>2, EmptySeq
<1>. DEFINE P == {j \in 1 .. Len(seen) : ~Nearer(r, seen[j])}
            A == {seen[j] : j \in P}
<1>9. Cardinality(P) \in Nat /\ Cardinality(P) >= RangeQueue /\ Len(seen) >= Cardinality(P)
  <2>1. IsFiniteSet(A) /\ IsFiniteSet(P) /\ Cardinality(P) \in Nat /\ Cardinality(P) = Cardinality(A)
    <3>1. P \in SUBSET (1 .. Len(seen)) /\ Holds(seen, P, A)
      BY DEF Holds
    <3>2. IsFiniteSet(Row) /\ seen \in Seq(Row) /\ EachOnce(seen)
      BY <1>0
    <3>. HIDE DEF P, A
    <3>. QED  BY ONLY <3>1, <3>2, PositionsOf
  <2>2. queue \subseteq A
    <3>. SUFFICES ASSUME NEW q \in queue
                  PROVE  q \in A
      OBVIOUS
    <3>1. PICK k \in 1 .. Len(seen) : seen[k] = q
      BY <1>3, SeenFacts
    <3>2. k \in P
      BY <1>4, <3>1
    <3>. QED  BY <3>1, <3>2
  <2>3. Cardinality(queue) <= Cardinality(A)
    BY <2>1, <2>2, FS_Subset
  <2>4. Cardinality(P) <= Len(seen)
    <3>1. IsFiniteSet(1 .. Len(seen)) /\ Cardinality(1 .. Len(seen)) = Len(seen)
      <4>1. 1 \in Int /\ Len(seen) \in Int
        OBVIOUS
      <4>2. \A a, b \in Int : IsFiniteSet(a .. b) /\ Cardinality(a .. b) = IF a > b THEN 0 ELSE b - a + 1
        BY FS_Interval
      <4>3. /\ IsFiniteSet(1 .. Len(seen))
            /\ Cardinality(1 .. Len(seen)) = IF 1 > Len(seen) THEN 0 ELSE Len(seen) - 1 + 1
        BY <4>1, <4>2
      <4>. QED  BY <4>3
    <3>2. P \in SUBSET (1 .. Len(seen))
      OBVIOUS
    <3>. HIDE DEF P
    <3>3. Cardinality(P) <= Cardinality(1 .. Len(seen))
      BY <3>1, <3>2, FS_Subset
    <3>. QED  BY <3>1, <3>3
  <2>. HIDE DEF P, A
  <2>. QED  BY <1>0, <1>4, <2>1, <2>3, <2>4
<1>10. NoApproach'
  <2>. DEFINE n == Len(seen) + 1
              Q == {j \in 1 .. n - 1 : ~(dist[seen'[n]] < dist[seen'[j]])}
  <2>1. Q = P
    <3>1. 1 .. n - 1 = 1 .. Len(seen)
      OBVIOUS
    <3>2. \A j \in 1 .. Len(seen) : seen'[j] = seen[j] /\ seen'[n] = r
      BY <1>1, LooksAtNew
    <3>. QED  BY <3>1, <3>2 DEF Nearer
  <2>2. Len(seen') > RangeQueue
    <3>. HIDE DEF P
    <3>. QED  BY <1>0, <1>9
  <2>3. NoApproach' <=>
          /\ kind' = "range" /\ Len(seen') > RangeQueue /\ returned' = << >>
          /\ Cardinality(Q) >= RangeQueue
    BY DEF NoApproach, Nearer
  <2>. HIDE DEF P, Q
  <2>. QED  BY <1>2, <1>8, <1>9, <2>1, <2>2, <2>3
<1>11. GivesUpWithReason'
  BY <1>10 DEF GivesUpWithReason
<1>12. LeavesNoneBehind'
  BY <1>1, <1>6, DropsLeaveNone
<1>. QED  BY <1>0, <1>1, <1>6, <1>7, <1>11, <1>12, NotOrdered, RowKeeps DEF MethodPart

-----------------------------------------------------------------------------
(* spann and pase: what was read ahead comes first.                        *)

LEMMA SpannRowKeeps ==
  ASSUME ScanInv, NEW r \in Row, SpannRow(r)
  PROVE  ScanInv'
<1>. /\ method = "spann" /\ method' = method /\ kind' = kind /\ dist' = dist /\ near' = near
     /\ open' = open /\ workSpace' = workSpace /\ paused' = paused
     /\ readAhead' = readAhead /\ xsInorder' = xsInorder
  BY DEF SpannRow, InLoop, Take, Yield, source, args
<1>. Ahead = queue /\ Ahead' = queue'
  BY DEF Ahead
<1>0. queue' \subseteq Row /\ xsInorder \in BOOLEAN /\ inRange \in BOOLEAN
  BY DEF SpannRow, Take, ScanInv, TypeOK
<1>1. ASSUME pc' \in {"call", "idle"}
      PROVE  Looks(r)
  BY <1>1 DEF SpannRow, InLoop, Take, NearestFirst, Yield, LookAt, Looks, source, args
<1>2. CASE Ordered /\ Return(r) /\ inRange' = inRange /\ misses' = misses
  <2>1. Looks(r) /\ Gives(r)
    BY <1>1, <1>2 DEF Gives, Return
  <2>2. KnowsInRange'
    BY <1>2 DEF KnowsInRange, Ordered
  <2>. QED  BY <1>0, <1>2, <2>1, <2>2, GivesGoesOn, NotHnsw, RowKeeps DEF MethodPart
<1>3. CASE ~Ordered /\ r \in near /\ inRange' = TRUE /\ Return(r) /\ misses' = misses
  <2>1. Looks(r) /\ Gives(r)
    BY <1>1, <1>3 DEF Gives, Return
  <2>2. KnowsInRange'
    BY <1>3, <2>1, KnowsRange
  <2>. QED  BY <1>0, <1>3, <2>1, <2>2, GivesGoesOn, NotHnsw, RowKeeps DEF MethodPart
<1>4. CASE ~Ordered /\ r \notin near /\ inRange /\ Miss
  <2>1. Looks(r) /\ Drops(r) /\ misses' = misses + 1 /\ inRange' = inRange
    BY <1>1, <1>4 DEF SpannRow, InLoop, Drops, Miss, Continue, ReturnFalse
  <2>2. KnowsInRange'
    BY <1>0, <2>1, KnowsRange
  <2>3. GivesUpWithReason'
    <3>1. CASE Stops
      <4>1. LastOutOfRange'
        BY <1>4, <2>1, <3>1, StopsForMisses
      <4>. QED  BY <4>1 DEF GivesUpWithReason
    <3>2. CASE ~Stops
      <4>1. pc' = pc /\ pc = "call"
        BY <1>4, <3>2 DEF SpannRow, InLoop, Miss, Continue
      <4>. QED  BY <4>1, NotFinished
    <3>. QED  BY <3>1, <3>2
  <2>. QED  BY <1>0, <2>1, <2>2, <2>3, DropsLeaveNone, NotHnsw, RowKeeps DEF MethodPart
<1>5. CASE /\ ~Ordered /\ r \notin near /\ ~inRange
           /\ IF queue' = {} THEN ReturnFalse ELSE Continue
           /\ inRange' = inRange /\ misses' = misses
  <2>1. Looks(r) /\ Drops(r)
    BY <1>1, <1>5 DEF SpannRow, InLoop, Drops, Continue, ReturnFalse
  <2>2. KnowsInRange'
    BY <1>0, <1>5, <2>1, KnowsRange
  <2>3. GivesUpWithReason'
    <3>1. CASE queue' = {}
      <4>1. kind = "range" /\ Serving /\ Serving'
        BY <1>5, <2>1, LooksAtNew, RangeScan
      <4>2. \A k \in 1 .. Len(seen') : seen'[k] \notin near
        BY <1>5, <2>2, <4>1 DEF KnowsInRange
      <4>3. readAhead' \subseteq Range(seen')
        BY <2>1, <3>1, <4>1, LooksInOrder DEF ReadAheadIsKept
      <4>4. \A x \in Range(seen') : x \notin near
        BY <4>2, <2>1, LooksAtNew, RangeFacts
      <4>5. Range(returned') = {}
        BY <2>1, <4>1, <4>4, DropsInOrder DEF ReturnsWhatIsInRange
      <4>6. returned' = << >>
        <5>1. returned' \in Seq(Row)
          BY <2>1, SeenFacts DEF Drops
        <5>2. Len(returned') = 0
          BY <4>5, <5>1, RangeFacts
        <5>. QED  BY <5>1, <5>2, EmptySeq
      <4>. QED  BY <4>1, <4>3, <4>4, <4>6 DEF GivesUpWithReason, NoneAhead
    <3>2. CASE queue' # {}
      <4>1. pc' = pc /\ pc = "call"
        BY <1>5, <3>2 DEF SpannRow, InLoop, Continue
      <4>. QED  BY <4>1, NotFinished
    <3>. QED  BY <3>1, <3>2
  <2>. QED  BY <1>0, <1>5, <2>1, <2>2, <2>3, DropsLeaveNone, NotHnsw, RowKeeps DEF MethodPart
<1>. QED  BY <1>2, <1>3, <1>4, <1>5 DEF SpannRow

LEMMA PaseRowKeeps ==
  ASSUME ScanInv, NEW r \in Row, PaseRow(r)
  PROVE  ScanInv'
<1>. /\ method = "pase" /\ method' = method /\ kind' = kind /\ pc = "call"
     /\ open' = open /\ workSpace' = workSpace /\ paused' = paused
     /\ inRange' = inRange /\ misses' = misses /\ xsInorder' = xsInorder
     /\ queue' = queue \ {r}
  BY DEF PaseRow, InLoop, source, args
<1>. Ahead = queue /\ Ahead' = queue'
  BY DEF Ahead
<1>0. queue' \subseteq Row /\ xsInorder \in BOOLEAN /\ inRange \in BOOLEAN
  BY DEF ScanInv, TypeOK
<1>1. Looks(r)
  BY DEF PaseRow, InLoop, LookAt, Return, Looks, source, args
<1>2. Ordered
  BY <1>1, LooksAtNew, RangeScan
<1>3. Gives(r)
  BY <1>2 DEF PaseRow, Gives
<1>4. KnowsInRange'
  BY <1>2 DEF KnowsInRange, Ordered
<1>. QED  BY <1>0, <1>1, <1>3, <1>4, GivesGoesOn, NotHnsw, RowKeeps DEF MethodPart

-----------------------------------------------------------------------------
(* The calls of gettuple that find no more rows.                           *)

LEMMA ClaimStays ==
  ASSUME InOrderMeans, method' = method, kind' = kind, dist' = dist,
         first' = first, xsInorder' = xsInorder, returned' = returned
  PROVE  InOrderMeans'
BY DEF InOrderMeans, Nearer, Ordered

LEMMA RanOutKeeps ==
  ASSUME ScanInv, pc = "call", method # "plain", Ahead = {}, ReturnFalse,
         UNCHANGED <<args, first, workSpace, open, inRange, queue, xsInorder,
                     pending, readAhead, misses, seen>>,
         paused' \in BOOLEAN, paused => paused',
         GivesUpWithReason'
  PROVE  ScanInv'
<1>. TypeOK /\ BeginsAnew /\ ClosesIterators
  BY DEF ScanInv
<1>. /\ method' = method /\ kind' = kind /\ argNull' = argNull /\ dist' = dist
     /\ near' = near /\ xsRecheck' = xsRecheck /\ first' = first /\ workSpace' = workSpace
     /\ open' = open /\ inRange' = inRange /\ queue' = queue /\ xsInorder' = xsInorder
     /\ pending' = pending /\ readAhead' = readAhead /\ misses' = misses /\ seen' = seen
     /\ returned' = returned /\ pc' = "idle" /\ outcome' = NoRow
  BY DEF args, ReturnFalse
<1>. Serving /\ Serving' /\ Ahead' = Ahead
  BY DEF BeginsAnew, Serving, Ahead
<1>1. TypeOK'
  BY DEF TypeOK
<1>2. BeginsAnew' /\ ClosesIterators'
  BY DEF BeginsAnew, Supported, HasKey, ClosesIterators
<1>3. YieldsOnce' /\ ReadAheadIsKept' /\ ReadAheadComesFirst'
  BY DEF ScanInv, YieldsOnce, ReadAheadIsKept, ReadAheadComesFirst, Nearer
<1>4. PendsBeyond' /\ ReadsUntilPaused'
  BY DEF ScanInv, ReadsUntilPaused, PendsBeyond, AskedForNoMore
<1>5. CountsMisses' /\ NearIsBall'
  BY DEF ScanInv, CountsMisses, NearIsBall, Nearer
<1>6. KnowsInRange' /\ OrderedReturnsAll' /\ ReturnsWhatIsInRange'
  BY DEF ScanInv, KnowsInRange, OrderedReturnsAll, ReturnsWhatIsInRange, Ordered
<1>7. KeepsNearest' /\ InOrderMeans'
  <2>1. KeepsNearest'
    BY DEF ScanInv, KeepsNearest, Nearer, Ordered
  <2>2. InOrderMeans'
    BY ClaimStays DEF ScanInv
  <2>. QED  BY <2>1, <2>2
<1>8. LeavesNoneBehind'
  <2>1. readAhead \subseteq Range(seen)
    BY DEF ScanInv, ReadAheadIsKept
  <2>2. CASE Ordered
    <3>1. returned = seen
      BY <2>2 DEF ScanInv, OrderedReturnsAll
    <3>. QED  BY <2>1, <2>2, <3>1 DEF LeavesNoneBehind, Ordered
  <2>3. CASE ~Ordered
    <3>1. Range(returned) = Range(seen) \cap near
      BY <2>3, RangeScan DEF ScanInv, ReturnsWhatIsInRange
    <3>. QED  BY <2>1, <2>3, <3>1 DEF LeavesNoneBehind, Ordered
  <2>. QED  BY <2>2, <2>3
<1>. QED  BY <1>1, <1>2, <1>3, <1>4, <1>5, <1>6, <1>7, <1>8 DEF ScanInv

LEMMA ExhaustedKeeps ==
  ASSUME ScanInv, NEW m \in {"hnsw", "sptag"}, Exhausted(m)
  PROVE  ScanInv'
<1>1. /\ pc = "call" /\ method = m /\ ReturnFalse /\ pending = {} /\ pending' = pending
      /\ UNCHANGED <<args, first, workSpace, open, inRange, queue, xsInorder,
                     pending, readAhead, misses, seen>>
      /\ paused' = paused
  BY DEF Exhausted, InLoop, source
<1>2. GivesUpWithReason'
  BY <1>1 DEF GivesUpWithReason
<1>3. Ahead = {} /\ method # "plain" /\ paused \in BOOLEAN
  BY <1>1 DEF Ahead, ScanInv, TypeOK
<1>. QED  BY <1>1, <1>2, <1>3, RanOutKeeps

LEMMA PaseEndKeeps ==
  ASSUME ScanInv, PaseEnd
  PROVE  ScanInv'
<1>1. /\ pc = "call" /\ method = "pase" /\ ReturnFalse /\ queue = {}
      /\ UNCHANGED <<args, first, workSpace, open, inRange, queue, xsInorder,
                     pending, readAhead, misses, seen>>
      /\ paused' = paused
  BY DEF PaseEnd, InLoop, source
<1>2. Ahead = {} /\ paused \in BOOLEAN
  BY <1>1 DEF Ahead, ScanInv, TypeOK
<1>3. pending = {} \/ AskedForNoMore
  BY <1>1 DEF ScanInv, PendsBeyond
<1>4. GivesUpWithReason'
  BY <1>1, <1>3 DEF GivesUpWithReason, AskedForNoMore, args
<1>. QED  BY <1>1, <1>2, <1>4, RanOutKeeps

LEMMA SpannDryKeeps ==
  ASSUME ScanInv, SpannDry
  PROVE  ScanInv'
<1>1. /\ pc = "call" /\ method = "spann" /\ ReturnFalse /\ queue = {} /\ NoResult
      /\ UNCHANGED <<args, first, workSpace, open, inRange, queue, xsInorder,
                     pending, readAhead, misses, seen>>
      /\ method' = method /\ readAhead' = readAhead /\ pending' = pending
  BY DEF SpannDry, InLoop, args
<1>2. Ahead = {} /\ paused \in BOOLEAN /\ Serving
  BY <1>1 DEF Ahead, ScanInv, TypeOK, BeginsAnew, Serving
<1>3. paused' \in BOOLEAN /\ (paused => paused')
  BY <1>1, <1>2 DEF NoResult
<1>4. GivesUpWithReason'
  <2>1. CASE pending = {}
    BY <1>1, <2>1 DEF GivesUpWithReason
  <2>2. CASE ~paused /\ paused' = TRUE /\ pending # {}
    <3>1. Cardinality(readAhead) >= ReadAhead["spann"]
      BY <1>1, <1>2, <2>2 DEF ScanInv, ReadsUntilPaused
    <3>. QED  BY <1>1, <2>2, <3>1 DEF GivesUpWithReason, PausedLate
  <2>. QED  BY <1>1, <2>1, <2>2 DEF NoResult
<1>. QED  BY <1>1, <1>2, <1>3, <1>4, RanOutKeeps

LEMMA LaterCallKeeps ==
  ASSUME ScanInv, LaterCall, method # "plain"
  PROVE  ScanInv'
<1>. TypeOK /\ BeginsAnew /\ ClosesIterators
  BY DEF ScanInv
<1>. /\ method' = method /\ kind' = kind /\ argNull' = argNull /\ dist' = dist
     /\ near' = near /\ xsRecheck' = xsRecheck /\ first' = first /\ workSpace' = workSpace
     /\ open' = open /\ inRange' = inRange /\ queue' = queue /\ xsInorder' = xsInorder
     /\ pending' = pending /\ readAhead' = readAhead /\ misses' = 0 /\ seen' = seen
     /\ returned' = returned /\ pc' = "call" /\ outcome' = outcome /\ paused' = paused
     /\ pc = "idle" /\ ~first
  BY DEF LaterCall, args, source
<1>. Serving /\ Serving' /\ Ahead' = Ahead
  BY DEF BeginsAnew, Serving, Ahead
<1>. Len(seen) \in Nat /\ Cardinality(Row) \in Nat
  BY SeenFacts
<1>1. TypeOK'
  <2>1. misses' \in 0 .. Cardinality(Row)
    OBVIOUS
  <2>. QED  BY <2>1 DEF TypeOK
<1>2. BeginsAnew' /\ ClosesIterators'
  BY DEF BeginsAnew, Supported, HasKey, ClosesIterators
<1>3. YieldsOnce' /\ ReadAheadIsKept' /\ ReadAheadComesFirst'
  BY DEF ScanInv, YieldsOnce, ReadAheadIsKept, ReadAheadComesFirst, Nearer
<1>4. PendsBeyond' /\ ReadsUntilPaused'
  BY DEF ScanInv, ReadsUntilPaused, PendsBeyond, AskedForNoMore
<1>5. CountsMisses' /\ NearIsBall'
  BY DEF ScanInv, CountsMisses, NearIsBall, Nearer
<1>6. KnowsInRange' /\ OrderedReturnsAll' /\ ReturnsWhatIsInRange'
  BY DEF ScanInv, KnowsInRange, OrderedReturnsAll, ReturnsWhatIsInRange, Ordered
<1>7. KeepsNearest' /\ InOrderMeans'
  <2>1. KeepsNearest'
    BY DEF ScanInv, KeepsNearest, Nearer, Ordered
  <2>2. InOrderMeans'
    BY ClaimStays DEF ScanInv
  <2>. QED  BY <2>1, <2>2
<1>8. GivesUpWithReason' /\ LeavesNoneBehind'
  BY NotFinished
<1>. QED  BY <1>1, <1>2, <1>3, <1>4, <1>5, <1>6, <1>7, <1>8 DEF ScanInv

-----------------------------------------------------------------------------
(* A scan that begins, begins anew or ends.                                *)

\* Nothing has been looked at yet.
Blank == seen = << >> /\ returned = << >>

LEMMA BeginsKeeps ==
  ASSUME TypeOK', BeginsAnew', ClosesIterators', Blank', first',
         (pending \cap readAhead = {})', PendsBeyond', NearIsBall'
  PROVE  ScanInv'
<1>. seen' = << >> /\ returned' = << >> /\ Range(<< >>) = {}
  BY NothingFacts DEF Blank
<1>1. ~Serving' /\ ~Finished' /\ pc' \notin {"prefetch", "call"}
  BY DEF Serving, Finished, BeginsAnew
<1>2. YieldsOnce' /\ ReadAheadComesFirst' /\ OrderedReturnsAll' /\ ReturnsWhatIsInRange'
  BY DEF YieldsOnce, ReadAheadComesFirst, OrderedReturnsAll, ReturnsWhatIsInRange
<1>3. ReadAheadIsKept' /\ ReadsUntilPaused' /\ CountsMisses' /\ KnowsInRange' /\ KeepsNearest'
  BY <1>1 DEF ReadAheadIsKept, ReadsUntilPaused, CountsMisses, KnowsInRange, KeepsNearest
<1>4. InOrderMeans' /\ GivesUpWithReason' /\ LeavesNoneBehind'
  BY <1>1 DEF InOrderMeans, GivesUpWithReason, LeavesNoneBehind
<1>. QED  BY <1>2, <1>3, <1>4 DEF ScanInv

LEMMA InitKeeps ==
  ASSUME InitScan, NearIsBall
  PROVE  ScanInv
<1>. /\ seen = << >> /\ returned = << >> /\ Range(<< >>) = {} /\ first
     /\ pending = {} /\ readAhead = {} /\ pc = "unopened"
  BY NothingFacts DEF InitScan
<1>1. TypeOK
  <2>1. Cardinality(Row) \in Nat
    BY ScanAssumption, FS_CardinalityType
  <2>2. misses \in 0 .. Cardinality(Row) /\ open \in 0 .. 1
    BY <2>1 DEF InitScan
  <2>3. seen \in Seq(Row) /\ returned \in Seq(Row)
    BY EmptySeq
  <2>. QED  BY <2>2, <2>3 DEF InitScan, TypeOK
<1>2. ~Serving /\ ~Finished
  BY DEF Serving, Finished
<1>3. BeginsAnew /\ ClosesIterators /\ PendsBeyond
  BY <1>2 DEF InitScan, BeginsAnew, ClosesIterators, PendsBeyond
<1>4. YieldsOnce /\ ReadAheadComesFirst /\ OrderedReturnsAll /\ ReturnsWhatIsInRange
  BY DEF YieldsOnce, ReadAheadComesFirst, OrderedReturnsAll, ReturnsWhatIsInRange
<1>5. ReadAheadIsKept /\ ReadsUntilPaused /\ CountsMisses /\ KnowsInRange /\ KeepsNearest
  BY <1>2 DEF ReadAheadIsKept, ReadsUntilPaused, CountsMisses, KnowsInRange, KeepsNearest
<1>6. InOrderMeans /\ GivesUpWithReason /\ LeavesNoneBehind
  BY <1>2 DEF InOrderMeans, GivesUpWithReason, LeavesNoneBehind
<1>. QED  BY <1>1, <1>3, <1>4, <1>5, <1>6 DEF ScanInv

LEMMA CloseFacts ==
  ASSUME TypeOK, ClosesIterators, Close
  PROVE  open' = 0
BY DEF TypeOK, ClosesIterators, Close

LEMMA BeginScanKeeps ==
  ASSUME ScanInv, BeginScan
  PROVE  ScanInv'
<1>. TypeOK /\ BeginsAnew /\ ClosesIterators /\ NearIsBall /\ PendsBeyond /\ YieldsOnce
  BY DEF ScanInv
<1>. /\ method' = method /\ kind' = kind /\ argNull' = argNull /\ dist' = dist
     /\ near' = near /\ xsRecheck' = xsRecheck /\ open' = open /\ inRange' = inRange
     /\ queue' = queue /\ xsInorder' = xsInorder /\ pending' = pending /\ paused' = paused
     /\ readAhead' = readAhead /\ misses' = misses /\ seen' = seen /\ returned' = returned
     /\ outcome' = outcome /\ pc' = "idle" /\ first' = TRUE /\ workSpace' = "null"
     /\ pc = "unopened"
  BY DEF BeginScan, args, source
<1>1. TypeOK'
  BY DEF TypeOK
<1>2. /\ BeginsAnew' /\ ClosesIterators' /\ Blank' /\ pending' \cap readAhead' = {}
      /\ PendsBeyond'
  BY DEF BeginsAnew, Supported, ClosesIterators, Blank, PendsBeyond, AskedForNoMore, Serving, YieldsOnce
<1>3. NearIsBall'
  BY DEF NearIsBall, Nearer
<1>. QED  BY <1>1, <1>2, <1>3, BeginsKeeps

LEMMA NewKeysKeeps ==
  ASSUME ScanInv, NewKeys
  PROVE  ScanInv' /\ first'
<1>. TypeOK /\ BeginsAnew /\ ClosesIterators
  BY DEF ScanInv
<1>1. PICK d \in [Row -> Distance], null \in NullArgs :
        \E within \in Balls(d) : ReScan(d, null, within)
  BY DEF NewKeys
<1>2. PICK within \in Balls(d) : ReScan(d, null, within)
  BY <1>1
<1>. /\ method' = method /\ kind' = kind /\ argNull' = null /\ dist' = d
     /\ near' = within /\ xsRecheck' = xsRecheck /\ inRange' = inRange
     /\ queue' = {} /\ xsInorder' = xsInorder /\ pending' = {} /\ paused' = FALSE
     /\ readAhead' = {} /\ misses' = misses /\ seen' = << >> /\ returned' = << >>
     /\ outcome' = NoRow /\ pc' \in {"idle", "crashed"} /\ first' = TRUE
     /\ workSpace' = "null" /\ Close
  BY <1>2 DEF ReScan, DropWorkspace
<1>3. within \in SUBSET Row
  BY DEF Balls
<1>4. open' = 0
  BY CloseFacts
<1>5. TypeOK'
  <2>1. seen' \in Seq(Row) /\ returned' \in Seq(Row) /\ open' \in 0 .. 1
    BY <1>4, EmptySeq
  <2>2. null \in BOOLEAN
    BY ScanAssumption
  <2>. QED  BY <1>3, <2>1, <2>2 DEF TypeOK
<1>6. /\ BeginsAnew' /\ ClosesIterators' /\ Blank' /\ pending' \cap readAhead' = {}
      /\ PendsBeyond'
  BY <1>4 DEF BeginsAnew, Supported, ClosesIterators, Blank, PendsBeyond, Serving
<1>7. NearIsBall'
  <2>1. ASSUME kind = "range", NEW r \in within, NEW s \in Row \ within
        PROVE  d[r] < d[s]
    <3>1. Balls(d) = {{}} \cup {{q \in Row : d[q] <= range} : range \in Distance}
      BY <2>1 DEF Balls
    <3>2. PICK range \in Distance : within = {q \in Row : d[q] <= range}
      BY <2>1, <3>1
    <3>3. d[r] \in Int /\ d[s] \in Int /\ range \in Int
      BY <1>3, ScanAssumption
    <3>. QED  BY <2>1, <3>2, <3>3
  <2>. QED  BY <2>1 DEF NearIsBall, Nearer
<1>. QED  BY <1>5, <1>6, <1>7, BeginsKeeps

LEMMA NothingToFindKeeps ==
  ASSUME ScanInv, NothingToFind
  PROVE  ScanInv' /\ first'
<1>. TypeOK /\ BeginsAnew /\ ClosesIterators /\ NearIsBall /\ PendsBeyond /\ YieldsOnce
  BY DEF ScanInv
<1>. /\ method' = method /\ kind' = kind /\ argNull' = argNull /\ dist' = dist
     /\ near' = near /\ xsRecheck' = xsRecheck /\ open' = open /\ inRange' = inRange
     /\ queue' = {} /\ xsInorder' = xsInorder /\ pending' = pending /\ paused' = paused
     /\ readAhead' = readAhead /\ misses' = misses /\ seen' = seen /\ returned' = returned
     /\ outcome' = NoRow /\ pc' \in {"failed", "idle"} /\ first /\ first' = first
     /\ workSpace' = "bare" /\ pc = "idle"
  BY DEF NothingToFind, args, source
<1>1. TypeOK'
  BY DEF TypeOK
<1>2. /\ BeginsAnew' /\ ClosesIterators' /\ Blank' /\ pending' \cap readAhead' = {}
      /\ PendsBeyond'
  BY DEF BeginsAnew, Supported, ClosesIterators, Blank, PendsBeyond, AskedForNoMore, Serving, YieldsOnce
<1>3. NearIsBall'
  BY DEF NearIsBall, Nearer
<1>. QED  BY <1>1, <1>2, <1>3, BeginsKeeps

LEMMA EndScanKeeps ==
  ASSUME ScanInv, EndScan
  PROVE  ScanInv'
<1>. TypeOK /\ BeginsAnew /\ ClosesIterators /\ YieldsOnce
  BY DEF ScanInv
<1>. /\ method' = method /\ kind' = kind /\ argNull' = argNull /\ dist' = dist
     /\ near' = near /\ xsRecheck' = xsRecheck /\ inRange' = inRange
     /\ queue' = {} /\ xsInorder' = xsInorder /\ pending' = {} /\ paused' = FALSE
     /\ readAhead' = readAhead /\ misses' = misses /\ seen' = seen /\ returned' = returned
     /\ outcome' = outcome /\ pc' \in {"ended", "crashed"} /\ first' = first
     /\ workSpace' = "null" /\ pc = "idle" /\ Close
  BY DEF EndScan, DropWorkspace, args
<1>0. open' = 0
  BY CloseFacts
<1>. ~Serving' /\ ~Finished' /\ Ahead' = {}
  BY DEF Serving, Finished, Ahead
<1>1. TypeOK'
  <2>1. open' \in 0 .. 1
    BY <1>0
  <2>. QED  BY <2>1 DEF TypeOK
<1>2. BeginsAnew' /\ ClosesIterators'
  BY <1>0 DEF BeginsAnew, Supported, ClosesIterators
<1>3. YieldsOnce' /\ ReadAheadIsKept' /\ ReadAheadComesFirst'
  BY DEF ScanInv, YieldsOnce, ReadAheadIsKept, ReadAheadComesFirst, Nearer
<1>4. PendsBeyond' /\ ReadsUntilPaused' /\ CountsMisses'
  BY DEF PendsBeyond, ReadsUntilPaused, CountsMisses
<1>5. NearIsBall'
  BY DEF ScanInv, NearIsBall, Nearer
<1>6. KnowsInRange' /\ OrderedReturnsAll' /\ ReturnsWhatIsInRange' /\ KeepsNearest'
  BY DEF ScanInv, KnowsInRange, OrderedReturnsAll, ReturnsWhatIsInRange, KeepsNearest, Ordered
<1>7. InOrderMeans'
  BY ClaimStays DEF ScanInv
<1>8. GivesUpWithReason' /\ LeavesNoneBehind'
  BY DEF GivesUpWithReason, LeavesNoneBehind
<1>. QED  BY <1>1, <1>2, <1>3, <1>4, <1>5, <1>6, <1>7, <1>8 DEF ScanInv

-----------------------------------------------------------------------------
(* The first call, up to the first row it looks at.                        *)

LEMMA FirstCallKeeps ==
  ASSUME TypeOK', BeginsAnew', ClosesIterators', Blank', Serving',
         pc' \in {"prefetch", "call"},
         (pending \cap readAhead = {})', (Ahead = readAhead)',
         method' # "pase" => misses' = 0,
         PendsBeyond', ReadsUntilPaused', NearIsBall',
         kind' = "range" => ~inRange',
         method' = "hnsw" => queue' = {} /\ ~xsInorder'
  PROVE  ScanInv'
<1>. seen' = << >> /\ returned' = << >> /\ Range(<< >>) = {}
  BY NothingFacts DEF Blank
<1>1. YieldsOnce' /\ ReadAheadComesFirst' /\ OrderedReturnsAll'
  BY DEF YieldsOnce, ReadAheadComesFirst, OrderedReturnsAll
<1>2. ReturnsWhatIsInRange' /\ ReadAheadIsKept'
  BY DEF ReturnsWhatIsInRange, ReadAheadIsKept
<1>3. CountsMisses'
  BY DEF CountsMisses
<1>4. KnowsInRange'
  BY DEF KnowsInRange, TypeOK
<1>5. KeepsNearest'
  <2>1. method' = "hnsw" => Cardinality(queue') = 0
    BY FS_EmptySet
  <2>2. OrderQueue \in Nat
    BY ScanAssumption
  <2>3. method' = "hnsw" => Cardinality(queue') <= OrderQueue
    BY <2>1, <2>2
  <2>. QED  BY <2>3 DEF KeepsNearest
<1>6. InOrderMeans'
  BY DEF InOrderMeans, TypeOK
<1>7. GivesUpWithReason' /\ LeavesNoneBehind'
  BY DEF GivesUpWithReason, LeavesNoneBehind, Finished
<1>. QED  BY <1>1, <1>2, <1>3, <1>4, <1>5, <1>6, <1>7 DEF ScanInv

LEMMA StartIteratorKeeps ==
  ASSUME ScanInv, NEW m \in {"hnsw", "sptag", "spann"}, StartIterator(m),
         pc' = IF m = "spann" THEN "prefetch" ELSE "call",
         xsInorder' \in BOOLEAN, m = "hnsw" => ~xsInorder'
  PROVE  ScanInv'
<1>. TypeOK /\ BeginsAnew /\ ClosesIterators /\ NearIsBall
  BY DEF ScanInv
<1>. /\ method' = method /\ kind' = kind /\ argNull' = argNull /\ dist' = dist
     /\ near' = near /\ xsRecheck' = xsRecheck /\ inRange' = (IF Ordered THEN inRange ELSE FALSE)
     /\ queue' = {} /\ pending' \in SUBSET Row /\ paused' = paused
     /\ readAhead' = readAhead /\ misses' = 0 /\ seen' = seen /\ returned' = returned
     /\ outcome' = outcome /\ first /\ first' = FALSE /\ method = m /\ HasKey
     /\ workSpace' = "iterating" /\ open' = open + 1
  BY DEF StartIterator, args
<1>0. /\ Blank' /\ readAhead' = {} /\ Serving' /\ Ahead' = {}
      /\ pc' \in {"prefetch", "call"} /\ open = 0
  BY DEF BeginsAnew, Blank, Serving, Ahead, ClosesIterators
<1>1. TypeOK'
  <2>1. Cardinality(Row) \in Nat
    BY SeenFacts
  <2>2. misses' \in 0 .. Cardinality(Row) /\ open' \in 0 .. 1
    BY <1>0, <2>1
  <2>3. inRange' \in BOOLEAN
    BY DEF TypeOK
  <2>. QED  BY <1>0, <2>2, <2>3 DEF TypeOK
<1>2. BeginsAnew'
  BY <1>0 DEF BeginsAnew, Supported, HasKey, Blank
<1>3. ClosesIterators' /\ PendsBeyond'
  BY <1>0 DEF ClosesIterators, PendsBeyond
<1>4. ReadsUntilPaused'
  BY DEF ReadsUntilPaused
<1>5. NearIsBall'
  BY DEF NearIsBall, Nearer
<1>6. kind' = "range" => ~inRange'
  BY DEF Ordered
<1>. QED  BY <1>0, <1>1, <1>2, <1>3, <1>4, <1>5, <1>6, FirstCallKeeps

LEMMA StartPaseKeeps ==
  ASSUME ScanInv, StartPase
  PROVE  ScanInv'
<1>. TypeOK /\ BeginsAnew /\ ClosesIterators /\ NearIsBall
  BY DEF ScanInv
<1>. /\ method' = method /\ kind' = kind /\ argNull' = argNull /\ dist' = dist
     /\ near' = near /\ xsRecheck' = xsRecheck /\ inRange' = inRange
     /\ queue' \in SUBSET Row /\ pending' \in SUBSET (Row \ queue') /\ paused' = paused
     /\ pending' # {} => Cardinality(queue') = ReadAhead["pase"]
     /\ readAhead' = queue' /\ misses' = misses /\ seen' = seen /\ returned' = returned
     /\ outcome' = outcome /\ first /\ first' = FALSE /\ method = "pase" /\ HasKey
     /\ workSpace' = "bare" /\ open' = open /\ xsInorder' = xsInorder /\ pc' = "call"
  BY DEF StartPase, args
<1>0. Blank' /\ Serving' /\ Ahead' = readAhead' /\ open = 0
  BY DEF BeginsAnew, Blank, Serving, Ahead, ClosesIterators
<1>1. TypeOK'
  BY DEF TypeOK
<1>2. BeginsAnew' /\ ClosesIterators' /\ PendsBeyond' /\ (pending \cap readAhead = {})'
  BY <1>0 DEF BeginsAnew, Supported, HasKey, Blank, ClosesIterators, PendsBeyond, AskedForNoMore
<1>3. ReadsUntilPaused'
  BY DEF ReadsUntilPaused
<1>4. NearIsBall'
  BY DEF NearIsBall, Nearer
<1>5. kind # "range"
  BY DEF BeginsAnew, Supported
<1>. QED  BY <1>0, <1>1, <1>2, <1>3, <1>4, <1>5, FirstCallKeeps

LEMMA StartKeeps ==
  ASSUME ScanInv, Start
  PROVE  ScanInv' /\ method # "plain"
<1>0. xsInorder \in BOOLEAN
  BY DEF ScanInv, TypeOK
<1>1. CASE StartHnsw
  BY <1>1, StartIteratorKeeps DEF StartHnsw, StartIterator
<1>2. CASE StartSptag
  BY <1>0, <1>2, StartIteratorKeeps DEF StartSptag, StartIterator
<1>3. CASE StartSpann
  BY <1>3, StartIteratorKeeps DEF StartSpann, StartIterator
<1>4. CASE StartPase
  BY <1>4, StartPaseKeeps DEF StartPase
<1>. QED  BY <1>1, <1>2, <1>3, <1>4 DEF Start

LEMMA PrefetchingKeeps ==
  ASSUME ScanInv, Prefetching, pc' \in {"prefetch", "call"},
         pending' \subseteq pending, paused' \in BOOLEAN,
         \/ queue' = queue /\ readAhead' = readAhead
         \/ \E r \in pending : /\ queue' = queue \cup {r}
                               /\ readAhead' = readAhead \cup {r}
                               /\ pending' = pending \ {r},
         ReadsUntilPaused'
  PROVE  ScanInv'
<1>. TypeOK /\ BeginsAnew /\ ClosesIterators /\ NearIsBall /\ YieldsOnce
  BY DEF ScanInv
<1>. /\ method' = method /\ kind' = kind /\ argNull' = argNull /\ dist' = dist
     /\ near' = near /\ xsRecheck' = xsRecheck /\ inRange' = inRange
     /\ misses' = misses /\ seen' = seen /\ returned' = returned
     /\ outcome' = outcome /\ first' = first
     /\ workSpace' = workSpace /\ open' = open /\ xsInorder' = xsInorder
     /\ pc = "prefetch" /\ ~first /\ method = "spann" /\ seen = << >> /\ readAhead = queue
  BY DEF Prefetching, args, BeginsAnew
<1>0. /\ Serving /\ Serving' /\ Ahead' = queue' /\ queue' = readAhead'
      /\ pending' \cap readAhead' = {} /\ pending' \subseteq Row /\ queue' \subseteq Row
  <2>1. pending \subseteq Row /\ queue \subseteq Row
    BY DEF TypeOK
  <2>2. pending \cap readAhead = {}
    BY DEF YieldsOnce
  <2>3. queue' = readAhead' /\ pending' \cap readAhead' = {} /\ queue' \subseteq Row
    BY <2>1, <2>2
  <2>4. Serving /\ Serving' /\ Ahead' = queue'
    BY DEF Serving, Ahead
  <2>. QED  BY <2>1, <2>3, <2>4
<1>. Len(seen) = 0 /\ 1 .. Len(seen) = {}
  OBVIOUS
<1>1. Blank
  <2>1. CASE Ordered
    BY <2>1 DEF ScanInv, OrderedReturnsAll, Blank
  <2>2. CASE ~Ordered
    <3>1. Range(returned) = {}
      BY <1>0, <2>2, RangeScan, NothingFacts DEF ScanInv, ReturnsWhatIsInRange
    <3>2. Len(returned) = 0 /\ returned \in Seq(Row)
      BY <3>1, SeenFacts
    <3>. QED  BY <3>2, EmptySeq DEF Blank
  <2>. QED  BY <2>1, <2>2
<1>2. TypeOK'
  BY <1>0 DEF TypeOK
<1>3. BeginsAnew' /\ ClosesIterators' /\ PendsBeyond' /\ Blank'
  BY <1>0, <1>1 DEF BeginsAnew, Supported, HasKey, Blank, ClosesIterators, PendsBeyond
<1>4. NearIsBall'
  BY DEF NearIsBall, Nearer
<1>5. misses' = 0
  <2>1. misses \in Nat /\ misses <= 0
    BY SeenFacts DEF ScanInv, CountsMisses, TypeOK
  <2>. QED  BY <2>1
<1>6. kind = "range" => ~inRange
  BY <1>0 DEF ScanInv, KnowsInRange
<1>. QED  BY <1>0, <1>1, <1>2, <1>3, <1>4, <1>5, <1>6, FirstCallKeeps

LEMMA PrefetchKeeps ==
  ASSUME ScanInv, NEW r \in Row, Prefetch(r)
  PROVE  ScanInv'
<1>1. ReadsUntilPaused'
  <2>1. readAhead = queue /\ readAhead' = queue'
    BY DEF Prefetch, Prefetching, ScanInv, BeginsAnew
  <2>2. pc' # "prefetch" => Cardinality(queue') >= ReadAhead["spann"]
    BY DEF Prefetch, Prefetching
  <2>. QED  BY <2>1, <2>2 DEF ReadsUntilPaused
<1>2. /\ Prefetching /\ pc' \in {"prefetch", "call"} /\ r \in pending
      /\ queue' = queue \cup {r} /\ readAhead' = readAhead \cup {r}
      /\ pending' = pending \ {r} /\ paused' = paused
  BY DEF Prefetch, Prefetching
<1>3. paused \in BOOLEAN
  BY DEF ScanInv, TypeOK
<1>. QED  BY <1>1, <1>2, <1>3, PrefetchingKeeps

LEMMA PrefetchDryKeeps ==
  ASSUME ScanInv, PrefetchDry
  PROVE  ScanInv'
<1>1. ReadsUntilPaused'
  BY DEF PrefetchDry, NoResult, ReadsUntilPaused
<1>2. /\ Prefetching /\ pc' \in {"prefetch", "call"} /\ pending' = pending
      /\ queue' = queue /\ readAhead' = readAhead
  BY DEF PrefetchDry
<1>3. paused' \in BOOLEAN
  BY DEF PrefetchDry, NoResult, ScanInv, TypeOK
<1>. QED  BY <1>1, <1>2, <1>3, PrefetchingKeeps

LEMMA LoopKeeps ==
  ASSUME ScanInv, Loop
  PROVE  ScanInv'
<1>1. CASE HnswLoop
  BY <1>1, ExhaustedKeeps, OrderedRowKeeps, GiveUpKeeps, InRangeRowKeeps,
     OutOfRangeRowKeeps DEF HnswLoop
<1>2. CASE SptagLoop
  BY <1>2, ExhaustedKeeps, SptagRowKeeps DEF SptagLoop
<1>3. CASE SpannLoop
  BY <1>3, PrefetchDryKeeps, SpannDryKeeps, PrefetchKeeps, SpannRowKeeps DEF SpannLoop
<1>4. CASE PaseLoop
  BY <1>4, PaseEndKeeps, PaseRowKeeps DEF PaseLoop
<1>. QED  BY <1>1, <1>2, <1>3, <1>4 DEF Loop

-----------------------------------------------------------------------------
LEMMA ScanStutters ==
  ASSUME ScanInv, UNCHANGED scanVars
  PROVE  ScanInv'
<1>. /\ method' = method /\ kind' = kind /\ argNull' = argNull /\ dist' = dist
     /\ near' = near /\ xsRecheck' = xsRecheck /\ first' = first /\ workSpace' = workSpace
     /\ open' = open /\ inRange' = inRange /\ queue' = queue /\ xsInorder' = xsInorder
     /\ pending' = pending /\ readAhead' = readAhead /\ misses' = misses /\ seen' = seen
     /\ returned' = returned /\ pc' = pc /\ outcome' = outcome /\ paused' = paused
  BY DEF scanVars, args, source
<1>. Serving' = Serving /\ Ahead' = Ahead /\ Ordered' = Ordered /\ Finished' = Finished
  BY DEF Serving, Ahead, Ordered, Finished
<1>1. TypeOK' /\ BeginsAnew' /\ ClosesIterators'
  BY DEF ScanInv, TypeOK, BeginsAnew, Supported, HasKey, ClosesIterators
<1>2. YieldsOnce' /\ ReadAheadIsKept' /\ ReadAheadComesFirst'
  BY DEF ScanInv, YieldsOnce, ReadAheadIsKept, ReadAheadComesFirst, Nearer
<1>3. PendsBeyond' /\ ReadsUntilPaused' /\ CountsMisses' /\ NearIsBall'
  BY DEF ScanInv, PendsBeyond, AskedForNoMore, ReadsUntilPaused, CountsMisses, NearIsBall, Nearer
<1>4. KnowsInRange' /\ OrderedReturnsAll' /\ ReturnsWhatIsInRange'
  BY DEF ScanInv, KnowsInRange, OrderedReturnsAll, ReturnsWhatIsInRange
<1>5. KeepsNearest'
  BY DEF ScanInv, KeepsNearest, Nearer
<1>6. InOrderMeans'
  BY ClaimStays DEF ScanInv
<1>7. (GivesUpWithReason /\ LeavesNoneBehind)' <=> GivesUpWithReason /\ LeavesNoneBehind
  <2>1. LastOutOfRange' <=> LastOutOfRange
    BY DEF LastOutOfRange
  <2>2. NoApproach' <=> NoApproach
    BY DEF NoApproach, Nearer
  <2>3. (NoneAhead' <=> NoneAhead) /\ (PausedLate' <=> PausedLate)
    BY DEF NoneAhead, PausedLate
  <2>4. AskedForNoMore' <=> AskedForNoMore
    BY DEF AskedForNoMore
  <2>. QED  BY <2>1, <2>2, <2>3, <2>4 DEF GivesUpWithReason, LeavesNoneBehind
<1>. QED  BY <1>1, <1>2, <1>3, <1>4, <1>5, <1>6, <1>7 DEF ScanInv

LEMMA InitInv == Init => IInv
<1>. SUFFICES ASSUME Init
              PROVE  IInv
  OBVIOUS
<1>1. NearIsBall
  <2>. SUFFICES ASSUME kind = "range", NEW r \in near, NEW s \in Row \ near
                PROVE  dist[r] < dist[s]
    BY DEF NearIsBall, Nearer
  <2>1. Balls(dist) = {{}} \cup {{q \in Row : dist[q] <= range} : range \in Distance}
    BY DEF Balls
  <2>2. PICK range \in Distance : near = {q \in Row : dist[q] <= range}
    BY <2>1 DEF Init
  <2>3. dist \in [Row -> Distance] /\ Distance \subseteq Int
    BY ScanAssumption DEF Init, InitScan
  <2>4. r \in Row /\ dist[r] <= range /\ ~(dist[s] <= range)
    BY <2>2
  <2>5. dist[r] \in Int /\ dist[s] \in Int /\ range \in Int
    BY <2>3, <2>4
  <2>. QED  BY <2>4, <2>5
<1>. QED  BY <1>1, InitKeeps DEF Init, InitScan, IInv

LEMMA NextKeeps == IInv /\ [Next]_scanVars => IInv'
<1>. SUFFICES ASSUME IInv, [Next]_scanVars
              PROVE  IInv'
  OBVIOUS
<1>. ScanInv /\ (method = "plain" => first)
  BY DEF IInv
<1>1. CASE BeginScan
  BY <1>1, BeginScanKeeps DEF IInv, BeginScan
<1>2. CASE NewKeys
  BY <1>2, NewKeysKeeps DEF IInv
<1>3. CASE NothingToFind
  BY <1>3, NothingToFindKeeps DEF IInv
<1>4. CASE Start
  <2>1. method' = method
    BY <1>4 DEF Start, StartHnsw, StartSptag, StartSpann, StartPase, StartIterator, args
  <2>. QED  BY <1>4, <2>1, StartKeeps DEF IInv
<1>5. CASE LaterCall
  BY <1>5, LaterCallKeeps DEF IInv, LaterCall, args
<1>6. CASE Loop
  <2>1. method' = method /\ first' = first
    BY <1>6 DEF Loop, HnswLoop, SptagLoop, SpannLoop, PaseLoop, Exhausted, OrderedRow,
       GiveUp, InRangeRow, OutOfRangeRow, SptagRow, PrefetchDry, SpannDry, Prefetch,
       SpannRow, PaseEnd, PaseRow, InLoop, Prefetching, args
  <2>. QED  BY <1>6, <2>1, LoopKeeps DEF IInv
<1>7. CASE EndScan
  BY <1>7, EndScanKeeps DEF IInv, EndScan, args
<1>8. CASE UNCHANGED scanVars
  BY <1>8, ScanStutters DEF IInv, scanVars, args
<1>. QED  BY <1>1, <1>2, <1>3, <1>4, <1>5, <1>6, <1>7, <1>8 DEF Next

(***************************************************************************)
(* Whatever rows the iterators yield, in whatever order, and however the   *)
(* executor begins, restarts and ends the scan.                            *)
(***************************************************************************)
THEOREM Inductive == Spec => []IInv
BY InitInv, NextKeeps, PTL DEF Spec

(***************************************************************************)
(* hnsw_gettuple sets xs_inorder just when a row has been returned that is *)
(* farther than OrderQueue rows before it.                                 *)
(***************************************************************************)
THEOREM ClaimsOrder == Spec => []InOrderMeans
<1>1. IInv => InOrderMeans
  BY DEF IInv, ScanInv
<1>. QED  BY <1>1, Inductive, PTL

(***************************************************************************)
(* A range scan of any method returns every row in range that its loop     *)
(* looked at, once each, in that order, and no other.                      *)
(***************************************************************************)
THEOREM LosesNoRow == Spec => []ReturnsWhatIsInRange
<1>1. IInv => ReturnsWhatIsInRange
  BY DEF IInv, ScanInv
<1>. QED  BY <1>1, Inductive, PTL

(***************************************************************************)
(* Rescans and NULL keys included, the one iterator that is open is the    *)
(* one in the workspace.                                                   *)
(***************************************************************************)
THEOREM OneIterator == Spec => []ClosesIterators
<1>1. IInv => ClosesIterators
  BY DEF IInv, ScanInv
<1>. QED  BY <1>1, Inductive, PTL

(***************************************************************************)
(* What spann and pase_hnsw read at once they return before any other row, *)
(* nearest first, over any number of calls.                                *)
(***************************************************************************)
THEOREM NearestFirstOfAll == Spec => []ReadAheadComesFirst
<1>1. IInv => ReadAheadComesFirst
  BY DEF IInv, ScanInv
<1>. QED  BY <1>1, Inductive, PTL

(***************************************************************************)
(* A gettuple that returns false before its iterator is used up has one of *)
(* the reasons its method allows.                                          *)
(***************************************************************************)
THEOREM StopsForAReason == Spec => []GivesUpWithReason
<1>1. IInv => GivesUpWithReason
  BY DEF IInv, ScanInv, GivesUpWithReason, Finished
<1>. QED  BY <1>1, Inductive, PTL

(***************************************************************************)
(* and leaves no row in its queue that the query asks for.                 *)
(***************************************************************************)
THEOREM QueueIsUsedUp == Spec => []LeavesNoneBehind
<1>1. IInv => LeavesNoneBehind
  BY DEF IInv, ScanInv, LeavesNoneBehind, Finished
<1>. QED  BY <1>1, Inductive, PTL

=============================================================================
