------------------------- MODULE BktIterator_proofs -------------------------
(***************************************************************************)
(* IInv of BktIterator is inductive, for any graph, any copies and any     *)
(* tree, and what follows from it.                                         *)
(***************************************************************************)
EXTENDS BktIterator, FiniteSetTheorems, SequenceTheorems, TLAPS

LEMMA RangeFacts ==
  ASSUME NEW S, NEW s \in Seq(S)
  PROVE  /\ Len(s) \in Nat /\ DOMAIN s = 1 .. Len(s)
         /\ \A k \in 1 .. Len(s) : s[k] \in S /\ s[k] \in Range(s)
         /\ \A x : x \in Range(s) <=> \E k \in 1 .. Len(s) : s[k] = x
         /\ Range(s) \subseteq S
<1>1. Len(s) \in Nat /\ DOMAIN s = 1 .. Len(s) /\ \A k \in 1 .. Len(s) : s[k] \in S
  BY LenProperties, ElementOfSeq
<1>. QED  BY <1>1 DEF Range

LEMMA AppendFacts ==
  ASSUME NEW S, NEW s \in Seq(S), NEW x \in S
  PROVE  /\ Append(s, x) \in Seq(S) /\ Len(Append(s, x)) = Len(s) + 1
         /\ \A k \in 1 .. Len(s) : Append(s, x)[k] = s[k]
         /\ Append(s, x)[Len(s) + 1] = x
         /\ Range(Append(s, x)) = Range(s) \cup {x}
<1>. DEFINE t == Append(s, x)
<1>1. /\ t \in Seq(S) /\ Len(t) = Len(s) + 1
      /\ \A k \in 1 .. Len(s) : t[k] = s[k]
      /\ t[Len(s) + 1] = x
  BY AppendProperties
<1>. HIDE DEF t
<1>2. /\ Len(s) \in Nat
      /\ \A y : y \in Range(s) <=> \E k \in 1 .. Len(s) : s[k] = y
      /\ \A y : y \in Range(t) <=> \E k \in 1 .. Len(t) : t[k] = y
  BY <1>1, RangeFacts
<1>3. \A k \in 1 .. Len(t) : k = Len(s) + 1 \/ k \in 1 .. Len(s)
  BY <1>1, <1>2
<1>4. \A k \in 1 .. Len(s) : k \in 1 .. Len(t)
  BY <1>1, <1>2
<1>5. Len(s) + 1 \in 1 .. Len(t)
  BY <1>1, <1>2
<1>6. Range(t) = Range(s) \cup {x}
  <2>1. ASSUME NEW y \in Range(t)
        PROVE  y \in Range(s) \cup {x}
    BY <1>1, <1>2, <1>3
  <2>2. ASSUME NEW y \in Range(s)
        PROVE  y \in Range(t)
    BY <1>1, <1>2, <1>4
  <2>3. x \in Range(t)
    BY <1>1, <1>2, <1>5
  <2>. QED  BY <2>1, <2>2, <2>3
<1>. QED  BY <1>1, <1>6 DEF t

LEMMA NothingFacts ==
  ASSUME NEW S
  PROVE  << >> \in Seq(S) /\ Len(<< >>) = 0 /\ DOMAIN << >> = {} /\ Range(<< >>) = {}
BY EmptySeq DEF Range

LEMMA ConcatFacts ==
  ASSUME NEW S, NEW s \in Seq(S), NEW t \in Seq(S)
  PROVE  /\ s \o t \in Seq(S) /\ Len(s \o t) = Len(s) + Len(t)
         /\ \A k \in 1 .. Len(s) : (s \o t)[k] = s[k]
         /\ \A k \in 1 .. Len(t) : (s \o t)[Len(s) + k] = t[k]
         /\ \A k \in 1 .. Len(s \o t) :
              k \in 1 .. Len(s) \/ (k - Len(s) \in 1 .. Len(t) /\ (s \o t)[k] = t[k - Len(s)])
         /\ Range(s \o t) = Range(s) \cup Range(t)
<1>. DEFINE u == s \o t
<1>1. /\ u \in Seq(S) /\ Len(u) = Len(s) + Len(t)
      /\ \A k \in 1 .. Len(u) : u[k] = IF k <= Len(s) THEN s[k] ELSE t[k - Len(s)]
  BY ConcatProperties
<1>. HIDE DEF u
<1>2. /\ Len(s) \in Nat /\ Len(t) \in Nat
      /\ \A y : y \in Range(s) <=> \E k \in 1 .. Len(s) : s[k] = y
      /\ \A y : y \in Range(t) <=> \E k \in 1 .. Len(t) : t[k] = y
      /\ \A y : y \in Range(u) <=> \E k \in 1 .. Len(u) : u[k] = y
  BY <1>1, RangeFacts
<1>3. \A k \in 1 .. Len(s) : k \in 1 .. Len(u) /\ u[k] = s[k]
  BY <1>1, <1>2
<1>4. \A k \in 1 .. Len(t) : Len(s) + k \in 1 .. Len(u) /\ u[Len(s) + k] = t[k]
  <2>. SUFFICES ASSUME NEW k \in 1 .. Len(t)
       PROVE Len(s) + k \in 1 .. Len(u) /\ u[Len(s) + k] = t[k]
    OBVIOUS
  <2>1. Len(s) + k \in 1 .. Len(u) /\ ~(Len(s) + k <= Len(s)) /\ (Len(s) + k) - Len(s) = k
    BY <1>1, <1>2
  <2>. QED  BY <1>1, <2>1
<1>5. \A k \in 1 .. Len(u) :
        k \in 1 .. Len(s) \/ (k - Len(s) \in 1 .. Len(t) /\ u[k] = t[k - Len(s)])
  BY <1>1, <1>2
<1>6. Range(u) = Range(s) \cup Range(t)
  <2>1. ASSUME NEW y \in Range(u)
        PROVE  y \in Range(s) \cup Range(t)
    BY <1>2, <1>3, <1>5
  <2>2. ASSUME NEW y \in Range(s) \cup Range(t)
        PROVE  y \in Range(u)
    BY <1>2, <1>3, <1>4
  <2>. QED  BY <2>1, <2>2
<1>. QED  BY <1>1, <1>3, <1>4, <1>5, <1>6 DEF u

-----------------------------------------------------------------------------
(* Sorting the results of a call.                                          *)

LEMMA PlacesFinite ==
  ASSUME NEW S, NEW s \in Seq(S), NEW P \in SUBSET (1 .. Len(s))
  PROVE  IsFiniteSet(P) /\ Cardinality(P) \in Nat
<1>1. 1 \in Int /\ Len(s) \in Int
  BY LenProperties
<1>2. \A m, n \in Int : IsFiniteSet(m .. n)
  BY FS_Interval
<1>3. IsFiniteSet(1 .. Len(s))
  BY <1>1, <1>2
<1>. QED  BY <1>3, FS_Subset, FS_CardinalityType

\* It brings each sample as often as it was found.
LEMMA OrderFacts ==
  ASSUME NEW s \in Seq(Sample), NEW r \in Orders(s)
  PROVE  /\ r \in Seq(Sample) /\ Len(r) = Len(s) /\ Range(r) = Range(s)
         /\ \A i, j \in 1 .. Len(r) : r[i] = r[j] /\ i # j =>
              \E m, n \in 1 .. Len(s) : m # n /\ s[m] = r[i] /\ s[n] = r[i]
<1>. DEFINE Of(q, x) == {i \in 1 .. Len(s) : q[i] = x}
<1>1. /\ Len(s) \in Nat /\ DOMAIN s = 1 .. Len(s) /\ Range(s) \subseteq Sample
      /\ \A x : x \in Range(s) <=> \E k \in 1 .. Len(s) : s[k] = x
  BY RangeFacts
<1>2. /\ r \in [1 .. Len(s) -> Range(s)]
      /\ \A x \in Range(s) : Cardinality(Of(s, x)) = Cardinality(Of(r, x))
  BY <1>1 DEF Orders
<1>3. r \in Seq(Sample) /\ Len(r) = Len(s)
  BY <1>1, <1>2
<1>4. \A q, x : IsFiniteSet(Of(q, x)) /\ Cardinality(Of(q, x)) \in Nat
  BY PlacesFinite
<1>. HIDE DEF Of
<1>5. Range(s) \subseteq Range(r)
  <2>. SUFFICES ASSUME NEW x \in Range(s) PROVE x \in Range(r)
    OBVIOUS
  <2>1. Of(s, x) # {}
    BY <1>1 DEF Of
  <2>2. Cardinality(Of(s, x)) # 0
    BY <1>4, <2>1, FS_EmptySet
  <2>3. Of(r, x) # {}
    BY <1>2, <1>4, <2>2, FS_EmptySet
  <2>4. PICK i \in 1 .. Len(s) : r[i] = x
    BY <2>3 DEF Of
  <2>. QED  BY <1>3, <2>4, RangeFacts
<1>6. Range(r) \subseteq Range(s)
  BY <1>2 DEF Range
<1>7. ASSUME NEW i \in 1 .. Len(r), NEW j \in 1 .. Len(r), r[i] = r[j], i # j
      PROVE  \E m, n \in 1 .. Len(s) : m # n /\ s[m] = r[i] /\ s[n] = r[i]
  <2>. DEFINE x == r[i]
  <2>1. x \in Range(s) /\ i \in Of(r, x) /\ j \in Of(r, x)
    BY <1>2, <1>3, <1>7 DEF Of
  <2>. HIDE DEF x
  <2>2. Cardinality({i} \cup {j}) = 2
    <3>1. IsFiniteSet({i}) /\ Cardinality({i}) = 1 /\ j \notin {i}
      BY <1>7, FS_Singleton
    <3>2. Cardinality({i} \cup {j}) = 1 + 1
      BY <3>1, FS_AddElement
    <3>3. 1 + 1 = 2
      OBVIOUS
    <3>. QED  BY <3>2, <3>3, Zenon
  <2>3. 2 <= Cardinality(Of(r, x))
    BY <1>4, <2>1, <2>2, FS_Subset
  <2>4. 2 <= Cardinality(Of(s, x))
    BY <1>2, <2>1, <2>3
  <2>5. PICK m \in Of(s, x) : TRUE
    BY <1>4, <2>4, FS_EmptySet
  <2>6. Of(s, x) # {m}
    <3>1. Cardinality({m}) = 1
      BY FS_Singleton
    <3>2. Cardinality(Of(s, x)) # 1
      BY <2>4
    <3>. QED  BY <3>1, <3>2
  <2>7. PICK n \in Of(s, x) : n # m
    BY <2>5, <2>6
  <2>. QED  BY <2>5, <2>7 DEF Of, x
<1>. QED  BY <1>3, <1>5, <1>6, <1>7

-----------------------------------------------------------------------------
(* Steps of the inductive invariant.                                       *)

LEMMA CopyFacts ==
  /\ Centre \subseteq Sample /\ Copies \subseteq Sample /\ Centre \cap Copies = {}
  /\ \A s \in Sample : s \in Centre \/ s \in Copies
  /\ \A s \in Sample : CopiesOf[s] \subseteq Copies
  /\ \A s \in Copies : CopiesOf[s] = {}
  /\ \A s, t \in Sample : CopiesOf[s] \cap CopiesOf[t] # {} => s = t
BY BktAssumption DEF Centre, Copies

\* A step that leaves what was searched, found and returned.
LEMMA SearchRests ==
  ASSUME UNCHANGED <<links, user, isFirst, cells, checked, queue, found, top, returned>>
  PROVE  /\ ComesOnce => ComesOnce'
         /\ HeadsOnce => HeadsOnce'
         /\ ReachesAll => ReachesAll'
<1>1. Out' = Out /\ Queued' = Queued /\ Twice' = Twice /\ From' = From
  BY DEF Out, Queued, Twice, From
<1>. QED  BY <1>1 DEF ComesOnce, HeadsOnce, ReachesAll, Twice

\* The entries of the samples of M, and the samples of the entries.
Entries(M, b) == {<<m, b>> : m \in M}
First(Q) == {e[1] : e \in Q}

LEMMA EntryFacts ==
  ASSUME NEW M \in SUBSET Sample, NEW b \in BOOLEAN
  PROVE  /\ Entries(M, b) \in SUBSET (Sample \X BOOLEAN)
         /\ \A e \in Entries(M, b) : e[1] \in M /\ e[2] = b /\ e = <<e[1], b>>
         /\ \A m \in M : <<m, b>> \in Entries(M, b)
         /\ First(Entries(M, b)) = M
         /\ Entries(M, b) = {} <=> M = {}
<1>1. \A m : <<m, b>>[1] = m /\ <<m, b>>[2] = b
  OBVIOUS
<1>2. \A e \in Entries(M, b) : \E m \in M : e = <<m, b>>
  BY DEF Entries
<1>3. \A m \in M : <<m, b>> \in Entries(M, b)
  BY DEF Entries
<1>4. ASSUME NEW e \in Entries(M, b)
      PROVE  e \in Sample \X BOOLEAN /\ e[1] \in M /\ e[2] = b /\ e = <<e[1], b>>
  <2>1. PICK m \in M : e = <<m, b>>
    BY <1>2
  <2>. QED  BY <1>1, <2>1
<1>5. First(Entries(M, b)) = M
  <2>1. ASSUME NEW m \in M
        PROVE  m \in First(Entries(M, b))
    BY <1>1, <1>3 DEF First
  <2>2. ASSUME NEW m \in First(Entries(M, b))
        PROVE  m \in M
    BY <1>4 DEF First
  <2>. QED  BY <2>1, <2>2
<1>. QED  BY <1>2, <1>3, <1>4, <1>5

LEMMA InitKeeps ==
  ASSUME Init
  PROVE  IInv
<1>. /\ user = "none" /\ isFirst = TRUE /\ cells = {} /\ checked = {} /\ queue = {}
     /\ found = << >> /\ busy = FALSE /\ scans = 0
     /\ top = [results |-> {}, cells |-> {}] /\ returned = << >> /\ ended = FALSE
  BY DEF Init
<1>. /\ << >> \in Seq(Sample) /\ Len(<< >>) = 0 /\ DOMAIN << >> = {}
  BY NothingFacts
<1>1. links \in [Sample -> SUBSET Centre]
  <2>1. PICK g \in Graphs : links = LinksOf(g)
    BY DEF Init
  <2>2. \A s \in Sample : LinksOf(g)[s] \in SUBSET Centre
    BY DEF LinksOf
  <2>. QED  BY <2>1, <2>2 DEF LinksOf
<1>2. dist \in [Sample -> Distance]
  BY DEF Init
<1>3. TypeOK
  <2>1. top \in [results : SUBSET Sample, cells : SUBSET Centre]
    OBVIOUS
  <2>2. scans \in 0 .. MaxScans
    BY BktAssumption
  <2>3. queue \in SUBSET (Sample \X BOOLEAN)
    OBVIOUS
  <2>4. isFirst \in BOOLEAN /\ busy \in BOOLEAN /\ ended \in BOOLEAN
    OBVIOUS
  <2>. QED  BY <1>1, <1>2, <2>1, <2>2, <2>3, <2>4 DEF TypeOK
<1>4. PhasesFit
  BY BktAssumption DEF PhasesFit, Batch
<1>5. ComesOnce /\ HeadsOnce /\ ReachesAll
  BY DEF ComesOnce, HeadsOnce, ReachesAll
<1>. QED  BY <1>3, <1>4, <1>5 DEF IInv

LEMMA OpenKeeps ==
  ASSUME IInv, NEW u \in {"iterator", "heads"}, Open(u)
  PROVE  IInv'
<1>. TypeOK /\ PhasesFit
  BY DEF IInv
<1>. /\ user = "none" /\ scans < MaxScans /\ user' = u /\ scans' = scans + 1
     /\ isFirst' = TRUE /\ checked' = {} /\ queue' = {} /\ cells' = {} /\ found' = << >>
     /\ UNCHANGED <<links, dist, busy, top, returned, ended>>
  BY DEF Open, ClearMarks, history
<1>. /\ << >> \in Seq(Sample) /\ Len(<< >>) = 0 /\ DOMAIN << >> = {} /\ Range(<< >>) = {}
  BY NothingFacts
<1>1. returned = << >> /\ ~ended /\ top.results = {} /\ top.cells = {} /\ ~busy
  BY DEF PhasesFit
<1>2. TypeOK'
  <2>1. scans' \in 0 .. MaxScans
    BY BktAssumption DEF TypeOK
  <2>2. isFirst' \in BOOLEAN
    OBVIOUS
  <2>. QED  BY <2>1, <2>2 DEF TypeOK
<1>3. PhasesFit'
  <2>1. Len(found') <= Batch'
    BY BktAssumption DEF Batch
  <2>. QED  BY <1>1, <2>1 DEF PhasesFit
<1>4. Out' = {} /\ Queued' = {}
  BY <1>1 DEF Out, Queued
<1>5. ComesOnce' /\ HeadsOnce' /\ ReachesAll'
  BY <1>1, <1>4 DEF ComesOnce, HeadsOnce, ReachesAll
<1>. QED  BY <1>2, <1>3, <1>5 DEF IInv

LEMMA CloseKeeps ==
  ASSUME IInv, Close
  PROVE  IInv'
<1>. TypeOK /\ PhasesFit
  BY DEF IInv
<1>. /\ user # "none" /\ ~busy /\ user' = "none" /\ returned' = << >> /\ ended' = FALSE
     /\ top' = [results |-> {}, cells |-> {}]
     /\ UNCHANGED <<links, dist, isFirst, cells, checked, queue, found, busy, scans>>
  BY DEF Close
<1>. /\ << >> \in Seq(Sample) /\ Len(<< >>) = 0 /\ DOMAIN << >> = {} /\ Range(<< >>) = {}
  BY NothingFacts
<1>1. found = << >>
  BY DEF PhasesFit
<1>2. TypeOK'
  <2>1. top' \in [results : SUBSET Sample, cells : SUBSET Centre]
    OBVIOUS
  <2>2. ended' \in BOOLEAN
    OBVIOUS
  <2>. QED  BY <2>1, <2>2 DEF TypeOK
<1>3. PhasesFit'
  <2>1. Len(found') <= Batch'
    BY <1>1, BktAssumption DEF Batch
  <2>2. ~ended' /\ ~busy' /\ top'.results = {} /\ top'.cells = {}
    OBVIOUS
  <2>. QED  BY <1>1, <2>1, <2>2 DEF PhasesFit
<1>4. ComesOnce' /\ HeadsOnce' /\ ReachesAll'
  BY DEF ComesOnce, HeadsOnce, ReachesAll
<1>. QED  BY <1>2, <1>3, <1>4 DEF IInv

LEMMA LaterNextKeeps ==
  ASSUME IInv, LaterNext
  PROVE  IInv'
<1>. TypeOK /\ PhasesFit /\ ComesOnce /\ HeadsOnce /\ ReachesAll
  BY DEF IInv
<1>. /\ user # "none" /\ ~isFirst /\ ~busy /\ found' = << >> /\ busy' = TRUE
     /\ UNCHANGED <<links, dist, user, isFirst, cells, checked, queue, scans, top,
                    returned, ended>>
  BY DEF LaterNext, history
<1>1. found = << >> /\ found' = found
  BY DEF PhasesFit
<1>2. TypeOK'
  <2>1. busy' \in BOOLEAN
    OBVIOUS
  <2>. QED  BY <1>1, <2>1 DEF TypeOK
<1>3. PhasesFit'
  BY <1>1 DEF PhasesFit, Batch
<1>4. ComesOnce' /\ HeadsOnce' /\ ReachesAll'
  BY <1>1, SearchRests
<1>. QED  BY <1>2, <1>3, <1>4 DEF IInv

LEMMA StuttersKeeps ==
  ASSUME IInv, UNCHANGED vars
  PROVE  IInv'
<1>. TypeOK /\ PhasesFit /\ ComesOnce /\ HeadsOnce /\ ReachesAll
  BY DEF IInv
<1>. UNCHANGED <<links, dist, user, isFirst, cells, checked, queue, found, busy, scans,
                 top, returned, ended>>
  BY DEF vars, history
<1>1. TypeOK' /\ PhasesFit'
  BY DEF TypeOK, PhasesFit, Batch
<1>2. ComesOnce' /\ HeadsOnce' /\ ReachesAll'
  BY SearchRests
<1>. QED  BY <1>1, <1>2 DEF IInv

(***************************************************************************)
(* The first call of a scan queues and marks some samples, and nothing is  *)
(* out yet.                                                                *)
(***************************************************************************)
LEMMA FirstCallKeeps ==
  ASSUME IInv, user # "none", isFirst, ~busy,
         NEW marks \in SUBSET Sample, marks # {}, checked' = marks,
         queue' = {<<m, FALSE>> : m \in marks}, marks \subseteq Centre \cup top'.results,
         cells' \in SUBSET Centre, From' \subseteq marks \cup cells',
         isFirst' = FALSE, found' = << >>, busy' = TRUE,
         top' \in [results : SUBSET Sample, cells : SUBSET Centre],
         user = "iterator" => top' = top,
         UNCHANGED <<links, dist, user, scans, returned, ended>>
  PROVE  IInv'
<1>. TypeOK /\ PhasesFit /\ HeadsOnce
  BY DEF IInv
<1>. /\ << >> \in Seq(Sample) /\ Len(<< >>) = 0 /\ DOMAIN << >> = {} /\ Range(<< >>) = {}
  BY NothingFacts
<1>1. returned = << >> /\ ~ended
  BY DEF PhasesFit
<1>2. /\ queue' \in SUBSET (Sample \X BOOLEAN)
      /\ \A e \in queue' : e[1] \in marks /\ e[2] = FALSE
      /\ Queued' = marks /\ queue' # {}
  <2>1. queue' = Entries(marks, FALSE) /\ Queued' = First(queue')
    BY DEF Entries, First, Queued
  <2>. QED  BY <2>1, EntryFacts
<1>3. TypeOK'
  <2>1. isFirst' \in BOOLEAN /\ busy' \in BOOLEAN
    OBVIOUS
  <2>. QED  BY <1>2, <2>1 DEF TypeOK
<1>4. PhasesFit'
  <2>1. Len(found') <= Batch'
    BY BktAssumption DEF Batch
  <2>. QED  BY <1>1, <2>1 DEF PhasesFit
<1>5. Out' = {}
  BY <1>1 DEF Out
<1>6. ComesOnce'
  <2>1. \A e \in queue' : IF e[2] THEN e[1] \in Copies
                          ELSE e[1] \in (Centre \cup top'.results) \cap checked'
    BY <1>2
  <2>2. \A s \in Centre : CopiesOf[s] \cap marks \subseteq top'.results
    BY CopyFacts
  <2>. QED  BY <1>2, <1>5, <2>1, <2>2 DEF ComesOnce
<1>7. HeadsOnce'
  BY <1>1 DEF HeadsOnce
<1>8. ReachesAll'
  BY <1>2, <1>5 DEF ReachesAll
<1>. QED  BY <1>3, <1>4, <1>6, <1>7, <1>8 DEF IInv

LEMMA FirstNextKeeps ==
  ASSUME IInv, FirstNext
  PROVE  IInv'
<1>. TypeOK /\ PhasesFit
  BY DEF IInv
<1>. /\ user = "iterator" /\ isFirst /\ ~busy /\ isFirst' = FALSE /\ found' = << >>
     /\ busy' = TRUE /\ UNCHANGED <<links, dist, user, scans, top, returned, ended>>
  BY DEF FirstNext, history
<1>1. PICK s \in SUBSET Centre :
         /\ TreeYields(s, Centre, checked) /\ cells' = Centre \ s
         /\ queue' = {<<m, FALSE>> : m \in s \ checked} /\ checked' = checked \cup s
  BY DEF FirstNext
<1>2. checked = {} /\ s # {} /\ s \in SUBSET Sample
  BY <1>1, CopyFacts DEF PhasesFit, TreeYields
<1>3. checked' = s /\ s \ checked = s
  BY <1>1, <1>2
<1>4. queue' = {<<m, FALSE>> : m \in s}
  BY <1>1, <1>3
<1>5. From' = Centre
  BY DEF From
<1>. QED  BY <1>1, <1>2, <1>3, <1>4, <1>5, FirstCallKeeps DEF TypeOK

LEMMA FirstHeadsKeeps ==
  ASSUME IInv, FirstHeads
  PROVE  IInv'
<1>. TypeOK /\ PhasesFit
  BY DEF IInv
<1>. /\ user = "heads" /\ isFirst /\ ~busy /\ isFirst' = FALSE /\ found' = << >>
     /\ busy' = TRUE /\ UNCHANGED <<links, dist, user, scans, returned, ended>>
  BY DEF FirstHeads
<1>1. PICK results \in SUBSET Sample, taken \in SUBSET Centre :
         /\ results # {} /\ cells' = Centre \ taken
         /\ queue' = {<<m, FALSE>> : m \in results} /\ checked' = results
         /\ top' = [results |-> results, cells |-> cells']
  BY DEF FirstHeads
<1>2. From' = results \cup cells' /\ top'.results = results
  BY <1>1 DEF From
<1>3. /\ cells' \in SUBSET Centre
      /\ top' \in [results : SUBSET Sample, cells : SUBSET Centre]
  BY <1>1
<1>. QED  BY <1>1, <1>2, <1>3, FirstCallKeeps

-----------------------------------------------------------------------------
(* A visit.                                                                *)

\* Whether or not the tree is looked into, with s what it yields.
LEMMA VisitFacts ==
  ASSUME TypeOK, NEW e \in queue, Visit(e)
  PROVE  \E s \in SUBSET cells :
           /\ cells' = cells \ s
           /\ checked' = checked \cup links[e[1]] \cup s
           /\ queue' = ((queue \ {e}) \cup Entries(CopiesOf[e[1]], TRUE))
                        \cup Entries((links[e[1]] \cup s) \ checked, FALSE)
           /\ queue' = {} => cells' = {}
<1>. DEFINE x == e[1]
            new == links[x] \ checked
            left == (queue \ {e}) \cup {<<c, TRUE>> : c \in CopiesOf[x]}
                                  \cup {<<m, FALSE>> : m \in new}
            marks == checked \cup new
<1>1. \/ /\ left # {} \/ cells = {}
         /\ queue' = left /\ checked' = marks /\ cells' = cells
      \/ \E s \in SUBSET cells :
           /\ TreeYields(s, cells, marks)
           /\ cells' = cells \ s
           /\ queue' = left \cup {<<m, FALSE>> : m \in s \ marks}
           /\ checked' = marks \cup s
  BY DEF Visit, Unchecked
<1>2. left = ((queue \ {e}) \cup Entries(CopiesOf[x], TRUE)) \cup Entries(new, FALSE)
  BY DEF Entries
<1>3. CASE /\ left # {} \/ cells = {}
           /\ queue' = left /\ checked' = marks /\ cells' = cells
  <2>1. cells' = cells \ {} /\ checked' = checked \cup links[x] \cup {}
    BY <1>3
  <2>2. (links[x] \cup {}) \ checked = new
    OBVIOUS
  <2>3. queue' = {} => cells' = {}
    BY <1>3
  <2>. HIDE DEF new, left, marks
  <2>. QED  BY <1>2, <1>3, <2>1, <2>2, <2>3
<1>4. ASSUME NEW s \in SUBSET cells,
             /\ TreeYields(s, cells, marks)
             /\ cells' = cells \ s
             /\ queue' = left \cup {<<m, FALSE>> : m \in s \ marks}
             /\ checked' = marks \cup s
      PROVE  /\ checked' = checked \cup links[x] \cup s
             /\ queue' = ((queue \ {e}) \cup Entries(CopiesOf[x], TRUE))
                          \cup Entries((links[x] \cup s) \ checked, FALSE)
             /\ queue' = {} => cells' = {}
  <2>1. checked' = checked \cup links[x] \cup s
    BY <1>4
  <2>2. (links[x] \cup s) \ checked = new \cup (s \ marks)
    OBVIOUS
  <2>3. Entries((links[x] \cup s) \ checked, FALSE)
          = Entries(new, FALSE) \cup Entries(s \ marks, FALSE)
    <3>. DEFINE rest == s \ marks
    <3>1. \A A, B : Entries(A \cup B, FALSE) = Entries(A, FALSE) \cup Entries(B, FALSE)
      BY DEF Entries
    <3>. HIDE DEF new, rest
    <3>2. (links[x] \cup s) \ checked = new \cup rest
      BY <2>2 DEF rest
    <3>3. Entries((links[x] \cup s) \ checked, FALSE) = Entries(new, FALSE) \cup Entries(rest, FALSE)
      BY <3>1, <3>2, Zenon
    <3>. QED  BY <3>3 DEF rest
  <2>4. queue' = left \cup Entries(s \ marks, FALSE)
    BY <1>4 DEF Entries
  <2>5. queue' = {} => cells' = {}
    <3>. SUFFICES ASSUME queue' = {} PROVE cells' = {}
      OBVIOUS
    <3>1. {<<m, FALSE>> : m \in s \ marks} = {}
      BY <1>4
    <3>2. s \ marks = {}
      BY <3>1
    <3>3. s = cells
      BY <1>4, <3>2 DEF TreeYields
    <3>. QED  BY <1>4, <3>3
  <2>. HIDE DEF new, left, marks
  <2>6. queue' = ((queue \ {e}) \cup Entries(CopiesOf[x], TRUE))
                  \cup Entries((links[x] \cup s) \ checked, FALSE)
    BY <1>2, <2>3, <2>4
  <2>. QED  BY <2>1, <2>5, <2>6
<1>5. CASE \E s \in SUBSET cells :
             /\ TreeYields(s, cells, marks)
             /\ cells' = cells \ s
             /\ queue' = left \cup {<<m, FALSE>> : m \in s \ marks}
             /\ checked' = marks \cup s
  <2>. HIDE DEF new, left, marks
  <2>. QED  BY <1>4, <1>5
<1>. HIDE DEF new, left, marks
<1>. QED  BY <1>1, <1>3, <1>5

\* Only a copy the first search found has another entry.
LEMMA EntriesDiffer ==
  ASSUME TypeOK, ComesOnce, user # "none", NEW e \in queue, NEW f \in queue, e # f,
         e[1] = f[1]
  PROVE  e[1] \in Twice
<1>1. e = <<e[1], e[2]>> /\ f = <<f[1], f[2]>> /\ e[2] \in BOOLEAN /\ f[2] \in BOOLEAN
      /\ e[1] \in Sample
  BY DEF TypeOK
<1>2. e[2] # f[2]
  BY <1>1
<1>3. \A g \in queue : IF g[2] THEN g[1] \in Copies
                       ELSE g[1] \in (Centre \cup top.results) \cap checked
  BY DEF ComesOnce
<1>4. (e[2] /\ ~f[2]) \/ (f[2] /\ ~e[2])
  BY <1>1, <1>2
<1>5. e[1] \in Copies /\ e[1] \in Centre \cup top.results
  BY <1>3, <1>4
<1>. QED  BY <1>5, CopyFacts DEF Twice

LEMMA VisitKeeps ==
  ASSUME IInv, NEW e \in queue, Visit(e)
  PROVE  IInv'
<1>. TypeOK /\ PhasesFit /\ ComesOnce /\ HeadsOnce /\ ReachesAll
  BY DEF IInv
<1>. DEFINE x == e[1]
<1>1. PICK s \in SUBSET cells :
        /\ cells' = cells \ s
        /\ checked' = checked \cup links[e[1]] \cup s
        /\ queue' = ((queue \ {e}) \cup Entries(CopiesOf[e[1]], TRUE))
                     \cup Entries((links[e[1]] \cup s) \ checked, FALSE)
        /\ queue' = {} => cells' = {}
  BY VisitFacts
<1>2. /\ busy /\ Len(found) < Batch /\ found' = Append(found, e[1])
      /\ UNCHANGED <<links, dist, user, isFirst, busy, scans, top, returned, ended>>
  BY DEF Visit, history
<1>3. /\ x \in Sample /\ links[x] \subseteq Centre /\ s \subseteq Centre
      /\ CopiesOf[x] \subseteq Copies
      /\ cells \subseteq Centre /\ checked \subseteq Sample
      /\ found \in Seq(Sample) /\ returned \in Seq(Sample)
  BY CopyFacts DEF TypeOK
<1>4. user # "none" /\ ~isFirst /\ ~ended
  BY <1>2 DEF PhasesFit
<1>. DEFINE new == (links[x] \cup s) \ checked
            rest == queue \ {e}
<1>5. new \in SUBSET Centre /\ CopiesOf[x] \in SUBSET Sample /\ new \in SUBSET Sample
  BY <1>3, CopyFacts
<1>6. queue' = (rest \cup Entries(CopiesOf[x], TRUE)) \cup Entries(new, FALSE)
  BY <1>1
<1>7. checked' = checked \cup links[x] \cup s /\ cells' = cells \ s
      /\ (queue' = {} => cells' = {}) /\ found' = Append(found, x)
  BY <1>1, <1>2
<1>8. x \in Queued
  BY DEF Queued
<1>9. rest \subseteq queue
  OBVIOUS
<1>10. \A y \in First(rest) : y \in Queued /\ (y = x => x \in Twice)
  <2>. SUFFICES ASSUME NEW y \in First(rest) PROVE y \in Queued /\ (y = x => x \in Twice)
    OBVIOUS
  <2>1. PICK f \in rest : f[1] = y
    BY DEF First
  <2>. QED  BY <1>4, <2>1, EntriesDiffer DEF Queued
<1>11. Queued \subseteq First(rest) \cup {x}
  BY DEF Queued, First
<1>. HIDE DEF x, new, rest
<1>12. /\ Entries(CopiesOf[x], TRUE) \in SUBSET (Sample \X BOOLEAN)
       /\ \A f \in Entries(CopiesOf[x], TRUE) : f[1] \in CopiesOf[x] /\ f[2] = TRUE
       /\ First(Entries(CopiesOf[x], TRUE)) = CopiesOf[x]
  BY <1>5, EntryFacts
<1>13. /\ Entries(new, FALSE) \in SUBSET (Sample \X BOOLEAN)
       /\ \A f \in Entries(new, FALSE) : f[1] \in new /\ f[2] = FALSE
       /\ First(Entries(new, FALSE)) = new
  BY <1>5, EntryFacts
<1>14. Queued' = First(rest) \cup CopiesOf[x] \cup new
  <2>. DEFINE copies == Entries(CopiesOf[x], TRUE)
              fresh == Entries(new, FALSE)
  <2>. HIDE DEF copies, fresh
  <2>1. queue' = (rest \cup copies) \cup fresh
    BY <1>6 DEF copies, fresh
  <2>2. Queued' = First(rest) \cup First(copies) \cup First(fresh)
    BY <2>1 DEF First, Queued
  <2>. QED  BY <1>12, <1>13, <2>2 DEF copies, fresh
<1>15. /\ found' \in Seq(Sample) /\ Len(found') = Len(found) + 1
       /\ \A k \in 1 .. Len(found) : found'[k] = found[k]
       /\ found'[Len(found) + 1] = x
       /\ Range(found') = Range(found) \cup {x}
  BY <1>3, <1>7, AppendFacts
<1>16. Out' = Out \cup {x}
  BY <1>2, <1>15 DEF Out
<1>17. /\ \A f \in queue : IF f[2] THEN f[1] \in Copies
                           ELSE f[1] \in (Centre \cup top.results) \cap checked
       /\ Queued \cap Out \subseteq Twice
       /\ Out \cap Centre \subseteq checked
       /\ \A t \in Centre \ Out : CopiesOf[t] \cap (Queued \cup Out) \subseteq top.results
       /\ Range(found) \cap Range(returned) \subseteq Twice
       /\ \A i, j \in DOMAIN found : found[i] = found[j] /\ i # j => found[i] \in Twice
  BY <1>4 DEF ComesOnce
<1>18. x \in Centre => x \in checked
  BY <1>3, <1>17, CopyFacts DEF x
<1>19. TypeOK'
  <2>1. queue' \in SUBSET (Sample \X BOOLEAN)
    BY <1>6, <1>9, <1>12, <1>13 DEF TypeOK
  <2>2. cells' \in SUBSET Centre /\ checked' \in SUBSET Sample
    BY <1>3, <1>7, CopyFacts
  <2>. QED  BY <1>2, <1>15, <2>1, <2>2 DEF TypeOK
<1>20. PhasesFit'
  <2>1. Len(found) \in Nat /\ Batch \in Nat
    BY <1>3, LenProperties, BktAssumption DEF Batch
  <2>2. Batch' = Batch
    BY <1>2 DEF Batch
  <2>3. Len(found') <= Batch'
    BY <1>2, <1>15, <2>1, <2>2
  <2>. QED  BY <1>2, <1>4, <2>3 DEF PhasesFit
<1>21. Twice' = Twice
  BY <1>2 DEF Twice
<1>22. ComesOnce'
  <2>1. ASSUME NEW f \in queue'
        PROVE  IF f[2] THEN f[1] \in Copies
               ELSE f[1] \in (Centre \cup top'.results) \cap checked'
    <3>1. CASE f \in rest
      BY <1>2, <1>7, <1>9, <1>17, <3>1
    <3>2. CASE f \in Entries(CopiesOf[x], TRUE)
      BY <1>3, <1>12, <3>2
    <3>3. CASE f \in Entries(new, FALSE)
      BY <1>5, <1>7, <1>13, <3>3 DEF new
    <3>. QED  BY <1>6, <3>1, <3>2, <3>3
  <2>2. ASSUME NEW y \in Queued', y \in Out'
        PROVE  y \in Twice
    <3>1. CASE y \in First(rest)
      BY <1>10, <1>16, <1>17, <2>2, <3>1
    <3>2. CASE y \in CopiesOf[x]
      <4>1. x \in Centre /\ y \in Copies /\ x # y
        BY <1>3, <3>2, CopyFacts
      <4>2. x \notin Out
        BY <1>8, <1>17, <4>1, CopyFacts DEF Twice
      <4>3. y \in Out
        BY <1>16, <2>2, <4>1
      <4>. QED  BY <1>17, <3>2, <4>1, <4>2, <4>3 DEF Twice
    <3>3. CASE y \in new
      <4>1. y \in Centre /\ y \notin checked
        BY <1>5, <3>3 DEF new
      <4>. QED  BY <1>16, <1>17, <1>18, <2>2, <4>1
    <3>. QED  BY <1>14, <2>2, <3>1, <3>2, <3>3
  <2>3. Out' \cap Centre \subseteq checked'
    BY <1>7, <1>16, <1>17, <1>18
  <2>4. ASSUME NEW t \in Centre \ Out', NEW y \in CopiesOf[t], y \in Queued' \cup Out'
        PROVE  y \in top'.results
    <3>1. t # x /\ t \in Centre \ Out /\ t \in Sample /\ y \in Copies /\ y \notin Centre
      BY <1>16, CopyFacts
    <3>2. y \notin CopiesOf[x]
      BY <1>3, <3>1, BktAssumption
    <3>3. y \in Queued \cup Out
      BY <1>5, <1>8, <1>10, <1>14, <1>16, <2>4, <3>1, <3>2
    <3>. QED  BY <1>2, <1>17, <3>1, <3>3
  <2>5. Range(found') \cap Range(returned) \subseteq Twice
    BY <1>8, <1>15, <1>17 DEF Out
  <2>6. ASSUME NEW i \in DOMAIN found', NEW j \in DOMAIN found', found'[i] = found'[j], i # j
        PROVE  found'[i] \in Twice
    <3>1. /\ DOMAIN found' = 1 .. Len(found') /\ DOMAIN found = 1 .. Len(found)
          /\ Len(found) \in Nat
          /\ \A k \in 1 .. Len(found) : found[k] \in Range(found)
      BY <1>3, <1>15, RangeFacts
    <3>2. \A k \in DOMAIN found' : k \in 1 .. Len(found) \/ k = Len(found) + 1
      BY <1>15, <3>1
    <3>3. x \in Range(found) => x \in Twice
      BY <1>8, <1>17 DEF Out
    <3>4. CASE i \in 1 .. Len(found) /\ j \in 1 .. Len(found)
      BY <1>15, <1>17, <2>6, <3>1, <3>4
    <3>5. CASE i = Len(found) + 1 /\ j \in 1 .. Len(found)
      BY <1>15, <2>6, <3>1, <3>3, <3>5
    <3>6. CASE j = Len(found) + 1 /\ i \in 1 .. Len(found)
      BY <1>15, <2>6, <3>1, <3>3, <3>6
    <3>. QED  BY <2>6, <3>2, <3>4, <3>5, <3>6
  <2>. QED  BY <1>2, <1>21, <2>1, <2>2, <2>3, <2>4, <2>5, <2>6 DEF ComesOnce
<1>23. HeadsOnce'
  BY <1>2 DEF HeadsOnce
<1>24. ReachesAll'
  <2>1. /\ \A m \in Out : links[m] \subseteq checked /\ CopiesOf[m] \subseteq Out \cup Queued
        /\ checked \subseteq Out \cup Queued
        /\ From \subseteq checked \cup cells
    BY <1>4 DEF ReachesAll
  <2>2. Out \cup Queued \subseteq Out' \cup Queued'
    BY <1>11, <1>14, <1>16
  <2>3. ASSUME NEW m \in Out'
        PROVE  links'[m] \subseteq checked' /\ CopiesOf[m] \subseteq Out' \cup Queued'
    <3>1. CASE m = x
      BY <1>2, <1>7, <1>14, <3>1
    <3>2. CASE m \in Out
      BY <1>2, <1>7, <2>1, <2>2, <3>2
    <3>. QED  BY <1>16, <3>1, <3>2
  <2>4. checked' \subseteq Out' \cup Queued'
    BY <1>7, <1>14, <2>1, <2>2 DEF new
  <2>5. From' \subseteq checked' \cup cells'
    <3>1. From' = From
      BY <1>2 DEF From
    <3>. QED  BY <1>7, <2>1, <3>1
  <2>. QED  BY <1>7, <2>3, <2>4, <2>5 DEF ReachesAll
<1>. QED  BY <1>19, <1>20, <1>22, <1>23, <1>24 DEF IInv

-----------------------------------------------------------------------------
(* The end of a call, and the theorem.                                     *)

LEMMA EndCallKeeps ==
  ASSUME IInv, EndCall
  PROVE  IInv'
<1>. TypeOK /\ PhasesFit /\ ComesOnce /\ HeadsOnce /\ ReachesAll
  BY DEF IInv
<1>1. PICK r \in Orders(found) : returned' = returned \o r
  BY DEF EndCall
<1>2. /\ busy /\ (Len(found) = Batch \/ queue = {}) /\ busy' = FALSE /\ found' = << >>
      /\ ended' = (ended \/ found = << >>)
      /\ UNCHANGED <<links, dist, user, isFirst, cells, checked, queue, scans, top>>
  BY DEF EndCall
<1>3. user # "none" /\ ~isFirst
  BY <1>2 DEF PhasesFit
<1>4. found \in Seq(Sample) /\ returned \in Seq(Sample)
  BY DEF TypeOK
<1>5. /\ r \in Seq(Sample) /\ Len(r) = Len(found) /\ Range(r) = Range(found)
      /\ \A i, j \in 1 .. Len(r) : r[i] = r[j] /\ i # j =>
           \E m, n \in 1 .. Len(found) : m # n /\ found[m] = r[i] /\ found[n] = r[i]
  BY <1>4, OrderFacts
<1>6. /\ returned' \in Seq(Sample) /\ Len(returned') = Len(returned) + Len(r)
      /\ \A k \in 1 .. Len(returned) : returned'[k] = returned[k]
      /\ \A k \in 1 .. Len(returned') :
           k \in 1 .. Len(returned)
           \/ (k - Len(returned) \in 1 .. Len(r) /\ returned'[k] = r[k - Len(returned)])
      /\ Range(returned') = Range(returned) \cup Range(r)
  <2>. DEFINE u == returned \o r
  <2>1. /\ u \in Seq(Sample) /\ Len(u) = Len(returned) + Len(r)
        /\ \A k \in 1 .. Len(returned) : u[k] = returned[k]
        /\ \A k \in 1 .. Len(u) :
             k \in 1 .. Len(returned)
             \/ (k - Len(returned) \in 1 .. Len(r) /\ u[k] = r[k - Len(returned)])
        /\ Range(u) = Range(returned) \cup Range(r)
    <3>1. r \in Seq(Sample) /\ returned \in Seq(Sample)
      BY <1>4, <1>5
    <3>2. u \in Seq(Sample) /\ Len(u) = Len(returned) + Len(r)
      BY <3>1, ConcatFacts
    <3>3. \A k \in 1 .. Len(returned) : u[k] = returned[k]
      BY <3>1, ConcatFacts
    <3>4. \A k \in 1 .. Len(u) :
             k \in 1 .. Len(returned)
             \/ (k - Len(returned) \in 1 .. Len(r) /\ u[k] = r[k - Len(returned)])
      BY <3>1, ConcatFacts
    <3>5. Range(u) = Range(returned) \cup Range(r)
      BY <3>1, ConcatFacts
    <3>. QED  BY <3>2, <3>3, <3>4, <3>5
  <2>2. returned' = u
    BY <1>1
  <2>. HIDE DEF u
  <2>. QED  BY <2>1, <2>2
<1>7. << >> \in Seq(Sample) /\ Len(<< >>) = 0 /\ DOMAIN << >> = {} /\ Range(<< >>) = {}
  BY NothingFacts
<1>8. Out' = Out
  BY <1>2, <1>5, <1>6, <1>7 DEF Out
<1>9. Queued' = Queued /\ Twice' = Twice /\ From' = From /\ Batch' = Batch
  BY <1>2 DEF Queued, Twice, From, Batch
<1>10. TypeOK'
  <2>1. busy' \in BOOLEAN
    BY <1>2
  <2>2. ended' \in BOOLEAN
    BY <1>2
  <2>. QED  BY <1>2, <1>6, <1>7, <2>1, <2>2 DEF TypeOK
<1>11. PhasesFit'
  <2>1. ended' => queue' = {} /\ found' = << >>
    <3>1. Batch # 0
      BY BktAssumption DEF Batch
    <3>2. found = << >> => queue = {}
      BY <1>2, <1>7, <3>1
    <3>. QED  BY <1>2, <3>2 DEF PhasesFit
  <2>2. Len(found') <= Batch'
    BY <1>2, <1>7, BktAssumption DEF Batch
  <2>. QED  BY <1>2, <1>3, <2>1, <2>2 DEF PhasesFit
<1>12. ComesOnce'
  BY <1>2, <1>3, <1>7, <1>8, <1>9 DEF ComesOnce
<1>13. HeadsOnce'
  <2>. SUFFICES ASSUME NEW i \in 1 .. Len(returned'), NEW j \in 1 .. Len(returned'),
                       returned'[i] = returned'[j], i # j
       PROVE returned'[i] \in Twice
    BY <1>9 DEF HeadsOnce, Twice
  <2>1. /\ Range(found) \cap Range(returned) \subseteq Twice
        /\ \A m, n \in DOMAIN found : found[m] = found[n] /\ m # n => found[m] \in Twice
    BY <1>3 DEF ComesOnce
  <2>2. /\ \A k \in 1 .. Len(returned) : returned[k] \in Range(returned)
        /\ \A k \in 1 .. Len(r) : r[k] \in Range(found)
        /\ DOMAIN found = 1 .. Len(found) /\ Len(returned) \in Nat
    BY <1>4, <1>5, RangeFacts
  <2>3. CASE i \in 1 .. Len(returned) /\ j \in 1 .. Len(returned)
    BY <1>6, <2>3 DEF HeadsOnce, Twice
  <2>4. CASE i \in 1 .. Len(returned) /\ j \notin 1 .. Len(returned)
    BY <1>6, <2>1, <2>2, <2>4
  <2>5. CASE j \in 1 .. Len(returned) /\ i \notin 1 .. Len(returned)
    BY <1>6, <2>1, <2>2, <2>5
  <2>6. CASE i \notin 1 .. Len(returned) /\ j \notin 1 .. Len(returned)
    <3>1. /\ i - Len(returned) \in 1 .. Len(r) /\ returned'[i] = r[i - Len(returned)]
          /\ j - Len(returned) \in 1 .. Len(r) /\ returned'[j] = r[j - Len(returned)]
          /\ i - Len(returned) # j - Len(returned)
      BY <1>6, <2>2, <2>6
    <3>2. PICK a, b \in 1 .. Len(r) : a # b /\ r[a] = returned'[i] /\ r[b] = returned'[i]
      BY ONLY <3>1, returned'[i] = returned'[j]
    <3>3. PICK m, n \in 1 .. Len(found) :
            m # n /\ found[m] = returned'[i] /\ found[n] = returned'[i]
      BY <1>5, <3>2
    <3>. QED  BY <2>1, <2>2, <3>3
  <2>. QED  BY <2>3, <2>4, <2>5, <2>6
<1>14. ReachesAll'
  BY <1>2, <1>3, <1>8, <1>9 DEF ReachesAll
<1>. QED  BY <1>10, <1>11, <1>12, <1>13, <1>14 DEF IInv

LEMMA NextKeeps == IInv /\ [Next]_vars => IInv'
<1>. SUFFICES ASSUME IInv, [Next]_vars PROVE IInv'
  OBVIOUS
<1>1. ASSUME NEW u \in {"iterator", "heads"}, Open(u) PROVE IInv'
  BY <1>1, OpenKeeps
<1>2. CASE Close
  BY <1>2, CloseKeeps
<1>3. CASE FirstNext
  BY <1>3, FirstNextKeeps
<1>4. CASE FirstHeads
  BY <1>4, FirstHeadsKeeps
<1>5. CASE LaterNext
  BY <1>5, LaterNextKeeps
<1>6. ASSUME NEW e \in queue, Visit(e) PROVE IInv'
  BY <1>6, VisitKeeps
<1>7. CASE EndCall
  BY <1>7, EndCallKeeps
<1>8. CASE UNCHANGED vars
  BY <1>8, StuttersKeeps
<1>. QED  BY <1>1, <1>2, <1>3, <1>4, <1>5, <1>6, <1>7, <1>8 DEF Next

(***************************************************************************)
(* In any search of a used workspace a sample is marked when the queue has *)
(* it, leaves the queue once, and its neighbours and copies are marked or  *)
(* queued by then.                                                         *)
(***************************************************************************)
THEOREM Inductive == Spec => []IInv
<1>1. Init => IInv
  BY InitKeeps
<1>. QED  BY <1>1, NextKeeps, PTL DEF Spec

(***************************************************************************)
(* A scan that had no result has returned all that its starting points     *)
(* reach, through neighbours and copies, in any graph: for an sptag scan   *)
(* every centre is a starting point, as the tree brings the rest.          *)
(***************************************************************************)
THEOREM NothingUnreached == Spec => []ReturnsAll
<1>1. IInv => ReturnsAll
  <2>. SUFFICES ASSUME IInv, ended PROVE Reachable(From) \subseteq Range(returned)
    BY DEF ReturnsAll
  <2>1. TypeOK /\ PhasesFit /\ ReachesAll
    BY DEF IInv
  <2>2. user # "none" /\ ~isFirst /\ queue = {} /\ found = << >>
    BY <2>1 DEF PhasesFit
  <2>3. Out = Range(returned) /\ Queued = {}
    BY <2>2, NothingFacts DEF Out, Queued
  <2>4. /\ \A m \in Out : links[m] \cup CopiesOf[m] \subseteq Out
        /\ From \subseteq Out
    BY <2>1, <2>2, <2>3 DEF ReachesAll
  <2>5. Out \in SUBSET Sample
    BY <2>1, <2>3, RangeFacts DEF TypeOK
  <2>6. ASSUME NEW n \in Reachable(From)
        PROVE  n \in Out
    BY <2>4, <2>5 DEF Reachable
  <2>. QED  BY <2>3, <2>6
<1>. QED  BY <1>1, Inductive, PTL

(***************************************************************************)
(* SPANN's batches bring no head twice, but for a copy that the first      *)
(* search found by itself.                                                 *)
(***************************************************************************)
THEOREM NoHeadTwice == Spec => []HeadsOnce
<1>1. IInv => HeadsOnce
  BY DEF IInv
<1>. QED  BY <1>1, Inductive, PTL

-----------------------------------------------------------------------------
(* The iterator implements VectorSource.                                   *)

LEMMA EndCallRefines ==
  ASSUME IInv, EndCall, Scanning
  PROVE  Source!Next
<1>. TypeOK /\ PhasesFit /\ ComesOnce
  BY DEF IInv
<1>1. PICK r \in Orders(found) : returned' = returned \o r
  BY DEF EndCall
<1>2. user = "iterator" /\ user' = user /\ ended' = (ended \/ found = << >>)
      /\ Scanning /\ Scanning'
  BY DEF EndCall, Scanning
<1>3. found \in Seq(Sample) /\ returned \in Seq(Sample) /\ r \in Seq(Sample)
      /\ Len(r) = Len(found) /\ Range(r) = Range(found) /\ Len(found) \in Nat
      /\ Len(found) <= 1
  <2>1. found \in Seq(Sample) /\ returned \in Seq(Sample)
    BY DEF TypeOK
  <2>2. Len(found) <= 1
    BY <1>2 DEF PhasesFit, Batch
  <2>. QED  BY <2>1, <2>2, OrderFacts, LenProperties
<1>4. CASE Len(found) = 0
  <2>1. r = << >> /\ found = << >>
    BY <1>3, <1>4, EmptySeq
  <2>2. returned' = returned /\ ended' = TRUE
    BY <1>1, <1>2, <1>3, <2>1, ConcatEmptySeq
  <2>. QED  BY <1>2, <2>2 DEF Source!Next, Source!Finish
<1>5. CASE Len(found) = 1
  <2>. DEFINE x == r[1]
  <2>1. 1 \in 1 .. Len(r) /\ \A k \in 1 .. Len(r) : k = 1
    BY <1>3, <1>5
  <2>2. x \in Sample /\ x \in Range(found)
    <3>1. r[1] \in Sample /\ r[1] \in Range(r)
      BY <1>3, <2>1, RangeFacts
    <3>. QED  BY <1>3, <3>1
  <2>3. returned' = Append(returned, x)
    <3>1. Len(<<x>>) = 1 /\ <<x>>[1] = x /\ <<x>> \in Seq(Sample)
      BY <2>2
    <3>2. r = <<x>>
      <4>. HIDE DEF x
      <4>1. Len(r) = Len(<<x>>) /\ \A k \in 1 .. Len(r) : r[k] = <<x>>[k]
        BY <1>3, <1>5, <2>1, <3>1 DEF x
      <4>. QED  BY <1>3, <3>1, <4>1, SeqEqual
    <3>. HIDE DEF x
    <3>3. returned \o <<x>> = Append(returned, x)
      BY <1>3, <2>2
    <3>. QED  BY <1>1, <3>2, <3>3
  <2>. HIDE DEF x
  <2>4. found # << >>
    BY <1>5, NothingFacts
  <2>5. ~ended /\ ~ended'
    BY <1>2, <2>4 DEF PhasesFit
  <2>6. x \notin Range(returned)
    BY <1>2, <2>2 DEF ComesOnce, PhasesFit, Twice
  <2>7. Source!Yield(x)
    BY <1>2, <2>3, <2>5, <2>6 DEF Source!Yield, Source!Range, Range
  <2>. QED  BY <2>2, <2>7 DEF Source!Next
<1>. QED  BY <1>3, <1>4, <1>5

LEMMA NextRefines ==
  ASSUME IInv, [Next]_vars
  PROVE  [Source!Next]_(Source!vars)
<1>1. ASSUME UNCHANGED <<user, returned, ended>>
      PROVE  UNCHANGED Source!vars
  BY <1>1 DEF Source!vars, Scanning
<1>2. ASSUME NEW u \in {"iterator", "heads"}, Open(u)
      PROVE  UNCHANGED Source!vars
  BY <1>2 DEF Open, history, IInv, PhasesFit, Source!vars, Scanning
<1>3. CASE Close
  BY <1>3 DEF Close, Source!Next, Source!Restart, Scanning
<1>4. CASE FirstNext \/ FirstHeads \/ LaterNext \/ (\E e \in queue : Visit(e))
           \/ UNCHANGED vars
  BY <1>1, <1>4 DEF FirstNext, FirstHeads, LaterNext, Visit, vars, history
<1>5. CASE EndCall /\ Scanning
  BY <1>5, EndCallRefines
<1>6. CASE EndCall /\ ~Scanning
  BY <1>6 DEF EndCall, Source!vars, Scanning
<1>. QED  BY <1>2, <1>3, <1>4, <1>5, <1>6 DEF Next

(***************************************************************************)
(* Next() of the sptag iterator keeps what the access method assumes of    *)
(* an iterator: no vector twice in a scan, no pause, nothing after the     *)
(* end, whoever used the workspace before.                                 *)
(***************************************************************************)
THEOREM IsVectorSource == Spec => ImplementsSource
<1>1. Init => Source!Init
  BY DEF Init, Source!Init, Scanning
<1>2. IInv /\ [Next]_vars => [Source!Next]_(Source!vars)
  BY NextRefines
<1>. QED  BY <1>1, <1>2, Inductive, PTL DEF Spec, ImplementsSource, Source!Spec

=============================================================================
