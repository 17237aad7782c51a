------------------------- MODULE HnswIterator_proofs -------------------------
(***************************************************************************)
(* IInv of HnswIterator is inductive, for any graph, any number of         *)
(* iterators and any width of the visited tag, and what follows from it.   *)
(***************************************************************************)
EXTENDS HnswIterator, SequenceTheorems, TLAPS

LEMMA TagRange ==
  ASSUME TypeOK, NEW l \in Lists
  PROVE  NextTag(l) = IF tag[l] = TagMod - 1 THEN 0 ELSE tag[l] + 1
<1>. tag[l] \in 0 .. TagMod - 1
  BY DEF TypeOK
<1>1. CASE tag[l] = TagMod - 1
  <2>1. TagMod % TagMod = 0
    BY IteratorAssumption
  <2>. QED  BY <1>1, <2>1, IteratorAssumption DEF NextTag
<1>2. CASE tag[l] # TagMod - 1
  <2>. DEFINE t == tag[l] + 1
  <2>1. t \in 0 .. TagMod - 1 /\ t < TagMod /\ TagMod \in Nat
    BY <1>2, IteratorAssumption
  <2>2. t % TagMod = t
    <3>. HIDE DEF t
    <3>. QED  BY <2>1
  <2>. QED  BY <1>2, <2>2, IteratorAssumption DEF NextTag
<1>. QED  BY <1>1, <1>2

LEMMA FreshIsNew ==
  ASSUME TypeOK, MarksNotAhead, NEW l \in Lists
  PROVE  /\ Fresh(l)[1] \in 1 .. TagMod - 1
         /\ Fresh(l)[2] \in [Node -> 0 .. TagMod - 1]
         /\ \A n \in Node : Fresh(l)[2][n] < Fresh(l)[1]
<1>. /\ tag[l] \in 0 .. TagMod - 1
     /\ mass[l] \in [Node -> 0 .. TagMod - 1]
     /\ \A n \in Node : mass[l][n] <= tag[l] /\ mass[l][n] \in 0 .. TagMod - 1
  BY DEF TypeOK, MarksNotAhead
<1>1. CASE tag[l] = TagMod - 1
  <2>1. Fresh(l) = <<1, [n \in Node |-> 0]>>
    BY <1>1, TagRange DEF Fresh
  <2>. QED  BY <2>1, IteratorAssumption
<1>2. CASE tag[l] # TagMod - 1
  <2>1. NextTag(l) = tag[l] + 1 /\ NextTag(l) # 0
    BY <1>2, TagRange
  <2>2. Fresh(l) = <<tag[l] + 1, mass[l]>>
    BY <2>1 DEF Fresh
  <2>. QED  BY <1>2, <2>2, IteratorAssumption
<1>. QED  BY <1>1, <1>2

-----------------------------------------------------------------------------
(***************************************************************************)
(* An iterator that a step does not concern keeps its part of IInv, as     *)
(* long as its visited list is left alone: points marked deleted, and      *)
(* links changed by an insertion, do no harm.                              *)
(***************************************************************************)
Own(it) ==
  ReturnsOnce(it) /\ MarksAreOwn(it) /\ LinksAreFollowed(it) /\ QueueIsLate(it)

LEMMA SameVisited ==
  ASSUME NEW it \in Iter, vl'[it] = vl[it],
         mass'[vl[it]] = mass[vl[it]], tag'[vl[it]] = tag[vl[it]]
  PROVE  Visited(it)' = Visited(it)
BY DEF Visited

LEMMA Frame ==
  ASSUME NEW it \in Iter, Own(it),
         vl'[it] = vl[it], mass'[vl[it]] = mass[vl[it]],
         tag'[vl[it]] = tag[vl[it]], candidates'[it] = candidates[it],
         isFirst'[it] = isFirst[it], start'[it] = start[it],
         emitted'[it] = emitted[it], exhausted'[it] = exhausted[it],
         deleted \subseteq deleted',
         ~grown'[it] => ~grown[it] /\ links' = links,
         dist' = dist,
         busy' = it => busy = it
  PROVE  Own(it)'
<1>1. Visited(it)' = Visited(it)
  BY SameVisited
<1>2. ReturnsOnce(it)'
  BY DEF Own, ReturnsOnce
<1>3. MarksAreOwn(it)'
  BY <1>1 DEF Own, MarksAreOwn
<1>4. Expanded(it)' = Expanded(it)
  BY <1>1 DEF Expanded
<1>5. LinksAreFollowed(it)'
  BY <1>1, <1>4 DEF Own, LinksAreFollowed
<1>6. QueueIsLate(it)'
  BY <1>1 DEF Own, QueueIsLate, RelaxedOrder, FoundLate
<1>. QED  BY <1>2, <1>3, <1>5, <1>6 DEF Own

LEMMA OwnOfInv ==
  ASSUME IInv, NEW it \in OpenIters
  PROVE  Own(it)
BY DEF IInv, Own

LEMMA OpenInIter == OpenIters \subseteq Iter /\ \A it \in Iter : it \in OpenIters <=> phase[it] = "open"
BY DEF OpenIters

(***************************************************************************)
(* A list taken from the pool is no open iterator's.                       *)
(***************************************************************************)
LEMMA FreeIsUnowned ==
  ASSUME IInv, NEW l \in FreeLists
  PROVE  /\ l \in Lists
         /\ \A it \in OpenIters : vl[it] # l
<1>. TypeOK /\ ListsOwnedOnce /\ ListsKnown
  BY DEF IInv
<1>1. CASE pool = << >>
  <2>. /\ allocated \in 1 .. MaxLists /\ allocated < MaxLists /\ l = allocated + 1
       /\ \A it \in OpenIters : vl[it] \in 1 .. MaxLists /\ vl[it] <= allocated
    BY <1>1, OpenInIter DEF FreeLists, TypeOK, Lists, ListsKnown
  <2>. QED  BY IteratorAssumption DEF Lists
<1>2. CASE pool # << >>
  <2>1. l = Head(pool) /\ pool \in Seq(Lists)
    BY <1>2 DEF FreeLists, TypeOK
  <2>2. 1 \in 1 .. Len(pool) /\ Head(pool) = pool[1] /\ pool[1] \in Lists
    BY <1>2, <2>1
  <2>3. l \in Range(pool)
    BY <2>1, <2>2 DEF Range
  <2>. QED  BY <2>1, <2>2, <2>3 DEF ListsOwnedOnce
<1>. QED  BY <1>1, <1>2

\* What TakeList leaves in the pool.
LEMMA TailIsPart ==
  ASSUME IInv, pool # << >>
  PROVE  /\ Tail(pool) \in Seq(Lists)
         /\ \A n \in 1 .. Len(Tail(pool)) :
              n + 1 \in 1 .. Len(pool) /\ Tail(pool)[n] = pool[n + 1]
         /\ \A m, n \in 1 .. Len(Tail(pool)) :
              Tail(pool)[m] = Tail(pool)[n] => m = n
         /\ \A n \in 1 .. Len(Tail(pool)) :
              Tail(pool)[n] # Head(pool) /\ Tail(pool)[n] <= allocated
         /\ Range(Tail(pool)) \subseteq Range(pool)
         /\ Head(pool) \notin Range(Tail(pool))
<1>. TypeOK /\ ListsOwnedOnce /\ ListsKnown /\ pool \in Seq(Lists)
  BY DEF IInv, TypeOK
<1>1. /\ Tail(pool) \in Seq(Lists)
      /\ \A n \in 1 .. Len(Tail(pool)) :
           n + 1 \in 1 .. Len(pool) /\ Tail(pool)[n] = pool[n + 1]
      /\ Head(pool) = pool[1] /\ 1 \in 1 .. Len(pool) /\ Len(pool) \in Nat
      /\ Len(Tail(pool)) \in Nat
  OBVIOUS
<1>2. \A m, n \in 1 .. Len(Tail(pool)) : Tail(pool)[m] = Tail(pool)[n] => m = n
  <2>. SUFFICES ASSUME NEW m \in 1 .. Len(Tail(pool)), NEW n \in 1 .. Len(Tail(pool)),
                       Tail(pool)[m] = Tail(pool)[n]
                PROVE  m = n
    OBVIOUS
  <2>1. pool[m + 1] = pool[n + 1] /\ m + 1 \in 1 .. Len(pool) /\ n + 1 \in 1 .. Len(pool)
    BY <1>1
  <2>2. m + 1 = n + 1
    BY <2>1 DEF ListsOwnedOnce
  <2>. QED  BY <2>2
<1>3. \A n \in 1 .. Len(Tail(pool)) :
        Tail(pool)[n] # Head(pool) /\ Tail(pool)[n] <= allocated
  <2>. SUFFICES ASSUME NEW n \in 1 .. Len(Tail(pool))
                PROVE  Tail(pool)[n] # Head(pool) /\ Tail(pool)[n] <= allocated
    OBVIOUS
  <2>1. n + 1 \in 1 .. Len(pool) /\ Tail(pool)[n] = pool[n + 1] /\ n + 1 # 1
    BY <1>1
  <2>2. pool[n + 1] # pool[1]
    BY <1>1, <2>1 DEF ListsOwnedOnce
  <2>. QED  BY <1>1, <2>1, <2>2 DEF ListsKnown
<1>4. Range(Tail(pool)) \subseteq Range(pool) /\ Head(pool) \notin Range(Tail(pool))
  <2>1. \A x \in Range(Tail(pool)) : \E n \in 1 .. Len(Tail(pool)) : x = Tail(pool)[n]
    BY <1>1 DEF Range
  <2>. QED  BY <1>1, <1>3, <2>1 DEF Range
<1>. QED  BY <1>1, <1>2, <1>3, <1>4

LEMMA TakeListKeeps ==
  ASSUME IInv, NEW l \in FreeLists, TakeList(l)
  PROVE  /\ pool' \in Seq(Lists)
         /\ allocated' \in Lists /\ allocated <= allocated' /\ l <= allocated'
         /\ tag' \in [Lists -> 0 .. TagMod - 1]
         /\ mass' \in [Lists -> [Node -> 0 .. TagMod - 1]]
         /\ MarksNotAhead'
         /\ \A n \in 1 .. Len(pool') : pool'[n] <= allocated'
         /\ \A m, n \in 1 .. Len(pool') : pool'[m] = pool'[n] => m = n
         /\ Range(pool') \subseteq Range(pool) /\ l \notin Range(pool')
         /\ tag'[l] # 0 /\ \A n \in Node : mass'[l][n] # tag'[l]
         /\ \A k \in Lists \ {l} : mass'[k] = mass[k] /\ tag'[k] = tag[k]
<1>. /\ TypeOK /\ ListsOwnedOnce /\ ListsKnown /\ MarksNotAhead
     /\ l \in Lists /\ pool \in Seq(Lists) /\ allocated \in Lists
     /\ tag \in [Lists -> 0 .. TagMod - 1]
     /\ mass \in [Lists -> [Node -> 0 .. TagMod - 1]]
  BY FreeIsUnowned DEF IInv, TypeOK
<1>1. /\ pool' \in Seq(Lists)
      /\ allocated' \in Lists /\ allocated <= allocated' /\ l <= allocated'
      /\ \A n \in 1 .. Len(pool') : pool'[n] <= allocated'
      /\ \A m, n \in 1 .. Len(pool') : pool'[m] = pool'[n] => m = n
      /\ Range(pool') \subseteq Range(pool) /\ l \notin Range(pool')
  <2>1. CASE pool = << >>
    <3>1. pool' = pool /\ allocated' = l /\ l = allocated + 1
      BY <2>1 DEF TakeList, FreeLists
    <3>2. Range(pool) = {}
      BY <2>1 DEF Range
    <3>. QED  BY <2>1, <3>1, <3>2 DEF Lists
  <2>2. CASE pool # << >>
    <3>1. pool' = Tail(pool) /\ allocated' = allocated /\ l = Head(pool)
      BY <2>2 DEF TakeList, FreeLists
    <3>2. l = pool[1] /\ 1 \in 1 .. Len(pool)
      BY <2>2, <3>1
    <3>3. l <= allocated
      BY <3>2 DEF ListsKnown
    <3>4. /\ pool' \in Seq(Lists)
          /\ \A m, n \in 1 .. Len(pool') : pool'[m] = pool'[n] => m = n
          /\ Range(pool') \subseteq Range(pool) /\ l \notin Range(pool')
      BY <2>2, <3>1, TailIsPart, Zenon
    <3>5. \A n \in 1 .. Len(pool') : pool'[n] <= allocated'
      BY <2>2, <3>1, TailIsPart, Zenon
    <3>6. allocated' \in Lists /\ allocated <= allocated' /\ l <= allocated'
      BY <3>1, <3>3 DEF Lists
    <3>. QED  BY <3>4, <3>5, <3>6
  <2>. QED  BY <2>1, <2>2
<1>2. /\ tag' = [tag EXCEPT ![l] = Fresh(l)[1]]
      /\ mass' = [mass EXCEPT ![l] = Fresh(l)[2]]
  BY DEF TakeList
<1>3. /\ Fresh(l)[1] \in 1 .. TagMod - 1
      /\ Fresh(l)[2] \in [Node -> 0 .. TagMod - 1]
      /\ \A n \in Node : Fresh(l)[2][n] < Fresh(l)[1]
  BY FreshIsNew
<1>4. /\ tag' \in [Lists -> 0 .. TagMod - 1]
      /\ mass' \in [Lists -> [Node -> 0 .. TagMod - 1]]
      /\ tag'[l] = Fresh(l)[1] /\ mass'[l] = Fresh(l)[2]
      /\ \A k \in Lists \ {l} : mass'[k] = mass[k] /\ tag'[k] = tag[k]
  BY <1>2, <1>3, IteratorAssumption
<1>5. MarksNotAhead'
  <2>. SUFFICES ASSUME NEW k \in Lists, NEW n \in Node
                PROVE  mass'[k][n] <= tag'[k]
    BY DEF MarksNotAhead, Lists
  <2>1. CASE k = l
    BY <1>3, <1>4, <2>1, IteratorAssumption
  <2>2. CASE k # l
    BY <1>4, <2>2 DEF MarksNotAhead
  <2>. QED  BY <2>1, <2>2
<1>6. tag'[l] # 0 /\ \A n \in Node : mass'[l][n] # tag'[l]
  BY <1>3, <1>4, IteratorAssumption
<1>. QED  BY <1>1, <1>4, <1>5, <1>6

-----------------------------------------------------------------------------
LEMMA OpenKeeps ==
  ASSUME IInv, NEW it \in Iter, Open(it)
  PROVE  IInv'
<1>. /\ TypeOK /\ ListsOwnedOnce /\ ListsKnown /\ NodesKnown /\ MarksNotAhead
     /\ UnopenedIsFresh
     /\ busy = NoIter /\ busy' = NoIter /\ phase[it] = "none"
     /\ UNCHANGED <<graph, dist, candidates, isFirst, start, emitted, exhausted,
                    grown>>
     /\ phase' = [phase EXCEPT ![it] = "open"]
  BY DEF IInv, Open
<1>1. PICK l \in FreeLists : TakeList(l) /\ vl' = [vl EXCEPT ![it] = l]
  BY DEF Open
<1>2. l \in Lists /\ \A o \in OpenIters : vl[o] # l
  BY FreeIsUnowned
<1>3. /\ pool' \in Seq(Lists)
      /\ allocated' \in Lists /\ allocated <= allocated' /\ l <= allocated'
      /\ tag' \in [Lists -> 0 .. TagMod - 1]
      /\ mass' \in [Lists -> [Node -> 0 .. TagMod - 1]]
      /\ MarksNotAhead'
      /\ \A n \in 1 .. Len(pool') : pool'[n] <= allocated'
      /\ \A m, n \in 1 .. Len(pool') : pool'[m] = pool'[n] => m = n
      /\ Range(pool') \subseteq Range(pool) /\ l \notin Range(pool')
      /\ tag'[l] # 0 /\ \A n \in Node : mass'[l][n] # tag'[l]
      /\ \A k \in Lists \ {l} : mass'[k] = mass[k] /\ tag'[k] = tag[k]
  BY <1>1, TakeListKeeps
<1>4. OpenIters' = OpenIters \cup {it} /\ it \notin OpenIters
  BY DEF OpenIters, TypeOK
<1>5. /\ \A o \in OpenIters : vl'[o] = vl[o] /\ vl[o] \in Lists \ {l}
      /\ vl'[it] = l
  BY <1>1, <1>2, <1>4 DEF OpenIters, TypeOK
<1>6. TypeOK'
  BY <1>1, <1>2, <1>3 DEF TypeOK, graph
<1>7. ListsOwnedOnce'
  <2>1. \A a, b \in OpenIters \cup {it} : vl'[a] = vl'[b] => a = b
    BY <1>4, <1>5 DEF ListsOwnedOnce
  <2>2. \A a \in OpenIters \cup {it} : vl'[a] \notin Range(pool')
    BY <1>3, <1>4, <1>5 DEF ListsOwnedOnce
  <2>. QED  BY <1>3, <1>4, <2>1, <2>2 DEF ListsOwnedOnce
<1>8. ListsKnown'
  <2>1. \A o \in OpenIters : vl[o] <= allocated /\ vl[o] \in Int /\ allocated \in Int
                             /\ allocated' \in Int
    BY <1>3, <1>5 DEF ListsKnown, TypeOK, Lists
  <2>2. \A o \in OpenIters \cup {it} : vl'[o] <= allocated'
    BY <1>3, <1>5, <2>1
  <2>. QED  BY <1>3, <1>4, <2>2 DEF ListsKnown
<1>9. candidates[it] = {} /\ Own(it)'
  <2>1. /\ isFirst'[it] /\ ~exhausted'[it]
        /\ candidates'[it] = {} /\ start'[it] = {} /\ emitted'[it] = << >>
    BY DEF UnopenedIsFresh
  <2>2. Visited(it)' = {}
    BY <1>3, <1>5 DEF Visited
  <2>3. Range(<< >>) = {}
    BY DEF Range
  <2>4. ReturnsOnce(it)' /\ MarksAreOwn(it)'
    BY <1>3, <1>5, <2>1, <2>2, <2>3 DEF ReturnsOnce, MarksAreOwn
  <2>5. LinksAreFollowed(it)'
    BY <2>1, <2>2, IteratorAssumption DEF LinksAreFollowed, Expanded
  <2>6. QueueIsLate(it)'
    BY <2>1, <2>2 DEF QueueIsLate, RelaxedOrder
  <2>. QED  BY <2>1, <2>4, <2>5, <2>6 DEF Own
<1>12. UnopenedIsFresh'
  BY DEF UnopenedIsFresh, TypeOK
<1>10. NodesKnown'
  BY <1>4, <1>9 DEF NodesKnown, graph
<1>11. \A o \in OpenIters : Own(o)'
  <2>. SUFFICES ASSUME NEW o \in OpenIters PROVE Own(o)'
    OBVIOUS
  <2>1. Own(o) /\ o \in Iter
    BY OwnOfInv, OpenInIter
  <2>2. mass'[vl[o]] = mass[vl[o]] /\ tag'[vl[o]] = tag[vl[o]] /\ vl'[o] = vl[o]
    BY <1>3, <1>5
  <2>. QED  BY <2>1, <2>2, Frame DEF graph
<1>. QED  BY <1>3, <1>4, <1>6, <1>7, <1>8, <1>9, <1>10, <1>11, <1>12 DEF IInv, Own

(***************************************************************************)
(* Steps that leave the lists, the graph and the set of open iterators     *)
(* alone preserve the parts of IInv that speak of them.                    *)
(***************************************************************************)
LEMMA SameListsKeep ==
  ASSUME IInv, UNCHANGED <<lists, phase, vl>>
  PROVE  ListsOwnedOnce' /\ ListsKnown' /\ MarksNotAhead' /\ OpenIters' = OpenIters
<1>1. ListsOwnedOnce /\ ListsKnown /\ MarksNotAhead
  BY DEF IInv
<1>2. OpenIters' = OpenIters
  BY DEF OpenIters
<1>. QED  BY <1>1, <1>2 DEF ListsOwnedOnce, ListsKnown, MarksNotAhead, lists, Range

LEMMA NextOnEmptyKeeps ==
  ASSUME IInv, NEW it \in Iter, NextOnEmpty(it)
  PROVE  IInv'
<1>. /\ TypeOK /\ UnopenedIsFresh /\ NodesKnown
     /\ busy = NoIter /\ phase[it] = "open" /\ elems = {}
     /\ isFirst' = [isFirst EXCEPT ![it] = FALSE]
     /\ exhausted' = [exhausted EXCEPT ![it] = TRUE]
     /\ UNCHANGED <<graph, dist, lists, phase, vl, candidates, start, emitted,
                    grown, busy>>
  BY DEF IInv, NextOnEmpty
<1>1. ListsOwnedOnce' /\ ListsKnown' /\ MarksNotAhead' /\ OpenIters' = OpenIters
  BY SameListsKeep
<1>2. TypeOK'
  BY DEF TypeOK, graph, lists
<1>3. UnopenedIsFresh' /\ NodesKnown'
  BY <1>1 DEF UnopenedIsFresh, NodesKnown, TypeOK, graph
<1>4. it \in OpenIters /\ candidates[it] = {}
  BY DEF OpenIters, NodesKnown
<1>5. Own(it)'
  <2>1. Own(it)
    BY <1>4, OwnOfInv
  <2>2. Visited(it)' = Visited(it)
    BY DEF Visited, lists
  <2>3. ReturnsOnce(it)' /\ MarksAreOwn(it)'
    BY <2>1, <2>2 DEF Own, ReturnsOnce, MarksAreOwn, lists, graph
  <2>4. LinksAreFollowed(it)'
    BY <1>4, <2>1, <2>2, IteratorAssumption
       DEF Own, LinksAreFollowed, Expanded, graph, TypeOK
  <2>5. QueueIsLate(it)'
    BY <2>1, <2>2 DEF Own, QueueIsLate, RelaxedOrder, FoundLate, graph
  <2>. QED  BY <2>3, <2>4, <2>5 DEF Own
<1>6. \A o \in OpenIters : Own(o)'
  <2>. SUFFICES ASSUME NEW o \in OpenIters, o # it PROVE Own(o)'
    BY <1>5
  <2>1. Own(o) /\ o \in Iter
    BY OwnOfInv, OpenInIter
  <2>2. isFirst'[o] = isFirst[o] /\ exhausted'[o] = exhausted[o]
    BY <2>1 DEF TypeOK
  <2>. QED  BY <2>1, <2>2, Frame DEF graph, lists
<1>. QED  BY <1>1, <1>2, <1>3, <1>6 DEF IInv, Own

LEMMA NextResultKeeps ==
  ASSUME IInv, NEW it \in Iter, NextResult(it)
  PROVE  IInv'
<1>. /\ TypeOK /\ UnopenedIsFresh /\ NodesKnown
     /\ busy = NoIter /\ phase[it] = "open"
     /\ isFirst' = [isFirst EXCEPT ![it] = FALSE]
     /\ busy' = it
     /\ UNCHANGED <<graph, dist, lists, phase, vl, emitted, exhausted, grown>>
  BY DEF IInv, NextResult
<1>1. ListsOwnedOnce' /\ ListsKnown' /\ MarksNotAhead' /\ OpenIters' = OpenIters
  BY SameListsKeep
<1>2. it \in OpenIters /\ Own(it) /\ elems \subseteq Node
  BY OwnOfInv DEF OpenIters, TypeOK
<1>3. Visited(it)' = Visited(it)
  BY DEF Visited, lists
<1>4. /\ candidates' \in [Iter -> SUBSET Node] /\ start' \in [Iter -> SUBSET Node]
      /\ candidates'[it] \subseteq elems
      /\ \A o \in Iter \ {it} : candidates'[o] = candidates[o] /\ start'[o] = start[o]
      /\ Own(it)'
  <2>1. CASE isFirst[it]
    <3>1. PICK entry \in elems :
             /\ candidates' = [candidates EXCEPT ![it] = @ \cup {entry}]
             /\ start' = [start EXCEPT ![it] = {entry}]
      BY <2>1 DEF NextResult
    <3>2. /\ candidates[it] = {} /\ emitted[it] = << >> /\ ~exhausted[it]
          /\ Visited(it) = {}
      BY <1>2, <2>1 DEF Own, LinksAreFollowed
    <3>3. /\ candidates'[it] = {entry} /\ start'[it] = {entry}
          /\ candidates' \in [Iter -> SUBSET Node] /\ start' \in [Iter -> SUBSET Node]
          /\ \A o \in Iter \ {it} : candidates'[o] = candidates[o] /\ start'[o] = start[o]
      BY <1>2, <3>1, <3>2 DEF TypeOK
    <3>4. Range(<< >>) = {}
      BY DEF Range
    <3>5. ReturnsOnce(it)' /\ MarksAreOwn(it)'
      BY <1>2, <1>3, <3>2, <3>3, <3>4 DEF Own, ReturnsOnce, MarksAreOwn, lists, graph
    <3>6. ~isFirst'[it] /\ ~exhausted'[it]
      BY <3>2 DEF TypeOK
    <3>7. LinksAreFollowed(it)'
      BY <1>3, <3>2, <3>3, <3>6 DEF LinksAreFollowed, Expanded
    <3>8. QueueIsLate(it)'
      BY <1>2, <3>2, <3>3 DEF QueueIsLate, RelaxedOrder
    <3>. QED  BY <1>2, <3>3, <3>5, <3>7, <3>8 DEF Own
  <2>2. CASE ~isFirst[it]
    <3>1. UNCHANGED <<candidates, start>>
      BY <2>2 DEF NextResult
    <3>2. isFirst'[it] = isFirst[it]
      BY <2>2 DEF TypeOK
    <3>3. ReturnsOnce(it)' /\ MarksAreOwn(it)'
      BY <1>2, <1>3, <3>1 DEF Own, ReturnsOnce, MarksAreOwn, lists, graph
    <3>4. LinksAreFollowed(it)'
      BY <1>2, <1>3, <2>2, <3>1, <3>2 DEF Own, LinksAreFollowed, Expanded, graph
    <3>5. QueueIsLate(it)'
      BY <1>2, <1>3, <3>1 DEF Own, QueueIsLate, RelaxedOrder, FoundLate, graph
    <3>. QED  BY <1>2, <3>1, <3>3, <3>4, <3>5 DEF Own, NodesKnown, TypeOK
  <2>. QED  BY <2>1, <2>2
<1>5. TypeOK'
  BY <1>4 DEF TypeOK, graph, lists
<1>6. UnopenedIsFresh' /\ NodesKnown'
  <2>1. \A o \in OpenIters : candidates'[o] \subseteq elems
    BY <1>4, OpenInIter DEF NodesKnown
  <2>2. NodesKnown'
    BY <1>1, <2>1 DEF NodesKnown, graph
  <2>3. UnopenedIsFresh'
    BY <1>4 DEF UnopenedIsFresh, TypeOK
  <2>. QED  BY <2>2, <2>3
<1>7. \A o \in OpenIters : Own(o)'
  <2>. SUFFICES ASSUME NEW o \in OpenIters, o # it PROVE Own(o)'
    BY <1>4
  <2>1. Own(o) /\ o \in Iter
    BY OwnOfInv, OpenInIter
  <2>2. isFirst'[o] = isFirst[o]
    BY <2>1 DEF TypeOK
  <2>. QED  BY <1>4, <2>1, <2>2, Frame DEF graph, lists
<1>. QED  BY <1>1, <1>2, <1>5, <1>6, <1>7 DEF IInv, Own

LEMMA NoResultKeeps ==
  ASSUME IInv, NEW it \in Iter, NoResult(it)
  PROVE  IInv'
<1>. /\ TypeOK /\ UnopenedIsFresh /\ NodesKnown
     /\ busy = it /\ busy' = NoIter /\ candidates[it] = {}
     /\ exhausted' = [exhausted EXCEPT ![it] = TRUE]
     /\ UNCHANGED <<graph, dist, lists, phase, vl, candidates, isFirst, start,
                    emitted, grown>>
  BY DEF IInv, NoResult
<1>1. ListsOwnedOnce' /\ ListsKnown' /\ MarksNotAhead' /\ OpenIters' = OpenIters
  BY SameListsKeep
<1>2. it \in OpenIters /\ Own(it) /\ phase[it] = "open" /\ busy' # it
  BY OwnOfInv, IteratorAssumption DEF IInv, OpenIters
<1>3. TypeOK'
  BY DEF TypeOK, graph, lists
<1>4. UnopenedIsFresh' /\ NodesKnown'
  BY <1>1, <1>2 DEF UnopenedIsFresh, NodesKnown, TypeOK, graph
<1>5. Own(it)'
  <2>1. Visited(it)' = Visited(it)
    BY DEF Visited, lists
  <2>2. ReturnsOnce(it)' /\ MarksAreOwn(it)'
    BY <1>2, <2>1 DEF Own, ReturnsOnce, MarksAreOwn, lists, graph
  <2>3. ~isFirst[it]
    BY <1>2 DEF Own, LinksAreFollowed
  <2>4. LinksAreFollowed(it)'
    BY <1>2, <2>1, <2>3 DEF Own, LinksAreFollowed, Expanded, graph
  <2>5. QueueIsLate(it)'
    BY <1>2, <2>1 DEF Own, QueueIsLate, RelaxedOrder, FoundLate, graph
  <2>. QED  BY <2>2, <2>4, <2>5 DEF Own
<1>6. \A o \in OpenIters : Own(o)'
  <2>. SUFFICES ASSUME NEW o \in OpenIters, o # it PROVE Own(o)'
    BY <1>5
  <2>1. Own(o) /\ o \in Iter /\ o # NoIter
    BY OwnOfInv, OpenInIter, IteratorAssumption
  <2>2. exhausted'[o] = exhausted[o]
    BY <2>1 DEF TypeOK
  <2>. QED  BY <2>1, <2>2, Frame DEF graph, lists
<1>. QED  BY <1>1, <1>3, <1>4, <1>6 DEF IInv, Own

(***************************************************************************)
(* Expanding a candidate n: what is visited grows by n and the neighbours  *)
(* of n, which were neither visited nor queued, so no other node is queued *)
(* twice; and only the list of the iterator changes.                       *)
(***************************************************************************)
LEMMA ExpandKeeps ==
  ASSUME IInv, NEW it \in Iter, busy = it, NEW n \in Nearest(it),
         Expand(it, n),
         UNCHANGED <<graph, dist, pool, allocated, tag, phase, vl, isFirst,
                     start, exhausted, grown>>,
         busy' \in {it, NoIter},
         \/ n \in deleted /\ emitted' = emitted
         \/ emitted' = [emitted EXCEPT ![it] = Append(@, n)]
  PROVE  IInv'
<1>. DEFINE new == links[n] \ (Visited(it) \cup {n})
            l == vl[it]
<1>. /\ TypeOK /\ UnopenedIsFresh /\ NodesKnown /\ ListsOwnedOnce /\ ListsKnown
     /\ MarksNotAhead
  BY DEF IInv
<1>1. /\ it \in OpenIters /\ phase[it] = "open" /\ Own(it) /\ it # NoIter
      /\ OpenIters' = OpenIters
  BY OwnOfInv, IteratorAssumption DEF IInv, OpenIters
<1>2. /\ n \in candidates[it]
      /\ n \in Node /\ new \subseteq Node /\ l \in Lists /\ links[n] \subseteq elems
      /\ new \subseteq elems
  BY DEF Nearest, TypeOK, NodesKnown
<1>3. /\ candidates' = [candidates EXCEPT ![it] = (@ \ {n}) \cup new]
      /\ mass' = [mass EXCEPT ![l] =
                   [m \in Node |-> IF m \in new \cup {n} THEN tag[l] ELSE @[m]]]
  BY DEF Expand, Neighbours, MarkNew
<1>4. /\ candidates'[it] = (candidates[it] \ {n}) \cup new
      /\ \A o \in Iter \ {it} : candidates'[o] = candidates[o]
      /\ candidates' \in [Iter -> SUBSET Node]
  BY <1>2, <1>3 DEF TypeOK
<1>5. /\ \A m \in Node : mass'[l][m] = IF m \in new \cup {n} THEN tag[l] ELSE mass[l][m]
      /\ \A k \in Lists \ {l} : mass'[k] = mass[k]
      /\ mass' \in [Lists -> [Node -> 0 .. TagMod - 1]]
  <2>. HIDE DEF new, l
  <2>1. tag[l] \in 0 .. TagMod - 1 /\ mass[l] \in [Node -> 0 .. TagMod - 1]
    BY <1>2 DEF TypeOK
  <2>. QED  BY <1>2, <1>3, <2>1 DEF TypeOK
<1>6. Visited(it)' = Visited(it) \cup new \cup {n}
  <2>1. \A m \in Node : mass'[l][m] = tag[l] <=> m \in new \cup {n} \/ mass[l][m] = tag[l]
    BY <1>5
  <2>. QED  BY <1>2, <2>1 DEF Visited
<1>7. MarksNotAhead'
  <2>. SUFFICES ASSUME NEW k \in Lists, NEW m \in Node PROVE mass'[k][m] <= tag[k]
    BY DEF MarksNotAhead
  <2>1. tag[k] \in Int /\ mass[k][m] <= tag[k]
    BY DEF TypeOK, MarksNotAhead
  <2>2. mass'[k][m] = mass[k][m] \/ mass'[k][m] = tag[k]
    BY <1>5
  <2>. QED  BY <2>1, <2>2
<1>8. emitted \in [Iter -> Seq(Node)] /\ emitted[it] \in Seq(Node)
  BY DEF TypeOK
<1>9. /\ emitted' \in [Iter -> Seq(Node)]
      /\ \A o \in Iter \ {it} : emitted'[o] = emitted[o]
      /\ \/ n \in deleted /\ emitted'[it] = emitted[it]
         \/ emitted'[it] = Append(emitted[it], n)
  <2>1. Append(emitted[it], n) \in Seq(Node)
    BY <1>2, <1>8
  <2>2. CASE n \in deleted /\ emitted' = emitted
    BY <1>8, <2>2
  <2>3. CASE emitted' = [emitted EXCEPT ![it] = Append(@, n)]
    BY <1>8, <2>1, <2>3
  <2>. QED  BY <2>2, <2>3
<1>10. TypeOK'
  BY <1>4, <1>5, <1>9 DEF TypeOK, graph
<1>11. ListsOwnedOnce' /\ ListsKnown'
  BY <1>1 DEF ListsOwnedOnce, ListsKnown, Range
<1>12. NodesKnown' /\ UnopenedIsFresh'
  <2>1. \A o \in OpenIters : candidates'[o] \subseteq elems
    BY <1>1, <1>2, <1>4, OpenInIter DEF NodesKnown
  <2>2. UnopenedIsFresh'
    BY <1>1, <1>4, <1>9 DEF UnopenedIsFresh
  <2>. QED  BY <1>1, <2>1, <2>2 DEF NodesKnown, graph
<1>13. n \notin Range(emitted[it])
  BY <1>1, <1>2 DEF Own, MarksAreOwn
<1>14. /\ Range(emitted[it]) \subseteq Range(emitted'[it])
       /\ Range(emitted'[it]) \subseteq Range(emitted[it]) \cup {n}
       /\ n \in Range(emitted'[it]) \cup deleted
       /\ ReturnsOnce(it)'
  <2>1. CASE n \in deleted /\ emitted'[it] = emitted[it]
    BY <1>1, <2>1 DEF Own, ReturnsOnce
  <2>2. CASE emitted'[it] = Append(emitted[it], n)
    <3>. DEFINE e == emitted[it]
                f == Append(e, n)
    <3>1. /\ e \in Seq(Node) /\ Len(f) = Len(e) + 1 /\ Len(e) \in Nat
          /\ \A j \in 1 .. Len(e) : f[j] = e[j]
          /\ f[Len(e) + 1] = n
          /\ DOMAIN e = 1 .. Len(e) /\ DOMAIN f = 1 .. Len(e) + 1
      BY <1>2, <1>8
    <3>2. \A j \in 1 .. Len(e) : e[j] # n
      BY <1>13, <3>1 DEF Range
    <3>3. \A i, j \in 1 .. Len(e) : e[i] = e[j] => i = j
      BY <1>1 DEF Own, ReturnsOnce
    <3>. HIDE DEF e, f
    <3>4. \A i, j \in 1 .. Len(f) : f[i] = f[j] => i = j
      BY <3>1, <3>2, <3>3
    <3>5. Range(f) = Range(e) \cup {n}
      BY <3>1 DEF Range
    <3>. QED  BY <2>2, <3>4, <3>5 DEF e, f, ReturnsOnce
  <2>. QED  BY <1>9, <2>1, <2>2
<1>15. MarksAreOwn(it)'
  <2>1. MarksAreOwn(it)
    BY <1>1 DEF Own
  <2>. HIDE DEF new
  <2>2. new \cap (Visited(it) \cup {n}) = {}
    BY DEF new
  <2>. QED  BY <1>2, <1>4, <1>6, <1>14, <2>1, <2>2 DEF MarksAreOwn, graph
<1>16. LinksAreFollowed(it)'
  <2>1. LinksAreFollowed(it) /\ ~isFirst[it] /\ ~exhausted[it]
    BY <1>1, <1>2 DEF Own, LinksAreFollowed
  <2>2. Expanded(it)' \subseteq Expanded(it) \cup {n}
    BY <1>4, <1>6 DEF Expanded
  <2>3. links[n] \subseteq Visited(it)'
    BY <1>6
  <2>4. ASSUME ~grown[it], NEW m \in Expanded(it)'
        PROVE  links[m] \subseteq Visited(it)'
    BY <1>6, <2>1, <2>2, <2>3, <2>4 DEF LinksAreFollowed
  <2>5. start[it] \subseteq Visited(it)' \cup candidates'[it]
    BY <1>4, <1>6, <2>1 DEF LinksAreFollowed
  <2>. QED  BY <2>1, <2>4, <2>5 DEF LinksAreFollowed, graph
<1>19. QueueIsLate(it)'
  <2>. DEFINE e == emitted[it]
              f == emitted'[it]
  <2>1. /\ QueueIsLate(it) /\ LinksAreFollowed(it) /\ MarksAreOwn(it)
        /\ start[it] = {} \/ \E m \in Node : start[it] = {m}
    BY <1>1 DEF Own, QueueIsLate
  <2>2. start[it] \subseteq Visited(it)'
    BY <1>2, <1>6, <2>1 DEF QueueIsLate
  <2>3. new \cap start[it] = {}
    BY <1>2, <2>1 DEF QueueIsLate
  <2>4. /\ e \in Seq(Node) /\ Len(e) \in Nat /\ DOMAIN e = 1 .. Len(e)
        /\ \A j \in 1 .. Len(e) : f[j] = e[j] /\ e[j] \in Node
        /\ \/ Len(f) = Len(e)
           \/ Len(f) = Len(e) + 1 /\ f[Len(e) + 1] = n
    <3>1. CASE emitted'[it] = emitted[it]
      BY <1>8, <3>1
    <3>2. CASE emitted'[it] = Append(emitted[it], n)
      BY <1>2, <1>8, <3>2
    <3>. QED  BY <1>9, <3>1, <3>2
  <2>5. ASSUME ~grown[it]
        PROVE  /\ RelaxedOrder(it)'
               /\ \A m \in 1 .. Len(f) : \A x \in candidates'[it] :
                    dist[it][x] < dist[it][f[m]] => FoundLate(it, x, m)'
    <3>1. \A j \in 1 .. Len(e) : links[e[j]] \subseteq Visited(it)
      <4>1. \A j \in 1 .. Len(e) : e[j] \in Range(e)
        BY <2>4 DEF Range
      <4>. QED  BY <2>1, <2>5, <4>1 DEF LinksAreFollowed, MarksAreOwn, Expanded
    <3>2. ASSUME NEW x \in Node, NEW m \in 1 .. Len(f),
                 \/ x \in new
                 \/ m \in 1 .. Len(e) /\ FoundLate(it, x, m)
          PROVE  FoundLate(it, x, m)'
      <4>1. \A j \in 1 .. m - 1 : j \in 1 .. Len(e) /\ f[j] = e[j]
        BY <2>4
      <4>2. CASE x \in new
        BY <2>3, <3>1, <4>1, <4>2 DEF FoundLate, graph
      <4>3. CASE m \in 1 .. Len(e) /\ FoundLate(it, x, m)
        BY <4>1, <4>3 DEF FoundLate, graph
      <4>. QED  BY <3>2, <4>2, <4>3
    <3>3. \A x \in Node : dist[it][x] \in Int
      <4>1. dist[it] \in [Node -> Distance]
        BY DEF TypeOK
      <4>. QED  BY <4>1, IteratorAssumption
    <3>4. ASSUME NEW m \in 1 .. Len(f), NEW x \in candidates'[it],
                 dist[it][x] < dist[it][f[m]]
          PROVE  FoundLate(it, x, m)'
      <4>1. x \in Node
        BY <1>4, <1>2 DEF TypeOK
      <4>2. CASE x \in new
        BY <3>2, <4>1, <4>2
      <4>3. CASE x \in candidates[it] \ {n}
        <5>1. dist[it][n] <= dist[it][x]
          BY <4>3 DEF Nearest
        <5>2. f[m] # n
          BY <1>2, <3>3, <3>4, <4>1, <5>1
        <5>3. m \in 1 .. Len(e) /\ f[m] = e[m]
          BY <2>4, <5>2
        <5>4. FoundLate(it, x, m)
          BY <2>1, <2>5, <3>4, <4>3, <5>3 DEF QueueIsLate
        <5>. QED  BY <3>2, <4>1, <5>3, <5>4
      <4>. QED  BY <1>4, <4>2, <4>3
    <3>5. ASSUME NEW m \in 1 .. Len(f), NEW k \in 1 .. Len(f), m < k,
                 NEW x \in Node, x = f[k], dist[it][x] < dist[it][f[m]]
          PROVE  FoundLate(it, x, m)'
      <4>1. m \in 1 .. Len(e) /\ f[m] = e[m]
        BY <2>4, <3>5
      <4>2. FoundLate(it, x, m)
        <5>1. CASE k \in 1 .. Len(e)
          <6>1. x = e[k] /\ dist[it][e[k]] < dist[it][e[m]]
            BY <2>4, <3>5, <4>1, <5>1
          <6>. QED  BY <2>1, <2>5, <3>5, <4>1, <5>1, <6>1 DEF QueueIsLate, RelaxedOrder
        <5>2. CASE k \notin 1 .. Len(e)
          <6>1. x = n
            BY <2>4, <3>5, <5>2
          <6>. QED  BY <1>2, <2>1, <2>5, <3>5, <4>1, <6>1 DEF QueueIsLate
        <5>. QED  BY <5>1, <5>2
      <4>. QED  BY <3>2, <4>1, <4>2
    <3>6. \A k \in 1 .. Len(f) : f[k] \in Node
      BY <1>2, <2>4
    <3>. QED  BY <3>4, <3>5, <3>6 DEF RelaxedOrder, graph
  <2>. QED  BY <2>1, <2>2, <2>5 DEF QueueIsLate
<1>17. Own(it)'
  BY <1>14, <1>15, <1>16, <1>19 DEF Own
<1>18. \A o \in OpenIters : Own(o)'
  <2>. SUFFICES ASSUME NEW o \in OpenIters, o # it PROVE Own(o)'
    BY <1>17
  <2>1. Own(o) /\ o \in Iter /\ o # NoIter
    BY OwnOfInv, OpenInIter, IteratorAssumption
  <2>2. vl[o] \in Lists \ {l}
    BY <1>1, <2>1 DEF ListsOwnedOnce, TypeOK
  <2>. QED  BY <1>4, <1>5, <1>9, <2>1, <2>2, Frame DEF graph
<1>. QED  BY <1>1, <1>7, <1>10, <1>11, <1>12, <1>18 DEF IInv, Own

LEMMA ReturnKeeps ==
  ASSUME IInv, NEW it \in Iter, NEW n \in Node, Return(it, n)
  PROVE  IInv'
BY ExpandKeeps DEF Return, graph

LEMMA SkipDeletedKeeps ==
  ASSUME IInv, NEW it \in Iter, NEW n \in Node, SkipDeleted(it, n)
  PROVE  IInv'
BY ExpandKeeps DEF SkipDeleted, graph

(***************************************************************************)
(* Closing an iterator, in either way, makes its list the first of the     *)
(* pool, where it was not before.                                          *)
(***************************************************************************)
LEMMA ReleaseListKeeps ==
  ASSUME IInv, NEW it \in OpenIters, ReleaseList(vl[it])
  PROVE  /\ pool' \in Seq(Lists)
         /\ Range(pool') = Range(pool) \cup {vl[it]}
         /\ \A n \in 1 .. Len(pool') : pool'[n] <= allocated
         /\ \A m, n \in 1 .. Len(pool') : pool'[m] = pool'[n] => m = n
<1>. DEFINE l == vl[it]
<1>. TypeOK /\ ListsOwnedOnce /\ ListsKnown
  BY DEF IInv
<1>1. /\ l \in Lists /\ pool \in Seq(Lists) /\ Len(pool) \in Nat
      /\ l <= allocated
      /\ \A n \in 1 .. Len(pool) : pool[n] # l /\ pool[n] <= allocated
      /\ \A m, n \in 1 .. Len(pool) : pool[m] = pool[n] => m = n
  BY OpenInIter DEF TypeOK, ListsOwnedOnce, ListsKnown, Range
<1>2. pool' = <<l>> \o pool
  BY DEF ReleaseList
<1>. HIDE DEF l
<1>3. /\ pool' \in Seq(Lists) /\ Len(pool') = Len(pool) + 1
      /\ pool'[1] = l
      /\ \A n \in 2 .. Len(pool) + 1 : n - 1 \in 1 .. Len(pool) /\ pool'[n] = pool[n - 1]
  BY <1>1, <1>2
<1>4. \A n \in 1 .. Len(pool') : n = 1 \/ n \in 2 .. Len(pool) + 1
  BY <1>1, <1>3
<1>5. \A n \in 1 .. Len(pool') : pool'[n] <= allocated
  BY <1>1, <1>3, <1>4
<1>6. \A m, n \in 1 .. Len(pool') : pool'[m] = pool'[n] => m = n
  <2>. SUFFICES ASSUME NEW m \in 1 .. Len(pool'), NEW n \in 1 .. Len(pool'),
                       pool'[m] = pool'[n]
                PROVE  m = n
    OBVIOUS
  <2>1. CASE m = 1 /\ n = 1
    BY <2>1
  <2>2. CASE m = 1 /\ n # 1
    BY <1>1, <1>3, <1>4, <2>2
  <2>3. CASE m # 1 /\ n = 1
    BY <1>1, <1>3, <1>4, <2>3
  <2>4. CASE m # 1 /\ n # 1
    <3>1. /\ m - 1 \in 1 .. Len(pool) /\ n - 1 \in 1 .. Len(pool)
          /\ pool[m - 1] = pool[n - 1]
      BY <1>3, <1>4, <2>4
    <3>2. m - 1 = n - 1
      BY <1>1, <3>1
    <3>. QED  BY <3>2
  <2>. QED  BY <2>1, <2>2, <2>3, <2>4
<1>7. Range(pool') = Range(pool) \cup {l}
  <2>1. DOMAIN pool' = 1 .. Len(pool) + 1 /\ DOMAIN pool = 1 .. Len(pool)
    BY <1>1, <1>3
  <2>2. \A n \in 1 .. Len(pool) : n + 1 \in 2 .. Len(pool) + 1 /\ pool'[n + 1] = pool[n]
    BY <1>1, <1>3
  <2>3. Range(pool) \cup {l} \subseteq Range(pool')
    <3>1. 1 \in DOMAIN pool' /\ \A n \in DOMAIN pool : n + 1 \in DOMAIN pool'
      BY <1>1, <2>1
    <3>. QED  BY <1>3, <2>1, <2>2, <3>1 DEF Range
  <2>4. Range(pool') \subseteq Range(pool) \cup {l}
    <3>1. \A n \in DOMAIN pool' : pool'[n] = l \/ \E k \in DOMAIN pool : pool'[n] = pool[k]
      BY <1>3, <1>4, <2>1
    <3>. QED  BY <3>1 DEF Range
  <2>. QED  BY <2>3, <2>4
<1>. QED  BY <1>3, <1>5, <1>6, <1>7 DEF l

(***************************************************************************)
(* One iterator leaves the set of the open ones; the lists of the others   *)
(* stay theirs.                                                            *)
(***************************************************************************)
LEMMA LeavingKeeps ==
  ASSUME IInv, busy = NoIter, NEW it \in Iter,
         \/ phase[it] = "open" /\ ReleaseList(vl[it])
         \/ UNCHANGED lists,
         phase'[it] # "open", \A o \in Iter \ {it} : phase'[o] = phase[o],
         \A o \in Iter \ {it} :
           /\ vl'[o] = vl[o] /\ candidates'[o] = candidates[o]
           /\ isFirst'[o] = isFirst[o] /\ start'[o] = start[o]
           /\ emitted'[o] = emitted[o] /\ exhausted'[o] = exhausted[o]
           /\ grown'[o] = grown[o],
         UnopenedIsFresh', TypeOK', UNCHANGED <<graph, dist, busy>>
  PROVE  IInv'
<1>. TypeOK /\ NodesKnown /\ ListsOwnedOnce /\ ListsKnown /\ MarksNotAhead
  BY DEF IInv
<1>1. OpenIters' = OpenIters \ {it}
  BY DEF OpenIters
<1>2. \A o \in OpenIters \ {it} : o \in Iter /\ vl'[o] = vl[o] /\ candidates'[o] = candidates[o]
  BY OpenInIter
<1>3. UNCHANGED <<allocated, tag, mass>>
  BY DEF ReleaseList, lists
<1>4. /\ \A n \in 1 .. Len(pool') : pool'[n] <= allocated
      /\ \A m, n \in 1 .. Len(pool') : pool'[m] = pool'[n] => m = n
      /\ \A o \in OpenIters \ {it} : vl[o] \notin Range(pool')
  <2>1. CASE phase[it] = "open" /\ ReleaseList(vl[it])
    <3>1. it \in OpenIters
      BY <2>1, OpenInIter
    <3>2. \A o \in OpenIters \ {it} : vl[o] # vl[it] /\ vl[o] \notin Range(pool)
      BY <3>1 DEF ListsOwnedOnce
    <3>. QED  BY <2>1, <3>1, <3>2, ReleaseListKeeps
  <2>2. CASE UNCHANGED lists
    BY <2>2 DEF ListsOwnedOnce, ListsKnown, lists
  <2>. QED  BY <2>1, <2>2
<1>5. ListsOwnedOnce'
  <2>1. \A a, b \in OpenIters \ {it} : vl'[a] = vl'[b] => a = b
    BY <1>2 DEF ListsOwnedOnce
  <2>. QED  BY <1>1, <1>2, <1>4, <2>1 DEF ListsOwnedOnce
<1>6. ListsKnown'
  BY <1>1, <1>2, <1>3, <1>4 DEF ListsKnown
<1>7. NodesKnown' /\ MarksNotAhead'
  BY <1>1, <1>2, <1>3 DEF NodesKnown, MarksNotAhead, graph
<1>8. \A o \in OpenIters' : Own(o)'
  <2>. SUFFICES ASSUME NEW o \in OpenIters \ {it} PROVE Own(o)'
    BY <1>1
  <2>1. Own(o) /\ o \in Iter
    BY OwnOfInv, OpenInIter
  <2>2. grown'[o] = grown[o]
    BY <2>1
  <2>. QED  BY <1>3, <2>1, <2>2, Frame DEF graph
<1>. QED  BY <1>5, <1>6, <1>7, <1>8 DEF IInv, Own

LEMMA CloseKeeps ==
  ASSUME IInv, NEW it \in Iter, Close(it)
  PROVE  IInv'
<1>. /\ TypeOK /\ UnopenedIsFresh /\ busy = NoIter /\ phase[it] = "open"
     /\ ReleaseList(vl[it])
     /\ phase' = [phase EXCEPT ![it] = "closed"]
     /\ UNCHANGED <<graph, dist, vl, candidates, isFirst, start, emitted,
                    exhausted, grown, busy>>
  BY DEF IInv, Close, DropWorkspace
<1>1. it \in OpenIters
  BY OpenInIter
<1>2. TypeOK'
  BY <1>1, ReleaseListKeeps DEF TypeOK, graph, ReleaseList
<1>3. UnopenedIsFresh' /\ phase'[it] # "open" /\ \A o \in Iter \ {it} : phase'[o] = phase[o]
  BY DEF UnopenedIsFresh, TypeOK
<1>. QED  BY <1>2, <1>3, LeavingKeeps

LEMMA FreeKeepsOthers ==
  ASSUME IInv, NEW it \in Iter, Free(it)
  PROVE  /\ UnopenedIsFresh'
         /\ phase'[it] = "none" /\ \A o \in Iter \ {it} : phase'[o] = phase[o]
         /\ \A o \in Iter \ {it} :
              /\ vl'[o] = vl[o] /\ candidates'[o] = candidates[o]
              /\ isFirst'[o] = isFirst[o] /\ start'[o] = start[o]
              /\ emitted'[o] = emitted[o] /\ exhausted'[o] = exhausted[o]
              /\ grown'[o] = grown[o]
         /\ UNCHANGED <<graph, dist, busy>> /\ pool' \in Seq(Lists)
            /\ UNCHANGED <<allocated, tag, mass>> => TypeOK'
<1>1. TypeOK /\ UnopenedIsFresh
  BY DEF IInv
<1>2. /\ phase'[it] = "none" /\ \A o \in Iter \ {it} : phase'[o] = phase[o]
      /\ \A o \in Iter \ {it} :
           /\ vl'[o] = vl[o] /\ candidates'[o] = candidates[o]
           /\ isFirst'[o] = isFirst[o] /\ start'[o] = start[o]
           /\ emitted'[o] = emitted[o] /\ exhausted'[o] = exhausted[o]
           /\ grown'[o] = grown[o]
      /\ isFirst'[it] /\ ~exhausted'[it]
      /\ candidates'[it] = {} /\ start'[it] = {} /\ emitted'[it] = << >>
  BY <1>1 DEF Free, TypeOK
<1>3. UnopenedIsFresh'
  BY <1>1, <1>2 DEF UnopenedIsFresh
<1>4. 1 \in Lists /\ << >> \in Seq(Node)
  BY IteratorAssumption DEF Lists
<1>5. UNCHANGED <<graph, dist, busy>> /\ pool' \in Seq(Lists)
      /\ UNCHANGED <<allocated, tag, mass>> => TypeOK'
  BY <1>1, <1>4 DEF Free, TypeOK, graph
<1>. QED  BY <1>2, <1>3, <1>5

LEMMA DestroyKeeps ==
  ASSUME IInv, NEW it \in Iter, Destroy(it)
  PROVE  IInv'
<1>. /\ TypeOK /\ Free(it) /\ busy = NoIter /\ UNCHANGED <<graph, dist, busy>>
     /\ \/ phase[it] = "open" /\ ReleaseList(vl[it])
        \/ UNCHANGED lists
  BY DEF IInv, Destroy
<1>1. pool' \in Seq(Lists) /\ UNCHANGED <<allocated, tag, mass>>
  <2>1. CASE phase[it] = "open" /\ ReleaseList(vl[it])
    BY <2>1, OpenInIter, ReleaseListKeeps DEF ReleaseList
  <2>2. CASE UNCHANGED lists
    BY <2>2 DEF lists, TypeOK
  <2>. QED  BY <2>1, <2>2
<1>2. phase'[it] # "open"
  BY FreeKeepsOthers
<1>. QED  BY <1>1, <1>2, FreeKeepsOthers, LeavingKeeps

LEMMA LeakKeeps ==
  ASSUME IInv, NEW it \in Iter, Leak(it)
  PROVE  IInv'
<1>. /\ TypeOK /\ Free(it) /\ busy = NoIter /\ UNCHANGED <<graph, dist, busy>>
     /\ UNCHANGED lists
  BY DEF IInv, Leak
<1>1. pool' \in Seq(Lists) /\ UNCHANGED <<allocated, tag, mass>>
  BY DEF lists, TypeOK
<1>2. phase'[it] # "open"
  BY FreeKeepsOthers
<1>. QED  BY <1>1, <1>2, FreeKeepsOthers, LeavingKeeps

(***************************************************************************)
(* An insertion borrows a free list and rewires the graph; every open      *)
(* iterator is told so in grown, and its own list is not the borrowed one. *)
(***************************************************************************)
LEMMA BorrowKeeps ==
  ASSUME IInv, NEW l \in FreeLists, NEW marked \in SUBSET Node,
         pool' = IF pool = << >> THEN <<l>> ELSE pool,
         allocated' = IF pool = << >> THEN l ELSE allocated,
         tag' = [tag EXCEPT ![l] = Fresh(l)[1]],
         mass' = [mass EXCEPT ![l] =
                   [m \in Node |-> IF m \in marked THEN Fresh(l)[1]
                                   ELSE Fresh(l)[2][m]]]
  PROVE  /\ pool' \in Seq(Lists)
         /\ allocated' \in Lists /\ allocated <= allocated'
         /\ tag' \in [Lists -> 0 .. TagMod - 1]
         /\ mass' \in [Lists -> [Node -> 0 .. TagMod - 1]]
         /\ MarksNotAhead'
         /\ \A n \in 1 .. Len(pool') : pool'[n] <= allocated'
         /\ \A m, n \in 1 .. Len(pool') : pool'[m] = pool'[n] => m = n
         /\ \A it \in OpenIters :
              /\ vl[it] \notin Range(pool')
              /\ mass'[vl[it]] = mass[vl[it]] /\ tag'[vl[it]] = tag[vl[it]]
<1>. /\ TypeOK /\ ListsOwnedOnce /\ ListsKnown /\ MarksNotAhead
     /\ l \in Lists /\ pool \in Seq(Lists) /\ allocated \in Lists
     /\ tag \in [Lists -> 0 .. TagMod - 1]
     /\ mass \in [Lists -> [Node -> 0 .. TagMod - 1]]
  BY FreeIsUnowned DEF IInv, TypeOK
<1>1. \A it \in OpenIters : vl[it] \in Lists \ {l} /\ vl[it] \notin Range(pool)
  BY FreeIsUnowned, OpenInIter DEF TypeOK, ListsOwnedOnce
<1>2. /\ pool' \in Seq(Lists)
      /\ allocated' \in Lists /\ allocated <= allocated'
      /\ \A n \in 1 .. Len(pool') : pool'[n] <= allocated'
      /\ \A m, n \in 1 .. Len(pool') : pool'[m] = pool'[n] => m = n
      /\ \A it \in OpenIters : vl[it] \notin Range(pool')
  <2>1. CASE pool = << >>
    <3>1. pool' = <<l>> /\ allocated' = l /\ l = allocated + 1
      BY <2>1 DEF FreeLists
    <3>2. Range(<<l>>) = {l}
      BY DEF Range
    <3>3. /\ <<l>> \in Seq(Lists) /\ Len(<<l>>) = 1 /\ <<l>>[1] = l
      OBVIOUS
    <3>4. \A n \in 1 .. Len(<<l>>) : <<l>>[n] = l /\ n = 1
      BY <3>3
    <3>5. allocated <= allocated' /\ l <= allocated'
      BY <3>1 DEF Lists
    <3>6. \A it \in OpenIters : vl[it] \notin Range(pool')
      BY <1>1, <3>1, <3>2
    <3>. QED  BY <3>1, <3>3, <3>4, <3>5, <3>6
  <2>2. CASE pool # << >>
    BY <1>1, <2>2 DEF ListsOwnedOnce, ListsKnown, Lists
  <2>. QED  BY <2>1, <2>2
<1>3. /\ Fresh(l)[1] \in 1 .. TagMod - 1
      /\ Fresh(l)[2] \in [Node -> 0 .. TagMod - 1]
      /\ \A n \in Node : Fresh(l)[2][n] < Fresh(l)[1]
  BY FreshIsNew
<1>. DEFINE new == [m \in Node |-> IF m \in marked THEN Fresh(l)[1] ELSE Fresh(l)[2][m]]
<1>4. /\ new \in [Node -> 0 .. TagMod - 1]
      /\ \A n \in Node : new[n] <= Fresh(l)[1]
  BY <1>3, IteratorAssumption
<1>5. /\ tag' \in [Lists -> 0 .. TagMod - 1]
      /\ mass' \in [Lists -> [Node -> 0 .. TagMod - 1]]
      /\ tag'[l] = Fresh(l)[1] /\ mass'[l] = new
      /\ \A k \in Lists \ {l} : mass'[k] = mass[k] /\ tag'[k] = tag[k]
  <2>. mass' = [mass EXCEPT ![l] = new]
    OBVIOUS
  <2>. HIDE DEF new
  <2>. QED  BY <1>3, <1>4, IteratorAssumption
<1>. HIDE DEF new
<1>6. MarksNotAhead'
  <2>. SUFFICES ASSUME NEW k \in Lists, NEW n \in Node
                PROVE  mass'[k][n] <= tag'[k]
    BY DEF MarksNotAhead, Lists
  <2>1. CASE k = l
    BY <1>4, <1>5, <2>1
  <2>2. CASE k # l
    BY <1>5, <2>2 DEF MarksNotAhead
  <2>. QED  BY <2>1, <2>2
<1>. QED  BY <1>1, <1>2, <1>5, <1>6

LEMMA AddPointKeeps ==
  ASSUME IInv, NEW n \in Node, AddPoint(n)
  PROVE  IInv'
<1>. /\ TypeOK /\ UnopenedIsFresh /\ NodesKnown /\ ListsOwnedOnce /\ ListsKnown
     /\ MarksNotAhead
     /\ busy = NoIter
     /\ elems' = elems \cup {n}
     /\ grown' = [it \in Iter |-> phase[it] = "open"]
     /\ UNCHANGED <<deleted, dist, phase, vl, candidates, isFirst, start,
                    emitted, exhausted, busy>>
  BY DEF IInv, AddPoint
<1>1. links' \in [Node -> SUBSET Node] /\ \A m \in Node : links'[m] \subseteq elems'
  <2>1. PICK out \in SUBSET elems, in \in SUBSET elems, dropped \in elems \cup {n} :
          links' = [m \in Node |->
                     IF m = n THEN out
                     ELSE IF m \in in THEN (links[m] \ {dropped}) \cup {n}
                     ELSE links[m]]
    BY DEF AddPoint
  <2>2. \A m \in Node : links[m] \subseteq elems /\ elems \subseteq Node
    BY DEF NodesKnown, TypeOK
  <2>. QED  BY <2>1, <2>2
<1>2. /\ pool' \in Seq(Lists)
      /\ allocated' \in Lists /\ allocated <= allocated'
      /\ tag' \in [Lists -> 0 .. TagMod - 1]
      /\ mass' \in [Lists -> [Node -> 0 .. TagMod - 1]]
      /\ MarksNotAhead'
      /\ \A k \in 1 .. Len(pool') : pool'[k] <= allocated'
      /\ \A m, k \in 1 .. Len(pool') : pool'[m] = pool'[k] => m = k
      /\ \A it \in OpenIters :
           /\ vl[it] \notin Range(pool')
           /\ mass'[vl[it]] = mass[vl[it]] /\ tag'[vl[it]] = tag[vl[it]]
  <2>1. CASE elems = {}
    <3>1. UNCHANGED lists
      BY <2>1 DEF AddPoint
    <3>2. allocated <= allocated
      BY DEF TypeOK, Lists
    <3>. QED  BY <3>1, <3>2 DEF lists, TypeOK, ListsOwnedOnce, ListsKnown, MarksNotAhead
  <2>2. CASE elems # {}
    <3>1. PICK l \in FreeLists :
            /\ pool' = IF pool = << >> THEN <<l>> ELSE pool
            /\ allocated' = IF pool = << >> THEN l ELSE allocated
            /\ tag' = [tag EXCEPT ![l] = Fresh(l)[1]]
            /\ mass' = [mass EXCEPT ![l] =
                         [m \in Node |-> IF m \in elems THEN Fresh(l)[1]
                                         ELSE Fresh(l)[2][m]]]
      BY <2>2 DEF AddPoint
    <3>2. elems \in SUBSET Node
      BY DEF TypeOK
    <3>. QED  BY <3>1, <3>2, BorrowKeeps
  <2>. QED  BY <2>1, <2>2
<1>3. OpenIters' = OpenIters
  BY DEF OpenIters
<1>4. TypeOK'
  BY <1>1, <1>2 DEF TypeOK
<1>5. ListsOwnedOnce' /\ UnopenedIsFresh'
  BY <1>2, <1>3 DEF ListsOwnedOnce, UnopenedIsFresh
<1>6. ListsKnown'
  <2>1. \A it \in OpenIters : vl[it] \in Int /\ vl[it] <= allocated /\ allocated \in Int
                              /\ allocated' \in Int
    BY <1>2, OpenInIter DEF ListsKnown, TypeOK, Lists
  <2>2. \A it \in OpenIters : vl[it] <= allocated'
    BY <1>2, <2>1
  <2>. QED  BY <1>2, <1>3, <2>2 DEF ListsKnown
<1>7. NodesKnown'
  <2>1. \A it \in OpenIters : candidates[it] \subseteq elems'
    BY DEF NodesKnown
  <2>. QED  BY <1>1, <1>3, <2>1 DEF NodesKnown
<1>8. \A it \in OpenIters : Own(it)'
  <2>. SUFFICES ASSUME NEW it \in OpenIters PROVE Own(it)'
    OBVIOUS
  <2>1. Own(it) /\ it \in Iter /\ grown'[it]
    BY OwnOfInv, OpenInIter
  <2>. QED  BY <1>2, <2>1, Frame
<1>. QED  BY <1>2, <1>3, <1>4, <1>5, <1>6, <1>7, <1>8 DEF IInv, Own

LEMMA MarkDeleteKeeps ==
  ASSUME IInv, NEW n \in Node, MarkDelete(n)
  PROVE  IInv'
<1>. /\ TypeOK /\ UnopenedIsFresh /\ NodesKnown /\ busy = NoIter
     /\ deleted' = deleted \cup {n}
     /\ UNCHANGED <<elems, links, dist, lists, iters, busy>>
  BY DEF IInv, MarkDelete
<1>1. ListsOwnedOnce' /\ ListsKnown' /\ MarksNotAhead' /\ OpenIters' = OpenIters
  BY SameListsKeep DEF iters
<1>2. TypeOK' /\ UnopenedIsFresh' /\ NodesKnown'
  BY <1>1 DEF TypeOK, UnopenedIsFresh, NodesKnown, lists, iters
<1>3. \A it \in OpenIters : Own(it)'
  BY OwnOfInv, OpenInIter, Frame DEF lists, iters
<1>. QED  BY <1>1, <1>2, <1>3 DEF IInv, Own, iters

-----------------------------------------------------------------------------
LEMMA InitInv == Init => IInv
<1>. SUFFICES ASSUME Init PROVE IInv
  OBVIOUS
<1>1. 1 \in Lists /\ <<1>> \in Seq(Lists) /\ 0 \in 0 .. TagMod - 1
      /\ TagMod - 1 \in 0 .. TagMod - 1
  BY IteratorAssumption DEF Lists
<1>2. elems \in SUBSET Node /\ links \in [Node -> SUBSET Node]
  BY IteratorAssumption DEF Init
<1>3. TypeOK
  BY <1>1, <1>2 DEF Init, TypeOK
<1>4. OpenIters = {}
  BY DEF Init, OpenIters
<1>5. ListsOwnedOnce /\ ListsKnown
  <2>1. Len(pool) = 1 /\ pool[1] = 1 /\ allocated = 1
    BY DEF Init
  <2>. QED  BY <1>4, <2>1 DEF ListsOwnedOnce, ListsKnown
<1>6. NodesKnown
  BY <1>4 DEF Init, NodesKnown
<1>7. UnopenedIsFresh
  BY DEF Init, UnopenedIsFresh
<1>8. MarksNotAhead
  BY IteratorAssumption DEF Init, MarksNotAhead
<1>. QED  BY <1>3, <1>4, <1>5, <1>6, <1>7, <1>8 DEF IInv, Init

LEMMA StutterKeeps ==
  ASSUME IInv, UNCHANGED vars
  PROVE  IInv'
<1>1. ListsOwnedOnce' /\ ListsKnown' /\ MarksNotAhead' /\ OpenIters' = OpenIters
  BY SameListsKeep DEF vars, iters
<1>2. TypeOK' /\ UnopenedIsFresh' /\ NodesKnown'
  BY <1>1 DEF IInv, TypeOK, UnopenedIsFresh, NodesKnown, vars, graph, lists, iters
<1>3. \A it \in OpenIters : Own(it)'
  BY OwnOfInv, OpenInIter, Frame DEF vars, graph, lists, iters
<1>. QED  BY <1>1, <1>2, <1>3 DEF IInv, Own, vars

LEMMA NextKeeps == IInv /\ [Next]_vars => IInv'
<1>. SUFFICES ASSUME IInv, [Next]_vars PROVE IInv'
  OBVIOUS
<1>1. CASE \E it \in Iter :
             Open(it) \/ NextOnEmpty(it) \/ NextResult(it) \/ Search(it)
               \/ Close(it) \/ Destroy(it) \/ Leak(it)
  BY <1>1, OpenKeeps, NextOnEmptyKeeps, NextResultKeeps, ReturnKeeps,
     SkipDeletedKeeps, NoResultKeeps, CloseKeeps, DestroyKeeps, LeakKeeps
     DEF Search
<1>2. CASE \E n \in Node : AddPoint(n) \/ MarkDelete(n)
  BY <1>2, AddPointKeeps, MarkDeleteKeeps
<1>3. CASE UNCHANGED vars
  BY <1>3, StutterKeeps
<1>. QED  BY <1>1, <1>2, <1>3 DEF Next

(***************************************************************************)
(* What HnswIterator says of the workspace of an iterator and of the pool  *)
(* holds for every graph, every number of iterators and every width of the *)
(* tag.                                                                    *)
(***************************************************************************)
THEOREM Inductive == Spec => []IInv
<1>. QED  BY InitInv, NextKeeps, PTL DEF Spec

(***************************************************************************)
(* A scan of an hnsw index returns no row twice, whatever other scans,     *)
(* insertions and deletions happen between its calls.                      *)
(***************************************************************************)
THEOREM NeverReturnsTwice == Spec => []EachOnce
<1>1. IInv => EachOnce
  BY DEF IInv, EachOnce
<1>. QED  BY <1>1, Inductive, PTL

(***************************************************************************)
(* A visited list is in the pool once or belongs to one open iterator.     *)
(***************************************************************************)
THEOREM NoListIsShared == Spec => []ListsOwnedOnce
<1>1. IInv => ListsOwnedOnce
  BY DEF IInv
<1>. QED  BY <1>1, Inductive, PTL

(***************************************************************************)
(* The order is relaxed in one way only: a node returned after a farther   *)
(* one was not the entry node, nor linked to by a node returned before     *)
(* that one.                                                               *)
(***************************************************************************)
THEOREM OnlyNewNodesAreLate == Spec => []InversionsAreNew
<1>1. IInv => InversionsAreNew
  BY DEF IInv, InversionsAreNew, QueueIsLate
<1>. QED  BY <1>1, Inductive, PTL

(***************************************************************************)
(* A search that ends has returned all that can be reached from the entry  *)
(* node and is not deleted: when no candidate is left, the visited nodes   *)
(* are closed under links.                                                 *)
(***************************************************************************)
THEOREM SearchIsComplete == Spec => []ReachesAll
<1>1. IInv => ReachesAll
  <2>. SUFFICES ASSUME IInv, NEW it \in OpenIters, exhausted[it], ~grown[it],
                       NEW n \in Reachable(start[it]) \ deleted
                PROVE  n \in Range(emitted[it])
    BY DEF ReachesAll
  <2>1. Own(it)
    BY OwnOfInv
  <2>2. candidates[it] = {} /\ start[it] \subseteq Visited(it)
    BY <2>1 DEF Own, LinksAreFollowed
  <2>3. \A m \in Visited(it) : links[m] \subseteq Visited(it)
    BY <2>1, <2>2 DEF Own, LinksAreFollowed, Expanded
  <2>4. Visited(it) \in SUBSET Node
    BY DEF Visited
  <2>5. n \in Visited(it)
    BY <2>2, <2>3, <2>4 DEF Reachable
  <2>. QED  BY <2>1, <2>2, <2>5 DEF Own, MarksAreOwn
<1>. QED  BY <1>1, Inductive, PTL

=============================================================================
