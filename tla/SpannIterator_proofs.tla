------------------------ MODULE SpannIterator_proofs ------------------------
(***************************************************************************)
(* IInv of SpannIterator is inductive, for any number of heads, any        *)
(* posting lists and any batch size, and what follows from it.             *)
(***************************************************************************)
EXTENDS SpannIterator, FiniteSetTheorems, SequenceTheorems, TLAPS

LEMMA RangeFacts ==
  ASSUME NEW S, NEW s \in Seq(S)
  PROVE  /\ Len(s) \in Nat /\ DOMAIN s = 1 .. Len(s)
         /\ \A k \in 1 .. Len(s) : s[k] \in S /\ s[k] \in Range(s)
         /\ \A x : x \in Range(s) <=> \E k \in 1 .. Len(s) : s[k] = x
         /\ Range(s) \subseteq S
<1>1. Len(s) \in Nat /\ DOMAIN s = 1 .. Len(s) /\ \A k \in 1 .. Len(s) : s[k] \in S
  BY LenProperties, ElementOfSeq
<1>. QED  BY <1>1 DEF Range

LEMMA AppendFacts ==
  ASSUME NEW S, NEW s \in Seq(S), NEW x \in S
  PROVE  /\ Append(s, x) \in Seq(S) /\ Len(Append(s, x)) = Len(s) + 1
         /\ \A k \in 1 .. Len(s) : Append(s, x)[k] = s[k]
         /\ Append(s, x)[Len(s) + 1] = x
         /\ Range(Append(s, x)) = Range(s) \cup {x}
<1>. DEFINE t == Append(s, x)
<1>1. /\ t \in Seq(S) /\ Len(t) = Len(s) + 1
      /\ \A k \in 1 .. Len(s) : t[k] = s[k]
      /\ t[Len(s) + 1] = x
  BY AppendProperties
<1>. HIDE DEF t
<1>2. /\ Len(s) \in Nat
      /\ \A y : y \in Range(s) <=> \E k \in 1 .. Len(s) : s[k] = y
      /\ \A y : y \in Range(t) <=> \E k \in 1 .. Len(t) : t[k] = y
  BY <1>1, RangeFacts
<1>3. \A k \in 1 .. Len(t) : k = Len(s) + 1 \/ k \in 1 .. Len(s)
  BY <1>1, <1>2
<1>4. \A k \in 1 .. Len(s) : k \in 1 .. Len(t)
  BY <1>1, <1>2
<1>5. Len(s) + 1 \in 1 .. Len(t)
  BY <1>1, <1>2
<1>6. Range(t) = Range(s) \cup {x}
  <2>1. ASSUME NEW y \in Range(t)
        PROVE  y \in Range(s) \cup {x}
    BY <1>1, <1>2, <1>3
  <2>2. ASSUME NEW y \in Range(s)
        PROVE  y \in Range(t)
    BY <1>1, <1>2, <1>4
  <2>3. x \in Range(t)
    BY <1>1, <1>2, <1>5
  <2>. QED  BY <2>1, <2>2, <2>3
<1>. QED  BY <1>1, <1>6 DEF t

LEMMA NothingFacts ==
  ASSUME NEW S
  PROVE  << >> \in Seq(S) /\ Len(<< >>) = 0 /\ DOMAIN << >> = {} /\ Range(<< >>) = {}
BY EmptySeq DEF Range

\* The places of the posting lists of a batch, and what is there.
LEMMA PlaceFacts ==
  ASSUME posting \in Postings, NEW b \in Seq(HeadId)
  PROVE  /\ Places(b) \subseteq Nat \X Nat
         /\ \A p \in Places(b) : Entry(b, p) \in Vector \ HeadVectors
<1>1. posting \in [HeadId -> Seq(Vector \ HeadVectors)]
  BY SpannAssumption DEF HeadVectors
<1>2. ASSUME NEW p \in Places(b)
      PROVE  p \in Nat \X Nat /\ Entry(b, p) \in Vector \ HeadVectors
  <2>0. PICK pi \in DOMAIN b : \E offset \in DOMAIN posting[b[pi]] : p = <<pi, offset>>
    BY DEF Places
  <2>1. PICK offset \in DOMAIN posting[b[pi]] : p = <<pi, offset>>
    BY <2>0
  <2>2. pi \in 1 .. Len(b) /\ Len(b) \in Nat /\ b[pi] \in HeadId
    BY RangeFacts
  <2>3. posting[b[pi]] \in Seq(Vector \ HeadVectors)
    BY <1>1, <2>2
  <2>4. /\ offset \in 1 .. Len(posting[b[pi]]) /\ Len(posting[b[pi]]) \in Nat
        /\ posting[b[pi]][offset] \in Vector \ HeadVectors
    BY <2>3, RangeFacts
  <2>5. p[1] = pi /\ p[2] = offset
    BY <2>1
  <2>. QED  BY <2>1, <2>2, <2>4, <2>5 DEF Entry
<1>. QED  BY <1>2

LEMMA BeforeFacts ==
  ASSUME NEW p \in Nat \X Nat, NEW q \in Nat \X Nat
  PROVE  /\ ~Before(p, p)
         /\ p = q \/ Before(p, q) \/ Before(q, p)
         /\ \A r \in Nat \X Nat : Before(p, q) /\ Before(q, r) => Before(p, r)
BY DEF Before

\* A batch is some of the heads that are left, each once.
LEMMA BatchFacts ==
  ASSUME TypeOK, NEW b \in HeadBatches
  PROVE  /\ b \in Seq(HeadId) /\ Len(b) \in Nat /\ Len(b) <= Batch
         /\ Range(b) \subseteq headsLeft
         /\ \A i, j \in DOMAIN b : b[i] = b[j] => i = j
<1>1. PICK c \in SUBSET headsLeft : Cardinality(c) <= Batch /\ b \in SetToSeqs(c)
  BY DEF HeadBatches
<1>2. c \subseteq HeadId
  BY DEF TypeOK
<1>3. Cardinality(c) \in Nat
  BY <1>2, SpannAssumption, FS_Subset, FS_CardinalityType
<1>4. /\ b \in [1 .. Cardinality(c) -> c]
      /\ \A i, j \in 1 .. Cardinality(c) : i # j => b[i] # b[j]
  BY <1>1 DEF SetToSeqs
<1>5. b \in Seq(c) /\ Len(b) = Cardinality(c)
  BY <1>3, <1>4
<1>6. Range(b) \subseteq c /\ b \in Seq(HeadId)
  BY <1>2, <1>4, <1>3 DEF Range
<1>. QED  BY <1>1, <1>3, <1>4, <1>5, <1>6

-----------------------------------------------------------------------------
(* Steps of the inductive invariant.                                       *)

\* The steps within a batch that read nothing.
LEMMA BatchRests ==
  ASSUME UNCHANGED <<posting, isFirst, headsLeft, heads, headOffset, loadPosting,
                     unread, deduper, returned, batches>>
  PROVE  /\ HeadsComeOnce => HeadsComeOnce'
         /\ ReadsForward => ReadsForward'
         /\ Lost' = Lost
         /\ Delivers /\ pauses' = pauses => Delivers'
<1>1. /\ Places(heads)' = Places(heads) /\ Lists' = Lists /\ Lost' = Lost
      /\ NotOffered' = NotOffered
  BY DEF Places, Lists, Lost, LastEntries, Entry, NotOffered
<1>2. HeadsComeOnce => HeadsComeOnce'
  BY <1>1 DEF HeadsComeOnce
<1>3. ReadsForward => ReadsForward'
  BY <1>1 DEF ReadsForward, Entry
<1>4. Delivers /\ pauses' = pauses => Delivers'
  BY <1>1 DEF Delivers, Delivered, Entry, Places
<1>. QED  BY <1>1, <1>2, <1>3, <1>4

LEMMA InitKeeps ==
  ASSUME Init
  PROVE  IInv
<1>. /\ posting \in Postings /\ pc = "closed" /\ scans = 0 /\ isFirst
     /\ headsLeft = HeadId /\ heads = << >> /\ headOffset = 0 /\ loadPosting = FALSE
     /\ unread = {} /\ deduper = {} /\ inorder = FALSE /\ slot = NoVector
     /\ returned = << >> /\ pauses = 0 /\ batches = << >> /\ ended = FALSE
  BY DEF Init
<1>. /\ << >> \in Seq(HeadId) /\ << >> \in Seq(Vector) /\ << >> \in Seq(Seq(HeadId))
     /\ Len(<< >>) = 0 /\ DOMAIN << >> = {} /\ Range(<< >>) = {}
  BY NothingFacts
<1>0. TypeOK
  <2>1. heads \in Seq(HeadId) /\ returned \in Seq(Vector) /\ batches \in Seq(Seq(HeadId))
    OBVIOUS
  <2>2. scans \in 0 .. MaxScans /\ headOffset \in 0 .. Batch /\ isFirst \in BOOLEAN
    BY SpannAssumption DEF Init
  <2>3. inorder \in BOOLEAN /\ ended \in BOOLEAN /\ loadPosting \in BOOLEAN
    OBVIOUS
  <2>4. pauses \in 0 .. 1
    OBVIOUS
  <2>5. posting \in Postings /\ headsLeft \in SUBSET HeadId /\ unread \in SUBSET (Nat \X Nat)
    OBVIOUS
  <2>6. deduper \in SUBSET Vector /\ slot \in Vector \cup {NoVector}
    OBVIOUS
  <2>. QED  BY ONLY <2>1, <2>2, <2>3, <2>4, <2>5, <2>6, pc = "closed" DEF TypeOK
<1>1. PhasesFit
  BY DEF PhasesFit
<1>2. HeadsComeOnce /\ Dedupes
  BY SpannAssumption DEF HeadsComeOnce, Dedupes
<1>3. ReadsForward /\ Delivers
  BY DEF ReadsForward, Delivers
<1>. QED  BY <1>0, <1>1, <1>2, <1>3 DEF IInv

LEMMA OpenKeeps ==
  ASSUME IInv, Open
  PROVE  IInv'
<1>. TypeOK
  BY DEF IInv
<1>. /\ scans < MaxScans /\ pc' = "open" /\ scans' = scans + 1 /\ isFirst' = TRUE
     /\ headsLeft' = HeadId /\ heads' = << >> /\ deduper' = {} /\ returned' = << >>
     /\ pauses' = 0 /\ batches' = << >> /\ ended' = FALSE
     /\ UNCHANGED <<posting, headOffset, loadPosting, unread, inorder, slot>>
  BY DEF Open, ClearDeduper
<1>. /\ << >> \in Seq(HeadId) /\ << >> \in Seq(Vector) /\ << >> \in Seq(Seq(HeadId))
     /\ Len(<< >>) = 0 /\ DOMAIN << >> = {} /\ Range(<< >>) = {}
  BY NothingFacts
<1>0. TypeOK'
  <2>1. heads' \in Seq(HeadId) /\ returned' \in Seq(Vector) /\ batches' \in Seq(Seq(HeadId))
    OBVIOUS
  <2>2. scans' \in 0 .. MaxScans
    BY SpannAssumption DEF TypeOK
  <2>3. headOffset' \in 0 .. Batch /\ isFirst' \in BOOLEAN /\ loadPosting' \in BOOLEAN
    BY DEF TypeOK
  <2>4. inorder' \in BOOLEAN /\ ended' \in BOOLEAN
    BY DEF TypeOK
  <2>7. pauses' \in 0 .. 1
    OBVIOUS
  <2>5. posting' \in Postings /\ headsLeft' \in SUBSET HeadId /\ unread' \in SUBSET (Nat \X Nat)
    BY DEF TypeOK
  <2>6. deduper' \in SUBSET Vector /\ slot' \in Vector \cup {NoVector}
    BY DEF TypeOK
  <2>. QED  BY ONLY <2>1, <2>2, <2>3, <2>4, <2>5, <2>6, <2>7, pc' = "open" DEF TypeOK
<1>1. PhasesFit'
  BY DEF PhasesFit
<1>2. HeadsComeOnce' /\ Dedupes'
  BY SpannAssumption DEF HeadsComeOnce, Dedupes
<1>3. ReadsForward' /\ Delivers'
  BY DEF ReadsForward, Delivers
<1>. QED  BY <1>0, <1>1, <1>2, <1>3 DEF IInv

LEMMA LaterNextKeeps ==
  ASSUME IInv, LaterNext
  PROVE  IInv'
<1>. TypeOK /\ PhasesFit /\ HeadsComeOnce /\ Dedupes /\ ReadsForward /\ Delivers
  BY DEF IInv
<1>. /\ slot' = NoVector /\ pc' = "searching" /\ ~isFirst
     /\ UNCHANGED <<posting, scans, isFirst, headsLeft, heads, headOffset, loadPosting,
                    unread, deduper, inorder, returned, pauses, batches, ended>>
  BY DEF LaterNext, workspace, history
<1>1. TypeOK' /\ PhasesFit'
  BY DEF TypeOK, PhasesFit
<1>2. HeadsComeOnce' /\ ReadsForward' /\ Delivers' /\ Lost' = Lost
  BY BatchRests
<1>3. Dedupes'
  BY <1>2 DEF Dedupes
<1>. QED  BY <1>1, <1>2, <1>3 DEF IInv

LEMMA CloseKeeps ==
  ASSUME IInv, Close \/ UNCHANGED vars
  PROVE  IInv'
<1>. TypeOK /\ PhasesFit /\ HeadsComeOnce /\ Dedupes /\ ReadsForward /\ Delivers
  BY DEF IInv
<1>. /\ UNCHANGED <<posting, scans, isFirst, headsLeft, heads, headOffset, loadPosting,
                    unread, deduper, inorder, slot, returned, pauses, batches, ended>>
     /\ pc' \in {pc, "closed"}
  BY DEF Close, vars, workspace, history
<1>1. TypeOK' /\ PhasesFit'
  BY DEF TypeOK, PhasesFit
<1>2. HeadsComeOnce' /\ ReadsForward' /\ Delivers' /\ Lost' = Lost
  BY BatchRests
<1>3. Dedupes'
  BY <1>2 DEF Dedupes
<1>. QED  BY <1>1, <1>2, <1>3 DEF IInv

LEMMA PauseKeeps ==
  ASSUME IInv, Pause
  PROVE  IInv'
<1>. TypeOK /\ PhasesFit /\ HeadsComeOnce /\ Dedupes /\ ReadsForward /\ Delivers
  BY DEF IInv
<1>. /\ pc = "dry" /\ ~inorder /\ inorder' = TRUE /\ slot' = NoVector
     /\ pauses' = pauses + 1 /\ pc' = "open"
     /\ UNCHANGED <<posting, scans, isFirst, headsLeft, heads, headOffset, loadPosting,
                    unread, deduper, returned, batches, ended>>
  BY DEF Pause, MarkInOrder
<1>0. pauses = 0 /\ ~isFirst /\ ~ended
  BY DEF PhasesFit, TypeOK
<1>1. TypeOK' /\ PhasesFit'
  BY <1>0 DEF TypeOK, PhasesFit
<1>2. HeadsComeOnce' /\ ReadsForward' /\ Lost' = Lost
  BY BatchRests
<1>3. Dedupes'
  BY <1>2 DEF Dedupes
<1>4. Delivers'
  BY <1>2 DEF Delivers, Delivered, Entry, Places, PhasesFit
<1>. QED  BY <1>1, <1>2, <1>3, <1>4 DEF IInv

\* More is returned: what was delivered still is.
LEMMA DeliveredStays ==
  ASSUME posting' = posting, Range(returned) \subseteq Range(returned'), Lost \subseteq Lost'
  PROVE  \A b : Delivered(b) =>
           /\ \A i \in DOMAIN b : VidOf[b[i]] \in Range(returned')
           /\ \A p \in Places(b) : Entry(b, p) \in Range(returned') \cup Lost'
BY DEF Delivered

LEMMA OfferHeadKeeps ==
  ASSUME IInv, OfferHead
  PROVE  /\ IInv'
         /\ ~ended
         /\ \E v \in Vector \ Range(returned) : returned' = Append(returned, v)
<1>. TypeOK /\ PhasesFit /\ HeadsComeOnce /\ Dedupes /\ ReadsForward /\ Delivers
  BY DEF IInv
<1>. DEFINE h == heads[headOffset + 1]
<1>. /\ pc = "searching" /\ headOffset < Len(heads) /\ headOffset' = headOffset + 1
     /\ slot' = VidOf[h] /\ returned' = Append(returned, VidOf[h]) /\ pc' = "open"
     /\ UNCHANGED <<posting, scans, isFirst, headsLeft, heads, loadPosting, unread,
                    deduper, inorder, pauses, batches, ended>>
  BY DEF OfferHead, Return, Vid
<1>0. /\ headOffset \in Nat /\ Len(heads) \in Nat /\ DOMAIN heads = 1 .. Len(heads)
      /\ heads \in Seq(HeadId) /\ returned \in Seq(Vector)
      /\ \A k \in 1 .. Len(heads) : heads[k] \in HeadId
      /\ Batch \in Nat /\ Len(heads) <= Batch
  BY RangeFacts, SpannAssumption DEF TypeOK, HeadsComeOnce
<1>1. /\ headOffset + 1 \in 1 .. Len(heads) /\ h \in HeadId
      /\ VidOf \in [HeadId -> Vector]
      /\ \A g \in HeadId : VidOf[g] = VidOf[h] => g = h
  BY <1>0, SpannAssumption DEF IsInjective
<1>2. VidOf[h] \in Vector /\ VidOf[h] \notin Range(returned) /\ h \in NotOffered
  <2>0. headOffset + 1 \in {j \in DOMAIN heads : j > headOffset}
    BY <1>0, <1>1
  <2>1. h \in NotOffered
    BY <2>0 DEF NotOffered
  <2>. QED  BY <1>1, <2>1 DEF HeadsComeOnce
<1>. HIDE DEF h
<1>3. returned' \in Seq(Vector) /\ Range(returned') = Range(returned) \cup {VidOf[h]}
  BY <1>0, <1>2, AppendFacts
<1>4. heads # << >> /\ ~ended
  BY <1>0 DEF PhasesFit
<1>5. TypeOK'
  BY <1>0, <1>1, <1>2, <1>3 DEF TypeOK
<1>6. PhasesFit'
  BY <1>4 DEF PhasesFit
<1>7. Lost' = Lost /\ Lists' = Lists /\ Places(heads)' = Places(heads)
  BY DEF Lost, LastEntries, Entry, Places, Lists
<1>8. HeadsComeOnce'
  <2>1. \A g \in NotOffered' : g \in NotOffered /\ g \in HeadId /\ g # h
    <3>1. \A j \in 1 .. Len(heads) : j > headOffset + 1 => j > headOffset /\ heads[j] # h
      BY <1>0, <1>1 DEF HeadsComeOnce, h
    <3>2. h \notin headsLeft
      BY <1>0, <1>1, RangeFacts DEF HeadsComeOnce, h
    <3>. QED  BY <1>0, <3>1, <3>2 DEF NotOffered, TypeOK
  <2>2. \A g \in NotOffered' : VidOf[g] \notin Range(returned')
    BY <1>1, <1>3, <2>1 DEF HeadsComeOnce
  <2>3. \A i \in DOMAIN heads : i <= headOffset' => VidOf[heads[i]] \in Range(returned')
    <3>1. \A i \in DOMAIN heads : i <= headOffset' => i <= headOffset \/ i = headOffset + 1
      BY <1>0
    <3>. QED  BY <1>3, <3>1 DEF HeadsComeOnce, h
  <2>. QED  BY <2>2, <2>3 DEF HeadsComeOnce
<1>9. Dedupes'
  BY <1>1, <1>3, <1>7 DEF Dedupes, HeadVectors
<1>10. ReadsForward'
  BY <1>7 DEF ReadsForward, Entry
<1>11. Delivers'
  <2>1. ~(pauses = 1 /\ Len(batches) = 1)
    BY <1>0, <1>4 DEF Delivers
  <2>. QED  BY <1>3, <1>7, <2>1 DEF Delivers, Delivered, Entry, Places
<1>. QED  BY <1>2, <1>3, <1>4, <1>5, <1>6, <1>8, <1>9, <1>10, <1>11 DEF IInv

\* When the lists of a batch are read to their end, the batch is delivered.
LEMMA ReadBatch ==
  ASSUME IInv, headOffset >= Len(heads), ~loadPosting, unread = {}, ~isFirst
  PROVE  \A n \in 1 .. Len(batches) : Delivered(batches[n])
<1>. TypeOK /\ PhasesFit /\ HeadsComeOnce /\ Dedupes /\ ReadsForward /\ Delivers
  BY DEF IInv
<1>2. /\ DOMAIN heads = 1 .. Len(heads) /\ Len(heads) \in Nat /\ headOffset \in Nat
  BY RangeFacts, SpannAssumption DEF TypeOK
<1>3. \A i \in DOMAIN heads : VidOf[heads[i]] \in Range(returned)
  <2>1. \A i \in DOMAIN heads : i <= headOffset
    BY <1>2
  <2>. QED  BY <2>1 DEF HeadsComeOnce
<1>4. \A p \in Places(heads) : Entry(heads, p) \in Range(returned) \cup Lost
  BY DEF ReadsForward, Lists, Dedupes
<1>5. Delivered(heads)
  BY <1>3, <1>4 DEF Delivered
<1>. QED  BY <1>5 DEF Delivers

LEMMA DryDelivers ==
  ASSUME IInv, pc = "dry"
  PROVE  \A n \in 1 .. Len(batches) : Delivered(batches[n])
BY ReadBatch DEF IInv, PhasesFit

(***************************************************************************)
(* The next batch, which has only new heads; nothing of it is delivered.   *)
(* At the same time the vector in slot may be returned.                    *)
(***************************************************************************)
LEMMA TakeHeadsKeeps ==
  ASSUME IInv, NEW b \in HeadBatches, TakeHeads(b),
         \A n \in 1 .. Len(batches) : Delivered(batches[n]),
         posting' = posting, deduper' = deduper, isFirst' = FALSE, pauses' = pauses,
         b # << >> => isFirst \/ batches # << >>,
         Range(returned) \subseteq Range(returned'),
         Range(returned') \subseteq Range(returned) \cup deduper
  PROVE  /\ HeadsComeOnce' /\ ReadsForward' /\ Delivers'
         /\ Lost \subseteq Lost'
         /\ heads' \in Seq(HeadId) /\ batches' \in Seq(Seq(HeadId))
         /\ headsLeft' \subseteq HeadId
         /\ headOffset' = 0 /\ loadPosting' = TRUE
<1>. TypeOK /\ PhasesFit /\ HeadsComeOnce /\ Dedupes /\ ReadsForward /\ Delivers
  BY DEF IInv
<1>. /\ heads' = b /\ headOffset' = 0 /\ loadPosting' = TRUE
     /\ headsLeft' = (IF Len(b) < Batch THEN {} ELSE headsLeft \ Range(b))
     /\ batches' = (IF b = << >> THEN batches ELSE Append(batches, b))
  BY DEF TakeHeads
<1>1. /\ b \in Seq(HeadId) /\ Len(b) \in Nat /\ Len(b) <= Batch
      /\ Range(b) \subseteq headsLeft
      /\ \A i, j \in DOMAIN b : b[i] = b[j] => i = j
      /\ DOMAIN b = 1 .. Len(b) /\ \A k \in DOMAIN b : b[k] \in Range(b)
  BY BatchFacts, RangeFacts
<1>2. batches \in Seq(Seq(HeadId)) /\ Len(batches) \in Nat
  BY RangeFacts DEF TypeOK
<1>3. /\ batches' \in Seq(Seq(HeadId))
      /\ Range(batches) \subseteq Range(batches')
      /\ b = << >> => batches' = batches
      /\ b # << >> =>
           /\ Len(batches') = Len(batches) + 1 /\ batches'[Len(batches) + 1] = b
           /\ \A k \in 1 .. Len(batches) : batches'[k] = batches[k]
           /\ b \in Range(batches')
  BY <1>1, <1>2, AppendFacts
<1>4. headsLeft' \subseteq headsLeft /\ headsLeft' \subseteq HeadId /\ Range(b) \cap headsLeft' = {}
  BY DEF TypeOK
<1>5. Lost \subseteq Lost'
  BY <1>3 DEF Lost, LastEntries, Entry, Places
<1>6. HeadsComeOnce'
  <2>1. NotOffered' \subseteq NotOffered
    BY <1>1, <1>4 DEF NotOffered
  <2>2. NotOffered \subseteq HeadId
    BY RangeFacts DEF NotOffered, TypeOK
  <2>3. \A h \in NotOffered' : VidOf[h] \in HeadVectors /\ VidOf[h] \notin Range(returned)
    BY <2>1, <2>2 DEF HeadsComeOnce, HeadVectors
  <2>4. \A h \in NotOffered' : VidOf[h] \notin Range(returned')
    BY <2>3 DEF Dedupes
  <2>5. \A i \in DOMAIN b : ~(i <= 0)
    BY <1>1
  <2>. QED  BY <1>1, <1>4, <2>4, <2>5 DEF HeadsComeOnce
<1>7. ReadsForward'
  <2>1. Lists' = Places(heads)'
    BY DEF Lists
  <2>. QED  BY <2>1 DEF ReadsForward
<1>8. \A n \in 1 .. Len(batches) :
        /\ \A i \in DOMAIN batches[n] : VidOf[batches[n][i]] \in Range(returned')
        /\ \A p \in Places(batches[n]) : Entry(batches[n], p) \in Range(returned') \cup Lost'
  BY <1>5, DeliveredStays
<1>9. Delivers'
  <2>1. ASSUME NEW n \in 1 .. Len(batches'), b # << >>
        PROVE  n \in 1 .. Len(batches) \/ (n = Len(batches') /\ batches'[n] = b)
    BY <1>2, <1>3, <2>1
  <2>2. \A n \in 1 .. Len(batches') :
          Delivered(batches[n])' \/ (n = Len(batches') /\ batches'[n] = heads' /\ heads' # << >>)
    <3>1. CASE b = << >>
      BY <1>3, <1>8, <3>1 DEF Delivered, Entry, Places
    <3>2. CASE b # << >>
      BY <1>3, <1>8, <2>1, <3>2 DEF Delivered, Entry, Places
    <3>. QED  BY <3>1, <3>2
  <2>3. ~(pauses' = 1 /\ Len(batches') = 1 /\ heads' # << >>)
    <3>. SUFFICES ASSUME pauses' = 1, Len(batches') = 1, b # << >> PROVE FALSE
      OBVIOUS
    <3>1. Len(batches) = 0
      BY <1>2, <1>3
    <3>2. batches = << >>
      BY <1>2, <3>1, EmptySeq
    <3>. QED  BY <3>2 DEF PhasesFit
  <2>4. batches' = << >> => headsLeft' = {}
    <3>. SUFFICES ASSUME batches' = << >> PROVE headsLeft' = {}
      OBVIOUS
    <3>1. Len(batches') = 0
      OBVIOUS
    <3>2. b = << >>
      BY <1>2, <1>3, <3>1
    <3>3. Len(b) < Batch
      BY <3>2, SpannAssumption
    <3>. QED  BY <3>3
  <2>. QED  BY <1>3, <2>2, <2>3, <2>4 DEF Delivers
<1>. QED  BY <1>1, <1>3, <1>4, <1>5, <1>6, <1>7, <1>9

LEMMA FirstNextKeeps ==
  ASSUME IInv, FirstNext
  PROVE  IInv'
<1>. TypeOK /\ PhasesFit /\ HeadsComeOnce /\ Dedupes /\ ReadsForward /\ Delivers
  BY DEF IInv
<1>. /\ isFirst /\ isFirst' = FALSE /\ slot' = NoVector /\ inorder' = FALSE
     /\ pc' = "searching"
     /\ UNCHANGED <<posting, scans, unread, deduper, returned, pauses, ended>>
  BY DEF FirstNext
<1>1. PICK b \in HeadBatches : TakeHeads(b)
  BY DEF FirstNext, TakeHeads
<1>2. batches = << >> /\ pauses = 0 /\ ~ended
  BY DEF PhasesFit
<1>3. \A n \in 1 .. Len(batches) : Delivered(batches[n])
  BY <1>2
<1>4. /\ HeadsComeOnce' /\ ReadsForward' /\ Delivers' /\ Lost \subseteq Lost'
      /\ heads' \in Seq(HeadId) /\ batches' \in Seq(Seq(HeadId))
      /\ headsLeft' \subseteq HeadId /\ headOffset' = 0 /\ loadPosting' = TRUE
  BY <1>1, <1>3, TakeHeadsKeeps
<1>5. TypeOK'
  <2>1. inorder' \in BOOLEAN /\ isFirst' \in BOOLEAN /\ loadPosting' \in BOOLEAN
    BY <1>4
  <2>2. headOffset' \in 0 .. Batch
    BY <1>4, SpannAssumption
  <2>. QED  BY <1>4, <2>1, <2>2 DEF TypeOK
<1>6. PhasesFit'
  BY <1>2 DEF PhasesFit
<1>7. Dedupes'
  BY <1>4 DEF Dedupes
<1>. QED  BY <1>4, <1>5, <1>6, <1>7 DEF IInv

LEMMA NextBatchKeeps ==
  ASSUME IInv, NextBatch
  PROVE  IInv'
<1>. TypeOK /\ PhasesFit /\ HeadsComeOnce /\ Dedupes /\ ReadsForward /\ Delivers
  BY DEF IInv
<1>. /\ pc = "dry" /\ inorder /\ pc' = "searching"
     /\ UNCHANGED <<posting, scans, isFirst, unread, deduper, inorder, slot, returned,
                    pauses, ended>>
  BY DEF NextBatch
<1>1. PICK b \in HeadBatches : b # << >> /\ TakeHeads(b)
  BY DEF NextBatch
<1>2. ~isFirst /\ isFirst' = FALSE
  BY DEF PhasesFit, TypeOK
<1>3. headsLeft # {} /\ batches # << >>
  <2>1. /\ Range(b) \subseteq headsLeft /\ b \in Seq(HeadId) /\ Len(b) \in Nat
    BY BatchFacts
  <2>2. 1 \in 1 .. Len(b)
    BY <1>1, <2>1, EmptySeq
  <2>3. b[1] \in Range(b)
    BY <2>1, <2>2, RangeFacts
  <2>. QED  BY <1>2, <2>1, <2>3 DEF Delivers
<1>4. \A n \in 1 .. Len(batches) : Delivered(batches[n])
  BY DryDelivers
<1>5. /\ HeadsComeOnce' /\ ReadsForward' /\ Delivers' /\ Lost \subseteq Lost'
      /\ heads' \in Seq(HeadId) /\ batches' \in Seq(Seq(HeadId))
      /\ headsLeft' \subseteq HeadId /\ headOffset' = 0 /\ loadPosting' = TRUE
  BY <1>1, <1>2, <1>3, <1>4, TakeHeadsKeeps
<1>6. TypeOK'
  BY <1>5, SpannAssumption DEF TypeOK
<1>7. ~ended
  BY <1>3 DEF PhasesFit
<1>8. PhasesFit'
  BY <1>2, <1>7 DEF PhasesFit
<1>9. Dedupes'
  BY <1>5 DEF Dedupes
<1>. QED  BY <1>5, <1>6, <1>8, <1>9 DEF IInv

LEMMA NoMoreHeadsKeeps ==
  ASSUME IInv, NoMoreHeads
  PROVE  /\ IInv'
         /\ \/ /\ ~ended /\ ended' = ended
               /\ \E v \in Vector \ Range(returned) : returned' = Append(returned, v)
            \/ ended' = TRUE /\ returned' = returned
<1>. TypeOK /\ PhasesFit /\ HeadsComeOnce /\ Dedupes /\ ReadsForward /\ Delivers
  BY DEF IInv
<1>. /\ pc = "dry" /\ inorder /\ pc' = "open" /\ TakeHeads(<< >>)
     /\ UNCHANGED <<posting, scans, isFirst, unread, deduper, inorder, pauses>>
  BY DEF NoMoreHeads, Return
<1>0. ~isFirst /\ isFirst' = FALSE
  BY DEF PhasesFit, TypeOK
<1>1. << >> \in HeadBatches /\ heads' = << >> /\ headsLeft' = {}
  BY NothingFacts, SpannAssumption DEF TakeHeads
<1>2. \A n \in 1 .. Len(batches) : Delivered(batches[n])
  BY DryDelivers
<1>3. CASE slot # NoVector
  <2>1. slot' = slot /\ returned' = Append(returned, slot) /\ ended' = ended
    BY <1>3 DEF NoMoreHeads, Return
  <2>2. slot \in deduper \ Range(returned) /\ slot \in Vector \ Range(returned) /\ ~ended
    BY <1>3 DEF Dedupes, TypeOK, PhasesFit
  <2>3. returned' \in Seq(Vector) /\ Range(returned') = Range(returned) \cup {slot}
    BY <2>1, <2>2, AppendFacts DEF TypeOK
  <2>4. /\ Range(returned) \subseteq Range(returned')
        /\ Range(returned') \subseteq Range(returned) \cup deduper
    BY <2>2, <2>3
  <2>5. /\ HeadsComeOnce' /\ ReadsForward' /\ Delivers' /\ Lost \subseteq Lost'
        /\ heads' \in Seq(HeadId) /\ batches' \in Seq(Seq(HeadId))
        /\ headsLeft' \subseteq HeadId /\ headOffset' = 0 /\ loadPosting' = TRUE
    BY <1>0, <1>1, <1>2, <2>4, TakeHeadsKeeps
  <2>6. TypeOK'
    BY <2>1, <2>3, <2>5, SpannAssumption DEF TypeOK
  <2>7. PhasesFit'
    BY <1>0, <1>1, <2>1, <2>2 DEF PhasesFit
  <2>8. Dedupes'
    BY <2>4, <2>5 DEF Dedupes
  <2>. QED  BY <2>1, <2>2, <2>5, <2>6, <2>7, <2>8 DEF IInv
<1>4. CASE slot = NoVector
  <2>1. slot' = slot /\ returned' = returned /\ ended' = TRUE
    BY <1>4 DEF NoMoreHeads
  <2>2. /\ HeadsComeOnce' /\ ReadsForward' /\ Delivers' /\ Lost \subseteq Lost'
        /\ heads' \in Seq(HeadId) /\ batches' \in Seq(Seq(HeadId))
        /\ headsLeft' \subseteq HeadId /\ headOffset' = 0 /\ loadPosting' = TRUE
    BY <1>0, <1>1, <1>2, <2>1, TakeHeadsKeeps
  <2>3. TypeOK'
    <3>1. ended' \in BOOLEAN /\ loadPosting' \in BOOLEAN
      BY <2>1, <2>2
    <3>. QED  BY <2>1, <2>2, <3>1, SpannAssumption DEF TypeOK
  <2>4. PhasesFit'
    BY <1>0, <1>1, <1>4, <2>1 DEF PhasesFit
  <2>5. Dedupes'
    BY <2>1, <2>2 DEF Dedupes
  <2>. QED  BY <2>1, <2>2, <2>3, <2>4, <2>5 DEF IInv
<1>. QED  BY <1>3, <1>4

\* Reading goes forward in the lists of the batch.
LEMMA ReadingKeeps ==
  ASSUME IInv, Reading, Range(returned) \subseteq Range(returned'),
         Range(returned') \subseteq Range(returned) \cup (deduper' \ HeadVectors),
         deduper \subseteq deduper', unread' \subseteq Lists,
         \A p \in unread', q \in Places(heads) : Before(p, q) => q \in unread',
         \A q \in Lists \ unread' : Entry(heads, q) \in deduper'
  PROVE  /\ HeadsComeOnce' /\ ReadsForward' /\ Delivers' /\ Lost' = Lost
         /\ unread' \subseteq Nat \X Nat
<1>. TypeOK /\ PhasesFit /\ HeadsComeOnce /\ Dedupes /\ ReadsForward /\ Delivers
  BY DEF IInv
<1>. /\ pc = "searching" /\ headOffset >= Len(heads) /\ loadPosting' = FALSE
     /\ UNCHANGED <<posting, scans, isFirst, headsLeft, heads, headOffset, inorder,
                    batches, pauses, ended>>
  BY DEF Reading
<1>1. ~isFirst
  BY DEF PhasesFit
<1>2. Lists' = unread' /\ Places(heads)' = Places(heads) /\ Lost' = Lost
  BY DEF Lists, Places, Lost, LastEntries, Entry
<1>3. Lists \subseteq Places(heads) /\ Places(heads) \subseteq Nat \X Nat
  BY <1>1, PlaceFacts DEF ReadsForward, TypeOK
<1>4. HeadsComeOnce'
  <2>1. NotOffered' = NotOffered /\ NotOffered \subseteq HeadId
    BY RangeFacts DEF NotOffered, TypeOK
  <2>2. \A h \in NotOffered : VidOf[h] \in HeadVectors /\ VidOf[h] \notin Range(returned)
    BY <2>1 DEF HeadsComeOnce, HeadVectors
  <2>3. \A h \in NotOffered : VidOf[h] \notin Range(returned')
    BY <2>2
  <2>. QED  BY <2>1, <2>3 DEF HeadsComeOnce
<1>5. ReadsForward'
  <2>1. \A p \in Places(heads) \ unread' : Entry(heads, p) \in deduper'
    BY <1>1 DEF ReadsForward
  <2>. QED  BY <1>2, <1>3, <2>1 DEF ReadsForward, Entry
<1>6. Delivers'
  <2>1. \A n \in 1 .. Len(batches) : Delivered(batches[n]) =>
          /\ \A i \in DOMAIN batches[n] : VidOf[batches[n][i]] \in Range(returned')
          /\ \A p \in Places(batches[n]) : Entry(batches[n], p) \in Range(returned') \cup Lost'
    BY <1>2, DeliveredStays
  <2>2. \A n \in 1 .. Len(batches) :
          Delivered(batches[n])' \/ (n = Len(batches) /\ batches[n] = heads /\ heads # << >>)
    BY <2>1 DEF Delivers, Delivered, Entry, Places
  <2>3. pauses = 1 /\ Len(batches) = 1 /\ heads # << >> => unread' = {}
    BY DEF Delivers, Lists
  <2>. QED  BY <1>1, <2>2, <2>3 DEF Delivers
<1>. QED  BY <1>2, <1>3, <1>4, <1>5, <1>6

LEMMA ReadNothingKeeps ==
  ASSUME IInv, ReadNothing
  PROVE  IInv'
<1>. TypeOK /\ PhasesFit /\ HeadsComeOnce /\ Dedupes /\ ReadsForward /\ Delivers
  BY DEF IInv
<1>1. /\ Reading /\ unread' = {} /\ pc' = "dry" /\ UNCHANGED <<deduper, slot, returned>>
      /\ \A q \in Lists : Entry(heads, q) \in deduper
  BY DEF ReadNothing
<1>2. /\ pc = "searching" /\ headOffset >= Len(heads) /\ loadPosting' = FALSE
      /\ UNCHANGED <<posting, scans, isFirst, headsLeft, heads, headOffset, inorder,
                     batches, pauses, ended>>
  BY <1>1 DEF Reading
<1>3. HeadsComeOnce' /\ ReadsForward' /\ Delivers' /\ Lost' = Lost
  BY <1>1, ReadingKeeps
<1>4. TypeOK'
  BY <1>1, <1>2 DEF TypeOK
<1>5. PhasesFit'
  BY <1>1, <1>2 DEF PhasesFit
<1>6. Dedupes'
  BY <1>1, <1>2, <1>3 DEF Dedupes
<1>. QED  BY <1>3, <1>4, <1>5, <1>6 DEF IInv

LEMMA ReadVectorKeeps ==
  ASSUME IInv, NEW p \in Lists, ReadVector(p)
  PROVE  /\ IInv'
         /\ ~ended
         /\ \/ \E v \in Vector \ Range(returned) : returned' = Append(returned, v)
            \/ returned' = returned
<1>. TypeOK /\ PhasesFit /\ HeadsComeOnce /\ Dedupes /\ ReadsForward /\ Delivers
  BY DEF IInv
<1>. DEFINE v == Entry(heads, p)
<1>1. /\ Reading /\ v \notin deduper
      /\ \A q \in Lists : Before(q, p) => Entry(heads, q) \in deduper
      /\ deduper' = deduper \cup {v} /\ unread' = {q \in Lists : Before(p, q)}
      /\ slot' = v
      /\ IF unread' # {} THEN returned' = Append(returned, v) /\ pc' = "open"
         ELSE pc' = "dry" /\ returned' = returned
  BY DEF ReadVector, IsNew, Return
<1>2. /\ pc = "searching" /\ headOffset >= Len(heads) /\ loadPosting' = FALSE
      /\ UNCHANGED <<posting, scans, isFirst, headsLeft, heads, headOffset, inorder,
                     batches, pauses, ended>>
  BY <1>1 DEF Reading
<1>3. ~isFirst /\ p \in Places(heads) /\ Lists \subseteq Places(heads)
  BY <1>2 DEF PhasesFit, ReadsForward
<1>4. /\ Places(heads) \subseteq Nat \X Nat /\ v \in Vector \ HeadVectors
  BY <1>3, PlaceFacts DEF TypeOK
<1>5. v \notin Range(returned)
  BY <1>1, <1>4 DEF Dedupes
<1>6. heads # << >> /\ ~ended
  <2>1. heads # << >>
    BY <1>3, NothingFacts DEF Places
  <2>. QED  BY <2>1 DEF PhasesFit
<1>7. \A q \in Lists \ unread' : Entry(heads, q) \in deduper'
  <2>. SUFFICES ASSUME NEW q \in Lists \ unread' PROVE Entry(heads, q) \in deduper'
    OBVIOUS
  <2>1. q = p \/ Before(q, p)
    BY <1>1, <1>3, <1>4, BeforeFacts
  <2>. QED  BY <1>1, <2>1
<1>8. \A r \in unread', q \in Places(heads) : Before(r, q) => q \in unread'
  <2>. SUFFICES ASSUME NEW r \in unread', NEW q \in Places(heads), Before(r, q)
       PROVE q \in unread'
    OBVIOUS
  <2>1. r \in Lists /\ Before(p, r) /\ q \in Lists
    BY <1>1, <1>3 DEF ReadsForward
  <2>2. Before(p, q)
    BY <1>3, <1>4, <2>1, BeforeFacts
  <2>. QED  BY <1>1, <2>1, <2>2
<1>. HIDE DEF v
<1>9. CASE unread' # {}
  <2>1. returned' = Append(returned, v) /\ pc' = "open"
    BY <1>1, <1>9
  <2>2. returned' \in Seq(Vector) /\ Range(returned') = Range(returned) \cup {v}
    BY <1>4, <2>1, AppendFacts DEF TypeOK
  <2>3. /\ HeadsComeOnce' /\ ReadsForward' /\ Delivers' /\ Lost' = Lost
        /\ unread' \subseteq Nat \X Nat
    BY <1>1, <1>4, <1>7, <1>8, <2>2, ReadingKeeps
  <2>4. TypeOK'
    BY <1>1, <1>2, <1>4, <2>1, <2>2, <2>3 DEF TypeOK
  <2>5. PhasesFit'
    BY <1>2, <1>3, <1>6, <2>1 DEF PhasesFit
  <2>6. Dedupes'
    BY <1>1, <1>4, <2>1, <2>2, <2>3 DEF Dedupes
  <2>. QED  BY <1>4, <1>5, <1>6, <2>1, <2>3, <2>4, <2>5, <2>6 DEF IInv
<1>10. CASE unread' = {}
  <2>1. returned' = returned /\ pc' = "dry"
    BY <1>1, <1>10
  <2>2. /\ HeadsComeOnce' /\ ReadsForward' /\ Delivers' /\ Lost' = Lost
    BY <1>1, <1>7, <1>8, <2>1, ReadingKeeps
  <2>3. v \in Lost
    <3>1. \A q \in Places(heads) : ~Before(p, q)
      BY <1>1, <1>3, <1>10 DEF ReadsForward
    <3>2. v \in LastEntries(heads)
      BY <1>3, <3>1 DEF LastEntries, v
    <3>3. heads \in Range(batches)
      BY <1>6 DEF Delivers
    <3>. QED  BY <3>2, <3>3 DEF Lost
  <2>4. TypeOK'
    BY <1>1, <1>2, <1>4, <1>10, <2>1 DEF TypeOK
  <2>5. PhasesFit'
    BY <1>2, <1>3, <1>6, <1>10, <2>1 DEF PhasesFit
  <2>6. Dedupes'
    BY <1>1, <1>4, <1>5, <2>1, <2>2, <2>3 DEF Dedupes
  <2>. QED  BY <1>6, <2>1, <2>2, <2>4, <2>5, <2>6 DEF IInv
<1>. QED  BY <1>9, <1>10

LEMMA NextKeeps == IInv /\ [Next]_vars => IInv'
<1>. SUFFICES ASSUME IInv, [Next]_vars PROVE IInv'
  OBVIOUS
<1>1. CASE Open
  BY <1>1, OpenKeeps
<1>2. CASE FirstNext
  BY <1>2, FirstNextKeeps
<1>3. CASE LaterNext
  BY <1>3, LaterNextKeeps
<1>4. CASE OfferHead
  BY <1>4, OfferHeadKeeps
<1>5. ASSUME NEW p \in Lists, ReadVector(p) PROVE IInv'
  BY <1>5, ReadVectorKeeps
<1>6. CASE ReadNothing
  BY <1>6, ReadNothingKeeps
<1>7. CASE Pause
  BY <1>7, PauseKeeps
<1>8. CASE NextBatch
  BY <1>8, NextBatchKeeps
<1>9. CASE NoMoreHeads
  BY <1>9, NoMoreHeadsKeeps
<1>10. CASE Close \/ UNCHANGED vars
  BY <1>10, CloseKeeps
<1>. QED
  BY <1>1, <1>2, <1>3, <1>4, <1>5, <1>6, <1>7, <1>8, <1>9, <1>10 DEF Next

(***************************************************************************)
(* In any scan of a used workspace the deduper holds what was returned or  *)
(* lost, reading passes only what is in it, and batches are of new heads.  *)
(***************************************************************************)
THEOREM Inductive == Spec => []IInv
<1>1. Init => IInv
  BY InitKeeps
<1>. QED  BY <1>1, NextKeeps, PTL DEF Spec

(***************************************************************************)
(* A batch is returned whole, heads and lists, but for what may be the     *)
(* last entry of its last list; this holds of every batch the iterator is  *)
(* done with, whatever vectors the lists share.                            *)
(***************************************************************************)
THEOREM LosesOnePerBatch == Spec => []LosesOnlyLastEntries
<1>1. IInv => LosesOnlyLastEntries
  <2>. SUFFICES ASSUME IInv, NEW n \in 1 .. Len(batches), IsDone(n)
       PROVE Delivered(batches[n])
    BY DEF LosesOnlyLastEntries
  <2>1. PhasesFit /\ Delivers /\ Len(batches) \in Nat
    BY RangeFacts DEF IInv, TypeOK
  <2>2. CASE n < Len(batches) \/ ended
    BY <2>1, <2>2 DEF Delivers, PhasesFit
  <2>3. CASE n = 1 /\ pauses = 1 /\ n = Len(batches) /\ heads # << >>
    <3>1. headOffset >= Len(heads) /\ ~loadPosting /\ unread = {} /\ ~isFirst
      BY <2>1, <2>3 DEF Delivers, PhasesFit
    <3>. QED  BY <3>1, ReadBatch
  <2>4. CASE heads = << >> \/ n # Len(batches)
    BY <2>1, <2>4 DEF Delivers
  <2>. QED  BY <2>2, <2>3, <2>4 DEF IsDone
<1>. QED  BY <1>1, Inductive, PTL

-----------------------------------------------------------------------------
(* The iterator implements VectorSource.                                   *)

LEMMA YieldRefines ==
  ASSUME ~ended, UNCHANGED <<pauses, ended>>,
         \E v \in Vector \ Range(returned) : returned' = Append(returned, v)
  PROVE  Source!Next
<1>1. PICK v \in Vector \ Range(returned) : returned' = Append(returned, v)
  OBVIOUS
<1>2. Source!Yield(v)
  BY <1>1 DEF Source!Yield, Source!Range, Range
<1>. QED  BY <1>2 DEF Source!Next

LEMMA NextRefines ==
  ASSUME IInv, [Next]_vars
  PROVE  [Source!Next]_(Source!vars)
<1>1. ASSUME UNCHANGED <<returned, pauses, ended>>
      PROVE  UNCHANGED Source!vars
  BY <1>1 DEF Source!vars
<1>2. CASE Open
  BY <1>2 DEF Open, Source!Next, Source!Restart
<1>3. CASE FirstNext \/ LaterNext \/ ReadNothing \/ NextBatch \/ Close \/ UNCHANGED vars
  BY <1>1, <1>3 DEF FirstNext, LaterNext, ReadNothing, Reading, NextBatch, Close, vars, history
<1>4. CASE OfferHead
  BY <1>4, OfferHeadKeeps, YieldRefines DEF OfferHead
<1>5. ASSUME NEW p \in Lists, ReadVector(p)
      PROVE  [Source!Next]_(Source!vars)
  <2>1. UNCHANGED <<pauses, ended>>
    BY <1>5 DEF ReadVector, Reading
  <2>. QED  BY <1>1, <1>5, <2>1, ReadVectorKeeps, YieldRefines
<1>6. CASE Pause
  <2>1. pauses = 0 /\ pauses' = 1 /\ ~ended
    BY <1>6 DEF Pause, IInv, PhasesFit, TypeOK
  <2>. QED  BY <1>6, <2>1 DEF Pause, Source!Next, Source!Pause
<1>7. CASE NoMoreHeads
  <2>1. pauses' = pauses
    BY <1>7 DEF NoMoreHeads
  <2>2. CASE ended' = TRUE /\ returned' = returned
    BY <2>1, <2>2 DEF Source!Next, Source!Finish
  <2>. QED  BY <1>7, <2>1, <2>2, NoMoreHeadsKeeps, YieldRefines
<1>. QED  BY <1>2, <1>3, <1>4, <1>5, <1>6, <1>7 DEF Next

(***************************************************************************)
(* Next() of the SPANN iterator keeps what the access methods assume of an *)
(* iterator: no vector twice in a scan, over all batches and lists and     *)
(* whatever scan used the workspace before; one pause; nothing after the   *)
(* end.                                                                    *)
(***************************************************************************)
THEOREM IsVectorSource == Spec => ImplementsSource
<1>1. Init => Source!Init
  BY DEF Init, Source!Init
<1>2. IInv /\ [Next]_vars => [Source!Next]_(Source!vars)
  BY NextRefines
<1>. QED  BY <1>1, <1>2, Inductive, PTL DEF Spec, ImplementsSource, Source!Spec

=============================================================================
