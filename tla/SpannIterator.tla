---------------------------- MODULE SpannIterator ----------------------------
(***************************************************************************)
(* The iterative search src/patch/spann.patch adds to SPANN.  The index    *)
(* keeps some vectors, the heads, in memory, and for each head a posting   *)
(* list of other vectors on disk; a vector may be in several lists.  The   *)
(* iterator takes a batch of heads from the head index, returns these one  *)
(* by one, reads their posting lists, returns what is in them, and goes on *)
(* with the next batch.                                                    *)
(*                                                                         *)
(* Its workspace comes from a pool and goes back to it: a scan starts with *)
(* what the last one left there.  The head index yields each head once,    *)
(* as module BktIterator shows when no two heads are equal vectors; which  *)
(* it does not reach, and the order of those it does, are left open.       *)
(* Posting lists hold no heads: SPANN leaves them out when it builds them. *)
(***************************************************************************)
EXTENDS Integers, Sequences, FiniteSets, SequencesExt

CONSTANTS
  HeadId,    \* the heads
  Vector,    \* the vectors of the index, heads among them
  NoVector,  \* VID < 0: Next() has no result
  VidOf,     \* VidOf[h]: m_vectorTranslateMap, the vector a head is
  Batch,     \* 32: how many heads are asked for at once
  Postings,  \* the posting lists there may be: functions on HeadId
  MaxScans   \* bound: how many scans use the workspace

ASSUME SpannAssumption ==
  /\ IsFiniteSet(HeadId)
  /\ NoVector \notin Vector
  /\ VidOf \in [HeadId -> Vector] /\ IsInjective(VidOf)
  /\ Batch \in Nat \ {0}
  /\ Postings \subseteq [HeadId -> Seq(Vector \ {VidOf[h] : h \in HeadId})]
  /\ MaxScans \in Nat

VARIABLES
  posting,      \* posting[h]: the posting list of head h
  pc,           \* "closed"; "open" between calls; inside Next(): "searching",
                \* "dry" when SearchDiskIndexIterative found nothing
  scans,        \* how many scans began
  isFirst,      \* m_isFirstResult
  headsLeft,    \* what the head index will still yield
  heads,        \* p_headQuery: the batch, nearest first
  headOffset,   \* m_headOffset
  loadPosting,  \* m_loadPosting
  unread,       \* the places m_pi and m_offset have not passed
  deduper,      \* m_deduper
  inorder,      \* m_inorder
  slot,         \* p_query: its one result
  returned,     \* history: the vectors returned by this scan, in order
  pauses,       \* history: how often Next() had no result at m_inorder = FALSE
  batches,      \* history: the batches of this scan, the present one last
  ended         \* history: Next() had no result because the heads ran out

workspace == <<headOffset, loadPosting, unread, deduper, inorder>>
history == <<returned, pauses, batches, ended>>
vars == <<posting, pc, scans, isFirst, headsLeft, heads, workspace, slot, history>>

-----------------------------------------------------------------------------
(***************************************************************************)
(* SearchIndexIterativeFromNeareast: a batch, or what is left of the part  *)
(* of the head index that can be reached.                                  *)
(***************************************************************************)
HeadBatches ==
  UNION {SetToSeqs(b) : b \in {c \in SUBSET headsLeft : Cardinality(c) <= Batch}}

TakeHeads(b) ==
  /\ b \in HeadBatches
  /\ heads' = b
  /\ headsLeft' = IF Len(b) < Batch THEN {} ELSE headsLeft \ Range(b)
  /\ headOffset' = 0
  /\ loadPosting' = TRUE
  /\ batches' = IF b = << >> THEN batches ELSE Append(batches, b)

(***************************************************************************)
(* The lists of a batch are read one after the other: m_pi counts lists,   *)
(* m_offset the entries of one.                                            *)
(***************************************************************************)
Places(b) ==
  UNION {{<<pi, offset>> : offset \in DOMAIN posting[b[pi]]} : pi \in DOMAIN b}
Entry(b, p) == posting[b[p[1]]][p[2]]
Before(p, q) == p[1] < q[1] \/ (p[1] = q[1] /\ p[2] < q[2])

(***************************************************************************)
(* GetSPANNIterator clears the deduper it takes from the pool and nothing  *)
(* else; the rest is set by the first call of Next().                      *)
(***************************************************************************)
OpenUncleared == UNCHANGED deduper
ClearDeduper == deduper' = {}

Open ==
  /\ pc = "closed"
  /\ scans < MaxScans
  /\ pc' = "open"
  /\ scans' = scans + 1
  /\ isFirst' = TRUE
  /\ headsLeft' = HeadId
  /\ heads' = << >>
  /\ ClearDeduper
  /\ returned' = << >>
  /\ pauses' = 0
  /\ batches' = << >>
  /\ ended' = FALSE
  /\ UNCHANGED <<posting, headOffset, loadPosting, unread, inorder, slot>>

FirstNext ==
  /\ pc = "open"
  /\ isFirst
  /\ isFirst' = FALSE
  /\ slot' = NoVector
  /\ \E b \in HeadBatches : TakeHeads(b)
  /\ inorder' = FALSE
  /\ pc' = "searching"
  /\ UNCHANGED <<posting, scans, unread, deduper, returned, pauses, ended>>

LaterNext ==
  /\ pc = "open"
  /\ ~isFirst
  /\ slot' = NoVector
  /\ pc' = "searching"
  /\ UNCHANGED <<posting, scans, isFirst, headsLeft, heads, workspace, history>>

Return(v) ==
  /\ slot' = v
  /\ returned' = Append(returned, v)
  /\ pc' = "open"

\* SearchIndexIterative: the heads of the batch first ...
Untranslated(h) == h
Vid(h) == VidOf[h]

OfferHead ==
  /\ pc = "searching"
  /\ headOffset < Len(heads)
  /\ headOffset' = headOffset + 1
  /\ Return(Vid(heads[headOffset + 1]))
  /\ UNCHANGED <<posting, scans, isFirst, headsLeft, heads, loadPosting, unread,
                 deduper, inorder, pauses, batches, ended>>

(***************************************************************************)
(* ... then the posting lists, read in one go for the whole batch.         *)
(* SearchNextInPosting skips what was met before.  It tells its caller     *)
(* that it found something unless it has come to the end of the lists: a   *)
(* vector in the very last place is in slot, but not found.                *)
(***************************************************************************)
Lists == IF loadPosting THEN Places(heads) ELSE unread

IsNew(p) ==
  /\ Entry(heads, p) \notin deduper
  /\ \A q \in Lists : Before(q, p) => Entry(heads, q) \in deduper

Reading ==
  /\ pc = "searching"
  /\ headOffset >= Len(heads)
  /\ loadPosting' = FALSE
  /\ UNCHANGED <<posting, scans, isFirst, headsLeft, heads, headOffset, inorder,
                 batches, pauses, ended>>

ReadVector(p) ==
  /\ Reading
  /\ IsNew(p)
  /\ deduper' = deduper \cup {Entry(heads, p)}
  /\ unread' = {q \in Lists : Before(p, q)}
  /\ IF unread' # {} THEN Return(Entry(heads, p))
     ELSE slot' = Entry(heads, p) /\ pc' = "dry" /\ UNCHANGED returned

ReadNothing ==
  /\ Reading
  /\ \A q \in Lists : Entry(heads, q) \in deduper
  /\ unread' = {}
  /\ pc' = "dry"
  /\ UNCHANGED <<deduper, slot, returned>>

(***************************************************************************)
(* At the end of the first batch the result becomes VID -2: Next() says no *)
(* once.  At the end of the others the search goes on with a new batch; if *)
(* there is none, what is in slot is the result.                           *)
(***************************************************************************)
StayUnordered == inorder' = FALSE
MarkInOrder == inorder' = TRUE

Pause ==
  /\ pc = "dry"
  /\ ~inorder
  /\ MarkInOrder
  /\ slot' = NoVector
  /\ pauses' = pauses + 1
  /\ pc' = "open"
  /\ UNCHANGED <<posting, scans, isFirst, headsLeft, heads, headOffset,
                 loadPosting, unread, deduper, returned, batches, ended>>

NextBatch ==
  /\ pc = "dry"
  /\ inorder
  /\ \E b \in HeadBatches : b # << >> /\ TakeHeads(b)
  /\ pc' = "searching"
  /\ UNCHANGED <<posting, scans, isFirst, unread, deduper, inorder, slot, returned,
                 pauses, ended>>

NoMoreHeads ==
  /\ pc = "dry"
  /\ inorder
  /\ TakeHeads(<< >>)
  /\ IF slot # NoVector THEN Return(slot) /\ UNCHANGED ended
     ELSE ended' = TRUE /\ pc' = "open" /\ UNCHANGED <<slot, returned>>
  /\ UNCHANGED <<posting, scans, isFirst, unread, deduper, inorder, pauses>>

\* Close(), or the destructor; the workspace goes back to the pool as it is.
Close ==
  /\ pc = "open"
  /\ pc' = "closed"
  /\ UNCHANGED <<posting, scans, isFirst, headsLeft, heads, workspace, slot,
                 history>>

Init ==
  /\ posting \in Postings
  /\ pc = "closed"
  /\ scans = 0
  /\ isFirst = TRUE
  /\ headsLeft = HeadId
  /\ heads = << >>
  /\ headOffset = 0
  /\ loadPosting = FALSE
  /\ unread = {}
  /\ deduper = {}
  /\ inorder = FALSE
  /\ slot = NoVector
  /\ returned = << >>
  /\ pauses = 0
  /\ batches = << >>
  /\ ended = FALSE

Next ==
  \/ Open
  \/ FirstNext
  \/ LaterNext
  \/ OfferHead
  \/ \E p \in Lists : ReadVector(p)
  \/ ReadNothing
  \/ Pause
  \/ NextBatch
  \/ NoMoreHeads
  \/ Close

Spec == Init /\ [][Next]_vars

-----------------------------------------------------------------------------
TypeOK ==
  /\ posting \in Postings
  /\ pc \in {"closed", "open", "searching", "dry"}
  /\ scans \in 0 .. MaxScans
  /\ isFirst \in BOOLEAN
  /\ headsLeft \in SUBSET HeadId
  /\ heads \in Seq(HeadId)
  /\ headOffset \in 0 .. Batch
  /\ loadPosting \in BOOLEAN
  /\ unread \in SUBSET (Nat \X Nat)
  /\ deduper \in SUBSET Vector
  /\ inorder \in BOOLEAN
  /\ slot \in Vector \cup {NoVector}
  /\ returned \in Seq(Vector)
  /\ pauses \in 0 .. 1
  /\ batches \in Seq(Seq(HeadId))
  /\ ended \in BOOLEAN

(***************************************************************************)
(* Of the batches it is done with, a scan has returned every head and all  *)
(* that is in their lists, but for what may be the last entry of the last  *)
(* list of a batch: one vector per batch is lost, and no other.            *)
(***************************************************************************)
LastEntries(b) ==
  {Entry(b, p) : p \in {q \in Places(b) : \A r \in Places(b) : ~Before(q, r)}}

Lost == UNION {LastEntries(b) : b \in Range(batches)}

Delivered(b) ==
  /\ \A i \in DOMAIN b : VidOf[b[i]] \in Range(returned)
  /\ \A p \in Places(b) : Entry(b, p) \in Range(returned) \cup Lost

\* Next() had no result after the first batch, or has gone on to another one.
IsDone(n) == n < Len(batches) \/ ended \/ (n = 1 /\ pauses = 1)

LosesOnlyLastEntries ==
  \A n \in 1 .. Len(batches) : IsDone(n) => Delivered(batches[n])

(***************************************************************************)
(* The access method sees what VectorSource says: no vector twice,         *)
(* although a vector may be in the lists of several heads and the          *)
(* workspace served other scans before; one pause at most; and nothing     *)
(* after the end.                                                          *)
(***************************************************************************)
Source == INSTANCE VectorSource
  WITH yielded <- returned

ImplementsSource == Source!Spec

(***************************************************************************)
(* Nothing is lost: a scan that ends has returned every vector in the      *)
(* lists of its heads.  This is what the operators above would want.       *)
(***************************************************************************)
LosesNothing ==
  ended => \A n \in 1 .. Len(batches) : \A p \in Places(batches[n]) :
    Entry(batches[n], p) \in Range(returned)

-----------------------------------------------------------------------------
(***************************************************************************)
(* An inductive invariant.  After its end a scan cannot find a vector any  *)
(* more, and it has paused if and only if m_inorder says so.               *)
(***************************************************************************)
HeadVectors == {VidOf[h] : h \in HeadId}

PhasesFit ==
  /\ pc \in {"searching", "dry"} => ~isFirst
  /\ pc = "dry" => headOffset >= Len(heads) /\ ~loadPosting /\ unread = {}
  /\ ~isFirst => (pauses = 1 <=> inorder)
  /\ isFirst => pauses = 0 /\ ~ended
  /\ isFirst => returned = << >> /\ batches = << >> /\ heads = << >>
  /\ ended => inorder /\ headsLeft = {} /\ heads = << >>
  /\ ended /\ pc \in {"searching", "dry"} => slot = NoVector

\* A head that is not offered yet, from the batch or the index.
NotOffered == headsLeft \cup {heads[i] : i \in {j \in DOMAIN heads : j > headOffset}}

HeadsComeOnce ==
  /\ Len(heads) <= Batch
  /\ \A i, j \in DOMAIN heads : heads[i] = heads[j] => i = j
  /\ Range(heads) \cap headsLeft = {}
  /\ \A h \in NotOffered : VidOf[h] \notin Range(returned)
  /\ \A i \in DOMAIN heads : i <= headOffset => VidOf[heads[i]] \in Range(returned)

\* What is in the deduper was returned, or is in slot, or is lost.
Dedupes ==
  /\ deduper \cap HeadVectors = {}
  /\ Range(returned) \subseteq deduper \cup HeadVectors
  /\ deduper \subseteq Range(returned) \cup Lost
  /\ pc \in {"searching", "dry"} /\ slot # NoVector =>
       slot \in deduper \ Range(returned)

\* m_pi and m_offset go forward, and pass only what is in the deduper.
ReadsForward ==
  ~isFirst =>
    /\ Lists \subseteq Places(heads)
    /\ \A p \in Lists, q \in Places(heads) : Before(p, q) => q \in Lists
    /\ \A p \in Places(heads) \ Lists : Entry(heads, p) \in deduper

Delivers ==
  /\ \A n \in 1 .. Len(batches) :
       Delivered(batches[n]) \/ (n = Len(batches) /\ batches[n] = heads /\ heads # << >>)
  /\ pauses = 1 /\ Len(batches) = 1 /\ heads # << >> =>
       headOffset >= Len(heads) /\ ~loadPosting /\ unread = {}
  /\ ~isFirst /\ batches = << >> => headsLeft = {}
  /\ heads # << >> => heads \in Range(batches)

IInv ==
  /\ TypeOK
  /\ PhasesFit
  /\ HeadsComeOnce
  /\ Dedupes
  /\ ReadsForward
  /\ Delivers

=============================================================================
