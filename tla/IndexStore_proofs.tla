-------------------------- MODULE IndexStore_proofs --------------------------
(***************************************************************************)
(* IInv of IndexStore is inductive, for any number of processes, TIDs,     *)
(* vectors and builds and whatever m_indtuples holds, and what a process   *)
(* may rely on in its copy of an index.                                    *)
(***************************************************************************)
EXTENDS IndexStore, FiniteSetTheorems, TLAPS

USE StoreAssumption

LEMMA MethodFacts ==
  /\ "none" \notin Methods
  /\ ~ReadOnly("none") /\ ~ReadOnly("hnsw")
  /\ \A m \in Methods : KindOf(m) \in {"regular", "directory"}
  /\ \A m \in Methods : KindOf(m) = "regular" <=> m # "sptag"
BY DEF ReadOnly, KindOf

-----------------------------------------------------------------------------
(* What reading and changing an index does to its entries.                 *)

LEMMA EntriesFinite ==
  ASSUME NEW index \in Index
  PROVE  /\ IsFiniteSet(Entries(index))
         /\ Cardinality(Entries(index)) \in Nat
BY FS_Subset, FS_CardinalityType DEF Entries

LEMMA EmptyFacts ==
  Empty \in Index /\ Entries(Empty) = {} /\ Bounded(Empty) /\ OfHeap(Empty)
<1>1. Empty \in Index /\ Entries(Empty) = {}
  BY DEF Empty, Index, Entries
<1>2. Empty.capacity = 0 /\ Cardinality(Entries(Empty)) = 0
  BY <1>1, FS_EmptySet DEF Empty
<1>. QED  BY <1>1, <1>2 DEF Bounded, OfHeap

LEMMA ReadFacts ==
  ASSUME NEW index \in Index
  PROVE  /\ Read(index) \in Index
         /\ Entries(Read(index)) = Entries(index)
         /\ Bounded(index) => Bounded(Read(index))
         /\ OfHeap(index) => OfHeap(Read(index))
BY EmptyFacts DEF Read

LEMMA InsertFacts ==
  ASSUME NEW index \in Index, NEW t \in Tid, NEW v \in Vec
  PROVE  LET new == [index EXCEPT !.entries[t] = v]
         IN  /\ new \in Index
             /\ Entries(new) = Entries(index) \cup {t}
             /\ \A s \in Tid : new.entries[s] = IF s = t THEN v ELSE index.entries[s]
             /\ Bounded(index) /\ HasRoom(index, t) => Bounded(new)
<1>. DEFINE new == [index EXCEPT !.entries[t] = v]
<1>1. /\ new \in Index
      /\ new.capacity = index.capacity
      /\ \A s \in Tid : new.entries[s] = IF s = t THEN v ELSE index.entries[s]
  BY DEF Index
<1>2. Entries(new) = Entries(index) \cup {t}
  BY <1>1 DEF Entries
<1>3. ASSUME Bounded(index), HasRoom(index, t)
      PROVE  Bounded(new)
  <2>1. index.capacity \in Nat
    BY DEF Index
  <2>2. CASE t \in Entries(index)
    BY <1>1, <1>2, <1>3, <2>2 DEF Bounded
  <2>3. CASE t \notin Entries(index)
    <3>1. Cardinality(Entries(new)) = Cardinality(Entries(index)) + 1
      BY <1>2, <2>3, EntriesFinite, FS_AddElement
    <3>. QED  BY <1>1, <1>3, <2>1, <2>3, <3>1, EntriesFinite DEF Bounded, HasRoom
  <2>. QED  BY <2>2, <2>3
<1>. QED  BY <1>1, <1>2, <1>3

-----------------------------------------------------------------------------
(* What a process loads when it uses an index, and what it leaves.         *)

LEMMA LoadedFacts ==
  ASSUME IInv, method \in Methods, NEW b \in Backend, Loads(b)
  PROVE  /\ Loaded(b) \in Index
         /\ method # "sptag" => Bounded(Loaded(b))
         /\ method \notin stale[b] =>
              /\ ~blind => OfHeap(Loaded(b))
              /\ ~undone => built \subseteq Entries(Loaded(b))
              /\ mine[b] \subseteq Entries(Loaded(b))
<1>1. CASE method \in loaded[b]
  <2>. cache \in [Backend -> [Methods -> Index]]
    BY DEF IInv, TypeOK
  <2>1. Loaded(b) = cache[b][method] /\ Loaded(b) \in Index
    BY <1>1 DEF Loaded
  <2>2. method \notin stale[b] => b \in Fresh
    BY <1>1 DEF Fresh
  <2>. QED  BY <1>1, <2>1, <2>2
            DEF IInv, FitsCapacity, NotReused, BuiltIsThere, MineIsThere
<1>2. CASE method \notin loaded[b]
  <2>1. Loaded(b) = Read(file.index) /\ file.index \in Index
    BY <1>2 DEF Loaded, IInv, TypeOK, File
  <2>2. file.kind = KindOf(method) /\ Usable
    BY <1>2, MethodFacts DEF Loads, Usable
  <2>3. mine[b] = {}
    BY <1>2 DEF IInv, MineIsThere
  <2>4. method # "sptag" => Bounded(file.index)
    BY <2>2, MethodFacts DEF IInv, FilesFit
  <2>5. /\ ~blind => OfHeap(file.index)
        /\ ~undone => built \subseteq Entries(file.index)
    BY <2>2 DEF IInv, NotReused, BuiltIsThere
  <2>. QED  BY <2>1, <2>3, <2>4, <2>5, ReadFacts
<1>. QED  BY <1>1, <1>2

LEMMA UseFacts ==
  ASSUME IInv, method \in Methods, method' = method,
         NEW b \in Backend, NEW index \in Index, NEW own \in SUBSET Tid,
         Use(b, index, own)
  PROVE  /\ loaded' \in [Backend -> SUBSET Methods]
         /\ cache' \in [Backend -> [Methods -> Index]]
         /\ stale' = stale
         /\ mine' \in [Backend -> SUBSET Tid]
         /\ method \in loaded'[b] /\ cache'[b][method] = index /\ mine'[b] = own
         /\ b \in Fresh' <=> method \notin stale[b]
         /\ \A c \in Backend \ {b} :
              /\ loaded'[c] = loaded[c] /\ cache'[c] = cache[c]
              /\ mine'[c] = mine[c]
              /\ c \in Fresh' <=> c \in Fresh
         /\ (method # "sptag" => Bounded(index)) => FitsCapacity'
<1>. /\ loaded \in [Backend -> SUBSET Methods]
     /\ cache \in [Backend -> [Methods -> Index]]
     /\ stale \in [Backend -> SUBSET Methods]
     /\ mine \in [Backend -> SUBSET Tid]
  BY DEF IInv, TypeOK
<1>1. /\ loaded' = [loaded EXCEPT ![b] = @ \cup {method}]
      /\ cache' = [cache EXCEPT ![b][method] = index]
      /\ mine' = [mine EXCEPT ![b] = own]
      /\ stale' = stale
  BY DEF Use
<1>2. /\ loaded' \in [Backend -> SUBSET Methods]
      /\ loaded'[b] = loaded[b] \cup {method}
      /\ \A c \in Backend \ {b} : loaded'[c] = loaded[c]
  BY <1>1
<1>3. /\ cache' \in [Backend -> [Methods -> Index]]
      /\ cache'[b][method] = index
      /\ \A m \in Methods \ {method} : cache'[b][m] = cache[b][m]
      /\ \A c \in Backend \ {b} : cache'[c] = cache[c]
  BY <1>1
<1>4. /\ mine' \in [Backend -> SUBSET Tid]
      /\ mine'[b] = own
      /\ \A c \in Backend \ {b} : mine'[c] = mine[c]
  BY <1>1
<1>5. /\ b \in Fresh' <=> method \notin stale[b]
      /\ \A c \in Backend \ {b} : c \in Fresh' <=> c \in Fresh
  BY <1>1, <1>2 DEF Fresh
<1>6. ASSUME method # "sptag" => Bounded(index)
      PROVE  FitsCapacity'
  <2>. SUFFICES ASSUME NEW c \in Backend, NEW m \in loaded'[c] \ {"sptag"}
                PROVE  Bounded(cache'[c][m])
    BY DEF FitsCapacity, Bounded, Entries
  <2>1. CASE c = b /\ m = method
    BY <1>3, <1>6, <2>1
  <2>2. CASE c = b /\ m # method
    BY <1>2, <1>3, <2>2 DEF IInv, FitsCapacity
  <2>3. CASE c # b
    BY <1>2, <1>3, <2>3 DEF IInv, FitsCapacity
  <2>. QED  BY <2>1, <2>2, <2>3
<1>. QED  BY <1>1, <1>2, <1>3, <1>4, <1>5, <1>6

\* What OfHeap says after the step, of an index the step does not change.
StillOfHeap(index) ==
  \A t \in Entries(index) : slot'[t] # "free" /\ index.entries[t] = vec'[t]

(***************************************************************************)
(* A step in which one process uses the index, while rows come or TIDs are *)
(* freed, keeps IInv if the heap keeps the rows that indexes know and the  *)
(* index used promises what a copy must.                                   *)
(***************************************************************************)
LEMMA UseKeeps ==
  ASSUME IInv, method \in Methods, UNCHANGED catalog,
         NEW b \in Backend, NEW index \in Index, NEW own \in SUBSET Tid,
         Use(b, index, own),
         slot' \in [Tid -> {"free", "live", "dead"}],
         vec' \in [Tid -> Vec \cup {NULL}],
         blind' \in BOOLEAN, crashed' \in BOOLEAN,
         blind => blind',
         Live \subseteq Live', built \subseteq WithVector',
         ReadOnly(method) => ~blind' /\ built = WithVector',
         \A i \in Index : ~blind' /\ OfHeap(i) => StillOfHeap(i),
         own \subseteq Live',
         method # "sptag" => Bounded(index),
         method \notin stale[b] =>
           /\ own \subseteq Entries(index)
           /\ ~blind' => StillOfHeap(index)
           /\ ~undone => built \subseteq Entries(index)
  PROVE  IInv'
<1>. /\ method' = method /\ dim' = dim /\ file' = file /\ builds' = builds
     /\ built' = built /\ undone' = undone
  BY DEF catalog
<1>1. /\ loaded' \in [Backend -> SUBSET Methods]
      /\ cache' \in [Backend -> [Methods -> Index]]
      /\ stale' = stale
      /\ mine' \in [Backend -> SUBSET Tid]
      /\ method \in loaded'[b] /\ cache'[b][method] = index /\ mine'[b] = own
      /\ b \in Fresh' <=> method \notin stale[b]
      /\ \A c \in Backend \ {b} :
           /\ loaded'[c] = loaded[c] /\ cache'[c] = cache[c]
           /\ mine'[c] = mine[c]
           /\ c \in Fresh' <=> c \in Fresh
      /\ FitsCapacity'
  BY UseFacts
<1>. Fresh \subseteq Backend /\ Fresh' \subseteq Backend
  BY DEF Fresh
<1>2. TypeOK'
  BY <1>1 DEF IInv, TypeOK
<1>3. FilesFit'
  BY DEF IInv, FilesFit, Bounded, Entries
<1>4. NotReused'
  <2>. SUFFICES ASSUME ~blind'
                PROVE  /\ Usable => StillOfHeap(file.index)
                       /\ \A c \in Fresh' : StillOfHeap(cache'[c][method])
    BY DEF NotReused, Usable, OfHeap, StillOfHeap, Entries
  <2>0. ~blind
    OBVIOUS
  <2>1. ASSUME Usable
        PROVE  StillOfHeap(file.index)
    <3>1. file.index \in Index
      BY DEF IInv, TypeOK, File
    <3>. QED  BY <2>0, <2>1, <3>1 DEF IInv, NotReused
  <2>2. ASSUME NEW c \in Fresh', c # b
        PROVE  StillOfHeap(cache'[c][method])
    <3>1. c \in Fresh /\ cache'[c] = cache[c]
      BY <1>1, <2>2
    <3>2. cache \in [Backend -> [Methods -> Index]]
      BY DEF IInv, TypeOK
    <3>3. cache[c][method] \in Index
      BY <3>1, <3>2
    <3>. QED  BY <2>0, <3>1, <3>3 DEF IInv, NotReused
  <2>. QED  BY <1>1, <2>1, <2>2
<1>5. BuiltIsThere'
  <2>. SUFFICES ASSUME ~undone
                PROVE  /\ Usable => built \subseteq Entries(file.index)
                       /\ \A c \in Fresh' : built \subseteq Entries(cache'[c][method])
    BY DEF BuiltIsThere, Usable, Entries
  <2>. QED  BY <1>1 DEF IInv, BuiltIsThere
<1>6. MineIsThere'
  <2>. SUFFICES ASSUME NEW c \in Backend
                PROVE  /\ mine'[c] \subseteq Live'
                       /\ mine'[c] # {} => method \in loaded'[c]
                       /\ c \in Fresh' => mine'[c] \subseteq Entries(cache'[c][method])
    BY DEF MineIsThere, Entries
  <2>. QED  BY <1>1 DEF IInv, MineIsThere
<1>7. BuiltIsLive' /\ NothingAdded'
  BY DEF IInv, BuiltIsLive, NothingAdded, ReadOnly
<1>. QED  BY <1>1, <1>2, <1>3, <1>4, <1>5, <1>6, <1>7 DEF IInv

-----------------------------------------------------------------------------
(* Processes that end.                                                     *)

LEMMA NothingCachedFacts == NothingCached \in [Methods -> Index]
BY EmptyFacts DEF NothingCached

LEMMA GoneKeeps ==
  ASSUME IInv, NEW b \in Backend, Gone(b), UNCHANGED <<heap, catalog, blind, crashed>>
  PROVE  IInv'
<1>. /\ slot' = slot /\ vec' = vec /\ blind' = blind /\ crashed' = crashed
     /\ method' = method /\ dim' = dim /\ file' = file /\ builds' = builds
     /\ built' = built /\ undone' = undone
  BY DEF heap, catalog
<1>. TypeOK
  BY DEF IInv
<1>1. /\ loaded' \in [Backend -> SUBSET Methods] /\ loaded'[b] = {}
      /\ cache' \in [Backend -> [Methods -> Index]]
      /\ stale' \in [Backend -> SUBSET Methods]
      /\ mine' \in [Backend -> SUBSET Tid] /\ mine'[b] = {}
  BY NothingCachedFacts DEF Gone, TypeOK
<1>2. \A c \in Backend \ {b} : /\ loaded'[c] = loaded[c] /\ cache'[c] = cache[c]
                               /\ stale'[c] = stale[c] /\ mine'[c] = mine[c]
  BY DEF Gone, TypeOK
<1>3. b \notin Fresh' /\ \A c \in Backend \ {b} : c \in Fresh' <=> c \in Fresh
  BY <1>1, <1>2 DEF Fresh
<1>. Fresh \subseteq Backend /\ Fresh' \subseteq Backend
  BY DEF Fresh
<1>4. TypeOK'
  BY <1>1 DEF TypeOK
<1>5. FitsCapacity'
  <2>. SUFFICES ASSUME NEW c \in Backend, NEW m \in loaded'[c] \ {"sptag"}
                PROVE  Bounded(cache'[c][m])
    BY DEF FitsCapacity, Bounded, Entries
  <2>. QED  BY <1>1, <1>2 DEF IInv, FitsCapacity
<1>6. FilesFit'
  BY DEF IInv, FilesFit, Bounded, Entries
<1>7. NotReused'
  <2>. SUFFICES ASSUME ~blind
                PROVE  /\ Usable => OfHeap(file.index)
                       /\ \A c \in Fresh' : OfHeap(cache'[c][method])
    BY DEF NotReused, Usable, OfHeap, Entries
  <2>. QED  BY <1>2, <1>3 DEF IInv, NotReused
<1>8. BuiltIsThere'
  <2>. SUFFICES ASSUME ~undone
                PROVE  /\ Usable => built \subseteq Entries(file.index)
                       /\ \A c \in Fresh' : built \subseteq Entries(cache'[c][method])
    BY DEF BuiltIsThere, Usable, Entries
  <2>. QED  BY <1>2, <1>3 DEF IInv, BuiltIsThere
<1>9. MineIsThere'
  <2>. SUFFICES ASSUME NEW c \in Backend
                PROVE  /\ mine'[c] \subseteq Live
                       /\ mine'[c] # {} => method \in loaded'[c]
                       /\ c \in Fresh' => mine'[c] \subseteq Entries(cache'[c][method])
    BY DEF MineIsThere, Entries, Live
  <2>. QED  BY <1>1, <1>2, <1>3 DEF IInv, MineIsThere
<1>10. BuiltIsLive' /\ NothingAdded'
  BY DEF IInv, BuiltIsLive, NothingAdded, ReadOnly, WithVector, Live
<1>. QED  BY <1>4, <1>5, <1>6, <1>7, <1>8, <1>9, <1>10 DEF IInv

(***************************************************************************)
(* A crash leaves nothing but the heap and the file.                       *)
(***************************************************************************)
LEMMA CrashKeeps ==
  ASSUME IInv, Crash, UNCHANGED <<catalog, blind>>,
         slot' \in [Tid -> {"free", "live", "dead"}],
         vec' \in [Tid -> Vec \cup {NULL}],
         WithVector' = WithVector,
         \A i \in Index : OfHeap(i) => StillOfHeap(i)
  PROVE  IInv'
<1>. /\ method' = method /\ dim' = dim /\ file' = file /\ builds' = builds
     /\ built' = built /\ undone' = undone /\ blind' = blind
  BY DEF catalog
<1>. TypeOK
  BY DEF IInv
<1>1. /\ loaded' = [b \in Backend |-> {}]
      /\ cache' \in [Backend -> [Methods -> Index]]
      /\ stale' = [b \in Backend |-> {}]
      /\ mine' = [b \in Backend |-> {}]
      /\ crashed' = TRUE
  BY NothingCachedFacts DEF Crash
<1>2. Fresh' = {}
  BY <1>1 DEF Fresh
<1>3. TypeOK'
  BY <1>1 DEF TypeOK
<1>4. FitsCapacity' /\ MineIsThere'
  BY <1>1, <1>2 DEF FitsCapacity, MineIsThere
<1>5. FilesFit'
  BY DEF IInv, FilesFit, Bounded, Entries
<1>6. NotReused'
  <2>. SUFFICES ASSUME ~blind, Usable
                PROVE  StillOfHeap(file.index)
    BY <1>2 DEF NotReused, Usable, OfHeap, StillOfHeap, Entries
  <2>1. file.index \in Index
    BY DEF TypeOK, File
  <2>. QED  BY <2>1 DEF IInv, NotReused
<1>7. BuiltIsThere'
  <2>. SUFFICES ASSUME ~undone, Usable
                PROVE  built \subseteq Entries(file.index)
    BY <1>2 DEF BuiltIsThere, Usable, Entries
  <2>. QED  BY DEF IInv, BuiltIsThere
<1>8. BuiltIsLive' /\ NothingAdded'
  BY DEF IInv, BuiltIsLive, NothingAdded, ReadOnly
<1>. QED  BY <1>3, <1>4, <1>5, <1>6, <1>7, <1>8 DEF IInv

-----------------------------------------------------------------------------
(* Rows come and go.                                                       *)

LEMMA HeapChangeKeeps ==
  ASSUME IInv, UNCHANGED <<catalog, store, blind, crashed>>,
         slot' \in [Tid -> {"free", "live", "dead"}],
         vec' \in [Tid -> Vec \cup {NULL}],
         Live \subseteq Live', built \subseteq WithVector',
         ReadOnly(method) => built = WithVector',
         method # "none" => \A i \in Index : OfHeap(i) => StillOfHeap(i)
  PROVE  IInv'
<1>. /\ method' = method /\ dim' = dim /\ file' = file /\ builds' = builds
     /\ built' = built /\ undone' = undone /\ blind' = blind /\ crashed' = crashed
     /\ loaded' = loaded /\ cache' = cache /\ stale' = stale /\ mine' = mine
  BY DEF catalog, store
<1>. TypeOK
  BY DEF IInv
<1>1. Fresh' = Fresh /\ Usable' = Usable
  BY DEF Fresh, Usable, KindOf
<1>2. TypeOK'
  BY DEF TypeOK
<1>3. FitsCapacity' /\ FilesFit' /\ BuiltIsThere'
  BY <1>1 DEF IInv, FitsCapacity, FilesFit, BuiltIsThere, Bounded, Entries
<1>4. NotReused'
  <2>. SUFFICES ASSUME ~blind
                PROVE  /\ Usable => StillOfHeap(file.index)
                       /\ \A c \in Fresh : StillOfHeap(cache[c][method])
    BY <1>1 DEF NotReused, OfHeap, StillOfHeap, Entries
  <2>1. ASSUME Usable
        PROVE  StillOfHeap(file.index)
    <3>1. file.index \in Index /\ method # "none"
      BY <2>1 DEF TypeOK, File, Usable
    <3>. QED  BY <2>1, <3>1 DEF IInv, NotReused
  <2>2. ASSUME NEW c \in Fresh
        PROVE  StillOfHeap(cache[c][method])
    <3>1. c \in Backend /\ method \in loaded[c]
      BY DEF Fresh
    <3>2. loaded[c] \subseteq Methods /\ cache[c] \in [Methods -> Index]
      BY <3>1 DEF TypeOK
    <3>3. cache[c][method] \in Index /\ method # "none"
      BY <3>1, <3>2, MethodFacts
    <3>. QED  BY <3>3 DEF IInv, NotReused
  <2>. QED  BY <2>1, <2>2
<1>5. MineIsThere'
  BY <1>1 DEF IInv, MineIsThere, Entries
<1>6. BuiltIsLive' /\ NothingAdded'
  BY DEF IInv, BuiltIsLive, NothingAdded, ReadOnly
<1>. QED  BY <1>2, <1>3, <1>4, <1>5, <1>6 DEF IInv

\* A row at a free TID changes nothing that an index knows.
LEMMA RowFacts ==
  ASSUME TypeOK, NEW t \in Tid, slot[t] = "free", NEW v \in Vec \cup {NULL},
         NEW how \in {"live", "dead"},
         RowEnds(t, how), vec' = [vec EXCEPT ![t] = v]
  PROVE  /\ slot' \in [Tid -> {"free", "live", "dead"}]
         /\ vec' \in [Tid -> Vec \cup {NULL}]
         /\ slot'[t] = how /\ vec'[t] = v
         /\ \A s \in Tid \ {t} : slot'[s] = slot[s] /\ vec'[s] = vec[s]
         /\ Live \subseteq Live' /\ WithVector \subseteq WithVector'
         /\ how = "live" => t \in Live'
         /\ how = "dead" => WithVector' = WithVector
         /\ \A i \in Index : OfHeap(i) => StillOfHeap(i) /\ t \notin Entries(i)
<1>1. /\ slot' \in [Tid -> {"free", "live", "dead"}]
      /\ vec' \in [Tid -> Vec \cup {NULL}]
      /\ slot'[t] = how /\ vec'[t] = v
      /\ \A s \in Tid \ {t} : slot'[s] = slot[s] /\ vec'[s] = vec[s]
  BY DEF TypeOK, RowEnds
<1>2. /\ Live \subseteq Live' /\ WithVector \subseteq WithVector'
      /\ how = "live" => t \in Live'
      /\ how = "dead" => WithVector' = WithVector
  BY <1>1 DEF Live, WithVector
<1>3. ASSUME NEW i \in Index, OfHeap(i)
      PROVE  StillOfHeap(i) /\ t \notin Entries(i)
  <2>1. t \notin Entries(i)
    BY <1>3 DEF OfHeap
  <2>2. Entries(i) \subseteq Tid
    BY DEF Entries
  <2>. QED  BY <1>1, <1>3, <2>1, <2>2 DEF OfHeap, StillOfHeap
<1>. QED  BY <1>1, <1>2, <1>3

\* InsertIndexed with a copy that is used but does not get the row.
LEMMA InsertNothing ==
  ASSUME IInv, method = "hnsw", "hnsw" \in Methods, NEW b \in Backend, NEW t \in Tid,
         slot[t] = "free", NEW v \in Vec \cup {NULL}, NEW how \in {"live", "dead"},
         Loads(b), RowEnds(t, how), vec' = [vec EXCEPT ![t] = v],
         Use(b, Loaded(b), mine[b]), UNCHANGED <<catalog, blind, crashed>>
  PROVE  IInv'
<1>. TypeOK
  BY DEF IInv
<1>1. mine[b] \in SUBSET Tid /\ mine[b] \subseteq Live /\ built \subseteq WithVector
  BY DEF IInv, TypeOK, MineIsThere, BuiltIsLive
<1>2. ~ReadOnly(method)
  BY MethodFacts
<1>3. /\ Loaded(b) \in Index
      /\ method # "sptag" => Bounded(Loaded(b))
      /\ method \notin stale[b] =>
           /\ ~blind => OfHeap(Loaded(b))
           /\ ~undone => built \subseteq Entries(Loaded(b))
           /\ mine[b] \subseteq Entries(Loaded(b))
  BY LoadedFacts
<1>4. /\ slot' \in [Tid -> {"free", "live", "dead"}]
      /\ vec' \in [Tid -> Vec \cup {NULL}]
      /\ Live \subseteq Live' /\ WithVector \subseteq WithVector'
      /\ \A i \in Index : OfHeap(i) => StillOfHeap(i)
  BY RowFacts
<1>5. blind' = blind /\ blind \in BOOLEAN /\ crashed' \in BOOLEAN
  BY DEF TypeOK
<1>. QED  BY <1>1, <1>2, <1>3, <1>4, <1>5, UseKeeps

\* InsertIndexed with room in the copy.
LEMMA InsertEntry ==
  ASSUME IInv, method = "hnsw", "hnsw" \in Methods, NEW b \in Backend, NEW t \in Tid,
         slot[t] = "free", NEW v \in Vec, Loads(b), HasRoom(Loaded(b), t),
         RowEnds(t, "live"), vec' = [vec EXCEPT ![t] = v],
         Insert(b, t, v), UNCHANGED <<catalog, blind, crashed>>
  PROVE  IInv'
<1>. TypeOK
  BY DEF IInv
<1>. DEFINE old == Loaded(b)
            new == [old EXCEPT !.entries[t] = v]
            own == mine[b] \cup {t}
<1>1. mine[b] \in SUBSET Tid /\ mine[b] \subseteq Live /\ built \subseteq WithVector
  BY DEF IInv, TypeOK, MineIsThere, BuiltIsLive
<1>2. ~ReadOnly(method)
  BY MethodFacts
<1>3. /\ old \in Index
      /\ Bounded(old)
      /\ method \notin stale[b] =>
           /\ ~blind => OfHeap(old)
           /\ ~undone => built \subseteq Entries(old)
           /\ mine[b] \subseteq Entries(old)
  BY LoadedFacts
<1>4. /\ slot' \in [Tid -> {"free", "live", "dead"}]
      /\ vec' \in [Tid -> Vec \cup {NULL}]
      /\ slot'[t] = "live" /\ vec'[t] = v /\ t \in Live'
      /\ Live \subseteq Live' /\ WithVector \subseteq WithVector'
      /\ \A i \in Index : OfHeap(i) => StillOfHeap(i)
  BY RowFacts
<1>5. blind' = blind /\ blind \in BOOLEAN /\ crashed' \in BOOLEAN
  BY DEF TypeOK
<1>6. /\ new \in Index
      /\ Entries(new) = Entries(old) \cup {t}
      /\ \A s \in Tid : new.entries[s] = IF s = t THEN v ELSE old.entries[s]
      /\ Bounded(new)
  <2>1. old \in Index /\ t \in Tid /\ v \in Vec /\ Bounded(old) /\ HasRoom(old, t)
    BY <1>3
  <2>. HIDE DEF old
  <2>. QED  BY ONLY <2>1, InsertFacts
<1>7. own \in SUBSET Tid /\ own \subseteq Live'
  BY <1>1, <1>4
<1>8. StillOfHeap(old) => StillOfHeap(new)
  <2>1. Entries(new) \subseteq Tid
    BY DEF Entries
  <2>. QED  BY <1>4, <1>6, <2>1 DEF StillOfHeap
<1>9. Use(b, new, own)
  BY DEF Insert
<1>10. method \notin stale[b] =>
         /\ own \subseteq Entries(new)
         /\ ~blind' => StillOfHeap(new)
         /\ ~undone => built \subseteq Entries(new)
  BY <1>3, <1>4, <1>5, <1>6, <1>8
<1>. HIDE DEF new, own, old
<1>. QED  BY <1>1, <1>2, <1>4, <1>5, <1>6, <1>7, <1>9, <1>10, UseKeeps

LEMMA InsertRowKeeps ==
  ASSUME IInv, NEW b \in Backend, NEW t \in Tid, NEW v \in Vec \cup {NULL},
         InsertRow(b, t, v)
  PROVE  IInv'
<1>. TypeOK
  BY DEF IInv
<1>1. /\ slot[t] = "free" /\ vec' = [vec EXCEPT ![t] = v]
      /\ UNCHANGED <<catalog, blind>>
  BY DEF InsertRow
<1>2. built \subseteq WithVector
  BY DEF IInv, BuiltIsLive
<1>3. CASE method = "none" /\ RowEnds(t, "live") /\ UNCHANGED <<store, crashed>>
  <2>1. /\ slot' \in [Tid -> {"free", "live", "dead"}]
        /\ vec' \in [Tid -> Vec \cup {NULL}]
        /\ Live \subseteq Live' /\ WithVector \subseteq WithVector'
    BY <1>1, <1>3, RowFacts
  <2>. QED  BY <1>1, <1>2, <1>3, <2>1, HeapChangeKeeps, MethodFacts
<1>4. CASE method # "none" /\ ReadOnly(method) /\ NoAmInsert(t)
  <2>1. /\ slot' \in [Tid -> {"free", "live", "dead"}]
        /\ vec' \in [Tid -> Vec \cup {NULL}]
        /\ Live \subseteq Live' /\ WithVector' = WithVector
        /\ \A i \in Index : OfHeap(i) => StillOfHeap(i)
    BY <1>1, <1>4, RowFacts DEF NoAmInsert
  <2>2. built = WithVector
    BY <1>4 DEF IInv, NothingAdded
  <2>. QED  BY <1>1, <1>4, <2>1, <2>2, HeapChangeKeeps DEF NoAmInsert
<1>5. CASE method = "hnsw" /\ InsertIndexed(b, t, v)
  <2>1. "hnsw" \in Methods
    BY <1>5 DEF TypeOK
  <2>2. CASE /\ Loads(b) /\ v = NULL
             /\ RowEnds(t, "live") /\ Use(b, Loaded(b), mine[b]) /\ UNCHANGED crashed
    BY <1>1, <1>5, <2>1, <2>2, InsertNothing
  <2>3. CASE /\ Loads(b) /\ RowEnds(t, "dead")
             /\ Use(b, Loaded(b), mine[b]) /\ UNCHANGED crashed
    BY <1>1, <1>5, <2>1, <2>3, InsertNothing
  <2>4. CASE /\ Loads(b) /\ v # NULL /\ HasRoom(Loaded(b), t)
             /\ RowEnds(t, "live") /\ Insert(b, t, v) /\ UNCHANGED crashed
    BY <1>1, <1>5, <2>1, <2>4, InsertEntry
  <2>5. CASE RowEnds(t, "dead") /\ Crash
    <3>1. /\ slot' \in [Tid -> {"free", "live", "dead"}]
          /\ vec' \in [Tid -> Vec \cup {NULL}]
          /\ WithVector' = WithVector
          /\ \A i \in Index : OfHeap(i) => StillOfHeap(i)
      BY <1>1, <2>5, RowFacts
    <3>. QED  BY <1>1, <2>5, <3>1, CrashKeeps
  <2>. QED  BY <1>5, <2>2, <2>3, <2>4, <2>5 DEF InsertIndexed
<1>. QED  BY <1>3, <1>4, <1>5 DEF InsertRow

LEMMA DeleteRowKeeps ==
  ASSUME IInv, NEW t \in Tid, DeleteRow(t)
  PROVE  IInv'
<1>. /\ method' = method /\ dim' = dim /\ file' = file /\ builds' = builds
     /\ undone' = undone /\ blind' = blind /\ crashed' = crashed
     /\ loaded' = loaded /\ cache' = cache /\ stale' = stale /\ vec' = vec
  BY DEF DeleteRow
<1>. TypeOK
  BY DEF IInv
<1>1. /\ slot[t] = "live"
      /\ slot' \in [Tid -> {"free", "live", "dead"}]
      /\ slot'[t] = "dead" /\ \A s \in Tid \ {t} : slot'[s] = slot[s]
  BY DEF DeleteRow, RowEnds, TypeOK
<1>2. /\ mine' \in [Backend -> SUBSET Tid]
      /\ \A b \in Backend : mine'[b] = mine[b] \ {t}
      /\ built' = built \ {t} /\ built' \in SUBSET Tid
  BY DEF DeleteRow, TypeOK
<1>3. Live' = Live \ {t} /\ WithVector' = WithVector \ {t}
  BY <1>1 DEF Live, WithVector
<1>4. Fresh' = Fresh /\ Usable' = Usable
  BY DEF Fresh, Usable, KindOf
<1>5. TypeOK'
  BY <1>1, <1>2 DEF TypeOK
<1>6. FitsCapacity' /\ FilesFit'
  BY DEF IInv, FitsCapacity, FilesFit, Bounded, Entries
<1>7. \A i : OfHeap(i) => StillOfHeap(i)
  <2>. SUFFICES ASSUME NEW i, OfHeap(i), NEW s \in Entries(i)
                PROVE  slot'[s] # "free" /\ i.entries[s] = vec[s]
    BY DEF StillOfHeap
  <2>1. s \in Tid /\ slot[s] # "free" /\ i.entries[s] = vec[s]
    BY DEF OfHeap, Entries
  <2>. QED  BY <1>1, <2>1
<1>8. NotReused'
  <2>. SUFFICES ASSUME ~blind
                PROVE  /\ Usable => StillOfHeap(file.index)
                       /\ \A c \in Fresh : StillOfHeap(cache[c][method])
    BY <1>4 DEF NotReused, OfHeap, StillOfHeap, Entries
  <2>. QED  BY <1>7 DEF IInv, NotReused
<1>9. BuiltIsThere'
  <2>. SUFFICES ASSUME ~undone
                PROVE  /\ Usable => built' \subseteq Entries(file.index)
                       /\ \A c \in Fresh : built' \subseteq Entries(cache[c][method])
    BY <1>4 DEF BuiltIsThere, Entries
  <2>. QED  BY <1>2 DEF IInv, BuiltIsThere
<1>10. MineIsThere'
  <2>. SUFFICES ASSUME NEW c \in Backend
                PROVE  /\ mine'[c] \subseteq Live'
                       /\ mine'[c] # {} => method \in loaded[c]
                       /\ c \in Fresh => mine'[c] \subseteq Entries(cache[c][method])
    BY <1>4 DEF MineIsThere, Entries
  <2>. QED  BY <1>2, <1>3 DEF IInv, MineIsThere
<1>11. BuiltIsLive' /\ NothingAdded'
  BY <1>2, <1>3 DEF IInv, BuiltIsLive, NothingAdded, ReadOnly
<1>. QED  BY <1>5, <1>6, <1>8, <1>9, <1>10, <1>11 DEF IInv

LEMMA ReclaimFacts ==
  ASSUME TypeOK, Reclaim
  PROVE  /\ slot' \in [Tid -> {"free", "live", "dead"}]
         /\ vec' \in [Tid -> Vec \cup {NULL}]
         /\ Live' = Live /\ WithVector' = WithVector
BY DEF TypeOK, Reclaim, Live, WithVector

LEMMA VacuumKeeps ==
  ASSUME IInv, NEW b \in Backend, Vacuum(b)
  PROVE  IInv'
<1>. TypeOK /\ UNCHANGED catalog
  BY DEF IInv, Vacuum
<1>1. built \subseteq WithVector /\ mine[b] \in SUBSET Tid /\ mine[b] \subseteq Live
  BY DEF IInv, TypeOK, BuiltIsLive, MineIsThere
<1>2. CASE method = "none" /\ Reclaim /\ UNCHANGED <<store, blind, crashed>>
  BY <1>1, <1>2, ReclaimFacts, HeapChangeKeeps, MethodFacts
<1>3. CASE /\ method = "hnsw" /\ Loads(b) /\ Reclaim
           /\ Use(b, Loaded(b), mine[b])
           /\ blind' = TRUE /\ UNCHANGED crashed
  <2>1. method \in Methods
    BY <1>3 DEF TypeOK
  <2>2. /\ Loaded(b) \in Index
        /\ Bounded(Loaded(b))
        /\ method \notin stale[b] =>
             /\ ~undone => built \subseteq Entries(Loaded(b))
             /\ mine[b] \subseteq Entries(Loaded(b))
    BY <1>3, <2>1, LoadedFacts
  <2>3. /\ slot' \in [Tid -> {"free", "live", "dead"}]
        /\ vec' \in [Tid -> Vec \cup {NULL}]
        /\ Live' = Live /\ WithVector' = WithVector
    BY <1>3, ReclaimFacts
  <2>4. blind' \in BOOLEAN /\ crashed' \in BOOLEAN /\ ~ReadOnly(method)
    BY <1>3, MethodFacts DEF TypeOK
  <2>. QED  BY <1>1, <1>3, <2>1, <2>2, <2>3, <2>4, UseKeeps
<1>4. CASE Crash /\ UNCHANGED <<heap, blind>>
  <2>1. slot' = slot /\ vec' = vec
    BY <1>4 DEF heap
  <2>. QED  BY <1>4, <2>1, CrashKeeps
            DEF TypeOK, OfHeap, StillOfHeap, WithVector, Live
<1>. QED  BY <1>2, <1>3, <1>4 DEF Vacuum, BulkDelete

LEMMA BeginScanKeeps ==
  ASSUME IInv, NEW b \in Backend, BeginScan(b)
  PROVE  IInv'
<1>. TypeOK
  BY DEF IInv
<1>1. /\ slot' = slot /\ vec' = vec /\ blind' = blind
      /\ UNCHANGED catalog /\ method \in Methods
  BY DEF BeginScan, heap, TypeOK
<1>2. Live' = Live /\ WithVector' = WithVector
  BY <1>1 DEF Live, WithVector
<1>3. \A i : OfHeap(i) => StillOfHeap(i)
  BY <1>1 DEF OfHeap, StillOfHeap
<1>4. /\ built \subseteq WithVector /\ mine[b] \in SUBSET Tid /\ mine[b] \subseteq Live
      /\ ReadOnly(method) => ~blind /\ built = WithVector
  BY DEF IInv, TypeOK, BuiltIsLive, MineIsThere, NothingAdded
<1>5. CASE Loads(b) /\ Use(b, Loaded(b), mine[b]) /\ UNCHANGED crashed
  <2>1. /\ Loaded(b) \in Index
        /\ method # "sptag" => Bounded(Loaded(b))
        /\ method \notin stale[b] =>
             /\ ~blind => OfHeap(Loaded(b))
             /\ ~undone => built \subseteq Entries(Loaded(b))
             /\ mine[b] \subseteq Entries(Loaded(b))
    BY <1>1, <1>5, LoadedFacts
  <2>2. /\ slot' \in [Tid -> {"free", "live", "dead"}]
        /\ vec' \in [Tid -> Vec \cup {NULL}]
        /\ blind' \in BOOLEAN /\ crashed' \in BOOLEAN
    BY <1>1, <1>5 DEF TypeOK
  <2>. QED  BY <1>1, <1>2, <1>3, <1>4, <1>5, <2>1, <2>2, UseKeeps
<1>6. CASE ~Loads(b) /\ Crash
  BY <1>1, <1>2, <1>3, <1>6, CrashKeeps DEF TypeOK
<1>. QED  BY <1>5, <1>6 DEF BeginScan

-----------------------------------------------------------------------------
(* Builds.                                                                 *)

LEMMA CapacityIsInt ==
  ASSUME NEW m \in Methods, NEW rows \in SUBSET Tid, NEW capacity \in Capacities(m, rows)
  PROVE  capacity \in Int
<1>1. Cardinality(rows) \in Nat
  BY FS_Subset, FS_CardinalityType
<1>2. PICK garbage \in Garbage : capacity = MaxElements(m, garbage, rows)
  BY DEF Capacities
<1>3. \A n \in Int : Truncated(n) \in Int
  BY DEF Truncated
<1>. DEFINE tenfold == garbage + 10 * Cardinality(rows)
<1>4. tenfold \in Int
  BY <1>1
<1>5. capacity = IF m = "hnsw" THEN tenfold ELSE Truncated(tenfold)
  BY <1>2 DEF MaxElements
<1>. HIDE DEF tenfold
<1>. QED  BY <1>3, <1>4, <1>5

LEMMA SaveFacts ==
  ASSUME TypeOK, FilesFit, NEW m \in Methods, NEW rows \in SUBSET Tid,
         \A t \in rows : vec[t] # NULL, Saves(m, rows)
  PROVE  /\ file' \in File /\ builds' \in 0 .. MaxBuilds
         /\ FilesFit'
         /\ file'.kind = KindOf(m) =>
              /\ Entries(file'.index) = rows
              /\ \A t \in rows : file'.index.entries[t] = vec[t]
<1>1. builds' \in 0 .. MaxBuilds
  BY DEF Saves, TypeOK
<1>2. PICK capacity \in Capacities(m, rows) :
        Outcome(m, rows, capacity) = "saved" /\ SaveIndex(m, rows, capacity)
  BY DEF Saves
<1>3. capacity \in Int /\ (m # "sptag" => capacity \in Nat /\ Cardinality(rows) <= capacity)
  BY <1>2, CapacityIsInt DEF Outcome, Indexable, Fits
<1>. DEFINE entries == [t \in Tid |-> IF t \in rows THEN vec[t] ELSE NULL]
            room == IF m = "sptag" THEN 0 ELSE capacity
            index == [entries |-> entries, capacity |-> room]
<1>4. /\ index \in Index
      /\ Entries(index) = rows
      /\ \A t \in rows : index.entries[t] = vec[t]
      /\ m # "sptag" => Bounded(index)
  <2>1. entries \in [Tid -> Vec \cup {NULL}] /\ room \in Nat
    BY <1>3 DEF TypeOK
  <2>2. index \in Index /\ index.entries = entries /\ index.capacity = room
    BY <2>1 DEF Index
  <2>3. Entries(index) = rows /\ \A t \in rows : index.entries[t] = vec[t]
    BY <2>2 DEF Entries
  <2>. QED  BY <1>3, <2>2, <2>3 DEF Bounded
<1>5. CASE file.kind \in {"none", KindOf(m)}
  <2>1. file' = [kind |-> KindOf(m), index |-> index]
    BY <1>2, <1>5 DEF SaveIndex
  <2>. HIDE DEF index
  <2>2. file'.kind = KindOf(m) /\ file'.index = index /\ file' \in File
    BY <1>4, <2>1, MethodFacts DEF File
  <2>3. FilesFit'
    <3>1. file'.kind = "regular" => Bounded(file'.index)
      BY <1>4, <2>2, MethodFacts
    <3>. QED  BY <3>1 DEF FilesFit, Bounded, Entries
  <2>. QED  BY <1>1, <1>4, <2>2, <2>3
<1>6. CASE file.kind \notin {"none", KindOf(m)}
  <2>1. file' = file
    BY <1>2, <1>6 DEF SaveIndex
  <2>. QED  BY <1>1, <1>6, <2>1 DEF TypeOK, FilesFit, Bounded, Entries
<1>. QED  BY <1>5, <1>6

\* A build that is committed.
LEMMA RegisterKeeps ==
  ASSUME IInv, NEW m \in Methods, NEW d \in {0} \cup {Dim[v] : v \in Vec},
         NEW rows \in SUBSET Tid, Register(m, d, rows),
         file' \in File, builds' \in 0 .. MaxBuilds, FilesFit',
         slot' \in [Tid -> {"free", "live", "dead"}],
         vec' \in [Tid -> Vec \cup {NULL}], UNCHANGED crashed,
         rows \cap Live = WithVector',
         file'.kind = KindOf(m) =>
           /\ Entries(file'.index) = rows
           /\ \A t \in rows : slot'[t] # "free" /\ file'.index.entries[t] = vec'[t]
  PROVE  IInv'
<1>. TypeOK
  BY DEF IInv
<1>1. /\ method' = m /\ dim' = d /\ loaded' = loaded /\ cache' = cache
      /\ stale' = loaded /\ mine' = [b \in Backend |-> {}]
      /\ built' = WithVector' /\ blind' = FALSE /\ undone' = FALSE
  BY DEF Register
<1>2. built' = rows \cap Live
  BY DEF Register
<1>3. TypeOK'
  BY <1>1, <1>2 DEF TypeOK
<1>4. Fresh' = {}
  BY <1>1 DEF Fresh
<1>5. FitsCapacity'
  BY <1>1 DEF IInv, FitsCapacity, Bounded, Entries
<1>6. NotReused'
  <2>. SUFFICES ASSUME file'.kind = KindOf(m)
                PROVE  StillOfHeap(file'.index)
    BY <1>1, <1>4 DEF NotReused, Usable, OfHeap, StillOfHeap, Entries, KindOf
  <2>. QED  BY DEF StillOfHeap
<1>7. BuiltIsThere'
  <2>. SUFFICES ASSUME file'.kind = KindOf(m)
                PROVE  built' \subseteq Entries(file'.index)
    BY <1>1, <1>4 DEF BuiltIsThere, Usable, Entries, KindOf
  <2>. QED  BY <1>2
<1>8. MineIsThere'
  BY <1>1, <1>4 DEF MineIsThere
<1>9. BuiltIsLive' /\ NothingAdded'
  BY <1>1 DEF BuiltIsLive, NothingAdded
<1>. QED  BY <1>3, <1>5, <1>6, <1>7, <1>8, <1>9 DEF IInv

\* A build, or a TRUNCATE, that is rolled back.
LEMMA UndoneKeeps ==
  ASSUME IInv, NEW m \in Methods, NEW rows \in SUBSET Tid,
         UNCHANGED <<heap, method, dim, store, built, blind, crashed>>,
         file' \in File, builds' \in 0 .. MaxBuilds, FilesFit',
         undone' \in BOOLEAN, undone => undone',
         method \in {"none", m},
         ~undone' => built \subseteq rows,
         \A t \in rows : slot[t] # "free",
         file'.kind = KindOf(m) =>
           /\ Entries(file'.index) = rows
           /\ \A t \in rows : file'.index.entries[t] = vec[t]
  PROVE  IInv'
<1>. /\ slot' = slot /\ vec' = vec /\ method' = method /\ dim' = dim
     /\ loaded' = loaded /\ cache' = cache /\ stale' = stale /\ mine' = mine
     /\ built' = built /\ blind' = blind /\ crashed' = crashed
  BY DEF heap, store
<1>. TypeOK
  BY DEF IInv
<1>1. Fresh' = Fresh /\ (Usable' => method = m /\ file'.kind = KindOf(m))
  BY DEF Fresh, Usable, KindOf
<1>2. TypeOK'
  BY DEF TypeOK
<1>3. FitsCapacity'
  BY DEF IInv, FitsCapacity, Bounded, Entries
<1>4. NotReused'
  <2>. SUFFICES ASSUME ~blind
                PROVE  /\ Usable' => StillOfHeap(file'.index)
                       /\ \A c \in Fresh : OfHeap(cache[c][method])
    BY <1>1 DEF NotReused, OfHeap, StillOfHeap, Entries
  <2>. QED  BY <1>1 DEF IInv, NotReused, StillOfHeap
<1>5. BuiltIsThere'
  <2>. SUFFICES ASSUME ~undone'
                PROVE  /\ Usable' => built \subseteq Entries(file'.index)
                       /\ \A c \in Fresh : built \subseteq Entries(cache[c][method])
    BY <1>1 DEF BuiltIsThere, Entries
  <2>. QED  BY <1>1 DEF IInv, BuiltIsThere
<1>6. MineIsThere' /\ BuiltIsLive' /\ NothingAdded'
  BY <1>1 DEF IInv, MineIsThere, BuiltIsLive, NothingAdded, ReadOnly, WithVector,
              Live, Entries
<1>. QED  BY <1>2, <1>3, <1>4, <1>5, <1>6 DEF IInv

LEMMA ScannedFacts ==
  ASSUME TypeOK, NEW rows \in Scanned(Live, Dead)
  PROVE  /\ rows \in SUBSET Tid
         /\ \A t \in rows : vec[t] # NULL /\ slot[t] # "free"
         /\ rows \cap Live = WithVector /\ WithVector \subseteq rows
<1>1. PICK some \in SUBSET Dead : rows = {t \in Live \cup some : vec[t] # NULL}
  BY DEF Scanned
<1>. QED  BY <1>1 DEF Live, Dead, WithVector

LEMMA BuildKeeps ==
  ASSUME IInv, NEW b \in Backend, Build(b)
  PROVE  IInv'
<1>. TypeOK /\ FilesFit
  BY DEF IInv
<1>1. PICK m \in IF method = "none" THEN Methods ELSE {method},
           d \in IF method = "none" THEN {Dim[v] : v \in Vec} ELSE {dim},
           rows \in Scanned(Live, Dead) :
        \/ /\ Saves(m, rows) /\ Register(m, d, rows)
           /\ UNCHANGED <<heap, crashed>>
        \/ /\ Saves(m, rows)
           /\ UNCHANGED <<heap, method, dim, store, built, blind, undone, crashed>>
        \/ Gone(b) /\ UNCHANGED <<heap, catalog, blind, crashed>>
  BY DEF Build
<1>2. /\ m \in Methods /\ method \in {"none", m}
      /\ d \in {0} \cup {Dim[v] : v \in Vec}
  BY <1>1 DEF TypeOK
<1>3. /\ rows \in SUBSET Tid
      /\ \A t \in rows : vec[t] # NULL /\ slot[t] # "free"
      /\ rows \cap Live = WithVector /\ WithVector \subseteq rows
  BY ScannedFacts
<1>4. ASSUME Saves(m, rows)
      PROVE  /\ file' \in File /\ builds' \in 0 .. MaxBuilds
             /\ FilesFit'
             /\ file'.kind = KindOf(m) =>
                  /\ Entries(file'.index) = rows
                  /\ \A t \in rows : file'.index.entries[t] = vec[t]
  BY <1>2, <1>3, <1>4, SaveFacts
<1>5. CASE Saves(m, rows) /\ Register(m, d, rows) /\ UNCHANGED <<heap, crashed>>
  <2>1. slot' = slot /\ vec' = vec /\ WithVector' = WithVector
    BY <1>5 DEF heap, WithVector, Live
  <2>2. /\ slot' \in [Tid -> {"free", "live", "dead"}]
        /\ vec' \in [Tid -> Vec \cup {NULL}]
    BY <2>1 DEF TypeOK
  <2>. QED  BY <1>2, <1>3, <1>4, <1>5, <2>1, <2>2, RegisterKeeps
<1>6. CASE /\ Saves(m, rows)
           /\ UNCHANGED <<heap, method, dim, store, built, blind, undone, crashed>>
  <2>1. undone' \in BOOLEAN /\ undone' = undone /\ built \subseteq rows
    BY <1>3, <1>6 DEF IInv, BuiltIsLive, TypeOK
  <2>. QED  BY <1>2, <1>3, <1>4, <1>6, <2>1, UndoneKeeps
<1>7. CASE Gone(b) /\ UNCHANGED <<heap, catalog, blind, crashed>>
  BY <1>7, GoneKeeps
<1>. QED  BY <1>1, <1>5, <1>6, <1>7

LEMMA TruncateKeeps ==
  ASSUME IInv, NEW b \in Backend, Truncate(b)
  PROVE  IInv'
<1>. TypeOK /\ FilesFit
  BY DEF IInv
<1>1. method \in Methods /\ dim \in {0} \cup {Dim[v] : v \in Vec}
  BY DEF Truncate, TypeOK
<1>2. ASSUME Saves(method, {})
      PROVE  /\ file' \in File /\ builds' \in 0 .. MaxBuilds
             /\ FilesFit'
             /\ file'.kind = KindOf(method) => Entries(file'.index) = {}
  BY <1>1, <1>2, SaveFacts
<1>3. CASE /\ Saves(method, {})
           /\ Register(method, dim, {})
           /\ slot' = [t \in Tid |-> "free"]
           /\ vec' = [t \in Tid |-> NULL]
           /\ UNCHANGED crashed
  <2>1. WithVector' = {}
    BY <1>3 DEF WithVector, Live
  <2>2. /\ slot' \in [Tid -> {"free", "live", "dead"}]
        /\ vec' \in [Tid -> Vec \cup {NULL}]
    BY <1>3
  <2>. QED  BY <1>1, <1>2, <1>3, <2>1, <2>2, RegisterKeeps
<1>4. CASE /\ Saves(method, {})
           /\ undone' = TRUE
           /\ UNCHANGED <<heap, method, dim, store, built, blind, crashed>>
  BY <1>1, <1>2, <1>4, UndoneKeeps
<1>5. CASE Gone(b) /\ UNCHANGED <<heap, catalog, blind, crashed>>
  BY <1>5, GoneKeeps
<1>. QED  BY <1>3, <1>4, <1>5 DEF Truncate

LEMMA DropIndexKeeps ==
  ASSUME IInv, DropIndex
  PROVE  IInv'
<1>. TypeOK
  BY DEF IInv
<1>1. /\ slot' = slot /\ vec' = vec /\ file' = file /\ builds' = builds
      /\ loaded' = loaded /\ cache' = cache /\ crashed' = crashed
      /\ method' = "none" /\ dim' = 0 /\ stale' = loaded
      /\ mine' = [b \in Backend |-> {}]
      /\ built' = {} /\ blind' = FALSE /\ undone' = FALSE
  BY DEF DropIndex, heap
<1>2. Fresh' = {} /\ ~Usable'
  BY <1>1 DEF Fresh, Usable
<1>3. TypeOK'
  BY <1>1 DEF TypeOK
<1>4. FitsCapacity' /\ FilesFit'
  BY <1>1 DEF IInv, FitsCapacity, FilesFit, Bounded, Entries
<1>5. NotReused' /\ BuiltIsThere' /\ MineIsThere'
  BY <1>1, <1>2 DEF NotReused, BuiltIsThere, MineIsThere
<1>6. BuiltIsLive' /\ NothingAdded'
  BY <1>1 DEF BuiltIsLive, NothingAdded, ReadOnly
<1>. QED  BY <1>3, <1>4, <1>5, <1>6 DEF IInv

-----------------------------------------------------------------------------
LEMMA InitInv == Init => IInv
<1>. SUFFICES ASSUME Init
              PROVE  IInv
  OBVIOUS
<1>1. TypeOK
  <2>1. file \in File
    BY EmptyFacts DEF Init, File
  <2>2. cache = [b \in Backend |-> NothingCached]
    BY DEF Init, NothingCached
  <2>3. cache \in [Backend -> [Methods -> Index]]
    BY <2>2, NothingCachedFacts
  <2>4. /\ slot \in [Tid -> {"free", "live", "dead"}]
        /\ vec \in [Tid -> Vec \cup {NULL}]
        /\ loaded \in [Backend -> SUBSET Methods]
        /\ stale \in [Backend -> SUBSET Methods]
        /\ mine \in [Backend -> SUBSET Tid]
    BY DEF Init
  <2>5. /\ method \in Methods \cup {"none"}
        /\ dim \in {0} \cup {Dim[v] : v \in Vec}
        /\ builds \in 0 .. MaxBuilds /\ built \in SUBSET Tid
    BY DEF Init
  <2>6. blind \in BOOLEAN /\ undone \in BOOLEAN /\ crashed \in BOOLEAN
    BY DEF Init
  <2>. QED  BY <2>1, <2>3, <2>4, <2>5, <2>6 DEF TypeOK
<1>2. Fresh = {} /\ ~Usable
  BY DEF Init, Fresh, Usable
<1>3. FitsCapacity /\ FilesFit
  BY DEF Init, FitsCapacity, FilesFit
<1>4. NotReused /\ BuiltIsThere /\ MineIsThere
  BY <1>2 DEF Init, NotReused, BuiltIsThere, MineIsThere
<1>5. BuiltIsLive /\ NothingAdded
  BY DEF Init, BuiltIsLive, NothingAdded, ReadOnly
<1>. QED  BY <1>1, <1>3, <1>4, <1>5 DEF IInv

LEMMA NextKeeps == IInv /\ [Next]_vars => IInv'
<1>. SUFFICES ASSUME IInv, [Next]_vars
              PROVE  IInv'
  OBVIOUS
<1>1. ASSUME NEW b \in Backend, Build(b)
      PROVE  IInv'
  BY <1>1, BuildKeeps
<1>2. ASSUME NEW b \in Backend, Truncate(b)
      PROVE  IInv'
  BY <1>2, TruncateKeeps
<1>3. ASSUME NEW b \in Backend, BeginScan(b)
      PROVE  IInv'
  BY <1>3, BeginScanKeeps
<1>4. ASSUME NEW b \in Backend, Vacuum(b)
      PROVE  IInv'
  BY <1>4, VacuumKeeps
<1>5. ASSUME NEW b \in Backend, Exit(b)
      PROVE  IInv'
  BY <1>5, GoneKeeps DEF Exit
<1>6. ASSUME NEW b \in Backend, NEW t \in Tid, NEW v \in Vec \cup {NULL},
             InsertRow(b, t, v)
      PROVE  IInv'
  BY <1>6, InsertRowKeeps
<1>7. ASSUME NEW t \in Tid, DeleteRow(t)
      PROVE  IInv'
  BY <1>7, DeleteRowKeeps
<1>8. CASE DropIndex
  BY <1>8, DropIndexKeeps
<1>9. CASE UNCHANGED vars
  <2>1. /\ UNCHANGED <<catalog, store, blind, crashed>>
        /\ slot' = slot /\ vec' = vec
    BY <1>9 DEF vars, heap
  <2>2. Live' = Live /\ WithVector' = WithVector
    BY <2>1 DEF Live, WithVector
  <2>3. \A i : OfHeap(i) => StillOfHeap(i)
    BY <2>1 DEF OfHeap, StillOfHeap
  <2>. QED  BY <2>1, <2>2, <2>3, HeapChangeKeeps
            DEF IInv, TypeOK, BuiltIsLive, NothingAdded
<1>. QED  BY <1>1, <1>2, <1>3, <1>4, <1>5, <1>6, <1>7, <1>8, <1>9 DEF Next

(***************************************************************************)
(* What IInv says of the copies of an index, the file and the heap holds   *)
(* for every number of processes, rows, vectors and builds, whatever       *)
(* m_indtuples holds when a build starts.                                  *)
(***************************************************************************)
THEOREM Inductive == Spec => []IInv
<1>. QED  BY InitInv, NextKeeps, PTL DEF Spec

(***************************************************************************)
(* No copy outgrows the arrays hnswlib allocated for it.                   *)
(***************************************************************************)
THEOREM NeverOverfull == Spec => []FitsCapacity
<1>1. IInv => FitsCapacity
  BY DEF IInv
<1>. QED  BY <1>1, Inductive, PTL

(***************************************************************************)
(* A process that loaded the index there is ranks each row by the vector   *)
(* the row has, unless a VACUUM has freed TIDs in a process whose copy was *)
(* empty.                                                                  *)
(***************************************************************************)
LEMMA NotReusedIsOwn ==
  ASSUME IInv, ~blind, NEW b \in Fresh
  PROVE  OwnVector(b)
<1>1. OfHeap(cache[b][method])
  BY DEF IInv, NotReused
<1>. QED  BY <1>1 DEF OfHeap, OwnVector, Held

THEOREM RanksByOwnVector == Spec => []RankedByOwnVector
<1>1. IInv => RankedByOwnVector
  BY NotReusedIsOwn DEF RankedByOwnVector
<1>. QED  BY <1>1, Inductive, PTL

(***************************************************************************)
(* The copy of such a process has an entry for each of the rows there were *)
(* when the index was built, and for each it inserted itself, that is not  *)
(* deleted, unless a TRUNCATE was rolled back.                             *)
(***************************************************************************)
LEMMA IsHeld ==
  ASSUME IInv, ~undone, NEW b \in Fresh
  PROVE  built \cup mine[b] \subseteq Held(b)
<1>1. built \subseteq Live
  BY DEF IInv, BuiltIsLive, WithVector
<1>2. b \in Backend
  BY DEF Fresh
<1>. QED  BY <1>1, <1>2 DEF IInv, BuiltIsThere, MineIsThere, Held

THEOREM HoldsWhatItMust == Spec => []HoldsBuiltAndOwn
<1>1. IInv => HoldsBuiltAndOwn
  BY IsHeld DEF HoldsBuiltAndOwn
<1>. QED  BY <1>1, Inductive, PTL

(***************************************************************************)
(* With a read-only method the live rows that the copy of such a process   *)
(* has an entry for are exactly those with a vector, and the entry is that *)
(* vector.                                                                 *)
(***************************************************************************)
THEOREM ReadOnlyCopyIsExact == Spec => []ReadOnlyHoldsAll
<1>1. IInv => ReadOnlyHoldsAll
  <2>. SUFFICES ASSUME IInv, ~undone, ReadOnly(method), NEW b \in Fresh
                PROVE  Held(b) = WithVector /\ OwnVector(b)
    BY DEF ReadOnlyHoldsAll
  <2>1. ~blind /\ built = WithVector
    BY DEF IInv, NothingAdded
  <2>2. OwnVector(b) /\ WithVector \subseteq Held(b)
    BY <2>1, NotReusedIsOwn, IsHeld
  <2>3. ASSUME NEW t \in Held(b)
        PROVE  t \in WithVector
    <3>1. cache[b][method].entries[t] # NULL /\ t \in Live
      BY <2>3 DEF Held, Entries
    <3>. QED  BY <2>2, <3>1 DEF OwnVector, WithVector
  <2>. QED  BY <2>2, <2>3
<1>. QED  BY <1>1, Inductive, PTL
=============================================================================
