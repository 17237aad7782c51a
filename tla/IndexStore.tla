------------------------------ MODULE IndexStore ------------------------------
(***************************************************************************)
(* Where the entries of an index live: the builders and the per-process    *)
(* maps of the hnsw, pase_hnsw and sptag access methods.                   *)
(*                                                                         *)
(* CREATE INDEX writes a file (sptag a directory) named after the index.   *)
(* Each backend loads it once, at its first use of the name, into a map of *)
(* the process and of the method, and from then on reads its own copy.     *)
(* hnsw also changes that copy; the other methods are read-only: with one  *)
(* of them on the table an INSERT fails, and so does a VACUUM that has     *)
(* something to remove.  The heap, with its TIDs that VACUUM makes free    *)
(* for new rows, is shared.                                                *)
(*                                                                         *)
(* A statement is one step, committed or rolled back when it ends: what    *)
(* builds an index locks out the others until its transaction is over.     *)
(* The vectors of a table and the dimension option of its index agree.     *)
(***************************************************************************)
EXTENDS Integers, FiniteSets

CONSTANTS
  Tid,        \* heap TIDs
  Vec,        \* vectors
  Dim,        \* Dim[v]: the length of v
  NULL,       \* SQL NULL, and the vector of a TID an index has no entry for
  Backend,    \* server processes: sessions and autovacuum workers
  Methods,    \* the access methods used for the index
  Garbage,    \* ten times what m_indtuples, never initialised, may hold at first
  MaxBuilds   \* bound: how often the index is built

ASSUME StoreAssumption ==
  /\ NULL \notin Vec
  /\ IsFiniteSet(Tid)
  /\ Dim \in [Vec -> Nat]
  /\ Methods \subseteq {"hnsw", "pase_hnsw", "sptag"}
  /\ Garbage \subseteq Int
  /\ MaxBuilds \in Nat

VARIABLES
  slot,     \* slot[t]: "free", "live", "dead"
  vec,      \* vec[t]: the vector of the row at t
  method,   \* the access method of the index, "none": there is no index
  dim,      \* its dimension option
  file,     \* what is at the path of the index
  loaded,   \* loaded[b]: the methods whose vector_index_map has the path
  cache,    \* cache[b][m]: the index it maps to
  builds,   \* how many builds there were, for the bound
  stale,    \* history: of loaded[b], those loaded before the index was built
  mine,     \* history: the live rows b has put into its copy
  built,    \* history: the rows with a vector when the index was built
  blind,    \* history: since then, a VACUUM has freed TIDs in a process whose
            \* copy was empty
  undone,   \* history: since then, a rolled back TRUNCATE has built it anew
  crashed   \* history: the server has crashed

heap == <<slot, vec>>
store == <<loaded, cache, stale, mine>>
catalog == <<method, dim, file, builds, built, undone>>
vars == <<heap, catalog, store, blind, crashed>>

ReadOnly(m) == m \in {"pase_hnsw", "sptag"}
KindOf(m) == IF m = "sptag" THEN "directory" ELSE "regular"

\* The entries by TID (castToUint64 of it is the label), and max_elements.
Index == [entries : [Tid -> Vec \cup {NULL}], capacity : Nat]
Empty == [entries |-> [t \in Tid |-> NULL], capacity |-> 0]
Entries(index) == {t \in Tid : index.entries[t] # NULL}

File == [kind : {"none", "regular", "directory"}, index : Index]

Live == {t \in Tid : slot[t] = "live"}
Dead == {t \in Tid : slot[t] = "dead"}
WithVector == {t \in Live : vec[t] # NULL}

Init ==
  /\ slot = [t \in Tid |-> "free"]
  /\ vec = [t \in Tid |-> NULL]
  /\ method = "none"
  /\ dim = 0
  /\ file = [kind |-> "none", index |-> Empty]
  /\ loaded = [b \in Backend |-> {}]
  /\ cache = [b \in Backend |-> [m \in Methods |-> Empty]]
  /\ builds = 0
  /\ stale = [b \in Backend |-> {}]
  /\ mine = [b \in Backend |-> {}]
  /\ built = {}
  /\ blind = FALSE
  /\ undone = FALSE
  /\ crashed = FALSE

-----------------------------------------------------------------------------
(***************************************************************************)
(* LoadIndex reads the file unless the path is in the map of the method;   *)
(* Loaded(b) is the copy b works on from then on.  hnswlib takes the       *)
(* capacity from the file, unless there is no element in it.  What another *)
(* method left at the path can not be read: hnswlib throws, through code   *)
(* with no handler, and SPTAG yields a null pointer that is used.          *)
(***************************************************************************)
Read(index) == IF Entries(index) = {} THEN Empty ELSE index

Loaded(b) == IF method \in loaded[b] THEN cache[b][method] ELSE Read(file.index)
Loads(b) == method \in loaded[b] \/ file.kind = KindOf(method)

Use(b, index, own) ==
  /\ loaded' = [loaded EXCEPT ![b] = @ \cup {method}]
  /\ cache' = [cache EXCEPT ![b][method] = index]
  /\ mine' = [mine EXCEPT ![b] = own]
  /\ UNCHANGED stale

NothingCached == [m \in Methods |-> Empty]

\* The process ends, and its copies with it.
Gone(b) ==
  /\ loaded' = [loaded EXCEPT ![b] = {}]
  /\ cache' = [cache EXCEPT ![b] = NothingCached]
  /\ stale' = [stale EXCEPT ![b] = {}]
  /\ mine' = [mine EXCEPT ![b] = {}]

\* A process dies: the postmaster restarts all of them.
Crash ==
  /\ loaded' = [b \in Backend |-> {}]
  /\ cache' = [b \in Backend |-> NothingCached]
  /\ stale' = [b \in Backend |-> {}]
  /\ mine' = [b \in Backend |-> {}]
  /\ crashed' = TRUE

(***************************************************************************)
(* A build indexes the rows that are not NULL, some of the dead ones too.  *)
(* It does not look at the map of any process, its own included.           *)
(*                                                                         *)
(* The hnsw builders scan the heap twice, to count the rows and to add     *)
(* them.  hnswlib throws when it can not allocate max_elements (negative,  *)
(* as a size_t it is enormous) and when addPoint exceeds it: the catch     *)
(* ends the session.  The sptag builder scans once, and divides the number *)
(* of floats by the dimension, which is 0 until it has seen a row: the     *)
(* statement fails with a floating-point exception.  All of them fail when *)
(* the rows are not of one length.                                         *)
(***************************************************************************)
Truncated(n) == IF n >= 0 THEN n \div 10 ELSE -((-n) \div 10)
MaxElements(m, garbage, rows) ==
  LET tenfold == garbage + 10 * Cardinality(rows)
  IN  IF m = "hnsw" THEN tenfold ELSE Truncated(tenfold)

Fits(rows, capacity) == Cardinality(rows) <= capacity
FitsUnallocated(rows, capacity) == rows = {} \/ Fits(rows, capacity)
Indexable(rows, capacity) == capacity >= 0 /\ Fits(rows, capacity)

Lengths(rows) == {Dim[vec[t]] : t \in rows}

\* What the builder of m makes of the rows it scanned.
Outcome(m, rows, capacity) ==
  IF Cardinality(Lengths(rows)) > 1 THEN "error"
  ELSE IF m = "sptag" THEN (IF rows = {} THEN "error" ELSE "saved")
  ELSE (IF Indexable(rows, capacity) THEN "saved" ELSE "fatal")

\* Neither library reports that it could not write over what is there.
SaveIndex(m, rows, capacity) ==
  file' = IF file.kind \in {"none", KindOf(m)}
          THEN [kind |-> KindOf(m),
                index |-> [entries |-> [t \in Tid |-> IF t \in rows THEN vec[t] ELSE NULL],
                           capacity |-> IF m = "sptag" THEN 0 ELSE capacity]]
          ELSE file

\* The catalog gets the index: the copies of this name are of an older one.
Register(m, d, rows) ==
  /\ method' = m
  /\ dim' = d
  /\ stale' = loaded
  /\ mine' = [b \in Backend |-> {}]
  /\ built' = rows \cap Live
  /\ blind' = FALSE
  /\ undone' = FALSE
  /\ UNCHANGED <<loaded, cache>>

\* What the scans of a build may have found, and what it then allocates.
Scanned(kept, dead) ==
  {{t \in kept \cup some : vec[t] # NULL} : some \in SUBSET dead}
Capacities(m, rows) == {MaxElements(m, garbage, rows) : garbage \in Garbage}

Saves(m, rows) ==
  /\ builds < MaxBuilds
  /\ builds' = builds + 1
  /\ \E capacity \in Capacities(m, rows) :
       Outcome(m, rows, capacity) = "saved" /\ SaveIndex(m, rows, capacity)

EndsSession(m, rows) ==
  \E capacity \in Capacities(m, rows) : Outcome(m, rows, capacity) = "fatal"

(***************************************************************************)
(* CREATE INDEX or REINDEX.  A rollback undoes the change of the catalog,  *)
(* not that of the file.                                                   *)
(***************************************************************************)
Build(b) ==
  \E m \in IF method = "none" THEN Methods ELSE {method},
     d \in IF method = "none" THEN {Dim[v] : v \in Vec} ELSE {dim},
     rows \in Scanned(Live, Dead) :
    \/ /\ Lengths(rows) \subseteq {d}
       /\ Saves(m, rows)
       /\ Register(m, d, rows)
       /\ UNCHANGED <<heap, crashed>>
    \/ /\ Lengths(rows) \subseteq {d}
       /\ Saves(m, rows)
       /\ UNCHANGED <<heap, method, dim, store, built, blind, undone, crashed>>
    \/ /\ EndsSession(m, rows)
       /\ Gone(b)
       /\ UNCHANGED <<heap, catalog, blind, crashed>>

(***************************************************************************)
(* TRUNCATE of a table with the index builds it on the new, empty heap.    *)
(***************************************************************************)
Truncate(b) ==
  /\ method # "none"
  /\ \/ /\ Saves(method, {})
        /\ Register(method, dim, {})
        /\ slot' = [t \in Tid |-> "free"]
        /\ vec' = [t \in Tid |-> NULL]
        /\ UNCHANGED crashed
     \/ /\ Saves(method, {})
        /\ undone' = TRUE
        /\ UNCHANGED <<heap, method, dim, store, built, blind, crashed>>
     \/ /\ EndsSession(method, {})
        /\ Gone(b)
        /\ UNCHANGED <<heap, catalog, blind, crashed>>

\* The access method is not told: the file and the maps stay.
DropIndex ==
  /\ method # "none"
  /\ method' = "none"
  /\ dim' = 0
  /\ stale' = loaded
  /\ mine' = [b \in Backend |-> {}]
  /\ built' = {}
  /\ blind' = FALSE
  /\ undone' = FALSE
  /\ UNCHANGED <<heap, file, builds, loaded, cache, crashed>>

-----------------------------------------------------------------------------
(***************************************************************************)
(* A row is inserted.  hnsw_insert puts it into the copy of this process.  *)
(* addPoint throws when the copy is full, through code with no handler;    *)
(* a label it has already gets the new vector.  A row of another length    *)
(* is refused.  The other methods have no aminsert: the INSERT fails.      *)
(***************************************************************************)
InsertNowhere(b, t, v) == Use(b, Loaded(b), mine[b] \cup {t})
Insert(b, t, v) ==
  Use(b, [Loaded(b) EXCEPT !.entries[t] = v], mine[b] \cup {t})

HasRoomForOneMore(index, t) == Cardinality(Entries(index)) <= index.capacity
HasRoom(index, t) ==
  t \in Entries(index) \/ Cardinality(Entries(index)) < index.capacity

RowEnds(t, how) == slot' = [slot EXCEPT ![t] = how]

InsertIndexed(b, t, v) ==
  \/ /\ ~Loads(b)
     /\ RowEnds(t, "dead") /\ Crash
  \/ /\ Loads(b) /\ v = NULL
     /\ RowEnds(t, "live") /\ Use(b, Loaded(b), mine[b]) /\ UNCHANGED crashed
  \/ /\ Loads(b) /\ v # NULL /\ Dim[v] # dim
     /\ RowEnds(t, "dead") /\ Use(b, Loaded(b), mine[b]) /\ UNCHANGED crashed
  \/ /\ Loads(b) /\ v # NULL /\ Dim[v] = dim /\ HasRoom(Loaded(b), t)
     /\ RowEnds(t, "live") /\ Insert(b, t, v) /\ UNCHANGED crashed
  \/ /\ Loads(b) /\ v # NULL /\ Dim[v] = dim /\ ~HasRoom(Loaded(b), t)
     /\ RowEnds(t, "dead") /\ Crash

NoAmInsertNeeded(t) == RowEnds(t, "live") /\ UNCHANGED <<store, crashed>>
NoAmInsert(t) == RowEnds(t, "dead") /\ UNCHANGED <<store, crashed>>

InsertRow(b, t, v) ==
  /\ slot[t] = "free"
  /\ vec' = [vec EXCEPT ![t] = v]
  /\ \/ method = "none" /\ RowEnds(t, "live") /\ UNCHANGED <<store, crashed>>
     \/ method = "hnsw" /\ InsertIndexed(b, t, v)
     \/ method # "none" /\ ReadOnly(method) /\ NoAmInsert(t)
  /\ UNCHANGED <<catalog, blind>>

DeleteRow(t) ==
  /\ slot[t] = "live"
  /\ RowEnds(t, "dead")
  /\ mine' = [b \in Backend |-> mine[b] \ {t}]
  /\ built' = built \ {t}
  /\ UNCHANGED <<vec, method, dim, file, builds, undone, loaded, cache, stale, blind, crashed>>

(***************************************************************************)
(* VACUUM frees the TIDs of the dead rows after BulkDelete has visited     *)
(* every entry.  The first call of a VACUUM passes stats = NULL and both   *)
(* branches of the loop write through it: unless the copy is empty, the    *)
(* process dies on its first entry.  Without ambulkdelete it fails.        *)
(***************************************************************************)
Reclaim ==
  /\ slot' = [t \in Tid |-> IF slot[t] = "dead" THEN "free" ELSE slot[t]]
  /\ vec' = [t \in Tid |-> IF slot[t] = "dead" THEN NULL ELSE vec[t]]

BulkDeleteWithStats(b) ==
  /\ Reclaim
  /\ Use(b, [Loaded(b) EXCEPT !.entries =
              [t \in Tid |-> IF t \in Dead THEN NULL ELSE @[t]]], mine[b])
  /\ blind' = (blind \/ Entries(Loaded(b)) = {})
  /\ UNCHANGED crashed
BulkDelete(b) ==
  \/ /\ Loads(b) /\ Entries(Loaded(b)) = {}
     /\ Reclaim
     /\ Use(b, Loaded(b), mine[b])
     /\ blind' = TRUE
     /\ UNCHANGED crashed
  \/ /\ ~Loads(b) \/ Entries(Loaded(b)) # {}
     /\ Crash
     /\ UNCHANGED <<heap, blind>>

Vacuum(b) ==
  /\ Dead # {}
  /\ \/ method = "hnsw" /\ BulkDelete(b)
     \/ method = "none" /\ Reclaim /\ UNCHANGED <<store, blind, crashed>>
  /\ UNCHANGED catalog

\* The first scan of a process, ambeginscan and amgettuple.
BeginScan(b) ==
  /\ method # "none"
  /\ method \notin loaded[b]
  /\ \/ Loads(b) /\ Use(b, Loaded(b), mine[b]) /\ UNCHANGED crashed
     \/ ~Loads(b) /\ Crash
  /\ UNCHANGED <<heap, catalog, blind>>

(***************************************************************************)
(* The live rows the copy of b has an entry for.  A scan returns no other  *)
(* row, but it need not return all of these: pase_hnsw asks its library    *)
(* for 188 rows and no more.  When a scan ends is in AccessMethods.        *)
(***************************************************************************)
Held(b) == Entries(cache[b][method]) \cap Live

Exit(b) ==
  /\ loaded[b] # {}
  /\ Gone(b)
  /\ UNCHANGED <<heap, catalog, blind, crashed>>

Next ==
  \/ \E b \in Backend :
       \/ Build(b)
       \/ Truncate(b)
       \/ BeginScan(b)
       \/ Vacuum(b)
       \/ Exit(b)
       \/ \E t \in Tid, v \in Vec \cup {NULL} : InsertRow(b, t, v)
  \/ \E t \in Tid : DeleteRow(t)
  \/ DropIndex

Spec == Init /\ [][Next]_vars

-----------------------------------------------------------------------------
TypeOK ==
  /\ slot \in [Tid -> {"free", "live", "dead"}]
  /\ vec \in [Tid -> Vec \cup {NULL}]
  /\ method \in Methods \cup {"none"}
  /\ dim \in {0} \cup {Dim[v] : v \in Vec}
  /\ file \in File
  /\ loaded \in [Backend -> SUBSET Methods]
  /\ cache \in [Backend -> [Methods -> Index]]
  /\ builds \in 0 .. MaxBuilds
  /\ stale \in [Backend -> SUBSET Methods]
  /\ mine \in [Backend -> SUBSET Tid]
  /\ built \in SUBSET Tid
  /\ blind \in BOOLEAN
  /\ undone \in BOOLEAN
  /\ crashed \in BOOLEAN

\* The processes whose copy comes from the index there is.
Fresh == {b \in Backend : method \in loaded[b] \ stale[b]}

OwnVector(b) == \A t \in Held(b) : cache[b][method].entries[t] = vec[t]

(***************************************************************************)
(* In a process that loaded the index there is now, a row a scan returns   *)
(* is ranked by its own vector, unless a VACUUM was blind: VACUUM in one   *)
(* process can not reach the copies of the others, but then no TID they    *)
(* know is given to a new row while the index exists.                      *)
(***************************************************************************)
RankedByOwnVector == ~blind => \A b \in Fresh : OwnVector(b)

(***************************************************************************)
(* The copy of such a process has an entry for every row that was there    *)
(* when the index was built or that it inserted itself, and is not         *)
(* deleted: a REINDEX that is rolled back does no harm, although its file  *)
(* stays.  Only a TRUNCATE that is rolled back does.                       *)
(***************************************************************************)
HoldsBuiltAndOwn ==
  ~undone => \A b \in Fresh : built \cup mine[b] \subseteq Held(b)

(***************************************************************************)
(* A copy of a read-only index does not age: because an INSERT fails and a *)
(* VACUUM can not free a TID, the live rows it has an entry for are those  *)
(* with a vector, no more and no fewer, and the entry is that vector.      *)
(***************************************************************************)
ReadOnlyHoldsAll ==
  ~undone /\ ReadOnly(method) =>
    \A b \in Fresh : Held(b) = WithVector /\ OwnVector(b)

(***************************************************************************)
(* The copies never outgrow the arrays hnswlib allocated for max_elements. *)
(***************************************************************************)
Bounded(index) == Cardinality(Entries(index)) <= index.capacity

FitsCapacity ==
  \A b \in Backend : \A m \in loaded[b] \ {"sptag"} : Bounded(cache[b][m])

(***************************************************************************)
(* The invariant of the proofs. It implies the four properties above; the  *)
(* file must promise a process that has not loaded it yet what the copies  *)
(* promise.                                                                *)
(***************************************************************************)
Usable == method # "none" /\ file.kind = KindOf(method)

\* Each entry is that of a row the heap still has, dead ones included.
OfHeap(index) ==
  \A t \in Entries(index) : slot[t] # "free" /\ index.entries[t] = vec[t]

FilesFit == file.kind = "regular" => Bounded(file.index)

NotReused ==
  ~blind => /\ Usable => OfHeap(file.index)
            /\ \A b \in Fresh : OfHeap(cache[b][method])

BuiltIsThere ==
  ~undone => /\ Usable => built \subseteq Entries(file.index)
             /\ \A b \in Fresh : built \subseteq Entries(cache[b][method])

MineIsThere ==
  \A b \in Backend : /\ mine[b] \subseteq Live
                     /\ mine[b] # {} => method \in loaded[b]
                     /\ b \in Fresh => mine[b] \subseteq Entries(cache[b][method])

BuiltIsLive == built \subseteq WithVector

NothingAdded == ReadOnly(method) => ~blind /\ built = WithVector

IInv ==
  /\ TypeOK
  /\ FitsCapacity /\ FilesFit
  /\ NotReused /\ BuiltIsThere /\ MineIsThere /\ BuiltIsLive /\ NothingAdded

(***************************************************************************)
(* README.md: "It preserves all the features of PostgreSQL while extending *)
(* query support on vector data".  A scan returns only what the copy of    *)
(* its process holds, so each copy holds every committed row with a        *)
(* vector, whoever inserted it.  Refuted: a copy is loaded once, and an    *)
(* insert changes that of its own process and no file.                     *)
(***************************************************************************)
HoldsCommitted ==
  \A b \in Backend : method \in loaded[b] => WithVector \subseteq Held(b)

(***************************************************************************)
(* The same words of README.md: a statement that is rolled back leaves the *)
(* rows an index was built from in it.  Refuted: TRUNCATE builds the index *)
(* anew, over the file of the old one, and a rollback does not bring that  *)
(* file back.                                                              *)
(***************************************************************************)
HoldsBuilt == \A b \in Fresh : built \subseteq Held(b)

(***************************************************************************)
(* README.md: "the '<->' operator represents the L2 distance".  Then the   *)
(* index ranks a row with a vector by the distance of that vector, in any  *)
(* process.  Refuted: TRUNCATE, or VACUUM where there is no index or the   *)
(* copy is empty, frees a TID that the copy another process loaded before  *)
(* still maps to the vector of the old row.                                *)
(***************************************************************************)
DistanceIsOfTheRow ==
  \A b \in Backend : method \in loaded[b] =>
    \A t \in Held(b) \cap WithVector : cache[b][method].entries[t] = vec[t]

(***************************************************************************)
(* README.md: "It preserves all the features of PostgreSQL", and shows a   *)
(* DELETE on an indexed table.  The (auto)vacuum that follows does not     *)
(* bring the server down.                                                  *)
(***************************************************************************)
VacuumStaysUp == [][(\E b \in Backend : Vacuum(b)) => UNCHANGED crashed]_vars

=============================================================================
