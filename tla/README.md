# TLA+ models of MSVBASE

MSVBASE is PostgreSQL 13 with vector indexes. Its own code is small and sits at
three places: a PostgreSQL extension (`src/src`), patches to PostgreSQL's planner and
executor (`src/patch/Postgres.patch`), and patches to the index libraries hnswlib and
SPTAG (`src/patch/hnsw.patch`, `src/patch/spann.patch`) that turn their top-k search into
an iterator. The idea that ties them together is *relaxed monotonicity*: an index
scan returns rows in roughly ascending distance for as long as it is asked, and an
operator above it decides when it has seen enough.

This directory specifies that machinery in TLA+, checks it with TLC on small instances and
proves its safety properties, for instances of any size, with TLAPS.

## 1. The system

| Component | Code | State | Operations |
|---|---|---|---|
| Multi-index top-k (`topk`, `multicol_topk`) | `topk.cpp`, `multicol_topk.cpp` | `FaginsState`: heap `proc_pq`, `seenSet`, `result_stack`, `finish`; SPI connection; memory context | first call: arguments, plans and starts one index scan per ORDER BY expression; each call: `execFagins`, one row; last call: end |
| HNSW iterative search | `hnsw.patch` | `WorkSpace` (candidate queue, visited list), `VisitedListPool` | `ResultIterator`: open, `Next`, `Close`, destroy |
| HNSW access method | `hnswindex*.cpp` | index file; per-process map of loaded indexes; per-scan `HNSWScanOpaqueData` | build, insert, bulkdelete; begin, rescan, gettuple, end |
| PASE HNSW, SPTAG, SPANN access methods | `pase_hnswindex*.cpp`, `index*.cpp`, `spannindex*.cpp` | the same, with other libraries | the same, without insert and bulkdelete |
| SPTAG iterative search | `spann.patch` (BKT index) | `WorkSpace`: queue of samples, queue of tree cells, marks | `ResultIterator`; the search for heads of SPANN |
| SPANN iterative search | `spann.patch` | `ExtraWorkSpace`: posting lists read, offsets, marks | `SPANNResultIterator`: batches of heads, then the entries of their lists |
| Relaxed-order executor | `Postgres.patch` | `xs_inorder` per scan, `is_index_inorder` per query | `IndexNext`, `ExecSort`, `create_ordered_paths` |
| `approximate_sum` rewriter | `Postgres.patch` | none (query text) | turns a query into one with a call of `topk` in its target list |
| Others | `operator.cpp`, `util.cpp`, `lib.cpp`, `model_mng.cpp`, scripts, evaluation | none shared | conversions, model inference, deployment |

How they interact. A query is planned by PostgreSQL. For a single vector ORDER BY the
executor calls `amgettuple` of the access method, which calls `Next()` of the iterator of
the library; `IndexNext` copies the scan's `xs_inorder` into the `EState`, which a `Sort`
above reads to stop early. For an ORDER BY on several vectors, the rewriter makes a call of
`topk()`, which plans one index scan per expression through SPI and drives these scans
itself. Inserts, builds and vacuums reach the access method through `aminsert`,
`ambuild` and `ambulkdelete`; all the processes of the server run them, each on its own
in-memory copy of an index.

What is hard:

- *Order*: no scan is really ordered, so stopping early must be argued; the children of
  `topk()` overlap, and end at different times.
- *State between calls*: iterators, workspaces, memory contexts and SPI connections live from
  one `gettuple` or function call to the next, while the same process inserts, rescans
  and runs other scans.
- *Many processes, no shared index*: an index is loaded once per process, changed in memory
  and never written back.
- *Errors*: C++ code inside PostgreSQL, where an ERROR long-jumps and an exception ends the
  process.

What makes each component correct:

- top-k: it returns the best K of the rows it scanned, in order, each once; it stops no
  sooner than its termination condition says, and it always stops; however its calls
  interleave, fail or are abandoned, the session stays usable;
- iterative search: each node once, everything reachable, order violated only by nodes
  found late, no visited list shared;
- access method: the private copy of an index holds the rows it was built from and those its
  process inserted, with their own vectors; a scan loses no row in range its iterator gave it and gives up
  only for the reasons the code has; iterators are closed;
- executor: the early stop does not change the answer.

`PROJECT.json` lists every component and, under `hazards`, every place found where this
can go wrong and a test would hardly notice.

## 2. The modules

`RankedRows` is the abstract specification of any top-k operator: scan some rows, then deliver
the best K of them in order. `Fagins`, `MultiColTopK` and `RelaxedSort` are shown
to implement it.

| Module | Models | Correspondence |
|---|---|---|
| `RankedRows` | the promise to the caller | `Scan`, `Deliver`, `Close` |
| `Fagins` | `execFagins`, `InitFaginsState`, calls of `topk()` | one action per way an iteration of the child loop can end (`ChildExhausted`, `SkipSeen`, `Drop`, `Keep`), `CheckTermCond`, `Drain`, `Emit`/`EndOfRows`, `Call` |
| `TopKArgs` | conversion of the SQL arguments: operators only, used by the next two | one operator per function; words of `Modulus` values |
| `MultiColTopK` | `execFaginsM` | an instance of `Fagins` whose heap size and limits come from `TopKArgs` |
| `TopKSession` | the calls of `topk()` and `multicol_topk()` in one session: `getrelid`, `extractIndexScanNode`, SPI stack, multi-call context, `EndFaginsState` | one action per part of a call between two places where it can fail or return (`Connect`, `PlanChild`, `ReturnNext`, `ReturnDone`, ...) and per event of the session around the calls (`Declare`, `FetchRow`, `ClosePortal`, savepoints, `Commit`) |
| `HnswIterator` | `ResultIterator`, `searchKnnIterative`, `searchBaseLayerSTIterative`, visited lists | one action per call; `Next()` is a start and one action per iteration of its loop |
| `IndexStore` | where index entries live, for hnsw, pase_hnsw and sptag: builds, loading, hnsw's insert and bulkdelete | one action per SQL statement per backend; committed or rolled back |
| `VectorSource` | what an access method may rely on when it calls `Next()` | each vector once; one pause; an end |
| `SpannIterator` | `SPANNResultIterator` and what it calls: `SearchIndexIterative`, `SearchDiskIndexIterative`, `SearchNextInPosting` | `Next()` is a start (`FirstNext`, `LaterNext`) and one action per way an iteration of its loop can end (`OfferHead`, `ReadVector`, `ReadNothing`, `Pause`, `NextBatch`, `NoMoreHeads`) |
| `BktIterator` | `SearchIndexIterative`, `SearchIndexIterativeFromNeareast` of the BKT index, `GetIterator` | a start for each way to begin (`FirstNext`, `FirstHeads`, `LaterNext`), `Visit` per iteration of the loop, `EndCall` |
| `IndexScan` | what the scans of the four access methods share: begin, rescan, end, first and later calls of `gettuple` | one action per call, `method` says whose; the code of the four is the same where this module is, and each definition is mapped to one of them |
| `HnswScan`, `SptagScan`, `SpannScan`, `PaseScan` | the four `gettuple` functions | a start and one action per way an iteration of the loop can end |
| `AccessMethods` | the executor calling a scan of any method | extends the four |
| `RelaxedSort` | `IndexNext`, `ExecSort`, `create_ordered_paths` as patched | extends `AccessMethods` with the nodes above the scan |
| `MC*` | instances for TLC | |
| `Fagins_proofs`, `TopKSession_proofs`, `HnswIterator_proofs`, `IndexStore_proofs`, `SpannIterator_proofs`, `BktIterator_proofs`, `AccessMethods_proofs`, `RelaxedSort_proofs` | theorems about the module of that name (and `MultiColTopK` in the first, `TopKArgs` in the second) | |

`RelaxedSort` composes with `AccessMethods` by EXTENDS: its steps inside the scan are the actions
of the scan modules. `IndexScan` takes from the iterators only what `HnswIterator` and
`SpannIterator` and `BktIterator` check (each row at most once, in any order; for SPANN, one pause):
the last two are both shown to implement `VectorSource`. `SpannIterator` in turn takes its
heads as `BktIterator` yields them, each once when no two heads are equal vectors. `Fagins`
takes rows from its child scans as the access methods give them, and is given by
`TopKSession` the arguments `TopKArgs` makes of the SQL ones.

### Abstractions

- Distances and ranks are small integers; only their order matters. A heap of pairs is a set
  of entries, and where a heap leaves ties open, so does the model.
- Rows are TIDs; `castToUint64` is injective, so `seenSet` is a set of TIDs.
- In `HnswIterator` the upper layers only choose the entry node: any node may be it. The
  graph is any graph, and an insertion may change links as hnswlib's does (external: hnswlib's
  source is not in the repository).
- `TopKSession` keeps in which order the calls in progress began (`began`), not when. Each call is
  in one query or cursor, once (`SessionAssumption`). The calls of a target list are evaluated in turn, those of a FROM one
  after the other to the end; there is one level of savepoint. What a use of freed memory does is
  not guessed: `undefined` says whose memory it was and ends the behaviour. `EndFaginsState` reads its own
  state after it has freed it (`topk.cpp:550`), at every end of a call: the read may find what was there
  (`ReturnDone`) or not (`UseFreed` with `"state"`), and both are steps of the model. A rewritten query is a target list with one call whose
  `ef` and `term_cond` are 50; texts are reduced to whether they have a WHERE and what LIMIT.
- In `IndexStore` a statement is one step, committed or rolled back when it ends: what builds an
  index holds a lock until then. An entry is the vector stored for a TID, a file is a regular file or
  a directory with entries. `m_indtuples` is never initialised (`hnswindex_builder.hpp:48`), so
  `max_elements` starts from any value in `Garbage`. There is one index at a time, so one path;
  the dimension option is that of the rows there were when it was created.
- In `BktIterator` the tree is the set of samples it has not yielded, of which it may yield any,
  until something new comes or nothing is left (`TreeYields`); the graph is any graph. Queues
  do not overflow, and no vector is deleted: the server never deletes from these indexes.
- In `SpannIterator` the head index yields any of the heads, each once, in any order, and the
  posting lists, which SPANN builds, hold no heads. A head without a vector id (`MaxSize`) and a
  failing read do not occur.
- In `IndexScan`, `near` is the set of rows the method takes to be within the threshold (spann
  leaves out rows at it). A pase scan gets its rows, at most `ReadAhead`, from one call of `searchKnn`; what it
  did not ask for stays in `pending`, for the properties to speak of. `xs_inorder` and `xs_recheck`
  start with any value: `RelationGetIndexScan` does not set them.
- History variables (marked in each module) record what properties speak of and are read by
  no action.

## 3. What TLC checks

Each run finishes in about two minutes; deadlock is not checked because every query ends and a
server may be idle.

| Run | Instance | What it shows |
|---|---|---|
| `MCFagins` | 5 rows, 2 children, ranks {-1,1,NULL}, Ef = K = 2, TermCond = 1 | the safety properties of section 4 and `PromiseSpec`; `IInv`, the invariant of the proofs. Every run below that lists `IInv` or `SortInv` checks that of its module |
| `MCMultiColTopK` | 3 rows, 2 children, k = 2 | the same promise with a heap of k rows; every query ends |
| `MCTopKSession` | a target list of two calls, a cursor with one, a FROM of two, 2 children each; negative, default and rewritten arguments | `NestedCallsKeepApart`: only calls that are not well nested, or the end of a savepoint with an open call in it, make one call use what the end of another freed; `StackIsBalanced`: how many connections the stack holds, those of abandoned calls included; `SettingIsKept`: `enable_seqscan` comes back after every plan that is made; `CallsFit`, and `IInv` |
| `MCHnswIterator` | all graphs of 3 nodes, 3 distances, tags mod 2, and either one iterator at a time and a deleted node, or two iterators and nodes inserted while they are open | `EachOnce`, `ListsOwnedOnce`, `ReachesAll`, `InversionsAreNew`, and `IInv`; tags wrap at every second use of a list |
| `MCIndexStore` | 2 backends, 2 TIDs, vectors of 2 lengths, 3 methods, 2 builds, garbage -9 or 2 | what private copies hold: `RankedByOwnVector`, `HoldsBuiltAndOwn`, `ReadOnlyHoldsAll`, `FitsCapacity`, and `IInv`. What a scan hands over of it is the matter of `MCAccessMethods` (a pase_hnsw scan asks for 188 rows and no more) |
| `MCSpannIterator` | 3 heads, batches of 2, any posting lists of 2 vectors, 2 scans | `LosesOnlyLastEntries`, that it implements `VectorSource`, and `IInv` |
| `MCBktIterator` | all graphs of 4 vectors, two of them equal, 2 distances, batches of 2 heads, 2 scans | `ReturnsAll`, that a scan implements `VectorSource`, and `IInv` (with `HeadsOnce`) |
| `MCAccessMethods` | 4 methods, 4 rows, 2 distances, queues of 2, 1 or 2 misses, 3 rows read ahead | `InOrderMeans` (hnsw), `GivesUpWithReason`, `ReturnsWhatIsInRange`, `ReadAheadComesFirst` (spann, pase), `ClosesIterators`, and `IInv` (with `LeavesNoneBehind`), with rescans and NULL keys |
| `MCRelaxedSort` | 5 methods, 4 rows, 3 distances, LIMIT 2, queue 2, 2 rows read ahead | `FullAnswer`, `ExactIfSettled`, `PromiseSpec` and `SortInv`, with any WHERE clause and other scans writing the flag |

The bounds. The heap and queue sizes of the code (64, 86, 50, 10000, 188) matter only as "smaller than
the number of rows": with sizes of 1 or 2 and three or four rows every case of a full,
popping or refusing queue occurs. Two children are enough for a row to come twice, one
to end first, and a round to bring only known rows; the proofs cover any number.
Two backends are enough for one to change what the other has loaded, and two builds for a file of
one method to meet another. Three heads in batches
of two give a full batch, a partial one and none; two scans, a workspace with the marks
of another. Of four vectors one is a copy, and the other three can be a path, so that a search
has to go through one to reach another or get it from the tree. Two calls per query and three
queries give every order of two and three connections on the stack. Words of 102 values hold the
50 of the rewriter as a signed number. `MaxLists`, `MaxDeleted`, `MaxScans` and `MaxBuilds` cap
what would grow without bound.

Three runs are expected to fail; each checks one statement of the documentation:

| Run | Statement | What the code does |
|---|---|---|
| `MCIndexStore_vacuum` | `VacuumStaysUp`: "It preserves all the features of PostgreSQL" | the first `ambulkdelete` of a VACUUM gets `stats = NULL` and writes through it |
| `MCAccessMethods_both` | `WithinThreshold`: "retrieve vector data that is within the distance threshold" | with an ORDER BY the range condition given to the index is ignored and never rechecked |
| `MCRelaxedSort_plain` | `NoRowLost` | `is_index_inorder` comes from an uninitialised field for any other access method, and an unbounded sort always counts as full |

More statements that the code does not keep are in the modules. They have no run of their own, but each
bounds what a passing run shows: where that run has an exception, the statement is the same without it. TLC
refutes every one of them within minutes when it takes the place of the properties of the configuration
named here:

| Statement | Configuration | What the code does |
|---|---|---|
| `HoldsCommitted` (`IndexStore`) | `MCIndexStore_vacuum`, `MaxBuilds` = 1 | an index is loaded once per process and an insert changes the copy of its own process only: other sessions do not find the row, and it is lost with the process. `HoldsBuiltAndOwn` is what is left |
| `HoldsBuilt` (`IndexStore`) | `MCIndexStore_vacuum` | a TRUNCATE overwrites the file of the index; rolled back, it leaves the file of an empty table (exception `undone` of `HoldsBuiltAndOwn` and `ReadOnlyHoldsAll`) |
| `DistanceIsOfTheRow` (`IndexStore`) | `MCIndexStore` | a process that loaded the index before a TRUNCATE, or before a VACUUM by a process whose copy is empty, ranks new rows by the vectors of old ones (exceptions `Fresh` and `blind` of `RankedByOwnVector`) |
| `SettingComesBack` (`TopKSession`) | `MCTopKSession` | an ERROR in `SPI_prepare` leaves `enable_seqscan` off for the session (exception `planFailed` of `SettingIsKept`) |
| `SurvivesNull` (`IndexScan`) | `MCAccessMethods` | hnsw, sptag and spann end or rescan a scan with a NULL key by `Close()` on a null iterator |
| `LimitIsFilled` (`RelaxedSort`) | `MCRelaxedSort` | a pase_hnsw scan asks for 188 rows once; if the filter drops them the query ends short of its LIMIT. `FullAnswer` speaks of the rows the scan asked for |
| `ResultIsOrdered` (`RelaxedSort`) | `MCRelaxedSort` | no Sort is planned above sptag or pase_hnsw, without LIMIT, or under a join: rows come as the iterator yields them |
| `LosesNothing` (`SpannIterator`) | `MCSpannIterator` | the last entry of the last list of a batch is found and dropped, because `SearchNextInPosting` returns whether there is more to read (`LosesOnlyLastEntries` is what is left) |
| `NullsLast` (`Fagins`) | `MCFagins` | a NULL rank counts as 0 |

### Fairness

`Fagins` and `MultiColTopK` assume `WF_vars(Next)`: a query is one thread that nothing
blocks and the caller of a set-returning function calls it until it reports the end.
`Termination` needs no more. The other modules state safety only: whether another call comes is
the executor's affair.

## 4. What is proved

`Fagins_proofs` proves, for every finite table, every assignment of ranks and NULLs, every set
of rows and order of delivery of every number of children, and every Ef, K, TermCond that
satisfy `FaginsAssumption`:

- `Inductive`: `Spec => []IInv`, and from it
- `TypeCorrect`, `NeverLosesARow` (`KeepsBest`), `ReturnedOnce` (`NoDuplicates`),
  `StopIsStable`, `StopIsTimely`, `ExactOnExhaustion`, `ContextIsMostlyRestored`;
- `ImplementsRankedRows`: `Spec => PromiseSpec`.

`MultiColRanksRows` carries the last one over to `multicol_topk()`, whose heap is no larger than the
answer: every step of `MultiColTopK` is one of `Fagins` with the constants it makes of the SQL
arguments. That those satisfy `FaginsAssumption` is `ArgsAreFit`, below.

The argument. `KeepsBest` alone is not inductive: when the heap is drained to the stack
nothing in it says that the order is kept or that an entry is not in two places. `IInv` adds
`Disjoint` (heap, stack and rows returned share no row), `Ordered` (returned before stacked
before what is still in the heap), `Phases` (what the control point implies for the
structures), `Counting` (`consecutive_drops` is the number of different rows seen since the heap
changed) and `SeenIsDelivered`. Each action's preservation is a lemma; the exactness and stop
properties follow from `IInv` without another induction.

`HnswIterator_proofs` proves for every set of nodes and graph, every number of iterators and lists,
every width of the visited tag and any insertions and deletions between calls: `Inductive`
(`IInv`), `NeverReturnsTwice` (`EachOnce`), `NoListIsShared` (`ListsOwnedOnce`), `SearchIsComplete`
(`ReachesAll`) and `OnlyNewNodesAreLate` (`InversionsAreNew`). What is assumed of hnswlib
is its pool of visited lists (`Fresh`: a list taken from it has no mark of the new tag) and that
links point to nodes that exist.

The argument: `ListsOwnedOnce` must hold together with what the marks mean. No mark of a list is
ahead of its tag (`MarksNotAhead`), so taking a list hides no node; the marks of the
current tag of an open iterator are exactly the nodes queued, returned or skipped as deleted
(`MarksAreOwn`), which gives `EachOnce`; and every link that a visited node had when it was
expanded leads to a marked node (`LinksAreFollowed`), so when the queue is empty the marks are
closed under links. Inversions need one fact more: when a row is returned, everything still
queued is no nearer, or was found late (`QueueIsLate`).

`IndexStore_proofs` proves for every number of processes, TIDs, vectors and builds, for any set of the
three methods, and for every value the uninitialised `m_indtuples` may start from: `Inductive` (`IInv`),
`NeverOverfull` (`FitsCapacity`), `RanksByOwnVector` (`RankedByOwnVector`), `HoldsWhatItMust`
(`HoldsBuiltAndOwn`) and `ReadOnlyCopyIsExact` (`ReadOnlyHoldsAll`). The last two are about the entries of a
copy, not about what a scan returns.

The argument: the properties speak of copies made from the index there is, and a copy is made from
the file, so the file must promise the same whenever it can be read (`Usable`). `NotReused` says that
every entry is that of a row the heap still has, with its vector; it is what a VACUUM would break
for the copies it does not reach, were it not that BulkDelete fails on every copy that has an
entry (`blind` records the other case). A build that is rolled back leaves a file made of the rows of
the heap as it is, so it keeps that promise; a TRUNCATE that is rolled back does not keep
`BuiltIsThere` (`undone`). `NothingAdded` says why read-only methods are exact: while such an index
exists no INSERT commits and no TID is freed.

`TopKSession_proofs` proves for every word size that what `topk()` and `multicol_topk()` make of any
SQL integers satisfies `FaginsAssumption` (`ArgsAreFit`), so that the theorems about `Fagins`
apply to every call. For any finite number of calls in any queries and cursors it proves `Inductive`
(`IInv`), `WellNestedCallsKeepApart` (`NestedCallsKeepApart`), `ConnectionsAreCounted` (`StackIsBalanced`),
`SettingKeptUnlessPlanningFails` (`SettingIsKept`) and `CallsStayFit` (`CallsFit`). They say nothing of the
read of a call's own freed state, which every end does: a theorem holds up to the step where such a read
goes wrong, and `undefined` says that it did.

The argument: a call that ends pops the top of the SPI stack, whoever's it is. `OwnConnections` says
that a connection is still there for at most one call, so each pop takes one away and
`StackIsBalanced` is a count. What makes the pop the right one in well nested use is that the
stack lies in the order the calls began (`WellNested`), and that the calls of a target list begin in
turn and so end in turn (`BeginInTurn`). `CallsOfPortals` ties calls to the life of their cursor: a
savepoint rolled back abandons exactly those of the cursors declared in it.

`SpannIterator_proofs` proves for any heads, posting lists and batch size and any number of scans of one
workspace: `Inductive` (`IInv`), `LosesOnePerBatch` (`LosesOnlyLastEntries`) and `IsVectorSource`
(`ImplementsSource`). The heart is `Dedupes`: what is in the deduper was returned, or is in the result
slot, or is the entry `SearchNextInPosting` found and did not report; and `ReadsForward`: the offsets have
passed only what is in the deduper. `Delivers` adds up the batches that are done.

`BktIterator_proofs` proves for every graph, any tree, copies and batch size: `Inductive` (`IInv`),
`NothingUnreached` (`ReturnsAll`), `NoHeadTwice` (`HeadsOnce`) and `IsVectorSource`
(`ImplementsSource`). `ComesOnce` says what may be in the queue when: a centre with its mark, a copy
only after its centre came out; a copy that the first search for heads found is the one thing that may
be there twice. `ReachesAll` is the closure argument: links of what came out are marked, marked
samples are queued or out, and the tree has none left when the queue is empty.

`AccessMethods_proofs` proves for the four access methods together, any table, any distances, any sizes
of the queues and any numbers of misses and rows read ahead: `Inductive` (`IInv`), `ClaimsOrder`
(`InOrderMeans`), `LosesNoRow` (`ReturnsWhatIsInRange`), `OneIterator` (`ClosesIterators`),
`NearestFirstOfAll` (`ReadAheadComesFirst`), `StopsForAReason` (`GivesUpWithReason`) and `QueueIsUsedUp`
(`LeavesNoneBehind`). Of the iterators only what `VectorSource` promises is used. `KeepsNearest`
says that the queue of an ordered hnsw scan holds the nearest rows before it claims order, so that a row
beyond its top is beyond that many rows; `CountsMisses` and `KnowsInRange` say what the counter and
the queue of a range scan mean, which is what a reason to stop rests on; `ReadAheadIsKept` that
what is read ahead is looked at first, and nearest first.

`RelaxedSort_proofs` builds on it: `SortInductive` (`SortInv`, which contains that of the scan),
`EnoughRows` (`FullAnswer`), `EarlyStopIsExact` (`ExactIfSettled`) and `QueryRanksRows` (`PromiseSpec`),
for every table, filter, path, access method and anything other scans write to the flag. `Sorts` and
`Passes` say how the rows fetched, waiting, sorted and returned relate, with a Sort and
without. `SortAssumption` has only queries with an ORDER BY, which is what the module models.
`EnoughRows` has a hypothesis: there is a LIMIT, or no index of PostgreSQL's own is scanned. Without
it the theorem is false, as `MCRelaxedSort_plain` shows.

Only model-checked: liveness (`Termination`), which is out of the prover's reach. Every invariant and
refinement the passing runs check is a theorem; `NoDuplicates`, `HeadsOnce` and `LeavesNoneBehind` are
parts or consequences of an `IInv` and have no run of their own. What the proofs do not cover is what the modules take
as given: that the external libraries behave as the actions marked external say, and
`HnswIterator` implementing `VectorSource`, which has no run either: a node inserted during a scan
is not one of the vectors there were when it began.

## 5. Not modelled yet, and the plan

Proofs: every safety property of the passing runs is a theorem. What could still be proved is that the
modules fit together: that a scan of `HnswIterator` without insertions implements `VectorSource`, and
that a child scan of `AccessMethods` yields what `Fagins` takes from it.

Of the code is left:

- two indexes of one name in two schemas, which share a path (`hnswindex.cpp:208`), and the one
  metadata file all spann indexes share (`spannindex_builder.hpp`, `SaveIndex`): `IndexStore` has
  one path;
- CREATE INDEX CONCURRENTLY, where rows are inserted during a build;
- the text handling of the rewriter (lower-casing, the search for keywords, the array of 100
  expressions): strings, with no state;
- calls of `topk()` from PL/pgSQL, which connects to SPI itself.

Not modelled, and not planned: that `BulkDelete` asks the callback about another TID than the
entry's (`hnswindex_scan.cpp:101`; the write through `stats` ends the process before the answer
matters), `spann_build` (it writes a list of TIDs next to an index that is built outside
the server), the KDT index and `MultiIndexScan` of `spann.patch` (the extension calls neither),
conversions and distance functions (`operator.cpp`, `util.cpp`: pure), model inference
(`model_mng.cpp`: calls an external runtime), scripts and evaluation, `new_pg.patch` (superseded).
