------------------------------ MODULE RelaxedSort ------------------------------
(***************************************************************************)
(* A query with ORDER BY over an index scan, as src/patch/Postgres.patch   *)
(* makes PostgreSQL plan and run it.  An hnsw or spann scan is only        *)
(* roughly in order, so the planner puts a Sort above it, and the Sort     *)
(* stops fetching as soon as the scan says (xs_inorder, copied to the      *)
(* EState by IndexNext) that it has come in order and the sort holds as    *)
(* many rows as the LIMIT.                                                 *)
(*                                                                         *)
(* The scan is one of AccessMethods, or of "plain": an index of another    *)
(* column through a method of PostgreSQL that has no xs_inorder.  One      *)
(* EState serves the whole query: any other index scan in it, say of a     *)
(* subquery in the WHERE clause, writes the same flag.                     *)
(***************************************************************************)
EXTENDS AccessMethods

CONSTANTS
  Limit,     \* the LIMIT clause, 0 for none
  Shapes,    \* the paths: "scan", "result" (a projection on it), "join" on it
  Others     \* what other index scans of the query may set the flag to

\* The query has an ORDER BY: the index scan is given one, or is plain.
ASSUME SortAssumption ==
  /\ Kinds \subseteq {"order", "both"}
  /\ Limit \in Nat
  /\ Shapes \subseteq {"scan", "result", "join"}
  /\ Others \subseteq BOOLEAN

VARIABLES
  phase,      \* where the executor is
  shape,      \* the path
  passing,    \* the rows that satisfy the rest of the WHERE clause
  delivered,  \* history: the rows the index would yield
  inorder,    \* EState.is_index_inorder
  tuples,     \* the rows in the tuplesort
  result      \* what the query has returned

sortVars == <<phase, shape, passing, delivered, inorder, tuples, result>>
vars == <<scanVars, sortVars>>

(***************************************************************************)
(* create_ordered_paths.  The path claims the order of the index it is on; *)
(* for a LIMIT, and when the path is nothing but a scan under projections, *)
(* the claim is withdrawn if the method says it relaxes the order.         *)
(***************************************************************************)
PathIsSorted == method # "plain"
Relaxes == method \in {"hnsw", "spann"}   \* amcanrelaxedorderbyop
Relaxed == Limit > 0 /\ shape \in {"scan", "result"} /\ Relaxes
NeedsSort == ~PathIsSorted \/ Relaxed

StartQuery ==
  /\ phase = "plan"
  /\ pc = "unopened"
  /\ BeginScan
  /\ phase' = "fetch"
  /\ UNCHANGED <<shape, passing, delivered, inorder, tuples, result>>

(***************************************************************************)
(* ExecProcNode on the index scan: gettuple runs until it has a row.       *)
(***************************************************************************)
Fetch ==
  /\ phase = "fetch"
  /\ method # "plain"
  /\ \/ Start /\ delivered' = pending' \cup readAhead'
     \/ LaterCall /\ UNCHANGED delivered
  /\ phase' = "scan"
  /\ UNCHANGED <<shape, passing, inorder, tuples, result>>

Scan ==
  /\ phase = "scan"
  /\ Loop
  /\ UNCHANGED sortVars

\* A method that does not know of xs_inorder leaves what is there.
PlainFetch ==
  /\ phase = "fetch"
  /\ method = "plain"
  /\ \/ first /\ pending' \in SUBSET Row /\ delivered' = pending' /\ UNCHANGED outcome
     \/ /\ ~first /\ UNCHANGED delivered
        /\ \/ \E r \in pending : pending' = pending \ {r} /\ outcome' = r
           \/ pending = {} /\ outcome' = NoRow /\ UNCHANGED pending
  /\ first' = FALSE
  /\ phase' = IF first THEN "fetch" ELSE "scan"
  /\ UNCHANGED <<shape, passing, inorder, tuples, result, pc, args, workSpace,
                 inRange, queue, xsInorder, paused, readAhead, misses, seen,
                 returned, open>>

(***************************************************************************)
(* IndexNext has a row: it copies the flag, for rows that the WHERE clause *)
(* then drops too.                                                         *)
(***************************************************************************)
CopyFlag == inorder' = xsInorder

GotRow ==
  /\ phase = "scan" /\ pc = "idle"
  /\ outcome # NoRow
  /\ CopyFlag
  /\ phase' = IF outcome \in passing THEN "row" ELSE "fetch"
  /\ UNCHANGED <<shape, passing, delivered, tuples, result, scanVars>>

EmptySlotUnnoticed ==
  /\ phase = "scan" /\ pc = "idle"
  /\ outcome = NoRow
  /\ phase' = "row"
  /\ UNCHANGED <<shape, passing, delivered, inorder, tuples, result,
                 scanVars>>
NoMoreRows ==
  /\ phase = "scan" /\ pc = "idle"
  /\ outcome = NoRow
  /\ phase' = IF NeedsSort THEN "sorted" ELSE "done"
  /\ UNCHANGED <<shape, passing, delivered, inorder, tuples, result,
                 scanVars>>

\* A subquery runs its own index scan before the row gets to the Sort.
OtherScan ==
  /\ phase = "row"
  /\ inorder' \in Others \ {inorder}
  /\ UNCHANGED <<phase, shape, passing, delivered, tuples, result,
                 scanVars>>

(***************************************************************************)
(* ExecSort: put the row, and stop if the scan is in order and the heap of *)
(* the tuplesort is full.  bound stays 0 if there is no LIMIT.             *)
(***************************************************************************)
Bound == Limit
HeapNeverChecked(rows) == TRUE
HeapFull(rows) == Cardinality(rows) >= Bound

Put ==
  /\ phase = "row"
  /\ NeedsSort
  /\ tuples' = tuples \cup {outcome}
  /\ phase' = IF inorder /\ HeapFull(tuples') THEN "sorted" ELSE "fetch"
  /\ UNCHANGED <<shape, passing, delivered, inorder, result, scanVars>>

\* No Sort: the row goes to the Limit.
PassOn ==
  /\ phase = "row"
  /\ ~NeedsSort
  /\ result' = Append(result, outcome)
  /\ phase' = IF Limit > 0 /\ Len(result') = Limit THEN "done" ELSE "fetch"
  /\ UNCHANGED <<shape, passing, delivered, inorder, tuples, scanVars>>

(***************************************************************************)
(* The Sort returns its rows, nearest first, and the Limit stops it.       *)
(***************************************************************************)
EmitFarthest(r) ==
  /\ \A q \in tuples \ Range(result) : ~Nearer(r, q)
  /\ result' = Append(result, r)
EmitNearest(r) ==
  /\ \A q \in tuples \ Range(result) : ~Nearer(q, r)
  /\ result' = Append(result, r)
Emit(r) ==
  /\ phase = "sorted"
  /\ Limit > 0 => Len(result) < Limit
  /\ r \in tuples \ Range(result)
  /\ EmitNearest(r)
  /\ UNCHANGED <<phase, shape, passing, delivered, inorder, tuples,
                 scanVars>>

Finish ==
  /\ phase = "sorted"
  /\ (Limit > 0 /\ Len(result) = Limit) \/ tuples \subseteq Range(result)
  /\ phase' = "done"
  /\ UNCHANGED <<shape, passing, delivered, inorder, tuples, result,
                 scanVars>>

InitSort ==
  /\ InitScan
  /\ near = {}
  /\ phase = "plan"
  /\ shape \in Shapes
  /\ passing \in SUBSET Row
  /\ delivered = {}
  /\ inorder = FALSE
  /\ tuples = {}
  /\ result = << >>

NextSort ==
  \/ StartQuery
  \/ Fetch
  \/ Scan
  \/ PlainFetch
  \/ GotRow
  \/ NoMoreRows
  \/ OtherScan
  \/ Put
  \/ PassOn
  \/ \E r \in Row : Emit(r)
  \/ Finish

SortSpec == InitSort /\ [][NextSort]_vars

-----------------------------------------------------------------------------
SortTypeOK ==
  /\ TypeOK
  /\ phase \in {"plan", "fetch", "scan", "row", "sorted", "done"}
  /\ shape \in Shapes
  /\ passing \in SUBSET Row
  /\ delivered \in SUBSET Row
  /\ inorder \in BOOLEAN
  /\ tuples \in SUBSET Row
  /\ result \in Seq(Row)

(***************************************************************************)
(* Stopping early never makes an answer short: it has the LIMIT, or all    *)
(* the rows that satisfy the query, even if another scan has set the flag. *)
(* (Rows on which the scan itself gave up are not counted; see             *)
(* GivesUpWithReason.)                                                     *)
(***************************************************************************)
Abandoned == IF outcome = NoRow THEN pending ELSE {}
Answer == (delivered \ Abandoned) \cap passing

FullAnswer ==
  phase = "done" =>
    Len(result) = (IF Limit > 0 /\ Limit < Cardinality(Answer) THEN Limit
                   ELSE Cardinality(Answer))

(***************************************************************************)
(* The early stop is exact when xs_inorder was right: when the rows the    *)
(* claim rests on (the queue of an hnsw scan, what a spann scan read       *)
(* ahead) are at least as many as the LIMIT, and no row the index has      *)
(* besides is nearer than one of them, then the answer of the Sort to a    *)
(* query without other conditions is the nearest rows the index has.       *)
(***************************************************************************)
Basis == IF method = "spann" THEN readAhead ELSE queue

Settled ==
  /\ xsInorder
  /\ Limit <= Cardinality(Basis)
  /\ \A r \in delivered \ Basis, q \in Basis : ~Nearer(r, q)

ExactIfSettled ==
  phase = "done" /\ Relaxed /\ delivered \subseteq passing /\
  (delivered \subseteq tuples \/ Settled) =>
    \A r \in Range(result), q \in delivered \ Range(result) : ~Nearer(q, r)

(***************************************************************************)
(* The query is a top-k operator as RankedRows describes it: it delivers   *)
(* the nearest of the rows it put into the Sort, in order.  (What a plan   *)
(* without a Sort returns is no part of the promise.)                      *)
(***************************************************************************)
Promise == INSTANCE RankedRows WITH
  Tid <- Row, K <- IF Limit > 0 THEN Limit ELSE Cardinality(Row),
  score <- dist, scanned <- tuples,
  result <- IF NeedsSort THEN result ELSE << >>,
  closed <- (phase = "done" /\ NeedsSort)

PromiseSpec == Promise!Spec

-----------------------------------------------------------------------------
(***************************************************************************)
(* An inductive invariant.  Fetched are the rows the scan has returned; a  *)
(* row is Waiting until the Sort or the Limit gets it.                     *)
(***************************************************************************)
Fetched == IF method = "plain" THEN delivered \ pending ELSE Range(returned)
Waiting ==
  IF phase \in {"scan", "row"} /\ pc = "idle" /\ outcome # NoRow THEN {outcome} ELSE {}

PhasesFit ==
  /\ Ordered /\ ~argNull
  /\ phase = "plan" <=> pc = "unopened"
  /\ phase \in {"fetch", "row", "sorted", "done"} => pc = "idle"
  /\ phase = "scan" => pc \in {"prefetch", "call", "idle"}
  /\ phase \in {"scan", "row", "sorted", "done"} => ~first
  /\ phase = "row" => outcome \in passing
  /\ phase = "sorted" => NeedsSort
  /\ method = "plain" => pc \in {"unopened", "idle"}

FetchesAll ==
  /\ first => delivered = {} /\ pending = {}
  /\ ~first /\ method = "plain" => pending \subseteq delivered
  /\ ~first /\ method # "plain" => delivered = pending \cup Ahead \cup Range(seen)
  /\ Waiting \subseteq Fetched
  /\ ~first /\ method = "hnsw" => queue \subseteq Range(returned)

Sorts ==
  NeedsSort =>
    /\ tuples = (Fetched \ Waiting) \cap passing
    /\ Range(result) \subseteq tuples
    /\ phase \notin {"sorted", "done"} => result = << >>
    /\ phase \in {"sorted", "done"} => outcome = NoRow \/ Cardinality(tuples) >= Limit
    /\ phase = "done" =>
         tuples \subseteq Range(result) \/ (Limit > 0 /\ Len(result) = Limit)
    /\ \A r \in Range(result), q \in tuples \ Range(result) : ~Nearer(q, r)

Passes ==
  ~NeedsSort =>
    /\ tuples = {}
    /\ Range(result) = (Fetched \ Waiting) \cap passing
    /\ IF phase = "done" THEN outcome = NoRow \/ (Limit > 0 /\ Len(result) = Limit)
       ELSE Limit > 0 => Len(result) < Limit

ResultOnce ==
  /\ \A j, k \in 1 .. Len(result) : result[j] = result[k] => j = k
  /\ Limit > 0 => Len(result) <= Limit

SortInv ==
  /\ SortTypeOK
  /\ ScanInv
  /\ PhasesFit
  /\ FetchesAll
  /\ Sorts
  /\ Passes
  /\ ResultOnce

(***************************************************************************)
(* README.md: "It preserves all the features of PostgreSQL", of which an   *)
(* ORDER BY that orders is one, and shows "TopK" queries on an hnsw and an *)
(* sptag index.  Refuted: create_ordered_paths plans a Sort only where     *)
(* there is a LIMIT, no join, and a method that says it relaxes the order, *)
(* which sptag and pase_hnsw do not.                                       *)
(***************************************************************************)
ResultIsOrdered ==
  \A m, n \in 1 .. Len(result) : m < n => ~Nearer(result[n], result[m])

(***************************************************************************)
(* and a Sort that does not lose rows, over whatever index, another.       *)
(***************************************************************************)
NoRowLost == phase = "done" /\ Limit = 0 => Answer \subseteq Range(result)

(***************************************************************************)
(* README.md: "TopK + Filter", a WHERE with an ORDER BY and a LIMIT.  Then *)
(* the query returns as many rows as the LIMIT, or all that the index has  *)
(* and that satisfy the WHERE clause.  Refuted: a scan of a pase_hnsw      *)
(* index asks for 188 rows once, and those may be the ones the filter      *)
(* drops.                                                                  *)
(***************************************************************************)
LimitIsFilled ==
  phase = "done" /\ Limit > 0 =>
    Len(result) = Limit \/ delivered \cap passing \subseteq Range(result)

=============================================================================
