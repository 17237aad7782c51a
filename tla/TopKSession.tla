---------------------------- MODULE TopKSession ----------------------------
(***************************************************************************)
(* The calls of topk() (src/src/topk.cpp) and multicol_topk()              *)
(* (src/src/multicol_topk.cpp) in one session.  Both are set-returning     *)
(* functions that return one row per call and keep, between their calls,   *)
(* a connection of the session's SPI stack, the child queries planned in   *)
(* that connection's memory, and a state they allocate themselves.  The    *)
(* session may have several queries open at once, each with one or more    *)
(* such calls in its target list or in FROM.  What the operator computes   *)
(* is in module Fagins.                                                    *)
(***************************************************************************)
EXTENDS TopKArgs, FiniteSets, SequencesExt

CONSTANTS Calls,      \* occurrences of topk() or multicol_topk() in queries
          Portals,    \* queries and cursors
          Query,      \* the calls of each, in the order they are evaluated
          InFrom,     \* portals whose calls are in FROM, not a target list
          SqlArgs,    \* arguments <<k, ef, term_cond>>; no ef: multicol_topk
          Texts,      \* queries with approximate_sum: has a WHERE, LIMIT <<>> or <<n>>
          NumChild,   \* order-by expressions of a call
          None        \* no call

ASSUME SessionAssumption ==
  /\ IsFiniteSet(Calls) /\ None \notin Calls
  /\ Query \in [Portals -> Seq(Calls)] /\ InFrom \subseteq Portals
  /\ \A c \in Calls : \E p \in Portals : c \in Range(Query[p])
  /\ \A p, q \in Portals : \A i \in DOMAIN Query[p], j \in DOMAIN Query[q] :
       Query[p][i] = Query[q][j] => p = q /\ i = j
  /\ \A a \in SqlArgs : a \in Seq(SqlInt) /\ Len(a) \in {2, 3}
  /\ \A t \in Texts : t.limit # <<>> => t.limit[1] \in SqlInt
  /\ NumChild \in Nat \ {0}
  /\ 50 \in SqlInt

VARIABLES
  call,       \* each call: status, arguments, children planned, rows returned
  portal,     \* "none", "outer", "inner" (declared in the savepoint), "closed"
  running,    \* the call the executor is in, or None
  stack,      \* SPI connections: whose each is, if opened in the savepoint
  current,    \* whose multi-call context is the current one, None: the caller's
  sub,        \* a savepoint is established
  seqscan,    \* enable_seqscan
  setting,    \* what the user last set it to
  planFailed, \* planning raised an error since
  began,      \* <<c, d>>, both in progress: c began before d
  lost,       \* connections the end of a savepoint took away
  crossed,    \* the uses of topk() in this session were not well nested
  undefined   \* "no", or whose freed memory a call used, so that nothing is
              \* known of the session: its own "state", "queries", a "context"

callVars == <<call, running, current, began>>
guc == <<seqscan, setting, planFailed>>
vars == <<call, portal, running, stack, current, sub, seqscan, setting,
          planFailed, began, lost, crossed, undefined>>

NoCall == [status |-> "unused", args |-> <<>>, children |-> 0, rows |-> 0]

Status(c) == call[c].status
InProgress == {c \in Calls : Status(c) \in {"planning", "open"}}

PortalOf(c) == CHOOSE p \in Portals : c \in Range(Query[p])

\* The child queries of c live in the memory of c's connection.
Allocated(c) == \E i \in DOMAIN stack : stack[i].call = c

\* end_MultiFuncCall or the end of the query deletes the multi-call context.
Dangling == current # None /\ Status(current) \in {"unused", "done", "left"}

\* The call after c in its target list, or in its join, that is not done.
NextCall(c) ==
  LET calls == Query[PortalOf(c)]
      at == CHOOSE i \in DOMAIN calls : calls[i] = c
      later == {i \in DOMAIN calls : i > at /\ Status(calls[i]) # "done"}
  IN  IF later = {} THEN None
      ELSE calls[CHOOSE i \in later : \A j \in later : i <= j]

\* Connections opened in the savepoint are the youngest.
Kept == CHOOSE n \in 0 .. Len(stack) :
          /\ n # 0 => ~stack[n].inner
          /\ \A i \in n + 1 .. Len(stack) : stack[i].inner
Inner == {stack[i].call : i \in Kept + 1 .. Len(stack)}

Init ==
  /\ call = [c \in Calls |-> NoCall]
  /\ portal = [p \in Portals |-> "none"]
  /\ running = None /\ current = None
  /\ stack = <<>> /\ began = {}
  /\ sub = FALSE
  /\ setting \in BOOLEAN /\ seqscan = setting /\ planFailed = FALSE
  /\ lost = 0
  /\ crossed = FALSE /\ undefined = "no"

-----------------------------------------------------------------------------
(***************************************************************************)
(* PostgreSQL around the calls.                                            *)
(***************************************************************************)
\* A query starts or a cursor is declared.
Declare(p) ==
  /\ running = None /\ portal[p] = "none"
  /\ portal' = [portal EXCEPT ![p] = IF sub THEN "inner" ELSE "outer"]
  /\ UNCHANGED <<callVars, stack, sub, guc, lost, crossed, undefined>>

\* The next round of a target list, or the function scans of a FROM.
FetchRow(p) ==
  /\ running = None /\ portal[p] \in {"outer", "inner"}
  /\ \E i \in DOMAIN Query[p] :
       /\ Status(Query[p][i]) # "done"
       /\ \A j \in 1 .. i - 1 : Status(Query[p][j]) = "done"
       /\ running' = Query[p][i]
  /\ UNCHANGED <<call, current, began, portal, stack, sub, guc, lost, crossed,
                 undefined>>

\* Calls whose query ends without calling them again.
Left(gone) ==
  /\ call' = [c \in Calls |->
       IF c \in gone /\ c \in InProgress
       THEN [NoCall EXCEPT !.status = "left"] ELSE call[c]]
  /\ began' = {b \in began : b[1] \notin gone /\ b[2] \notin gone}

\* A cursor is closed, or a LIMIT is reached.
ClosePortal(p) ==
  /\ running = None /\ portal[p] \in {"outer", "inner"}
  /\ portal' = [portal EXCEPT ![p] = "closed"]
  /\ Left(Range(Query[p]))
  /\ UNCHANGED <<running, current, stack, sub, guc, lost, crossed, undefined>>

Savepoint ==
  /\ running = None /\ ~sub
  /\ sub' = TRUE
  /\ UNCHANGED <<callVars, portal, stack, guc, lost, crossed, undefined>>

\* AtEOSubXact_SPI pops what was connected in the savepoint.
PopInner ==
  /\ stack' = SubSeq(stack, 1, Kept)
  /\ lost' = lost + Len(stack) - Kept

Release ==
  /\ running = None /\ sub
  /\ sub' = FALSE
  /\ PopInner
  /\ crossed' = (crossed \/ Inner \cap InProgress # {})
  /\ portal' = [p \in Portals |->
                  IF portal[p] = "inner" THEN "outer" ELSE portal[p]]
  /\ UNCHANGED <<callVars, guc, undefined>>

\* Cursors declared in the savepoint end; those in also do.
RollBackSavepoint(also) ==
  LET ended == also \cup {p \in Portals : portal[p] = "inner"}
      gone == UNION {Range(Query[p]) : p \in ended}
  IN  /\ portal' = [p \in Portals |-> IF p \in ended THEN "closed" ELSE portal[p]]
      /\ Left(gone)
      /\ PopInner
      /\ crossed' = (crossed \/ (Inner \cap InProgress) \ gone # {})
      /\ running' = None /\ current' = None
      /\ UNCHANGED sub

RollBackTo ==
  /\ running = None /\ sub
  /\ RollBackSavepoint({})
  /\ UNCHANGED <<guc, undefined>>

\* AtEOXact_SPI empties the stack; portals and their contexts are gone.
EndTransaction ==
  /\ call' = [c \in Calls |-> NoCall]
  /\ portal' = [p \in Portals |-> "none"]
  /\ running' = None /\ current' = None
  /\ stack' = <<>> /\ began' = {}
  /\ sub' = FALSE /\ lost' = 0 /\ crossed' = FALSE

Commit ==
  /\ running = None
  /\ EndTransaction
  /\ UNCHANGED <<guc, undefined>>

\* ereport(ERROR) within call c: the savepoint or the transaction rolls back.
Error(c) ==
  IF sub THEN RollBackSavepoint({PortalOf(c)}) ELSE EndTransaction

(***************************************************************************)
(* A query with approximate_sum is rewritten, in PostgresMain, to a target *)
(* list with one call of topk() for its LIMIT, with fixed ef and           *)
(* term_cond.  The rewriter takes the LIMIT clause for granted, and at its *)
(* end frees the text of the WHERE clause, of which there need be none:    *)
(* then the server crashes and all sessions with it.                       *)
(***************************************************************************)
Rewrites(text) == text.where /\ text.limit # <<>>
Rewritten == {<<text.limit[1], 50, 50>> : text \in {t \in Texts : Rewrites(t)}}

RewriterCrashes ==
  /\ running = None
  /\ \E text \in Texts : ~Rewrites(text)
  /\ EndTransaction
  /\ setting' \in BOOLEAN /\ seqscan' = setting' /\ planFailed' = FALSE
  /\ UNCHANGED undefined

\* SET enable_seqscan between transactions.
SetSeqscan ==
  /\ \A p \in Portals : portal[p] = "none"
  /\ ~sub
  /\ setting' \in BOOLEAN /\ seqscan' = setting' /\ planFailed' = FALSE
  /\ UNCHANGED <<callVars, portal, stack, sub, lost, crossed, undefined>>

-----------------------------------------------------------------------------
(***************************************************************************)
(* The first call.                                                         *)
(***************************************************************************)
ArgsOf(a) == IF Len(a) = 3 THEN topkArgs(a[1], a[2], a[3])
             ELSE multicolTopkArgs(a[1], a[2])

(***************************************************************************)
(* getrelid opens and closes a connection of its own; then SPI_connect.    *)
(***************************************************************************)
Connect(c) ==
  /\ running = c /\ Status(c) = "unused" /\ ~Dangling
  /\ \E a \in SqlArgs \cup Rewritten :
       call' = [call EXCEPT ![c] =
                  [status |-> "planning", args |-> a, children |-> 0, rows |-> 0]]
  /\ stack' = Append(stack, [call |-> c, inner |-> sub])
  /\ began' = began \cup {<<d, c>> : d \in InProgress}
  /\ UNCHANGED <<portal, running, current, sub, guc, lost, crossed, undefined>>

\* getrelid does not find the table, or finds several.
NoRelation(c) ==
  /\ running = c /\ Status(c) = "unused" /\ ~Dangling
  /\ Error(c)
  /\ UNCHANGED <<guc, undefined>>

\* What extractIndexScanNode sets enable_seqscan to on its way out.
RestoreOn(old) == TRUE
Restored(old) == old

(***************************************************************************)
(* extractIndexScanNode and standard_ExecutorStart for one order-by        *)
(* expression; after the last, InitFaginsState.                            *)
(***************************************************************************)
PlanChild(c) ==
  /\ running = c /\ Status(c) = "planning"
  /\ call' = [call EXCEPT
       ![c].children = @ + 1,
       ![c].status = IF call[c].children + 1 = NumChild THEN "open" ELSE @]
  /\ seqscan' = Restored(seqscan)
  /\ UNCHANGED <<portal, running, current, began, stack, sub, setting, planFailed,
                 lost, crossed, undefined>>

\* The plan has no index scan: the setting is restored before the error.
NoIndexScan(c) ==
  /\ running = c /\ Status(c) = "planning"
  /\ Error(c)
  /\ seqscan' = Restored(seqscan)
  /\ UNCHANGED <<setting, planFailed, undefined>>

\* SPI_prepare raises the error: nothing restores the setting.
PrepareFails(c) ==
  /\ running = c /\ Status(c) = "planning"
  /\ Error(c)
  /\ seqscan' = FALSE /\ planFailed' = TRUE
  /\ UNCHANGED <<setting, undefined>>

-----------------------------------------------------------------------------
(***************************************************************************)
(* Every call, the first one included.                                     *)
(***************************************************************************)
ReturnsRow(c) == call[c].rows < ArgsOf(call[c].args).maxCalls

\* call_cntr < max_calls and execFagins has a row: SRF_RETURN_NEXT.
ReturnNext(c) ==
  LET next == IF PortalOf(c) \in InFrom THEN c ELSE NextCall(c)
  IN  /\ running = c /\ Status(c) = "open"
      /\ Allocated(c) /\ ~Dangling
      /\ ReturnsRow(c)
      /\ call' = [call EXCEPT ![c].rows = @ + 1]
      /\ running' = next
      /\ current' = IF next = None THEN None ELSE current
      /\ UNCHANGED <<began, portal, stack, sub, guc, lost, crossed, undefined>>

\* A child query fails.
ExecutionFails(c) ==
  /\ running = c /\ Status(c) = "open"
  /\ Allocated(c) /\ ~Dangling
  /\ ReturnsRow(c)
  /\ Error(c)
  /\ UNCHANGED <<guc, undefined>>

(***************************************************************************)
(* finish: EndFaginsState, then SPI_finish, which pops the youngest        *)
(* connection and makes the context current that was so at its             *)
(* SPI_connect, then SRF_RETURN_DONE.  EndFaginsState frees the state and  *)
(* then reads qDescs from it, to free that as well.  Here the allocator    *)
(* has left qDescs as it was; UseFreed has the other case.                 *)
(***************************************************************************)
EndThenFinish(c) == Allocated(c)
FinishThenEnd(c) == \E i \in 1 .. Len(stack) - 1 : stack[i].call = c
EndIsSafe(c) == EndThenFinish(c)

PopSpi == stack' = Front(stack)
ForgetPop == UNCHANGED stack
SPI_finish == PopSpi

ReturnDone(c) ==
  LET next == NextCall(c)
      inList == PortalOf(c) \notin InFrom
  IN  /\ running = c /\ Status(c) = "open"
      /\ EndIsSafe(c) /\ ~Dangling
      /\ SPI_finish
      /\ call' = [call EXCEPT ![c] = [NoCall EXCEPT !.status = "done"]]
      /\ began' = {b \in began : b[1] # c /\ b[2] # c}
      /\ running' = next
      /\ current' = IF inList /\ next # None THEN Last(stack).call ELSE None
      /\ crossed' = \/ crossed
                    \/ \E d \in Calls : <<c, d>> \in began
                    \/ inList /\ next # None /\ Status(next) = "unused"
      /\ UNCHANGED <<portal, sub, guc, lost, undefined>>

(***************************************************************************)
(* The call uses freed memory, and nothing is known from there on: the     *)
(* context that the end of another call deleted, the queries that a pop    *)
(* took with its connection, or, at its end, its own state where the       *)
(* allocator has overwritten it.                                           *)
(***************************************************************************)
UseFreed(c) ==
  /\ running = c
  /\ \/ /\ Dangling /\ Status(c) \in {"unused", "open"}
        /\ undefined' = "context"
     \/ /\ Status(c) = "open" /\ ~EndIsSafe(c)
        /\ undefined' = "queries"
     \/ /\ Status(c) = "open" /\ EndIsSafe(c) /\ ~Dangling
        /\ undefined' = "state"
  /\ UNCHANGED <<callVars, portal, stack, sub, guc, lost, crossed>>

Next ==
  /\ undefined = "no"
  /\ \/ \E p \in Portals : Declare(p) \/ FetchRow(p) \/ ClosePortal(p)
     \/ Savepoint \/ Release \/ RollBackTo \/ Commit \/ SetSeqscan
     \/ RewriterCrashes
     \/ \E c \in Calls :
          \/ Connect(c) \/ NoRelation(c)
          \/ PlanChild(c) \/ NoIndexScan(c) \/ PrepareFails(c)
          \/ ReturnNext(c) \/ ExecutionFails(c) \/ ReturnDone(c) \/ UseFreed(c)

Spec == Init /\ [][Next]_vars

-----------------------------------------------------------------------------
(***************************************************************************)
(* A call uses queries or a context that were freed under it only if a     *)
(* call ended while one begun after it was still open, or ended before a   *)
(* later call of its target list had begun, or a savepoint ended in which  *)
(* a call still open had begun.  Calls in FROM, nested cursors, failed and *)
(* abandoned calls do each other no harm, although SPI_finish pops the top *)
(* of the stack, whoever's it is, and abandoned calls leave their          *)
(* connections there.  The state, which every call reads after it has      *)
(* freed it itself, is no other call's affair.                             *)
(***************************************************************************)
NestedCallsKeepApart == undefined \in {"queries", "context"} => crossed

(***************************************************************************)
(* Every call that ends takes one connection away, and only an abandoned   *)
(* one leaves one, however the calls interleave: the stack is as deep as   *)
(* there are calls in progress or abandoned.                               *)
(***************************************************************************)
StackIsBalanced ==
  Len(stack) + lost = Cardinality({c \in Calls :
                                     Status(c) \in {"planning", "open", "left"}})

(***************************************************************************)
(* Whichever calls plan, fail, are abandoned or rolled back,               *)
(* enable_seqscan is what the user set, unless SPI_prepare raised an error *)
(* since: then every later query plans without sequential scans.           *)
(***************************************************************************)
SettingIsKept == ~planFailed => seqscan = setting

(***************************************************************************)
(* "restore old value of enable_seqscan" (topk.cpp:301 and                 *)
(* multicol_topk.cpp:301, after "store old value of enable_seqscan, and    *)
(* set it to false"): whatever a call does, the setting is what the user   *)
(* made it.  Refuted: an error in SPI_prepare leaves the function between  *)
(* the two, and enable_seqscan is no variable that an ERROR resets.        *)
(***************************************************************************)
SettingComesBack == seqscan = setting

(***************************************************************************)
(* A call in progress runs on arguments the operator can work with, and it *)
(* never returns more than k rows: none when k is negative.                *)
(***************************************************************************)
CallsFit ==
  \A c \in InProgress :
    /\ FitsOperator(ArgsOf(call[c].args))
    /\ call[c].rows > 0 => call[c].rows <= call[c].args[1]

-----------------------------------------------------------------------------
(***************************************************************************)
(* An inductive invariant.  A connection of its own for each call; calls   *)
(* of a target list begin in turn; and in well nested use the connections  *)
(* lie in the order in which their calls began.                            *)
(***************************************************************************)
TypeOK ==
  /\ call \in [Calls -> [status : {"unused", "planning", "open", "done", "left"},
                         args : Seq(SqlInt), children : Nat, rows : Nat]]
  /\ portal \in [Portals -> {"none", "outer", "inner", "closed"}]
  /\ running \in Calls \cup {None} /\ current \in Calls \cup {None}
  /\ stack \in Seq([call : Calls, inner : BOOLEAN])
  /\ began \in SUBSET (Calls \X Calls)
  /\ sub \in BOOLEAN /\ seqscan \in BOOLEAN /\ setting \in BOOLEAN
  /\ planFailed \in BOOLEAN /\ crossed \in BOOLEAN
  /\ undefined \in {"no", "state", "queries", "context"}
  /\ lost \in Nat

Open(p) == portal[p] \in {"outer", "inner"}

CallsOfPortals ==
  /\ \A c \in InProgress : Open(PortalOf(c))
  /\ \A c \in Calls : Status(c) = "left" => portal[PortalOf(c)] = "closed"
  /\ running # None => Open(PortalOf(running)) /\ Status(running) # "done"

BeginInTurn ==
  \A p \in Portals \ InFrom : \A i, j \in DOMAIN Query[p] :
    LET c == Query[p][i]
        d == Query[p][j]
    IN  i < j /\ (d \in InProgress \/ d = running) =>
          /\ Status(c) # "unused"
          /\ {c, d} \subseteq InProgress => <<c, d>> \in began

OwnConnections ==
  /\ \A i, j \in DOMAIN stack : stack[i].call = stack[j].call => i = j
  /\ \A i \in DOMAIN stack : Status(stack[i].call) # "unused"

WellNested ==
  ~crossed =>
    /\ current = None
    /\ \A c \in InProgress : Allocated(c)
    /\ \A i, j \in DOMAIN stack :
         i < j /\ {stack[i].call, stack[j].call} \subseteq InProgress
           => <<stack[i].call, stack[j].call>> \in began

ArgsGiven == \A c \in InProgress : call[c].args \in SqlArgs \cup Rewritten

IInv ==
  /\ TypeOK
  /\ CallsOfPortals
  /\ BeginInTurn
  /\ OwnConnections
  /\ WellNested
  /\ ArgsGiven
  /\ NestedCallsKeepApart
  /\ StackIsBalanced
  /\ SettingIsKept
  /\ CallsFit

=============================================================================
