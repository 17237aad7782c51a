------------------------ MODULE TopKSession_proofs -------------------------
(***************************************************************************)
(* Proofs about the calls of topk() and multicol_topk(): their arguments   *)
(* always make a state the operator can run in, for every word size, and   *)
(* IInv of TopKSession is inductive, for any queries in any number.        *)
(***************************************************************************)
EXTENDS TopKSession, FiniteSetTheorems, SequenceTheorems, WellFoundedInduction, TLAPS

(* The arguments.                                                          *)

LEMMA HalfFacts ==
  /\ Half \in Nat /\ Modulus = 2 * Half /\ Half > 32
  /\ Modulus \in Nat /\ Modulus > 64
BY ModulusAssumption DEF Half

\* Reading a signed argument as unsigned.
LEMMA UnsignedFacts ==
  ASSUME NEW n \in SqlInt
  PROVE  /\ AsUint32(n) \in 0 .. Modulus - 1
         /\ AsUint32(n) = IF n >= 0 THEN n ELSE n + Modulus
<1>1. n \in Int /\ -Half <= n /\ n < Half /\ Modulus \in Nat /\ Modulus > 0
  BY HalfFacts DEF SqlInt
<1>2. CASE n >= 0
  <2>1. n % Modulus = n
    BY <1>1, <1>2, HalfFacts
  <2>2. QED
    BY <1>1, <1>2, <2>1, HalfFacts DEF AsUint32
<1>3. CASE n < 0
  <2>1. n % Modulus = n + Modulus
    BY <1>1, <1>3, HalfFacts
  <2>2. QED
    BY <1>1, <1>3, <2>1, HalfFacts DEF AsUint32
<1>4. QED
  BY <1>1, <1>2, <1>3

\* Reading it back into a signed integer gives the argument.
LEMMA RoundTrip ==
  ASSUME NEW n \in SqlInt
  PROVE  AsInt(AsUint32(n)) = n
BY UnsignedFacts, HalfFacts DEF AsInt, SqlInt

-----------------------------------------------------------------------------
\* What either call leaves is fit, whichever way the heap's size was found.
LEMMA FitFacts ==
  ASSUME NEW k \in SqlInt, NEW ef \in SqlInt, NEW termCond \in SqlInt
  PROVE  /\ AsInt(AsUint32(k)) = k /\ k \in Int
         /\ k > 0 => EfOf(k, ef) >= k /\ AsUint32(k) >= k
         /\ EfOf(k, ef) \in Nat /\ AsUint32(k) \in Nat
         /\ TermCondOf(termCond) \in Nat /\ TermCondOf(termCond) > 0
<1>1. AsInt(AsUint32(k)) = k /\ k \in Int
  BY RoundTrip DEF SqlInt
<1>2. AsUint32(k) \in Nat /\ AsUint32(ef) \in Nat /\ AsUint32(termCond) \in Nat
  BY UnsignedFacts
<1>3. k > 0 => AsUint32(k) = k
  BY <1>1, UnsignedFacts
<1>4. EfOf(k, ef) \in Nat /\ EfOf(k, ef) >= AsUint32(k)
  BY <1>2 DEF EfOf, DefaultEf
<1>5. TermCondOf(termCond) \in Nat /\ TermCondOf(termCond) > 0
  BY <1>2 DEF TermCondOf, DefaultTermCond
<1>6. QED
  BY <1>1, <1>2, <1>3, <1>4, <1>5

(***************************************************************************)
(* Whatever integers the query passes, the operator starts in a state its  *)
(* loop can run in, for every word size.                                   *)
(***************************************************************************)
THEOREM ArgsAreFit == ArgsFitOperator
<1> SUFFICES ASSUME NEW k \in SqlInt, NEW ef \in SqlInt, NEW termCond \in SqlInt
             PROVE  /\ FitsOperator(topkArgs(k, ef, termCond))
                    /\ FitsOperator(multicolTopkArgs(k, termCond))
                    /\ topkArgs(k, ef, termCond).maxCalls = k
  BY DEF ArgsFitOperator
<1>1. topkArgs(k, ef, termCond) =
        [ef |-> EfOf(k, ef), termCond |-> TermCondOf(termCond), maxCalls |-> k]
  BY FitFacts DEF topkArgs
<1>2. multicolTopkArgs(k, termCond) =
        [ef |-> AsUint32(k), termCond |-> TermCondOf(termCond), maxCalls |-> k]
  BY FitFacts DEF multicolTopkArgs
<1>3. QED
  BY <1>1, <1>2, FitFacts DEF FitsOperator

-----------------------------------------------------------------------------
(* Sequences, and the queries.                                             *)

LEMMA LeastNat ==
  ASSUME NEW T, T \subseteq Nat, T # {}
  PROVE  \E n \in T : \A m \in T : n <= m
<1>. DEFINE R == OpToRel(<, Nat)
<1>1. IsWellFoundedOn(R, Nat)
  BY NatLessThanWellFounded
<1>2. R = {p \in Nat \X Nat : p[1] < p[2]}
  BY DEF OpToRel
<1>. HIDE DEF R
<1>3. PICK n \in T : \A m \in T : ~ (<<m, n>> \in R)
  BY <1>1, WFMin
<1>4. \A m \in T : <<m, n>> \in Nat \X Nat /\ <<m, n>>[1] = m /\ <<m, n>>[2] = n
  OBVIOUS
<1>5. \A m \in T : ~(m < n)
  BY <1>2, <1>3, <1>4
<1>. QED  BY <1>5

Connection == [call : Calls, inner : BOOLEAN]

\* The connections that a savepoint leaves are the oldest.
LEMMA KeptFacts ==
  ASSUME TypeOK
  PROVE  /\ Len(stack) \in Nat /\ Kept \in 0 .. Len(stack)
         /\ Inner \subseteq Calls
         /\ SubSeq(stack, 1, Kept) \in Seq(Connection)
         /\ Len(SubSeq(stack, 1, Kept)) = Kept
         /\ \A i \in 1 .. Kept : SubSeq(stack, 1, Kept)[i] = stack[i]
         /\ \A i \in 1 .. Len(stack) : i \in 1 .. Kept \/ stack[i].call \in Inner
<1>1. stack \in Seq(Connection) /\ Len(stack) \in Nat
      /\ \A i \in 1 .. Len(stack) : stack[i] \in Connection
  BY LenProperties, ElementOfSeq DEF TypeOK, Connection
<1>. DEFINE T == {n \in 0 .. Len(stack) : \A i \in n + 1 .. Len(stack) : stack[i].inner}
<1>2. PICK n \in T : \A m \in T : n <= m
  <2>1. Len(stack) \in T /\ T \subseteq Nat
    BY <1>1
  <2>. HIDE DEF T
  <2>. QED  BY <2>1, LeastNat
<1>3. n # 0 => ~stack[n].inner
  <2>. SUFFICES ASSUME n # 0, stack[n].inner PROVE FALSE
    OBVIOUS
  <2>1. n - 1 \in 0 .. Len(stack) /\ ~(n <= n - 1)
    BY <1>1, <1>2
  <2>2. \A i \in (n - 1) + 1 .. Len(stack) : i = n \/ i \in n + 1 .. Len(stack)
    BY <1>1, <1>2
  <2>3. n - 1 \in T
    BY <1>2, <2>1, <2>2
  <2>. QED  BY <1>2, <2>1, <2>3
<1>4. Kept \in 0 .. Len(stack)
  BY <1>2, <1>3 DEF Kept
<1>. HIDE DEF T
<1>5. /\ SubSeq(stack, 1, Kept) \in Seq(Connection)
      /\ Len(SubSeq(stack, 1, Kept)) = Kept
      /\ \A i \in 1 .. Kept : SubSeq(stack, 1, Kept)[i] = stack[i]
  <2>1. Kept \in Int /\ 1 \in Int /\ \A i \in 1 .. Kept : stack[i] \in Connection
    BY <1>1, <1>4
  <2>. DEFINE k == Kept
              s == stack
  <2>. HIDE DEF k, s
  <2>2. k \in Nat /\ s \in Seq(Connection) /\ \A i \in 1 .. k : s[i] \in Connection
    BY <1>1, <1>4, <2>1 DEF k, s
  <2>3. /\ SubSeq(s, 1, k) \in Seq(Connection)
        /\ Len(SubSeq(s, 1, k)) = k
        /\ \A i \in 1 .. k : SubSeq(s, 1, k)[i] = s[i]
    BY <2>2, SubSeqProperties
  <2>. QED  BY <2>3 DEF k, s
<1>6. \A i \in 1 .. Len(stack) : i \in 1 .. Kept \/ i \in Kept + 1 .. Len(stack)
  BY <1>1, <1>4
<1>7. \A i \in Kept + 1 .. Len(stack) : i \in 1 .. Len(stack)
  BY <1>1, <1>4
<1>8. Inner \subseteq Calls
  BY <1>1, <1>7 DEF Inner, Connection
<1>9. \A i \in 1 .. Len(stack) : i \in 1 .. Kept \/ stack[i].call \in Inner
  BY <1>6 DEF Inner
<1>. QED  BY <1>1, <1>4, <1>5, <1>8, <1>9

\* Each call is in one place of one query.
LEMMA PortalFacts ==
  /\ \A p \in Portals : Len(Query[p]) \in Nat /\ DOMAIN Query[p] = 1 .. Len(Query[p])
  /\ \A p \in Portals : \A i \in DOMAIN Query[p] :
       Query[p][i] \in Calls /\ PortalOf(Query[p][i]) = p
  /\ \A c \in Calls : /\ PortalOf(c) \in Portals
                      /\ \E i \in DOMAIN Query[PortalOf(c)] : Query[PortalOf(c)][i] = c
<1>1. ASSUME NEW p \in Portals
      PROVE  /\ Len(Query[p]) \in Nat /\ DOMAIN Query[p] = 1 .. Len(Query[p])
             /\ \A i \in DOMAIN Query[p] : Query[p][i] \in Calls
  <2>1. Query[p] \in Seq(Calls)
    BY SessionAssumption
  <2>. QED  BY <2>1, LenProperties, ElementOfSeq
<1>2. \A p \in Portals : \A c : c \in Range(Query[p]) <=> \E i \in DOMAIN Query[p] : Query[p][i] = c
  BY DEF Range
<1>3. \A c \in Calls : PortalOf(c) \in Portals /\ c \in Range(Query[PortalOf(c)])
  BY SessionAssumption DEF PortalOf
<1>4. \A p \in Portals : \A i \in DOMAIN Query[p] : PortalOf(Query[p][i]) = p
  BY <1>1, <1>2, <1>3, SessionAssumption
<1>. QED  BY <1>1, <1>2, <1>3, <1>4

\* What follows a call.
LEMMA NextCallFacts ==
  ASSUME NEW c \in Calls, NextCall(c) # None
  PROVE  \E i, j \in DOMAIN Query[PortalOf(c)] :
           /\ i < j /\ Query[PortalOf(c)][i] = c /\ Query[PortalOf(c)][j] = NextCall(c)
           /\ Status(NextCall(c)) # "done"
           /\ \A k \in i + 1 .. j - 1 : Status(Query[PortalOf(c)][k]) = "done"
<1>. DEFINE p == PortalOf(c)
            calls == Query[p]
            at == CHOOSE i \in DOMAIN calls : calls[i] = c
            later == {i \in DOMAIN calls : i > at /\ Status(calls[i]) # "done"}
            n == CHOOSE i \in later : \A j \in later : i <= j
<1>1. NextCall(c) = IF later = {} THEN None ELSE calls[n]
  BY DEF NextCall
<1>2. later # {} /\ NextCall(c) = calls[n]
  BY <1>1
<1>3. p \in Portals /\ DOMAIN calls = 1 .. Len(calls) /\ Len(calls) \in Nat
      /\ \E i \in DOMAIN calls : calls[i] = c
  BY PortalFacts
<1>. HIDE DEF p, calls
<1>4. at \in DOMAIN calls /\ calls[at] = c
  BY <1>3
<1>. HIDE DEF at
<1>5. n \in later /\ \A j \in later : n <= j
  <2>1. later \subseteq Nat
    BY <1>3
  <2>2. \E i \in later : \A j \in later : i <= j
    BY <1>2, <2>1, LeastNat
  <2>. QED  BY <2>2
<1>6. n \in DOMAIN calls /\ n > at /\ Status(calls[n]) # "done"
  BY <1>5
<1>7. ASSUME NEW k \in at + 1 .. n - 1 PROVE Status(calls[k]) = "done"
  <2>1. k \in DOMAIN calls /\ k > at /\ ~(n <= k)
    BY <1>3, <1>4, <1>6
  <2>. QED  BY <1>5, <2>1
<1>. HIDE DEF n, later
<1>. QED  BY <1>2, <1>4, <1>6, <1>7 DEF calls, p

-----------------------------------------------------------------------------
(* The calls, without the planner setting and without undefined behaviour. *)

CoreType ==
  /\ call \in [Calls -> [status : {"unused", "planning", "open", "done", "left"},
                         args : Seq(SqlInt), children : Nat, rows : Nat]]
  /\ portal \in [Portals -> {"none", "outer", "inner", "closed"}]
  /\ running \in Calls \cup {None} /\ current \in Calls \cup {None}
  /\ stack \in Seq(Connection)
  /\ began \in SUBSET (Calls \X Calls)
  /\ sub \in BOOLEAN /\ crossed \in BOOLEAN
  /\ lost \in Nat

Core ==
  /\ CoreType
  /\ CallsOfPortals /\ BeginInTurn /\ OwnConnections /\ WellNested
  /\ ArgsGiven /\ StackIsBalanced /\ CallsFit

CallsOf(ended) == UNION {Range(Query[p]) : p \in ended}

LEMMA RequestFacts ==
  ASSUME NEW a \in SqlArgs \cup Rewritten
  PROVE  /\ a \in Seq(SqlInt) /\ a[1] \in SqlInt /\ a[1] \in Int
         /\ FitsOperator(ArgsOf(a)) /\ ArgsOf(a).maxCalls = a[1]
<1>1. a \in Seq(SqlInt) /\ Len(a) \in {2, 3}
  <2>1. CASE a \in SqlArgs
    BY <2>1, SessionAssumption
  <2>2. CASE a \in Rewritten
    <3>1. PICK t \in Texts : Rewrites(t) /\ a = <<t.limit[1], 50, 50>>
      BY <2>2 DEF Rewritten
    <3>2. t.limit[1] \in SqlInt /\ 50 \in SqlInt
      BY <3>1, SessionAssumption DEF Rewrites
    <3>. QED  BY <3>1, <3>2
  <2>. QED  BY <2>1, <2>2
<1>2. \A i \in 1 .. Len(a) : a[i] \in SqlInt
  BY <1>1, ElementOfSeq
<1>3. a[1] \in SqlInt /\ a[2] \in SqlInt /\ (Len(a) = 3 => a[3] \in SqlInt)
  BY <1>1, <1>2
<1>4. CASE Len(a) = 3
  <2>1. FitsOperator(topkArgs(a[1], a[2], a[3]))
        /\ topkArgs(a[1], a[2], a[3]).maxCalls = a[1]
    BY <1>3, <1>4, ArgsAreFit DEF ArgsFitOperator
  <2>. QED  BY <1>1, <1>3, <1>4, <2>1 DEF ArgsOf, SqlInt
<1>5. CASE Len(a) = 2
  <2>1. FitsOperator(multicolTopkArgs(a[1], a[2]))
    BY <1>3, ArgsAreFit DEF ArgsFitOperator
  <2>2. multicolTopkArgs(a[1], a[2]).maxCalls = a[1]
    BY <1>3, RoundTrip DEF multicolTopkArgs
  <2>. QED  BY <1>1, <1>3, <1>5, <2>1, <2>2 DEF ArgsOf, SqlInt
<1>. QED  BY <1>1, <1>4, <1>5

LEMMA CallsOfFacts ==
  ASSUME NEW ended \in SUBSET Portals
  PROVE  \A c \in Calls : c \in CallsOf(ended) <=> PortalOf(c) \in ended
<1>1. \A p \in Portals : \A c : c \in Range(Query[p]) <=> \E i \in DOMAIN Query[p] : Query[p][i] = c
  BY DEF Range
<1>. QED  BY <1>1, PortalFacts DEF CallsOf

LEMMA NothingLeft ==
  ASSUME CoreType, UNCHANGED <<call, began>>
  PROVE  Left(CallsOf({}))
<1>1. CallsOf({}) = {}
  BY DEF CallsOf
<1>2. call = [c \in Calls |-> call[c]]
  BY DEF CoreType
<1>3. began' = {b \in began : b[1] \notin {} /\ b[2] \notin {}}
  OBVIOUS
<1>4. call' = [c \in Calls |-> IF c \in {} /\ c \in InProgress
                               THEN [NoCall EXCEPT !.status = "left"] ELSE call[c]]
  BY <1>2
<1>. QED  BY <1>1, <1>3, <1>4 DEF Left

(***************************************************************************)
(* The session goes on without the calls of the portals that ended, and    *)
(* with the n oldest connections.                                          *)
(***************************************************************************)
LEMMA RestKeeps ==
  ASSUME Core, NEW ended \in SUBSET Portals, NEW n \in 0 .. Len(stack),
         Left(CallsOf(ended)),
         portal' \in [Portals -> {"none", "outer", "inner", "closed"}],
         sub' \in BOOLEAN, crossed' \in BOOLEAN,
         \A p \in ended : portal'[p] = "closed",
         \A p \in Portals \ ended :
           /\ portal[p] \in {"outer", "inner"} => portal'[p] \in {"outer", "inner"}
           /\ portal[p] = "closed" => portal'[p] = "closed",
         running' = None \/ (running' = running /\ ended = {}),
         current' \in {current, None},
         stack' = SubSeq(stack, 1, n), lost' = lost + Len(stack) - n,
         ~crossed' => ~crossed,
         ~crossed' => \A i \in n + 1 .. Len(stack) :
                        stack[i].call \notin InProgress \ CallsOf(ended)
  PROVE  Core'
<1>. CoreType /\ CallsOfPortals /\ BeginInTurn /\ OwnConnections /\ WellNested
     /\ ArgsGiven /\ StackIsBalanced /\ CallsFit
  BY DEF Core
<1>. DEFINE gone == CallsOf(ended)
<1>1. /\ call' = [c \in Calls |-> IF c \in gone /\ c \in InProgress
                                  THEN [NoCall EXCEPT !.status = "left"] ELSE call[c]]
      /\ began' = {b \in began : b[1] \notin gone /\ b[2] \notin gone}
  BY DEF Left
<1>2. \A c \in Calls : c \in gone <=> PortalOf(c) \in ended
  BY CallsOfFacts
<1>. HIDE DEF gone
<1>3. \A c \in Calls : Status(c) \in {"unused", "planning", "open", "done", "left"}
  BY DEF CoreType, Status
<1>4. \A c \in Calls : IF c \in gone /\ c \in InProgress
                       THEN Status(c)' = "left" ELSE call'[c] = call[c] /\ Status(c)' = Status(c)
  BY <1>1 DEF Status, NoCall
<1>5. \A c \in Calls : /\ c \in InProgress' <=> c \in InProgress /\ c \notin gone
                       /\ Status(c)' = "unused" <=> Status(c) = "unused"
                       /\ Status(c)' = "done" <=> Status(c) = "done"
                       /\ Status(c)' = "left" <=> Status(c) = "left" \/ (c \in gone /\ c \in InProgress)
  BY <1>3, <1>4 DEF InProgress
<1>6. /\ stack \in Seq(Connection) /\ Len(stack) \in Nat /\ DOMAIN stack = 1 .. Len(stack)
      /\ \A i \in 1 .. Len(stack) : stack[i] \in Connection
  BY LenProperties, ElementOfSeq DEF CoreType
<1>7. /\ stack' \in Seq(Connection) /\ Len(stack') = n /\ DOMAIN stack' = 1 .. n
      /\ \A i \in 1 .. n : stack'[i] = stack[i] /\ i \in 1 .. Len(stack)
  <2>. DEFINE s == stack
  <2>. HIDE DEF s
  <2>1. n \in Nat /\ s \in Seq(Connection) /\ \A i \in 1 .. n : s[i] \in Connection /\ i \in 1 .. Len(s)
    BY <1>6 DEF s
  <2>2. /\ SubSeq(s, 1, n) \in Seq(Connection)
        /\ Len(SubSeq(s, 1, n)) = n
        /\ \A i \in 1 .. n : SubSeq(s, 1, n)[i] = s[i]
    BY <2>1, SubSeqProperties
  <2>3. DOMAIN SubSeq(s, 1, n) = 1 .. n
    BY <2>2, LenProperties
  <2>. QED  BY <2>1, <2>2, <2>3 DEF s
<1>8. \A c \in InProgress' : call'[c] = call[c] /\ c \in InProgress /\ c \in Calls
  BY <1>4, <1>5 DEF InProgress
<1>9. CoreType'
  <2>1. [NoCall EXCEPT !.status = "left"]
          \in [status : {"unused", "planning", "open", "done", "left"},
               args : Seq(SqlInt), children : Nat, rows : Nat]
    <3>1. << >> \in Seq(SqlInt)
      OBVIOUS
    <3>. QED  BY <3>1 DEF NoCall
  <2>2. call' \in [Calls -> [status : {"unused", "planning", "open", "done", "left"},
                             args : Seq(SqlInt), children : Nat, rows : Nat]]
    BY <1>1, <2>1 DEF CoreType
  <2>3. lost' \in Nat
    BY <1>6 DEF CoreType
  <2>4. began' \in SUBSET (Calls \X Calls)
    BY <1>1 DEF CoreType
  <2>5. running' \in Calls \cup {None} /\ current' \in Calls \cup {None}
    BY DEF CoreType
  <2>. QED  BY <1>7, <2>2, <2>3, <2>4, <2>5 DEF CoreType
<1>10. CallsOfPortals'
  <2>1. ASSUME NEW c \in InProgress' PROVE portal'[PortalOf(c)] \in {"outer", "inner"}
    BY <1>2, <1>5, <1>8, PortalFacts DEF CallsOfPortals, Open
  <2>2. ASSUME NEW c \in Calls, Status(c)' = "left" PROVE portal'[PortalOf(c)] = "closed"
    BY <1>2, <1>5, <2>2, PortalFacts DEF CallsOfPortals
  <2>3. ASSUME running' # None
        PROVE  portal'[PortalOf(running')] \in {"outer", "inner"} /\ call'[running'].status # "done"
    <3>1. running' = running /\ ended = {} /\ running \in Calls
      BY <2>3 DEF CoreType
    <3>2. portal[PortalOf(running)] \in {"outer", "inner"} /\ Status(running) # "done"
      BY <2>3, <3>1 DEF CallsOfPortals, Open
    <3>3. Status(running)' # "done" => call'[running'].status # "done"
      BY DEF Status
    <3>4. call'[running].status # "done"
      BY <1>4, <3>1, <3>2 DEF Status, NoCall
    <3>. QED  BY <3>1, <3>2, <3>4, PortalFacts
  <2>4. \A c \in Calls : PortalOf(c)' = PortalOf(c)
    BY DEF PortalOf
  <2>. QED  BY <1>8, <2>1, <2>2, <2>3, <2>4 DEF CallsOfPortals, Open, Status, PortalOf
<1>11. BeginInTurn'
  <2>. SUFFICES ASSUME NEW p \in Portals \ InFrom, NEW i \in DOMAIN Query[p],
                       NEW j \in DOMAIN Query[p], i < j,
                       Query[p][j] \in InProgress' \/ Query[p][j] = running'
       PROVE  /\ Status(Query[p][i])' # "unused"
              /\ {Query[p][i], Query[p][j]} \subseteq InProgress'
                   => <<Query[p][i], Query[p][j]>> \in began'
    BY DEF BeginInTurn
  <2>1. Query[p][i] \in Calls /\ Query[p][j] \in Calls /\ Query[p][j] # None
    BY PortalFacts, SessionAssumption
  <2>2. Query[p][j] \in InProgress \/ Query[p][j] = running
    BY <1>8, <2>1
  <2>3. /\ Status(Query[p][i]) # "unused"
        /\ {Query[p][i], Query[p][j]} \subseteq InProgress
             => <<Query[p][i], Query[p][j]>> \in began
    BY <2>2 DEF BeginInTurn
  <2>. QED  BY <1>1, <1>5, <2>1, <2>3
<1>12. OwnConnections'
  <2>1. \A i, j \in 1 .. n : stack'[i].call = stack'[j].call => i = j
    BY <1>6, <1>7 DEF OwnConnections
  <2>2. ASSUME NEW i \in 1 .. n
        PROVE  call'[stack'[i].call].status # "unused"
    <3>. DEFINE c == stack[i].call
    <3>1. c \in Calls /\ Status(c) # "unused"
      BY <1>6, <1>7 DEF OwnConnections, Connection
    <3>. HIDE DEF c
    <3>2. call'[c].status # "unused"
      BY <1>5, <3>1 DEF Status
    <3>. QED  BY <1>7, <3>2 DEF c
  <2>. QED  BY <1>7, <2>1, <2>2 DEF OwnConnections, Status
<1>13. WellNested'
  <2>. SUFFICES ASSUME ~crossed'
       PROVE  /\ current' = None
              /\ \A c \in InProgress' : \E i \in 1 .. n : stack'[i].call = c
              /\ \A i, j \in 1 .. n :
                   i < j /\ {stack'[i].call, stack'[j].call} \subseteq InProgress'
                     => <<stack'[i].call, stack'[j].call>> \in began'
    BY <1>7 DEF WellNested, Allocated
  <2>1. /\ current = None
        /\ \A c \in InProgress : \E i \in 1 .. Len(stack) : stack[i].call = c
        /\ \A i, j \in 1 .. Len(stack) :
             i < j /\ {stack[i].call, stack[j].call} \subseteq InProgress
               => <<stack[i].call, stack[j].call>> \in began
    BY <1>6 DEF WellNested, Allocated
  <2>2. ASSUME NEW c \in InProgress' PROVE \E i \in 1 .. n : stack'[i].call = c
    <3>1. PICK i \in 1 .. Len(stack) : stack[i].call = c
      BY <1>8, <2>1
    <3>2. i \notin n + 1 .. Len(stack)
      BY <1>5, <1>8, <3>1 DEF gone
    <3>3. i \in 1 .. n
      BY <1>6, <3>2
    <3>. QED  BY <1>7, <3>1, <3>3
  <2>3. ASSUME NEW i \in 1 .. n, NEW j \in 1 .. n, i < j,
               {stack'[i].call, stack'[j].call} \subseteq InProgress'
        PROVE  <<stack'[i].call, stack'[j].call>> \in began'
    <3>1. <<stack[i].call, stack[j].call>> \in began
      BY <1>7, <1>8, <2>1, <2>3
    <3>. QED  BY <1>1, <1>5, <1>7, <1>8, <2>3, <3>1
  <2>. QED  BY <2>1, <2>2, <2>3
<1>14. ArgsGiven'
  BY <1>8 DEF ArgsGiven
<1>15. StackIsBalanced'
  <2>1. {c \in Calls : Status(c)' \in {"planning", "open", "left"}}
          = {c \in Calls : Status(c) \in {"planning", "open", "left"}}
    BY <1>4 DEF InProgress
  <2>2. Len(stack') + lost' = Len(stack) + lost
    <3>1. lost \in Nat /\ lost' = lost + Len(stack) - n /\ n \in Nat /\ Len(stack) \in Nat
          /\ Len(stack') = n
      BY <1>6, <1>7 DEF CoreType
    <3>. QED  BY ONLY <3>1
  <2>. QED  BY <2>1, <2>2 DEF StackIsBalanced
<1>16. CallsFit'
  BY <1>8 DEF CallsFit
<1>. QED  BY <1>9, <1>10, <1>11, <1>12, <1>13, <1>14, <1>15, <1>16 DEF Core

-----------------------------------------------------------------------------
(* The session around the calls.                                           *)

\* A step that ends no portal and takes no connection away.
LEMMA QuietKeeps ==
  ASSUME Core, UNCHANGED <<call, running, current, began, stack, lost, crossed>>,
         portal' \in [Portals -> {"none", "outer", "inner", "closed"}], sub' \in BOOLEAN,
         \A p \in Portals :
           /\ portal[p] \in {"outer", "inner"} => portal'[p] \in {"outer", "inner"}
           /\ portal[p] = "closed" => portal'[p] = "closed"
  PROVE  Core'
<1>1. CoreType
  BY DEF Core
<1>2. Left(CallsOf({}))
  BY <1>1, NothingLeft
<1>3. Len(stack) \in Nat /\ stack = SubSeq(stack, 1, Len(stack)) /\ lost \in Nat
  BY <1>1, LenProperties, SubSeqFull DEF CoreType
<1>4. Len(stack) \in 0 .. Len(stack) /\ lost' = lost + Len(stack) - Len(stack)
      /\ Len(stack) + 1 .. Len(stack) = {}
  <2>1. lost' = lost
    OBVIOUS
  <2>. QED  BY ONLY <1>3, <2>1
<1>5. crossed' \in BOOLEAN /\ crossed' = crossed /\ stack' = SubSeq(stack, 1, Len(stack))
  BY <1>1, <1>3 DEF CoreType
<1>. QED  BY <1>2, <1>4, <1>5, RestKeeps

LEMMA CloseKeeps ==
  ASSUME Core, NEW p \in Portals, ClosePortal(p)
  PROVE  Core'
<1>1. CoreType
  BY DEF Core
<1>. DEFINE ended == {p}
<1>2. CallsOf(ended) = Range(Query[p])
  BY DEF CallsOf
<1>3. /\ portal' = [portal EXCEPT ![p] = "closed"] /\ Left(CallsOf(ended))
      /\ running' = None
      /\ UNCHANGED <<current, stack, sub, lost, crossed>>
  BY <1>2 DEF ClosePortal, Open
<1>. HIDE DEF ended
<1>4. Len(stack) \in Nat /\ stack = SubSeq(stack, 1, Len(stack)) /\ lost \in Nat
  BY <1>1, LenProperties, SubSeqFull DEF CoreType
<1>5. Len(stack) \in 0 .. Len(stack) /\ lost' = lost + Len(stack) - Len(stack)
      /\ Len(stack) + 1 .. Len(stack) = {}
  <2>1. lost' = lost
    BY <1>3
  <2>. QED  BY ONLY <1>4, <2>1
<1>6. /\ crossed' \in BOOLEAN /\ crossed' = crossed /\ stack' = SubSeq(stack, 1, Len(stack))
      /\ sub' \in BOOLEAN
  BY <1>1, <1>3, <1>4 DEF CoreType
<1>7. /\ ended \in SUBSET Portals
      /\ portal' \in [Portals -> {"none", "outer", "inner", "closed"}]
      /\ \A q \in ended : portal'[q] = "closed"
      /\ \A q \in Portals \ ended : portal'[q] = portal[q]
  BY <1>1, <1>3 DEF CoreType, ended
<1>. QED  BY <1>3, <1>5, <1>6, <1>7, RestKeeps

LEMMA ReleaseKeeps ==
  ASSUME Core, TypeOK, Release
  PROVE  Core'
<1>1. CoreType
  BY DEF Core
<1>2. Left(CallsOf({}))
  BY <1>1, NothingLeft DEF Release, callVars
<1>3. /\ sub' = FALSE /\ running' = None /\ current' = current
      /\ stack' = SubSeq(stack, 1, Kept) /\ lost' = lost + Len(stack) - Kept
      /\ crossed' = (crossed \/ Inner \cap InProgress # {})
      /\ portal' = [p \in Portals |-> IF portal[p] = "inner" THEN "outer" ELSE portal[p]]
  BY DEF Release, PopInner, callVars
<1>4. /\ Kept \in 0 .. Len(stack)
      /\ \A i \in 1 .. Len(stack) : i \in 1 .. Kept \/ stack[i].call \in Inner
  BY KeptFacts
<1>5. ~crossed' => \A i \in Kept + 1 .. Len(stack) :
                     stack[i].call \notin InProgress \ CallsOf({})
  BY <1>3 DEF Inner
<1>6. crossed' \in BOOLEAN /\ sub' \in BOOLEAN
  BY <1>1, <1>3 DEF CoreType
<1>7. /\ portal' \in [Portals -> {"none", "outer", "inner", "closed"}]
      /\ \A p \in Portals :
           /\ portal[p] \in {"outer", "inner"} => portal'[p] \in {"outer", "inner"}
           /\ portal[p] = "closed" => portal'[p] = "closed"
  BY <1>1, <1>3 DEF CoreType
<1>8. /\ {} \in SUBSET Portals /\ \A p \in {} : portal'[p] = "closed"
      /\ \A p \in Portals \ {} :
           /\ portal[p] \in {"outer", "inner"} => portal'[p] \in {"outer", "inner"}
           /\ portal[p] = "closed" => portal'[p] = "closed"
      /\ current' \in {current, None} /\ (~crossed' => ~crossed)
  BY <1>3, <1>7
<1>. QED  BY <1>2, <1>3, <1>4, <1>5, <1>6, <1>7, <1>8, RestKeeps

LEMMA RollBackKeeps ==
  ASSUME Core, TypeOK, NEW also \in SUBSET Portals, RollBackSavepoint(also)
  PROVE  Core'
<1>1. CoreType
  BY DEF Core
<1>. DEFINE ended == also \cup {p \in Portals : portal[p] = "inner"}
<1>2. /\ portal' = [p \in Portals |-> IF p \in ended THEN "closed" ELSE portal[p]]
      /\ Left(CallsOf(ended))
      /\ stack' = SubSeq(stack, 1, Kept) /\ lost' = lost + Len(stack) - Kept
      /\ crossed' = (crossed \/ (Inner \cap InProgress) \ CallsOf(ended) # {})
      /\ running' = None /\ current' = None /\ sub' = sub
  BY DEF RollBackSavepoint, PopInner, CallsOf
<1>3. ended \in SUBSET Portals
  OBVIOUS
<1>. HIDE DEF ended
<1>4. Kept \in 0 .. Len(stack)
  BY KeptFacts
<1>5. ~crossed' => \A i \in Kept + 1 .. Len(stack) :
                     stack[i].call \notin InProgress \ CallsOf(ended)
  BY <1>2 DEF Inner
<1>6. crossed' \in BOOLEAN /\ sub' \in BOOLEAN
  BY <1>1, <1>2 DEF CoreType
<1>7. /\ portal' \in [Portals -> {"none", "outer", "inner", "closed"}]
      /\ \A p \in ended : portal'[p] = "closed"
      /\ \A p \in Portals \ ended : portal'[p] = portal[p]
  BY <1>1, <1>2, <1>3 DEF CoreType
<1>8. current' \in {current, None} /\ (~crossed' => ~crossed)
  BY <1>2
<1>. QED  BY <1>2, <1>3, <1>4, <1>5, <1>6, <1>7, <1>8, RestKeeps

\* A transaction begins with nothing.
LEMMA FreshFacts ==
  ASSUME call' = [c \in Calls |-> NoCall], portal' = [p \in Portals |-> "none"],
         running' = None, current' = None, stack' = <<>>, began' = {}, sub' = FALSE,
         lost' = 0, crossed' = FALSE
  PROVE  Core'
<1>1. \A c \in Calls : call'[c] = NoCall /\ Status(c)' = "unused"
  BY DEF Status, NoCall
<1>2. InProgress' = {}
  BY <1>1 DEF InProgress
<1>3. Len(stack') = 0 /\ DOMAIN stack' = {} /\ stack' \in Seq(Connection)
  <2>1. << >> \in Seq(Connection) /\ Len(<< >>) = 0 /\ DOMAIN << >> = {}
    OBVIOUS
  <2>. QED  BY <2>1
<1>4. CoreType'
  <2>1. NoCall \in [status : {"unused", "planning", "open", "done", "left"},
                    args : Seq(SqlInt), children : Nat, rows : Nat]
    <3>1. << >> \in Seq(SqlInt)
      OBVIOUS
    <3>. QED  BY <3>1 DEF NoCall
  <2>2. sub' \in BOOLEAN /\ crossed' \in BOOLEAN
    OBVIOUS
  <2>. QED  BY <1>3, <2>1, <2>2 DEF CoreType
<1>5. CallsOfPortals'
  BY <1>1, <1>2 DEF CallsOfPortals
<1>6. BeginInTurn'
  <2>. SUFFICES ASSUME NEW p \in Portals \ InFrom, NEW i \in DOMAIN Query[p],
                       NEW j \in DOMAIN Query[p],
                       Query[p][j] \in InProgress' \/ Query[p][j] = running'
       PROVE  FALSE
    BY DEF BeginInTurn
  <2>1. Query[p][j] \in Calls
    BY PortalFacts
  <2>. QED  BY <1>2, <2>1, SessionAssumption
<1>7. OwnConnections' /\ WellNested'
  BY <1>2, <1>3 DEF OwnConnections, WellNested
<1>8. ArgsGiven' /\ CallsFit'
  BY <1>2 DEF ArgsGiven, CallsFit
<1>9. StackIsBalanced'
  <2>1. {c \in Calls : Status(c)' \in {"planning", "open", "left"}} = {}
    BY <1>1
  <2>2. Cardinality({}) = 0
    BY FS_EmptySet
  <2>. QED  BY <1>3, <2>1, <2>2 DEF StackIsBalanced
<1>. QED  BY <1>4, <1>5, <1>6, <1>7, <1>8, <1>9 DEF Core

LEMMA EndKeeps ==
  ASSUME EndTransaction
  PROVE  Core'
BY FreshFacts DEF EndTransaction

LEMMA ErrorKeeps ==
  ASSUME Core, TypeOK, NEW c \in Calls, Error(c)
  PROVE  Core'
<1>1. {PortalOf(c)} \in SUBSET Portals
  BY PortalFacts
<1>2. CASE sub
  BY <1>1, <1>2, RollBackKeeps DEF Error
<1>3. CASE ~sub
  BY <1>3, EndKeeps DEF Error
<1>. QED  BY <1>2, <1>3

LEMMA FetchRowKeeps ==
  ASSUME Core, NEW p \in Portals, FetchRow(p)
  PROVE  Core'
<1>. CoreType /\ CallsOfPortals /\ BeginInTurn /\ OwnConnections /\ WellNested
     /\ ArgsGiven /\ StackIsBalanced /\ CallsFit
  BY DEF Core
<1>1. PICK i \in DOMAIN Query[p] :
        /\ Status(Query[p][i]) # "done"
        /\ \A j \in 1 .. i - 1 : Status(Query[p][j]) = "done"
        /\ running' = Query[p][i]
  BY DEF FetchRow
<1>2. /\ portal[p] \in {"outer", "inner"}
      /\ UNCHANGED <<call, current, began, portal, stack, sub, lost, crossed>>
  BY DEF FetchRow, Open
<1>3. /\ Query[p][i] \in Calls /\ PortalOf(Query[p][i]) = p
      /\ Len(Query[p]) \in Nat /\ DOMAIN Query[p] = 1 .. Len(Query[p])
  BY PortalFacts
<1>4. InProgress' = InProgress
  BY <1>2 DEF InProgress, Status
<1>5. CoreType'
  BY <1>1, <1>2, <1>3 DEF CoreType
<1>6. CallsOfPortals'
  <2>1. portal'[PortalOf(running')] \in {"outer", "inner"} /\ call'[running'].status # "done"
    BY <1>1, <1>2, <1>3 DEF Status
  <2>2. \A c \in InProgress' : portal'[PortalOf(c)] \in {"outer", "inner"}
    BY <1>2, <1>4 DEF CallsOfPortals, Open
  <2>3. \A c \in Calls : Status(c)' = "left" => portal'[PortalOf(c)] = "closed"
    BY <1>2 DEF CallsOfPortals, Status
  <2>. QED  BY <2>1, <2>2, <2>3 DEF CallsOfPortals, Open, Status, PortalOf
<1>7. BeginInTurn'
  <2>. SUFFICES ASSUME NEW q \in Portals \ InFrom, NEW m \in DOMAIN Query[q],
                       NEW n \in DOMAIN Query[q], m < n,
                       Query[q][n] \in InProgress \/ Query[q][n] = Query[p][i]
       PROVE  /\ Status(Query[q][m]) # "unused"
              /\ {Query[q][m], Query[q][n]} \subseteq InProgress
                   => <<Query[q][m], Query[q][n]>> \in began
    BY <1>1, <1>2, <1>4 DEF BeginInTurn, Status
  <2>1. CASE Query[q][n] \in InProgress
    BY <2>1 DEF BeginInTurn
  <2>2. CASE Query[q][n] = Query[p][i]
    <3>1. q = p /\ n = i
      BY <2>2, SessionAssumption
    <3>2. m \in 1 .. i - 1
      BY <1>3, <3>1
    <3>3. Status(Query[q][m]) = "done"
      BY <1>1, <3>1, <3>2
    <3>. QED  BY <3>3 DEF InProgress
  <2>. QED  BY <2>1, <2>2
<1>8. OwnConnections' /\ WellNested'
  BY <1>2, <1>4 DEF OwnConnections, WellNested, Status, Allocated
<1>9. ArgsGiven' /\ CallsFit' /\ StackIsBalanced'
  BY <1>2, <1>4 DEF ArgsGiven, CallsFit, StackIsBalanced, Status
<1>. QED  BY <1>5, <1>6, <1>7, <1>8, <1>9 DEF Core

-----------------------------------------------------------------------------
(* A call.                                                                 *)

LEMMA ConnectionFacts ==
  ASSUME CoreType
  PROVE  /\ Len(stack) \in Nat /\ DOMAIN stack = 1 .. Len(stack)
         /\ \A i \in 1 .. Len(stack) : stack[i] \in Connection /\ stack[i].call \in Calls
<1>1. /\ Len(stack) \in Nat /\ DOMAIN stack = 1 .. Len(stack)
      /\ \A i \in 1 .. Len(stack) : stack[i] \in Connection
  BY LenProperties, ElementOfSeq DEF CoreType
<1>2. \A s \in Connection : s.call \in Calls
  BY DEF Connection
<1>. QED  BY <1>1, <1>2

LEMMA ConnectKeeps ==
  ASSUME Core, NEW c \in Calls, Connect(c)
  PROVE  Core'
<1>. CoreType /\ CallsOfPortals /\ BeginInTurn /\ OwnConnections /\ WellNested
     /\ ArgsGiven /\ StackIsBalanced /\ CallsFit
  BY DEF Core
<1>1. PICK a \in SqlArgs \cup Rewritten :
        call' = [call EXCEPT ![c] = [status |-> "planning", args |-> a, children |-> 0,
                                     rows |-> 0]]
  BY DEF Connect
<1>. DEFINE top == [call |-> c, inner |-> sub]
<1>2. /\ running = c /\ Status(c) = "unused" /\ stack' = Append(stack, top)
      /\ began' = began \cup {<<d, c>> : d \in InProgress}
      /\ UNCHANGED <<portal, running, current, sub, lost, crossed>>
  BY DEF Connect
<1>3. /\ call'[c] = [status |-> "planning", args |-> a, children |-> 0, rows |-> 0]
      /\ Status(c)' = "planning"
      /\ \A d \in Calls \ {c} : call'[d] = call[d] /\ Status(d)' = Status(d)
  BY <1>1 DEF CoreType, Status
<1>4. c \notin InProgress /\ InProgress' = InProgress \cup {c} /\ InProgress \subseteq Calls
  BY <1>2, <1>3 DEF InProgress
<1>5. /\ Len(stack) \in Nat /\ DOMAIN stack = 1 .. Len(stack)
      /\ \A i \in 1 .. Len(stack) : stack[i] \in Connection /\ stack[i].call \in Calls
  BY ConnectionFacts
<1>6. top \in Connection /\ top.call = c
  BY DEF CoreType, Connection
<1>. HIDE DEF top
<1>7. /\ stack' \in Seq(Connection) /\ Len(stack') = Len(stack) + 1
      /\ DOMAIN stack' = 1 .. Len(stack) + 1
      /\ \A i \in 1 .. Len(stack) : stack'[i] = stack[i]
      /\ stack'[Len(stack) + 1] = top
  <2>1. stack \in Seq(Connection)
    BY DEF CoreType
  <2>2. /\ Append(stack, top) \in Seq(Connection)
        /\ Len(Append(stack, top)) = Len(stack) + 1
        /\ \A i \in 1 .. Len(stack) : Append(stack, top)[i] = stack[i]
        /\ Append(stack, top)[Len(stack) + 1] = top
    BY <1>6, <2>1, AppendProperties
  <2>3. DOMAIN Append(stack, top) = 1 .. Len(stack) + 1
    BY <2>2, LenProperties
  <2>. QED  BY <1>2, <2>2, <2>3
<1>8. \A i \in 1 .. Len(stack) + 1 :
        IF i = Len(stack) + 1 THEN stack'[i].call = c
        ELSE /\ i \in 1 .. Len(stack) /\ stack'[i] = stack[i]
             /\ stack[i].call \in Calls \ {c} /\ Status(stack[i].call) # "unused"
  BY <1>2, <1>5, <1>6, <1>7 DEF OwnConnections
<1>9. /\ FitsOperator(ArgsOf(a)) /\ a \in Seq(SqlInt)
  BY RequestFacts
<1>10. CoreType'
  <2>1. call' \in [Calls -> [status : {"unused", "planning", "open", "done", "left"},
                             args : Seq(SqlInt), children : Nat, rows : Nat]]
    BY <1>1, <1>9 DEF CoreType
  <2>2. began' \in SUBSET (Calls \X Calls)
    BY <1>2, <1>4 DEF CoreType
  <2>. QED  BY <1>2, <1>7, <2>1, <2>2 DEF CoreType
<1>11. CallsOfPortals'
  <2>1. portal[PortalOf(c)] \in {"outer", "inner"}
    BY <1>2, SessionAssumption DEF CallsOfPortals, Open
  <2>2. \A d \in InProgress' : portal'[PortalOf(d)] \in {"outer", "inner"}
    BY <1>2, <1>4, <2>1 DEF CallsOfPortals, Open
  <2>3. \A d \in Calls : Status(d)' = "left" => portal'[PortalOf(d)] = "closed"
    BY <1>2, <1>3 DEF CallsOfPortals
  <2>4. portal'[PortalOf(running')] \in {"outer", "inner"} /\ call'[running'].status # "done"
    BY <1>2, <1>3, <2>1
  <2>. QED  BY <2>2, <2>3, <2>4 DEF CallsOfPortals, Open, Status, PortalOf
<1>12. BeginInTurn'
  <2>. SUFFICES ASSUME NEW p \in Portals \ InFrom, NEW i \in DOMAIN Query[p],
                       NEW j \in DOMAIN Query[p], i < j,
                       Query[p][j] \in InProgress' \/ Query[p][j] = running'
       PROVE  /\ Status(Query[p][i])' # "unused"
              /\ {Query[p][i], Query[p][j]} \subseteq InProgress'
                   => <<Query[p][i], Query[p][j]>> \in began'
    BY DEF BeginInTurn
  <2>1. Query[p][i] \in Calls /\ Query[p][j] \in Calls
    BY PortalFacts
  <2>2. Query[p][j] \in InProgress \/ Query[p][j] = running
    BY <1>2, <1>4
  <2>3. /\ Status(Query[p][i]) # "unused"
        /\ {Query[p][i], Query[p][j]} \subseteq InProgress
             => <<Query[p][i], Query[p][j]>> \in began
    BY <2>2 DEF BeginInTurn
  <2>4. Query[p][i] # c
    BY <1>2, <2>3
  <2>. QED  BY <1>2, <1>3, <1>4, <2>1, <2>3, <2>4
<1>13. OwnConnections'
  <2>1. \A i, j \in 1 .. Len(stack) + 1 : stack'[i].call = stack'[j].call => i = j
    BY <1>5, <1>8 DEF OwnConnections
  <2>2. \A i \in 1 .. Len(stack) + 1 : call'[stack'[i].call].status # "unused"
    BY <1>3, <1>8 DEF Status
  <2>. QED  BY <1>7, <2>1, <2>2 DEF OwnConnections, Status
<1>14. WellNested'
  <2>. SUFFICES ASSUME ~crossed'
       PROVE  /\ current' = None
              /\ \A d \in InProgress' : \E i \in 1 .. Len(stack) + 1 : stack'[i].call = d
              /\ \A i, j \in 1 .. Len(stack) + 1 :
                   i < j /\ {stack'[i].call, stack'[j].call} \subseteq InProgress'
                     => <<stack'[i].call, stack'[j].call>> \in began'
    BY <1>7 DEF WellNested, Allocated
  <2>1. /\ current = None
        /\ \A d \in InProgress : \E i \in 1 .. Len(stack) : stack[i].call = d
        /\ \A i, j \in 1 .. Len(stack) :
             i < j /\ {stack[i].call, stack[j].call} \subseteq InProgress
               => <<stack[i].call, stack[j].call>> \in began
    BY <1>2, <1>5 DEF WellNested, Allocated
  <2>2. ASSUME NEW d \in InProgress'
        PROVE  \E i \in 1 .. Len(stack) + 1 : stack'[i].call = d
    <3>1. Len(stack) + 1 \in 1 .. Len(stack) + 1
          /\ \A i \in 1 .. Len(stack) : i \in 1 .. Len(stack) + 1
      BY <1>5
    <3>2. CASE d = c
      BY <1>8, <3>1, <3>2
    <3>3. CASE d \in InProgress
      BY <1>7, <2>1, <3>1, <3>3
    <3>. QED  BY <1>4, <3>2, <3>3
  <2>3. ASSUME NEW i \in 1 .. Len(stack) + 1, NEW j \in 1 .. Len(stack) + 1, i < j,
               {stack'[i].call, stack'[j].call} \subseteq InProgress'
        PROVE  <<stack'[i].call, stack'[j].call>> \in began'
    <3>1. i \in 1 .. Len(stack) /\ stack'[i] = stack[i] /\ stack[i].call \in InProgress
      BY <1>4, <1>5, <1>8, <2>3
    <3>2. CASE j = Len(stack) + 1
      BY <1>2, <1>8, <3>1, <3>2
    <3>3. CASE j # Len(stack) + 1
      <4>1. j \in 1 .. Len(stack) /\ stack'[j] = stack[j] /\ stack[j].call \in InProgress
        BY <1>4, <1>8, <2>3, <3>3
      <4>. QED  BY <1>2, <2>1, <2>3, <3>1, <4>1
    <3>. QED  BY <3>2, <3>3
  <2>. QED  BY <1>2, <2>1, <2>2, <2>3
<1>15. ArgsGiven'
  BY <1>3, <1>4 DEF ArgsGiven
<1>16. StackIsBalanced'
  <2>. DEFINE S == {d \in Calls : Status(d) \in {"planning", "open", "left"}}
              T == {d \in Calls : Status(d)' \in {"planning", "open", "left"}}
  <2>1. T = S \cup {c} /\ c \notin S /\ S \subseteq Calls
    BY <1>2, <1>3
  <2>2. Len(stack) + lost = Cardinality(S)
    BY DEF StackIsBalanced
  <2>. HIDE DEF S, T
  <2>3. Cardinality(S) \in Nat /\ Cardinality(T) = Cardinality(S) + 1
    <3>1. IsFiniteSet(S)
      BY <2>1, FS_Subset, SessionAssumption
    <3>. QED  BY <2>1, <3>1, FS_AddElement, FS_CardinalityType
  <2>4. lost \in Nat /\ lost' = lost
    BY <1>2 DEF CoreType
  <2>5. Len(stack') + lost' = Cardinality(T)
    BY ONLY <1>5, <1>7, <2>2, <2>3, <2>4
  <2>. QED  BY <2>5 DEF StackIsBalanced, T
<1>17. CallsFit'
  <2>. SUFFICES ASSUME NEW d \in InProgress'
       PROVE  /\ FitsOperator(ArgsOf(call'[d].args))
              /\ call'[d].rows > 0 => call'[d].rows <= call'[d].args[1]
    BY DEF CallsFit
  <2>1. CASE d = c
    BY <1>3, <1>9, <2>1
  <2>2. CASE d \in InProgress
    BY <1>3, <1>4, <2>2 DEF CallsFit
  <2>. QED  BY <1>4, <2>1, <2>2
<1>. QED
  BY <1>10, <1>11, <1>12, <1>13, <1>14, <1>15, <1>16, <1>17 DEF Core

\* A step of a call that keeps its connection and its place in the order.
LEMMA SameCallKeeps ==
  ASSUME Core, NEW c \in InProgress, running = c, NEW status \in {"planning", "open"},
         NEW children \in Nat, NEW rows \in Nat,
         rows > 0 => rows <= call[c].args[1],
         call' = [call EXCEPT ![c].status = status, ![c].children = children,
                              ![c].rows = rows],
         UNCHANGED <<began, portal, stack, sub, lost, crossed>>,
         current' \in {current, None},
         running' \in Calls \cup {None},
         running' # None =>
           /\ Status(running') # "done" /\ portal[PortalOf(running')] \in {"outer", "inner"}
           /\ \A p \in Portals \ InFrom : \A i, j \in DOMAIN Query[p] :
                i < j /\ Query[p][j] = running' => Status(Query[p][i]) # "unused"
  PROVE  Core'
<1>. CoreType /\ CallsOfPortals /\ BeginInTurn /\ OwnConnections /\ WellNested
     /\ ArgsGiven /\ StackIsBalanced /\ CallsFit
  BY DEF Core
<1>1. c \in Calls /\ Status(c) \in {"planning", "open"}
  BY DEF InProgress
<1>2. /\ call' = [call EXCEPT ![c] = [call[c] EXCEPT !.status = status,
                                        !.children = children, !.rows = rows]]
      /\ call'[c].status = status /\ call'[c].rows = rows /\ call'[c].args = call[c].args
      /\ \A d \in Calls \ {c} : call'[d] = call[d]
  BY <1>1 DEF CoreType
<1>3. /\ Status(c)' \in {"planning", "open"}
      /\ \A d \in Calls \ {c} : Status(d)' = Status(d)
      /\ \A d \in Calls : call'[d].args = call[d].args
  BY <1>1, <1>2 DEF Status
<1>4. InProgress' = InProgress
  BY <1>1, <1>3 DEF InProgress
<1>5. \A d \in Calls : /\ Status(d)' = "unused" <=> Status(d) = "unused"
                       /\ Status(d)' = "left" <=> Status(d) = "left"
                       /\ Status(d)' = "done" <=> Status(d) = "done"
                       /\ Status(d)' \in {"planning", "open", "left"}
                            <=> Status(d) \in {"planning", "open", "left"}
  BY <1>1, <1>3
<1>6. CoreType'
  <2>1. call' \in [Calls -> [status : {"unused", "planning", "open", "done", "left"},
                             args : Seq(SqlInt), children : Nat, rows : Nat]]
    <3>. DEFINE R == [status : {"unused", "planning", "open", "done", "left"},
                      args : Seq(SqlInt), children : Nat, rows : Nat]
                r == [call[c] EXCEPT !.status = status, !.children = children,
                                     !.rows = rows]
    <3>1. call \in [Calls -> R] /\ call[c] \in R
      BY <1>1 DEF CoreType
    <3>2. r \in R
      BY <3>1
    <3>3. call' = [call EXCEPT ![c] = r]
      BY <1>2
    <3>. HIDE DEF R, r
    <3>4. call' \in [Calls -> R]
      BY <3>1, <3>2, <3>3
    <3>. QED  BY <3>4 DEF R
  <2>2. current' \in Calls \cup {None}
    BY DEF CoreType
  <2>. QED  BY <2>1, <2>2 DEF CoreType
<1>7. CallsOfPortals'
  <2>1. \A d \in InProgress' : portal'[PortalOf(d)] \in {"outer", "inner"}
    BY <1>4 DEF CallsOfPortals, Open
  <2>2. \A d \in Calls : Status(d)' = "left" => portal'[PortalOf(d)] = "closed"
    BY <1>5 DEF CallsOfPortals
  <2>3. running' # None => portal'[PortalOf(running')] \in {"outer", "inner"}
                           /\ call'[running'].status # "done"
    BY <1>5 DEF Status
  <2>. QED  BY <2>1, <2>2, <2>3 DEF CallsOfPortals, Open, Status, PortalOf
<1>8. BeginInTurn'
  <2>. SUFFICES ASSUME NEW p \in Portals \ InFrom, NEW i \in DOMAIN Query[p],
                       NEW j \in DOMAIN Query[p], i < j,
                       Query[p][j] \in InProgress' \/ Query[p][j] = running'
       PROVE  /\ Status(Query[p][i])' # "unused"
              /\ {Query[p][i], Query[p][j]} \subseteq InProgress'
                   => <<Query[p][i], Query[p][j]>> \in began'
    BY DEF BeginInTurn
  <2>1. Query[p][i] \in Calls /\ Query[p][j] \in Calls /\ Query[p][j] # None
    BY PortalFacts, SessionAssumption
  <2>2. CASE Query[p][j] \in InProgress
    <3>1. /\ Status(Query[p][i]) # "unused"
          /\ {Query[p][i], Query[p][j]} \subseteq InProgress
               => <<Query[p][i], Query[p][j]>> \in began
      BY <2>2 DEF BeginInTurn
    <3>. QED  BY <1>4, <1>5, <2>1, <3>1
  <2>3. CASE Query[p][j] \notin InProgress
    BY <1>4, <1>5, <2>1, <2>3
  <2>. QED  BY <2>2, <2>3
<1>9. OwnConnections'
  <2>1. \A i \in DOMAIN stack : call'[stack[i].call].status # "unused"
    BY <1>5, ConnectionFacts DEF OwnConnections, Status
  <2>. QED  BY <2>1 DEF OwnConnections, Status
<1>10. WellNested'
  BY <1>4 DEF WellNested, Allocated
<1>11. ArgsGiven'
  BY <1>3, <1>4 DEF ArgsGiven, InProgress
<1>12. StackIsBalanced'
  BY <1>5 DEF StackIsBalanced
<1>13. CallsFit'
  <2>. SUFFICES ASSUME NEW d \in InProgress
       PROVE  /\ FitsOperator(ArgsOf(call'[d].args))
              /\ call'[d].rows > 0 => call'[d].rows <= call'[d].args[1]
    BY <1>4 DEF CallsFit
  <2>1. d \in Calls /\ FitsOperator(ArgsOf(call[d].args))
        /\ (call[d].rows > 0 => call[d].rows <= call[d].args[1])
    BY DEF CallsFit, InProgress
  <2>2. CASE d = c
    BY <1>2, <2>1, <2>2
  <2>3. CASE d # c
    BY <1>2, <2>1, <2>3
  <2>. QED  BY <2>2, <2>3
<1>. QED  BY <1>6, <1>7, <1>8, <1>9, <1>10, <1>11, <1>12, <1>13 DEF Core

\* All before the call that follows in a list have begun.
LEMMA NextInTurn ==
  ASSUME Core, NEW c \in InProgress, running = c, NextCall(c) # None
  PROVE  /\ NextCall(c) \in Calls \ {c} /\ Status(NextCall(c)) # "done"
         /\ PortalOf(NextCall(c)) = PortalOf(c) /\ portal[PortalOf(c)] \in {"outer", "inner"}
         /\ \A p \in Portals \ InFrom : \A i, j \in DOMAIN Query[p] :
              i < j /\ Query[p][j] = NextCall(c) => Status(Query[p][i]) # "unused"
         /\ PortalOf(c) \notin InFrom /\ NextCall(c) \in InProgress
              => <<c, NextCall(c)>> \in began
<1>. CoreType /\ CallsOfPortals /\ BeginInTurn
  BY DEF Core
<1>. DEFINE q == PortalOf(c)
            next == NextCall(c)
<1>1. c \in Calls /\ Status(c) \in {"planning", "open"}
  BY DEF InProgress
<1>2. \E m, n \in DOMAIN Query[q] :
        /\ m < n /\ Query[q][m] = c /\ Query[q][n] = next
        /\ Status(next) # "done"
        /\ \A k \in m + 1 .. n - 1 : Status(Query[q][k]) = "done"
  BY <1>1, NextCallFacts
<1>3. q \in Portals /\ portal[q] \in {"outer", "inner"}
  BY <1>1, PortalFacts DEF CallsOfPortals, Open
<1>. HIDE DEF next
<1>4. PICK m, n \in DOMAIN Query[q] :
        /\ m < n /\ Query[q][m] = c /\ Query[q][n] = next
        /\ Status(next) # "done"
        /\ \A k \in m + 1 .. n - 1 : Status(Query[q][k]) = "done"
  BY <1>2
<1>. HIDE DEF q
<1>5. DOMAIN Query[q] = 1 .. Len(Query[q]) /\ Len(Query[q]) \in Nat
      /\ next \in Calls /\ PortalOf(next) = q
  <2>1. DOMAIN Query[q] = 1 .. Len(Query[q]) /\ Len(Query[q]) \in Nat
    BY <1>3, PortalFacts
  <2>2. Query[q][n] \in Calls /\ PortalOf(Query[q][n]) = q
    BY <1>3, PortalFacts
  <2>. QED  BY <1>4, <2>1, <2>2
<1>6. next # c
  <2>. SUFFICES ASSUME Query[q][m] = Query[q][n] PROVE FALSE
    BY <1>4
  <2>1. m = n
    BY <1>3, SessionAssumption
  <2>2. m \in Int /\ n \in Int
    BY <1>5
  <2>. QED  BY <1>4, <2>1, <2>2
<1>7. ASSUME NEW p \in Portals \ InFrom, NEW i \in DOMAIN Query[p], NEW j \in DOMAIN Query[p],
             i < j, Query[p][j] = next
      PROVE  Status(Query[p][i]) # "unused"
  <2>1. p = q /\ j = n
    BY <1>3, <1>4, <1>7, SessionAssumption
  <2>2. CASE i < m
    BY <1>4, <2>1, <2>2 DEF BeginInTurn
  <2>3. CASE i = m
    BY <1>1, <1>4, <2>1, <2>3
  <2>4. CASE i > m
    <3>1. i \in m + 1 .. n - 1
      BY <1>5, <1>7, <2>1, <2>4
    <3>. QED  BY <1>4, <2>1, <3>1
  <2>5. i \in Int /\ m \in Int
    BY <1>5, <2>1
  <2>. QED  BY <2>2, <2>3, <2>4, <2>5
<1>8. q \notin InFrom /\ next \in InProgress => <<c, next>> \in began
  BY <1>3, <1>4 DEF BeginInTurn
<1>. QED  BY <1>3, <1>4, <1>5, <1>6, <1>7, <1>8 DEF q, next

LEMMA PlanChildKeeps ==
  ASSUME Core, NEW c \in Calls, PlanChild(c)
  PROVE  Core'
<1>. CoreType /\ CallsOfPortals /\ BeginInTurn /\ CallsFit
  BY DEF Core
<1>1. /\ running = c /\ Status(c) = "planning"
      /\ UNCHANGED <<portal, running, current, began, stack, sub, lost, crossed>>
  BY DEF PlanChild
<1>2. c \in InProgress /\ c # None
  BY <1>1, SessionAssumption DEF InProgress
<1>. DEFINE status == IF call[c].children + 1 = NumChild THEN "open" ELSE call[c].status
            children == call[c].children + 1
            rows == call[c].rows
<1>3. call' = [call EXCEPT ![c].status = status, ![c].children = children, ![c].rows = rows]
  BY DEF PlanChild, CoreType
<1>4. status \in {"planning", "open"} /\ children \in Nat /\ rows \in Nat
      /\ (rows > 0 => rows <= call[c].args[1])
  BY <1>1, <1>2 DEF CoreType, CallsFit, Status
<1>. HIDE DEF status, children, rows
<1>5. /\ Status(running) # "done" /\ portal[PortalOf(running)] \in {"outer", "inner"}
      /\ \A p \in Portals \ InFrom : \A i, j \in DOMAIN Query[p] :
           i < j /\ Query[p][j] = running => Status(Query[p][i]) # "unused"
  BY <1>1, <1>2 DEF CallsOfPortals, Open, BeginInTurn
<1>6. running' = running /\ running' \in Calls \cup {None} /\ current' \in {current, None}
  BY <1>1
<1>. QED  BY <1>1, <1>2, <1>3, <1>4, <1>5, <1>6, SameCallKeeps

LEMMA ReturnNextKeeps ==
  ASSUME Core, NEW c \in Calls, ReturnNext(c)
  PROVE  Core'
<1>. CoreType /\ CallsOfPortals /\ BeginInTurn /\ CallsFit /\ ArgsGiven
  BY DEF Core
<1>. DEFINE next == IF PortalOf(c) \in InFrom THEN c ELSE NextCall(c)
<1>1. /\ running = c /\ Status(c) = "open" /\ ReturnsRow(c)
      /\ call' = [call EXCEPT ![c].rows = @ + 1]
      /\ running' = next /\ current' = IF next = None THEN None ELSE current
      /\ UNCHANGED <<began, portal, stack, sub, lost, crossed>>
  BY DEF ReturnNext
<1>2. c \in InProgress /\ c # None
  BY <1>1, SessionAssumption DEF InProgress
<1>. DEFINE status == call[c].status
            children == call[c].children
            rows == call[c].rows + 1
<1>3. call' = [call EXCEPT ![c].status = status, ![c].children = children, ![c].rows = rows]
  BY <1>1 DEF CoreType
<1>4. status \in {"planning", "open"} /\ children \in Nat /\ rows \in Nat
  BY <1>1, <1>2 DEF CoreType, Status
<1>5. rows > 0 => rows <= call[c].args[1]
  <2>1. ArgsOf(call[c].args).maxCalls = call[c].args[1] /\ call[c].args[1] \in Int
    BY <1>2, RequestFacts DEF ArgsGiven
  <2>2. call[c].rows \in Nat /\ call[c].rows < call[c].args[1]
    BY <1>1, <2>1 DEF CoreType, ReturnsRow
  <2>. QED  BY <2>1, <2>2
<1>. HIDE DEF status, children, rows
<1>6. next # None =>
        /\ next \in Calls /\ Status(next) # "done"
        /\ portal[PortalOf(next)] \in {"outer", "inner"}
        /\ \A p \in Portals \ InFrom : \A i, j \in DOMAIN Query[p] :
             i < j /\ Query[p][j] = next => Status(Query[p][i]) # "unused"
  <2>1. CASE PortalOf(c) \in InFrom
    <3>1. next = c
      BY <2>1
    <3>2. Status(c) # "done" /\ portal[PortalOf(c)] \in {"outer", "inner"}
      BY <1>1, <1>2 DEF CallsOfPortals, Open
    <3>3. \A p \in Portals \ InFrom : \A i, j \in DOMAIN Query[p] :
            i < j /\ Query[p][j] = c => Status(Query[p][i]) # "unused"
      BY <1>1 DEF BeginInTurn
    <3>. HIDE DEF next
    <3>. QED  BY <3>1, <3>2, <3>3
  <2>2. CASE PortalOf(c) \notin InFrom
    <3>1. next = NextCall(c)
      BY <2>2
    <3>. HIDE DEF next
    <3>. QED  BY <1>1, <1>2, <3>1, NextInTurn
  <2>. QED  BY <2>1, <2>2
<1>. HIDE DEF next
<1>7. running' \in Calls \cup {None} /\ current' \in {current, None}
  BY <1>1, <1>6
<1>8. running' # None =>
        /\ Status(running') # "done" /\ portal[PortalOf(running')] \in {"outer", "inner"}
        /\ \A p \in Portals \ InFrom : \A i, j \in DOMAIN Query[p] :
             i < j /\ Query[p][j] = running' => Status(Query[p][i]) # "unused"
  <2>1. running' = next
    BY <1>1
  <2>. QED  BY <1>6, <2>1
<1>9. running = c /\ UNCHANGED <<began, portal, stack, sub, lost, crossed>>
  BY <1>1
<1>. QED  BY <1>2, <1>3, <1>4, <1>5, <1>7, <1>8, <1>9, SameCallKeeps

\* The call that ends pops the youngest connection, whoever's it is.
LEMMA ReturnDoneKeeps ==
  ASSUME Core, NEW c \in Calls, ReturnDone(c)
  PROVE  Core'
<1>. CoreType /\ CallsOfPortals /\ BeginInTurn /\ OwnConnections /\ WellNested
     /\ ArgsGiven /\ StackIsBalanced /\ CallsFit
  BY DEF Core
<1>. DEFINE next == NextCall(c)
            inList == PortalOf(c) \notin InFrom
<1>1. /\ running = c /\ Status(c) = "open" /\ Allocated(c)
      /\ stack' = Front(stack)
      /\ call' = [call EXCEPT ![c] = [NoCall EXCEPT !.status = "done"]]
      /\ began' = {b \in began : b[1] # c /\ b[2] # c}
      /\ running' = next
      /\ current' = (IF inList /\ next # None THEN Last(stack).call ELSE None)
      /\ crossed' = \/ crossed
                    \/ \E d \in Calls : <<c, d>> \in began
                    \/ inList /\ next # None /\ Status(next) = "unused"
      /\ UNCHANGED <<portal, sub, lost>>
  BY DEF ReturnDone, EndIsSafe, EndThenFinish, SPI_finish, PopSpi
<1>2. c \in InProgress /\ c # None
  BY <1>1, SessionAssumption DEF InProgress
<1>3. next # None =>
        /\ next \in Calls \ {c} /\ Status(next) # "done"
        /\ portal[PortalOf(next)] \in {"outer", "inner"}
        /\ \A p \in Portals \ InFrom : \A i, j \in DOMAIN Query[p] :
             i < j /\ Query[p][j] = next => Status(Query[p][i]) # "unused"
        /\ inList /\ next \in InProgress => <<c, next>> \in began
  <2>1. next # None =>
          /\ next \in Calls \ {c} /\ Status(next) # "done"
          /\ PortalOf(next) = PortalOf(c) /\ portal[PortalOf(c)] \in {"outer", "inner"}
          /\ \A p \in Portals \ InFrom : \A i, j \in DOMAIN Query[p] :
               i < j /\ Query[p][j] = next => Status(Query[p][i]) # "unused"
          /\ inList /\ next \in InProgress => <<c, next>> \in began
    BY <1>1, <1>2, NextInTurn
  <2>. HIDE DEF next, inList
  <2>. QED  BY <2>1
<1>. HIDE DEF next, inList
<1>4. /\ Status(c)' = "done" /\ \A d \in Calls \ {c} : call'[d] = call[d] /\ Status(d)' = Status(d)
  BY <1>1 DEF CoreType, Status, NoCall
<1>5. \A d \in Calls : /\ d \in InProgress' <=> d \in InProgress /\ d # c
                       /\ Status(d)' = "unused" <=> Status(d) = "unused"
                       /\ Status(d)' = "left" <=> Status(d) = "left"
                       /\ d # c => (Status(d)' = "done" <=> Status(d) = "done")
  <2>1. /\ c \notin InProgress' /\ Status(c)' # "unused" /\ Status(c) # "unused"
        /\ Status(c)' # "left" /\ Status(c) # "left"
    BY <1>1, <1>4 DEF InProgress
  <2>2. \A d \in Calls \ {c} : (d \in InProgress' <=> d \in InProgress) /\ Status(d)' = Status(d)
    BY <1>4 DEF InProgress
  <2>. QED  BY <2>1, <2>2
<1>6. InProgress' \subseteq InProgress /\ InProgress \subseteq Calls /\ InProgress' \subseteq Calls \ {c}
  BY <1>5 DEF InProgress
<1>7. /\ Len(stack) \in Nat /\ DOMAIN stack = 1 .. Len(stack)
      /\ \A i \in 1 .. Len(stack) : stack[i] \in Connection /\ stack[i].call \in Calls
  BY ConnectionFacts
<1>8. PICK at \in 1 .. Len(stack) : stack[at].call = c
  BY <1>1, <1>7 DEF Allocated
<1>. DEFINE n == Len(stack) - 1
<1>9. /\ n \in Nat /\ Len(stack) = n + 1 /\ Len(stack) \in 1 .. Len(stack)
      /\ \A i \in 1 .. Len(stack) : i = Len(stack) \/ i \in 1 .. n
      /\ \A i \in 1 .. n : i \in 1 .. Len(stack) /\ i < Len(stack)
  <2>1. Len(stack) \in Nat /\ Len(stack) >= 1
    BY <1>7, <1>8
  <2>. QED  BY ONLY <2>1
<1>10. /\ stack' \in Seq(Connection) /\ Len(stack') = n /\ DOMAIN stack' = 1 .. n
       /\ \A i \in 1 .. n : stack'[i] = stack[i]
  <2>. DEFINE s == stack
  <2>1. stack' = SubSeq(s, 1, n) /\ s \in Seq(Connection)
    BY <1>1 DEF Front, CoreType
  <2>2. n \in Nat /\ \A i \in 1 .. n : s[i] \in Connection
    BY <1>7, <1>9
  <2>. HIDE DEF n, s
  <2>3. /\ SubSeq(s, 1, n) \in Seq(Connection)
        /\ Len(SubSeq(s, 1, n)) = n
        /\ \A i \in 1 .. n : SubSeq(s, 1, n)[i] = s[i]
    BY <2>1, <2>2, SubSeqProperties
  <2>4. DOMAIN SubSeq(s, 1, n) = 1 .. n
    BY <2>3, LenProperties
  <2>. QED  BY <2>1, <2>3, <2>4 DEF s
<1>. HIDE DEF n
<1>11. Last(stack).call \in Calls
  BY <1>7, <1>9 DEF Last
<1>12. CoreType'
  <2>1. call' \in [Calls -> [status : {"unused", "planning", "open", "done", "left"},
                             args : Seq(SqlInt), children : Nat, rows : Nat]]
    <3>1. << >> \in Seq(SqlInt)
      OBVIOUS
    <3>2. [NoCall EXCEPT !.status = "done"]
            \in [status : {"unused", "planning", "open", "done", "left"},
                 args : Seq(SqlInt), children : Nat, rows : Nat]
      BY <3>1 DEF NoCall
    <3>. QED  BY <1>1, <3>2 DEF CoreType
  <2>2. crossed' \in BOOLEAN
    BY <1>1
  <2>3. running' \in Calls \cup {None}
    BY <1>1, <1>3
  <2>4. current' \in Calls \cup {None}
    BY <1>1, <1>11
  <2>5. began' \in SUBSET (Calls \X Calls)
    BY <1>1 DEF CoreType
  <2>. QED  BY <1>1, <1>10, <2>1, <2>2, <2>3, <2>4, <2>5 DEF CoreType
<1>13. CallsOfPortals'
  <2>1. \A d \in InProgress' : portal'[PortalOf(d)] \in {"outer", "inner"}
    BY <1>1, <1>6 DEF CallsOfPortals, Open
  <2>2. \A d \in Calls : Status(d)' = "left" => portal'[PortalOf(d)] = "closed"
    BY <1>1, <1>5 DEF CallsOfPortals
  <2>3. running' # None => portal'[PortalOf(running')] \in {"outer", "inner"}
                           /\ call'[running'].status # "done"
    <3>. SUFFICES ASSUME next # None
         PROVE portal[PortalOf(next)] \in {"outer", "inner"} /\ call'[next].status # "done"
      BY <1>1
    <3>. QED  BY <1>3, <1>4 DEF Status
  <2>. QED  BY <2>1, <2>2, <2>3 DEF CallsOfPortals, Open, Status, PortalOf
<1>14. BeginInTurn'
  <2>. SUFFICES ASSUME NEW p \in Portals \ InFrom, NEW i \in DOMAIN Query[p],
                       NEW j \in DOMAIN Query[p], i < j,
                       Query[p][j] \in InProgress' \/ Query[p][j] = running'
       PROVE  /\ Status(Query[p][i])' # "unused"
              /\ {Query[p][i], Query[p][j]} \subseteq InProgress'
                   => <<Query[p][i], Query[p][j]>> \in began'
    BY DEF BeginInTurn
  <2>1. Query[p][i] \in Calls /\ Query[p][j] \in Calls /\ Query[p][j] # None
    BY PortalFacts, SessionAssumption
  <2>2. CASE Query[p][j] \in InProgress
    <3>1. /\ Status(Query[p][i]) # "unused"
          /\ {Query[p][i], Query[p][j]} \subseteq InProgress
               => <<Query[p][i], Query[p][j]>> \in began
      BY <2>2 DEF BeginInTurn
    <3>. QED  BY <1>1, <1>5, <2>1, <3>1
  <2>3. CASE Query[p][j] \notin InProgress
    <3>1. Query[p][j] \notin InProgress' /\ Query[p][j] = next
      BY <1>1, <1>6, <2>3
    <3>2. Status(Query[p][i]) # "unused"
      BY <1>3, <2>1, <3>1
    <3>. QED  BY <1>5, <2>1, <3>1, <3>2
  <2>. QED  BY <2>2, <2>3
<1>15. OwnConnections'
  <2>1. \A i, j \in 1 .. n : stack'[i].call = stack'[j].call => i = j
    BY <1>7, <1>9, <1>10 DEF OwnConnections
  <2>2. \A i \in 1 .. n : call'[stack'[i].call].status # "unused"
    BY <1>5, <1>7, <1>9, <1>10 DEF OwnConnections, Status
  <2>. QED  BY <1>10, <2>1, <2>2 DEF OwnConnections, Status
<1>16. WellNested'
  <2>. SUFFICES ASSUME ~crossed'
       PROVE  /\ current' = None
              /\ \A d \in InProgress' : \E i \in 1 .. n : stack'[i].call = d
              /\ \A i, j \in 1 .. n :
                   i < j /\ {stack'[i].call, stack'[j].call} \subseteq InProgress'
                     => <<stack'[i].call, stack'[j].call>> \in began'
    BY <1>10 DEF WellNested, Allocated
  <2>1. /\ \A d \in InProgress : \E i \in 1 .. Len(stack) : stack[i].call = d
        /\ \A i, j \in 1 .. Len(stack) :
             i < j /\ {stack[i].call, stack[j].call} \subseteq InProgress
               => <<stack[i].call, stack[j].call>> \in began
    BY <1>1, <1>7 DEF WellNested, Allocated
  <2>2. /\ \A d \in Calls : <<c, d>> \notin began
        /\ ~(inList /\ next # None /\ Status(next) = "unused")
    BY <1>1
  <2>3. ~(inList /\ next # None)
    <3>. SUFFICES ASSUME inList, next # None PROVE FALSE
      OBVIOUS
    <3>1. Status(next) # "left" /\ next \in Calls /\ Status(next) # "done"
      BY <1>3 DEF CallsOfPortals
    <3>2. Status(next) \in {"planning", "open"}
      BY <2>2, <3>1 DEF CoreType, Status
    <3>3. <<c, next>> \in began
      BY <1>3, <3>1, <3>2 DEF InProgress
    <3>. QED  BY <2>2, <3>1, <3>3
  <2>4. current' = None
    BY <1>1, <2>3
  <2>5. ASSUME NEW d \in InProgress' PROVE \E i \in 1 .. n : stack'[i].call = d
    <3>1. PICK i \in 1 .. Len(stack) : stack[i].call = d
      BY <1>6, <2>1
    <3>2. d \in InProgress /\ d \in Calls /\ d # c
      BY <1>6
    <3>3. i # Len(stack)
      <4>. SUFFICES ASSUME i = Len(stack) PROVE FALSE
        OBVIOUS
      <4>1. at < i
        BY <1>7, <1>8, <3>1, <3>2
      <4>2. <<c, d>> \in began
        BY <1>2, <1>8, <2>1, <3>1, <3>2, <4>1
      <4>. QED  BY <2>2, <3>2, <4>2
    <3>. QED  BY <1>9, <1>10, <3>1, <3>3
  <2>6. ASSUME NEW i \in 1 .. n, NEW j \in 1 .. n, i < j,
               {stack'[i].call, stack'[j].call} \subseteq InProgress'
        PROVE  <<stack'[i].call, stack'[j].call>> \in began'
    <3>1. <<stack[i].call, stack[j].call>> \in began
          /\ stack[i].call # c /\ stack[j].call # c
      BY <1>6, <1>9, <1>10, <2>1, <2>6
    <3>. QED  BY <1>1, <1>10, <3>1
  <2>. QED  BY <2>4, <2>5, <2>6
<1>17. ArgsGiven'
  BY <1>4, <1>6 DEF ArgsGiven
<1>18. StackIsBalanced'
  <2>. DEFINE S == {d \in Calls : Status(d) \in {"planning", "open", "left"}}
              T == {d \in Calls : Status(d)' \in {"planning", "open", "left"}}
  <2>1. T = S \ {c} /\ c \in S /\ S \subseteq Calls
    BY <1>1, <1>4
  <2>2. Len(stack) + lost = Cardinality(S)
    BY DEF StackIsBalanced
  <2>. HIDE DEF S, T
  <2>3. Cardinality(S) \in Nat /\ Cardinality(T) = Cardinality(S) - 1
    <3>1. IsFiniteSet(S)
      BY <2>1, FS_Subset, SessionAssumption
    <3>. QED  BY <2>1, <3>1, FS_RemoveElement, FS_CardinalityType
  <2>4. lost \in Nat /\ lost' = lost
    BY <1>1 DEF CoreType
  <2>5. Len(stack') + lost' = Cardinality(T)
    BY ONLY <1>9, <1>10, <2>2, <2>3, <2>4
  <2>. QED  BY <2>5 DEF StackIsBalanced, T
<1>19. CallsFit'
  BY <1>4, <1>6 DEF CallsFit
<1>. QED
  BY <1>12, <1>13, <1>14, <1>15, <1>16, <1>17, <1>18, <1>19 DEF Core

-----------------------------------------------------------------------------
(* The theorems.                                                           *)

SettingFits ==
  /\ seqscan \in BOOLEAN /\ setting \in BOOLEAN /\ planFailed \in BOOLEAN
  /\ SettingIsKept

\* enable_seqscan.
LEMMA SettingKeeps ==
  ASSUME SettingFits, [Next]_vars
  PROVE  SettingFits'
<1>. seqscan \in BOOLEAN /\ setting \in BOOLEAN /\ planFailed \in BOOLEAN /\ SettingIsKept
  BY DEF SettingFits
<1>1. CASE UNCHANGED guc
  BY <1>1 DEF guc, SettingFits, SettingIsKept
<1>2. CASE setting' \in BOOLEAN /\ seqscan' = setting' /\ planFailed' = FALSE
  BY <1>2 DEF SettingFits, SettingIsKept
<1>3. CASE seqscan' = seqscan /\ UNCHANGED <<setting, planFailed>>
  BY <1>3 DEF SettingFits, SettingIsKept
<1>4. CASE seqscan' = FALSE /\ planFailed' = TRUE /\ setting' = setting
  BY <1>4 DEF SettingFits, SettingIsKept
<1>5. CASE UNCHANGED vars
  BY <1>1, <1>5 DEF vars, guc
<1>6. ASSUME NEW p \in Portals, Declare(p) \/ FetchRow(p) \/ ClosePortal(p)
      PROVE  UNCHANGED guc
  BY <1>6 DEF Declare, FetchRow, ClosePortal
<1>7. CASE Savepoint \/ Release \/ RollBackTo \/ Commit
  BY <1>1, <1>7 DEF Savepoint, Release, RollBackTo, Commit
<1>8. CASE SetSeqscan \/ RewriterCrashes
  BY <1>2, <1>8 DEF SetSeqscan, RewriterCrashes
<1>9. ASSUME NEW c \in Calls, Connect(c) \/ NoRelation(c) \/ ReturnNext(c)
                              \/ ExecutionFails(c) \/ ReturnDone(c) \/ UseFreed(c)
      PROVE  UNCHANGED guc
  BY <1>9 DEF Connect, NoRelation, ReturnNext, ExecutionFails, ReturnDone, UseFreed
<1>10. ASSUME NEW c \in Calls, PlanChild(c) \/ NoIndexScan(c)
       PROVE  seqscan' = seqscan /\ UNCHANGED <<setting, planFailed>>
  BY <1>10 DEF PlanChild, NoIndexScan, Restored
<1>11. ASSUME NEW c \in Calls, PrepareFails(c)
       PROVE  seqscan' = FALSE /\ planFailed' = TRUE /\ setting' = setting
  BY <1>11 DEF PrepareFails
<1>. QED
  BY <1>1, <1>3, <1>4, <1>5, <1>6, <1>7, <1>8, <1>9, <1>10, <1>11 DEF Next

UndefinedType == undefined \in {"no", "state", "queries", "context"}

\* What another call freed is used only where use is not well nested.
LEMMA SafeKeeps ==
  ASSUME Core, UndefinedType, NestedCallsKeepApart, [Next]_vars
  PROVE  UndefinedType' /\ NestedCallsKeepApart'
<1>1. CASE UNCHANGED vars
  BY <1>1 DEF vars, UndefinedType, NestedCallsKeepApart
<1>2. CASE undefined' = undefined /\ undefined = "no"
  BY <1>2 DEF UndefinedType, NestedCallsKeepApart
<1>3. ASSUME NEW p \in Portals, Declare(p) \/ FetchRow(p) \/ ClosePortal(p)
      PROVE  undefined' = undefined
  BY <1>3 DEF Declare, FetchRow, ClosePortal
<1>4. ASSUME Savepoint \/ Release \/ RollBackTo \/ Commit \/ SetSeqscan \/ RewriterCrashes
      PROVE  undefined' = undefined
  BY <1>4 DEF Savepoint, Release, RollBackTo, Commit, SetSeqscan, RewriterCrashes
<1>5. ASSUME NEW c \in Calls, Connect(c) \/ NoRelation(c) \/ PlanChild(c) \/ NoIndexScan(c)
                              \/ PrepareFails(c) \/ ReturnNext(c) \/ ExecutionFails(c)
                              \/ ReturnDone(c)
      PROVE  undefined' = undefined
  BY <1>5 DEF Connect, NoRelation, PlanChild, NoIndexScan, PrepareFails, ReturnNext,
             ExecutionFails, ReturnDone
<1>6. ASSUME NEW c \in Calls, UseFreed(c)
      PROVE  undefined' \in {"state", "queries", "context"}
             /\ (undefined' # "state" => crossed')
  <2>1. /\ running = c /\ crossed' = crossed
        /\ \/ Dangling /\ undefined' = "context"
           \/ Status(c) = "open" /\ ~Allocated(c) /\ undefined' = "queries"
           \/ undefined' = "state"
    BY <1>6 DEF UseFreed, EndIsSafe, EndThenFinish
  <2>2. CASE ~crossed
    <3>1. current = None /\ \A d \in InProgress : Allocated(d)
      BY <2>2 DEF Core, WellNested
    <3>. QED  BY <2>1, <3>1 DEF Dangling, InProgress
  <2>. QED  BY <2>1, <2>2
<1>. QED
  BY <1>1, <1>2, <1>3, <1>4, <1>5, <1>6 DEF Next, UndefinedType, NestedCallsKeepApart

LEMMA NextKeepsCore ==
  ASSUME Core, TypeOK, [Next]_vars
  PROVE  Core'
<1>. CoreType
  BY DEF Core
<1>1. ASSUME NEW p \in Portals, Declare(p) PROVE Core'
  <2>1. /\ UNCHANGED <<call, running, current, began, stack, lost, crossed, sub>>
        /\ portal[p] = "none"
        /\ portal' = [portal EXCEPT ![p] = IF sub THEN "inner" ELSE "outer"]
    BY <1>1 DEF Declare, callVars
  <2>2. /\ portal' \in [Portals -> {"none", "outer", "inner", "closed"}]
        /\ sub' \in BOOLEAN
        /\ \A q \in Portals :
             /\ portal[q] \in {"outer", "inner"} => portal'[q] \in {"outer", "inner"}
             /\ portal[q] = "closed" => portal'[q] = "closed"
    BY <2>1 DEF CoreType
  <2>. QED  BY <2>1, <2>2, QuietKeeps
<1>2. ASSUME NEW p \in Portals, FetchRow(p) PROVE Core'
  BY <1>2, FetchRowKeeps
<1>3. ASSUME NEW p \in Portals, ClosePortal(p) PROVE Core'
  BY <1>3, CloseKeeps
<1>4. CASE Savepoint \/ SetSeqscan \/ (\E c \in Calls : UseFreed(c)) \/ UNCHANGED vars
  <2>1. /\ UNCHANGED <<call, running, current, began, stack, lost, crossed, portal>>
        /\ sub' \in {sub, TRUE}
    BY <1>4 DEF Savepoint, SetSeqscan, UseFreed, vars, callVars
  <2>2. sub' \in BOOLEAN /\ portal' \in [Portals -> {"none", "outer", "inner", "closed"}]
    BY <2>1 DEF CoreType
  <2>. QED  BY <2>1, <2>2, QuietKeeps
<1>5. CASE Release
  BY <1>5, ReleaseKeeps
<1>6. CASE RollBackTo
  <2>1. RollBackSavepoint({}) /\ {} \in SUBSET Portals
    BY <1>6 DEF RollBackTo
  <2>. QED  BY <2>1, RollBackKeeps
<1>7. CASE Commit \/ RewriterCrashes
  BY <1>7, EndKeeps DEF Commit, RewriterCrashes
<1>8. ASSUME NEW c \in Calls, Connect(c) PROVE Core'
  BY <1>8, ConnectKeeps
<1>9. ASSUME NEW c \in Calls, NoRelation(c) \/ NoIndexScan(c) \/ PrepareFails(c)
                              \/ ExecutionFails(c)
      PROVE  Core'
  BY <1>9, ErrorKeeps DEF NoRelation, NoIndexScan, PrepareFails, ExecutionFails
<1>10. ASSUME NEW c \in Calls, PlanChild(c) PROVE Core'
  BY <1>10, PlanChildKeeps
<1>11. ASSUME NEW c \in Calls, ReturnNext(c) PROVE Core'
  BY <1>11, ReturnNextKeeps
<1>12. ASSUME NEW c \in Calls, ReturnDone(c) PROVE Core'
  BY <1>12, ReturnDoneKeeps
<1>. QED
  BY <1>1, <1>2, <1>3, <1>4, <1>5, <1>6, <1>7, <1>8, <1>9, <1>10, <1>11, <1>12 DEF Next

LEMMA IInvIsCore == /\ IInv <=> Core /\ SettingFits /\ UndefinedType /\ NestedCallsKeepApart
                    /\ IInv' <=> Core' /\ SettingFits' /\ UndefinedType' /\ NestedCallsKeepApart'
BY DEF IInv, Core, CoreType, TypeOK, Connection, SettingFits, UndefinedType

(***************************************************************************)
(* However calls, cursors, savepoints and errors follow one another in a   *)
(* session: each call has one connection, calls of a target list begin in  *)
(* turn, and while use is well nested the connections lie in the order in  *)
(* which their calls began.                                                *)
(***************************************************************************)
THEOREM Inductive == Spec => []IInv
<1>1. Init => IInv
  <2>. SUFFICES ASSUME Init PROVE IInv
    OBVIOUS
  <2>1. Core
    <3>. DEFINE S == {c \in Calls : Status(c) \in {"planning", "open", "left"}}
    <3>1. \A c \in Calls : call[c] = NoCall /\ Status(c) = "unused"
      BY DEF Init, Status, NoCall
    <3>2. InProgress = {} /\ S = {} /\ Cardinality(S) = 0
      BY <3>1, FS_EmptySet DEF InProgress
    <3>3. /\ stack = << >> /\ Len(stack) = 0 /\ DOMAIN stack = {} /\ stack \in Seq(Connection)
          /\ << >> \in Seq(SqlInt)
      BY DEF Init
    <3>4. CoreType
      <4>1. NoCall \in [status : {"unused", "planning", "open", "done", "left"},
                        args : Seq(SqlInt), children : Nat, rows : Nat]
        BY <3>3 DEF NoCall
      <4>2. sub \in BOOLEAN /\ crossed \in BOOLEAN
        BY DEF Init
      <4>. QED  BY <3>3, <4>1, <4>2 DEF Init, CoreType
    <3>5. CallsOfPortals /\ ArgsGiven /\ CallsFit
      BY <3>1, <3>2 DEF Init, CallsOfPortals, ArgsGiven, CallsFit
    <3>6. BeginInTurn
      <4>. SUFFICES ASSUME NEW p \in Portals \ InFrom, NEW j \in DOMAIN Query[p],
                           Query[p][j] \in InProgress \/ Query[p][j] = running
           PROVE  FALSE
        BY DEF BeginInTurn
      <4>1. Query[p][j] \in Calls
        BY PortalFacts
      <4>. QED  BY <3>2, <4>1, SessionAssumption DEF Init
    <3>7. OwnConnections /\ WellNested
      BY <3>2, <3>3 DEF Init, OwnConnections, WellNested
    <3>8. StackIsBalanced
      BY <3>2, <3>3 DEF Init, StackIsBalanced
    <3>. QED  BY <3>4, <3>5, <3>6, <3>7, <3>8 DEF Core
  <2>2. SettingFits
    BY DEF Init, SettingFits, SettingIsKept
  <2>3. UndefinedType /\ NestedCallsKeepApart
    BY DEF Init, UndefinedType, NestedCallsKeepApart
  <2>. QED  BY <2>1, <2>2, <2>3, IInvIsCore
<1>2. IInv /\ [Next]_vars => IInv'
  <2>. SUFFICES ASSUME IInv, [Next]_vars PROVE IInv'
    OBVIOUS
  <2>1. Core /\ TypeOK /\ SettingFits /\ UndefinedType /\ NestedCallsKeepApart
    BY IInvIsCore DEF IInv
  <2>2. Core' /\ SettingFits' /\ UndefinedType' /\ NestedCallsKeepApart'
    BY <2>1, NextKeepsCore, SettingKeeps, SafeKeeps
  <2>. QED  BY <2>2, IInvIsCore
<1>. QED  BY <1>1, <1>2, PTL DEF Spec

(***************************************************************************)
(* In well nested use no call uses queries or a context that were freed    *)
(* under it: only where a call ends while one begun after it is open, or   *)
(* before a later call of its target list has begun, or a savepoint ends   *)
(* in which an open call had begun.  What a call does to its own state,    *)
(* read after it was freed at every end, is not in question here.          *)
(***************************************************************************)
THEOREM WellNestedCallsKeepApart == Spec => []NestedCallsKeepApart
<1>1. IInv => NestedCallsKeepApart
  BY DEF IInv
<1>. QED  BY <1>1, Inductive, PTL

(***************************************************************************)
(* The SPI stack holds as many connections as there are calls in progress  *)
(* or abandoned, less those that the end of a savepoint took: the calls    *)
(* that end leave none and take none too many, although SPI_finish may pop *)
(* another call's connection.                                              *)
(***************************************************************************)
THEOREM ConnectionsAreCounted == Spec => []StackIsBalanced
<1>1. IInv => StackIsBalanced
  BY DEF IInv
<1>. QED  BY <1>1, Inductive, PTL

(***************************************************************************)
(* enable_seqscan is what the user set, unless SPI_prepare failed since.   *)
(***************************************************************************)
THEOREM SettingKeptUnlessPlanningFails == Spec => []SettingIsKept
<1>1. IInv => SettingIsKept
  BY DEF IInv
<1>. QED  BY <1>1, Inductive, PTL

(***************************************************************************)
(* Every call in progress runs on arguments the operator can work with,    *)
(* rewritten or not, and has returned at most k rows.                      *)
(***************************************************************************)
THEOREM CallsStayFit == Spec => []CallsFit
<1>1. IInv => CallsFit
  BY DEF IInv
<1>. QED  BY <1>1, Inductive, PTL

=============================================================================
