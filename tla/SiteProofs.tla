------------------------------ MODULE SiteProofs ------------------------------
(***************************************************************************)
(* Proofs about module Site: for any tables, any number of overlapping     *)
(* requests and any order of snapshots, what the pages show.               *)
(***************************************************************************)
EXTENDS Site, FiniteSetTheorems, SequenceTheorems, WellFoundedInduction, TLAPS

-----------------------------------------------------------------------------
(* The programs of the responses.                                           *)

ReportFields == {"total", "stamp", "groups"}
StatsFields == {"all", "online", "offline", "fresh", "onion", "samples"}
TickerFields == {"fresh", "onion"}

LEMMA Programs ==
  /\ \A r \in ReportPoll : Program(r) = <<"total", "stamp", "groups">>
  /\ Program("stats") = <<"all", "online", "offline", "fresh", "onion", "samples">>
  /\ Program("ticker") = <<"fresh", "onion">>
  /\ Program("nodes") = <<"rows">>
BY NodeReadsAssumption DEF Program

LEMMA Queries ==
  /\ \A f \in {"total", "fresh", "groups"} : Query(f) = Cardinality(FreshRows)
  /\ Query("stamp") = stamp /\ Query("rows") = FreshRows
  /\ Query("all") = Cardinality({n \in Node : status[n] # "none"})
  /\ Query("online") = Cardinality(OnlineRows)
  /\ Query("offline") = Cardinality({n \in Node : status[n] = "offline"})
  /\ Query("onion") = Cardinality(FreshRows \cap Onion)
  /\ Query("samples") = {n \in FreshRows : Latency[n] >= 0}
BY DEF Query

-----------------------------------------------------------------------------
(* Steps on the nodes table.                                                *)

Changed(t) == {n \in Node : t[n] # status[n]}

\* Whatever a page has open, the nodes table and the requests about it take one
\* of these steps.
NodesStep ==
  \/ \E s \in Stamp \ used, t \in [Node -> RowState] : Commit(s, t)
  \/ \E r \in Request : \/ SendRequest(r) \/ ReadStatement(r) \/ StatementFails(r)
                       \/ ReceiveReport(r) \/ DropAnswer(r)
  \/ UNCHANGED nodeVars

LEMMA StepsOfNodes == [Next]_siteVars => NodesStep
<1> SUFFICES ASSUME [Next]_siteVars
             PROVE  NodesStep
  OBVIOUS
<1>1. CASE UNCHANGED siteVars \/ view = "strip" \/ view = "period"
  <2>1. UNCHANGED nodeVars
    BY <1>1 DEF siteVars, Next
  <2> QED
    BY <2>1 DEF NodesStep
<1>2. CASE view = "dashboard" /\ DashboardNext
  <2>1. CASE \E s \in Stamp \ used, k \in 0..Cardinality(Node) : Commit(s, FirstFresh(k))
    <3>1. PICK s \in Stamp \ used, k \in 0..Cardinality(Node) : Commit(s, FirstFresh(k))
      BY <2>1
    <3>2. FirstFresh(k) \in [Node -> RowState]
      BY DEF FirstFresh, RowState
    <3> QED
      BY <3>1, <3>2 DEF NodesStep
  <2>2. CASE \E r \in ReportPoll : \/ SendRequest(r) \/ ReadStatement(r) \/ StatementFails(r)
                                 \/ ReceiveReport(r) \/ DropAnswer(r)
    <3>1. ReportPoll \subseteq Request
      BY DEF Request
    <3> QED
      BY <2>2, <3>1 DEF NodesStep
  <2> QED
    BY <1>2, <2>1, <2>2 DEF DashboardNext
<1>3. CASE view = "counters" /\ CountersNext
  <2>1. {"stats", "ticker", "nodes"} \subseteq Request
    BY DEF Request
  <2> QED
    BY <1>3, <2>1 DEF CountersNext, NodesStep
<1> QED
  BY <1>1, <1>2, <1>3 DEF Next

\* Two sets differ in size by no more than the elements they differ in.
LEMMA SizesDrift ==
  ASSUME NEW S, NEW T, NEW D, IsFiniteSet(S), IsFiniteSet(T), IsFiniteSet(D),
         S \ T \subseteq D, T \ S \subseteq D
  PROVE  /\ Cardinality(S) \in Nat /\ Cardinality(T) \in Nat /\ Cardinality(D) \in Nat
         /\ Cardinality(T) - Cardinality(S) \in (-Cardinality(D))..Cardinality(D)
<1>1. Cardinality(S) \in Nat /\ Cardinality(T) \in Nat /\ Cardinality(D) \in Nat
  BY FS_CardinalityType
<1>2. ASSUME NEW X, NEW Y, IsFiniteSet(X), Y \subseteq X \cup D, Cardinality(X) \in Nat,
             IsFiniteSet(Y), Cardinality(Y) \in Nat
      PROVE  Cardinality(Y) <= Cardinality(X) + Cardinality(D)
  <2>1. /\ IsFiniteSet(X \cup D) /\ IsFiniteSet(X \cap D)
        /\ Cardinality(X \cup D) = Cardinality(X) + Cardinality(D) - Cardinality(X \cap D)
    BY <1>2, FS_Union, FS_Intersection
  <2>2. Cardinality(Y) <= Cardinality(X \cup D)
    BY <1>2, <2>1, FS_Subset
  <2>3. Cardinality(X \cap D) \in Nat /\ Cardinality(X \cup D) \in Nat
    BY <2>1, FS_CardinalityType
  <2> QED
    BY <1>1, <1>2, <2>1, <2>2, <2>3
<1>3. T \subseteq S \cup D /\ S \subseteq T \cup D
  OBVIOUS
<1>4. Cardinality(T) <= Cardinality(S) + Cardinality(D)
  BY <1>1, <1>2, <1>3
<1>5. Cardinality(S) <= Cardinality(T) + Cardinality(D)
  BY <1>1, <1>2, <1>3
<1> QED
  BY <1>1, <1>4, <1>5

OfflineRows == {n \in Node : status[n] = "offline"}
KnownRows == {n \in Node : status[n] # "none"}
SampleRows == {n \in FreshRows : Latency[n] >= 0}

\* The sizes of the table's parts at one moment.
LEMMA Counts ==
  ASSUME ReadTypes
  PROVE  /\ IsFiniteSet(FreshRows) /\ IsFiniteSet(OnlineRows) /\ IsFiniteSet(OfflineRows)
         /\ IsFiniteSet(KnownRows) /\ IsFiniteSet(SampleRows)
         /\ IsFiniteSet(FreshRows \cap Onion)
         /\ Cardinality(OnlineRows) + Cardinality(OfflineRows) = Cardinality(KnownRows)
         /\ Cardinality(FreshRows) <= Cardinality(OnlineRows)
         /\ Cardinality(FreshRows \cap Onion) <= Cardinality(FreshRows)
         /\ Cardinality(SampleRows) <= Cardinality(FreshRows)
         /\ Cardinality(FreshRows) \in Nat /\ Cardinality(OnlineRows) \in Nat
         /\ Cardinality(OfflineRows) \in Nat /\ Cardinality(KnownRows) \in Nat
         /\ Cardinality(SampleRows) \in Nat /\ Cardinality(FreshRows \cap Onion) \in Nat
<1>1. /\ FreshRows \subseteq OnlineRows /\ OnlineRows \subseteq Node
      /\ OfflineRows \subseteq Node /\ KnownRows \subseteq Node
      /\ SampleRows \subseteq FreshRows /\ FreshRows \cap Onion \subseteq FreshRows
  BY DEF FreshRows, IsFresh, OnlineRows, OfflineRows, KnownRows, SampleRows
<1>2. IsFiniteSet(Node)
  BY NodeReadsAssumption
<1>3. IsFiniteSet(OnlineRows) /\ IsFiniteSet(OfflineRows) /\ IsFiniteSet(KnownRows)
  BY <1>1, <1>2, FS_Subset
<1>4. IsFiniteSet(FreshRows) /\ Cardinality(FreshRows) <= Cardinality(OnlineRows)
  BY <1>1, <1>3, FS_Subset
<1>5. /\ IsFiniteSet(SampleRows) /\ Cardinality(SampleRows) <= Cardinality(FreshRows)
      /\ IsFiniteSet(FreshRows \cap Onion)
      /\ Cardinality(FreshRows \cap Onion) <= Cardinality(FreshRows)
  BY <1>1, <1>4, FS_Subset
<1>6. OnlineRows \cup OfflineRows = KnownRows /\ OnlineRows \cap OfflineRows = {}
  BY DEF ReadTypes, RowState, OnlineRows, OfflineRows, KnownRows
<1>7. /\ Cardinality(FreshRows) \in Nat /\ Cardinality(OnlineRows) \in Nat
      /\ Cardinality(OfflineRows) \in Nat /\ Cardinality(KnownRows) \in Nat
      /\ Cardinality(SampleRows) \in Nat /\ Cardinality(FreshRows \cap Onion) \in Nat
  BY <1>3, <1>4, <1>5, FS_CardinalityType
<1>8. Cardinality(OnlineRows) + Cardinality(OfflineRows) = Cardinality(KnownRows)
  <2>1. Cardinality(OnlineRows \cup OfflineRows) =
          Cardinality(OnlineRows) + Cardinality(OfflineRows)
            - Cardinality(OnlineRows \cap OfflineRows)
    BY <1>3, FS_Union
  <2>2. Cardinality(OnlineRows \cap OfflineRows) = 0
    BY <1>6, FS_EmptySet
  <2>3. Cardinality(OnlineRows \cup OfflineRows) = Cardinality(KnownRows)
    BY <1>6
  <2> QED
    BY <1>7, <2>1, <2>2, <2>3
<1> QED
  BY <1>3, <1>4, <1>5, <1>7, <1>8

\* A snapshot moves each of them by no more than the rows it changes.
LEMMA CommitDrift ==
  ASSUME ReadTypes, NEW t \in [Node -> RowState], status' = t
  PROVE  LET k == Cardinality(Changed(t))
         IN  /\ k \in Nat
             /\ Cardinality(FreshRows)' - Cardinality(FreshRows) \in (-k)..k
             /\ Cardinality(OnlineRows)' - Cardinality(OnlineRows) \in (-k)..k
             /\ Cardinality(OfflineRows)' - Cardinality(OfflineRows) \in (-k)..k
             /\ Cardinality(KnownRows)' - Cardinality(KnownRows) \in (-k)..k
             /\ Cardinality(SampleRows)' - Cardinality(SampleRows) \in (-k)..k
             /\ Cardinality(FreshRows \cap Onion)' - Cardinality(FreshRows \cap Onion)
                  \in (-k)..k
<1> DEFINE D == Changed(t)
           Shifted(S, T) == S \ T \subseteq D /\ T \ S \subseteq D
<1>1. IsFiniteSet(D) /\ IsFiniteSet(Node)
  <2>1. D \subseteq Node /\ IsFiniteSet(Node)
    BY NodeReadsAssumption DEF Changed
  <2> HIDE DEF D
  <2> QED
    BY <2>1, FS_Subset
<1>2. /\ IsFiniteSet(FreshRows) /\ IsFiniteSet(OnlineRows) /\ IsFiniteSet(OfflineRows)
      /\ IsFiniteSet(KnownRows) /\ IsFiniteSet(SampleRows)
      /\ IsFiniteSet(FreshRows \cap Onion)
  BY Counts
<1>3. /\ FreshRows' \subseteq Node /\ OnlineRows' \subseteq Node
      /\ OfflineRows' \subseteq Node /\ KnownRows' \subseteq Node
      /\ SampleRows' \subseteq Node /\ (FreshRows \cap Onion)' \subseteq Node
  BY DEF FreshRows, IsFresh, OnlineRows, OfflineRows, KnownRows, SampleRows
<1>4. /\ IsFiniteSet(FreshRows') /\ IsFiniteSet(OnlineRows') /\ IsFiniteSet(OfflineRows')
      /\ IsFiniteSet(KnownRows') /\ IsFiniteSet(SampleRows')
      /\ IsFiniteSet((FreshRows \cap Onion)')
  BY <1>1, <1>3, FS_Subset
<1>5. Shifted(FreshRows, FreshRows')
  BY DEF FreshRows, IsFresh, Changed
<1>6. Shifted(OnlineRows, OnlineRows')
  BY DEF OnlineRows, Changed
<1>7. Shifted(OfflineRows, OfflineRows')
  BY DEF OfflineRows, Changed
<1>8. Shifted(KnownRows, KnownRows')
  BY DEF KnownRows, Changed
<1>9. Shifted(SampleRows, SampleRows')
  BY DEF SampleRows, FreshRows, IsFresh, Changed
<1>10. Shifted(FreshRows \cap Onion, (FreshRows \cap Onion)')
  BY DEF FreshRows, IsFresh, Changed
<1> HIDE DEF D
<1>11. Cardinality(D) \in Nat
  BY <1>1, FS_CardinalityType
<1>12. Cardinality(FreshRows') - Cardinality(FreshRows) \in (-Cardinality(D))..Cardinality(D)
  BY <1>1, <1>2, <1>4, <1>5, SizesDrift
<1>13. Cardinality(OnlineRows') - Cardinality(OnlineRows) \in (-Cardinality(D))..Cardinality(D)
  BY <1>1, <1>2, <1>4, <1>6, SizesDrift
<1>14. Cardinality(OfflineRows') - Cardinality(OfflineRows) \in (-Cardinality(D))..Cardinality(D)
  BY <1>1, <1>2, <1>4, <1>7, SizesDrift
<1>15. Cardinality(KnownRows') - Cardinality(KnownRows) \in (-Cardinality(D))..Cardinality(D)
  BY <1>1, <1>2, <1>4, <1>8, SizesDrift
<1>16. Cardinality(SampleRows') - Cardinality(SampleRows) \in (-Cardinality(D))..Cardinality(D)
  BY <1>1, <1>2, <1>4, <1>9, SizesDrift
<1>17. Cardinality((FreshRows \cap Onion)') - Cardinality(FreshRows \cap Onion)
         \in (-Cardinality(D))..Cardinality(D)
  BY <1>1, <1>2, <1>4, <1>10, SizesDrift
<1> QED
  BY <1>11, <1>12, <1>13, <1>14, <1>15, <1>16, <1>17 DEF D

-----------------------------------------------------------------------------
(* The shape of the responses.                                              *)

RequestShape(q) ==
  /\ DOMAIN q = {"sent", "read", "touched", "zero"}
  /\ q.touched \in Nat
  /\ q.sent \in BOOLEAN /\ q.zero \in BOOLEAN
  /\ \A f \in DOMAIN q.read : q.read[f] \in FigureType(f)

LEMMA ShapeOfUnread ==
  /\ RequestShape(Unread) /\ DOMAIN Unread.read = {}
  /\ Unread.touched = 0 /\ ~Unread.zero
<1>1. DOMAIN <<>> = {}
  BY EmptySeq
<1>2. /\ DOMAIN Unread = {"sent", "read", "touched", "zero"}
      /\ Unread.touched = 0 /\ Unread.read = <<>>
  BY DEF Unread
<1>3. ~Unread.sent /\ ~Unread.zero
  BY DEF Unread
<1>4. Unread.sent \in BOOLEAN /\ Unread.zero \in BOOLEAN
  BY DEF Unread
<1>5. DOMAIN Unread.read = {}
  BY <1>1, <1>2
<1>6. \A f \in DOMAIN Unread.read : Unread.read[f] \in FigureType(f)
  BY <1>5
<1>7. RequestShape(Unread)
  BY <1>2, <1>4, <1>6 DEF RequestShape
<1> QED
  BY <1>2, <1>3, <1>5, <1>7

\* The programs list distinct statements.
LEMMA StatementsDistinct ==
  ASSUME NEW r \in Request
  PROVE  /\ Len(Program(r)) \in Nat
         /\ \A i, j \in 1..Len(Program(r)) : Program(r)[i] = Program(r)[j] => i = j
<1>1. CASE r \in ReportPoll
  <2>1. Program(r) = <<"total", "stamp", "groups">>
    BY <1>1, Programs
  <2> QED
    BY <2>1
<1>2. CASE r = "stats"
  <2>1. Program(r) = <<"all", "online", "offline", "fresh", "onion", "samples">>
    BY <1>2, Programs
  <2> QED
    BY <2>1
<1>3. CASE r = "ticker" \/ r = "nodes"
  <2>1. Program(r) = <<"fresh", "onion">> \/ Program(r) = <<"rows">>
    BY <1>3, Programs
  <2> QED
    BY <2>1
<1> QED
  BY <1>1, <1>2, <1>3 DEF Request

\* They are distinct, so the number of figures read is the
\* position of the next statement.
LEMMA NextInOrder ==
  ASSUME ReadsInOrder, NEW r \in Request
  PROVE  /\ DOMAIN request[r].read \subseteq {Program(r)[i] : i \in 1..Len(Program(r))}
         /\ Len(Program(r)) \in Nat
         /\ Unanswered(r) =>
              \E k \in 0..(Len(Program(r)) - 1) :
                /\ DOMAIN request[r].read = {Program(r)[i] : i \in 1..k}
                /\ NextFigure(r) = Program(r)[k + 1]
         /\ ~Unanswered(r) =>
              DOMAIN request[r].read = {Program(r)[i] : i \in 1..Len(Program(r))}
<1> DEFINE P == Program(r)
           n == Len(Program(r))
           First(k) == {P[i] : i \in 1..k}
<1>1. n \in Nat /\ \A i, j \in 1..n : P[i] = P[j] => i = j
  BY StatementsDistinct
<1>2. PICK k \in 0..n : DOMAIN request[r].read = First(k)
  BY DEF ReadsInOrder
<1> HIDE DEF P, n
<1>3. Cardinality(First(k)) = k
  <2> DEFINE f == [i \in 1..k |-> P[i]]
             F == First(k)
  <2>1. IsFiniteSet(1..k) /\ Cardinality(1..k) = k
    <3>1. 1 \in Int /\ k \in Int /\ k >= 0
      BY <1>1, <1>2
    <3>2. IsFiniteSet(1..k) /\ Cardinality(1..k) = IF 1 > k THEN 0 ELSE k - 1 + 1
      BY <3>1, FS_Interval
    <3> QED
      BY <3>1, <3>2
  <2>2. \A i, j \in 1..k : P[i] = P[j] => i = j
    BY <1>1, <1>2
  <2>3. f \in [1..k -> F] /\ \A i \in 1..k : f[i] = P[i]
    OBVIOUS
  <2>4. \A x \in F : \E i \in 1..k : f[i] = x
    OBVIOUS
  <2> HIDE DEF f, F
  <2>5. f \in Bijection(1..k, F)
    BY <2>2, <2>3, <2>4 DEF Bijection, Injection, Surjection, IsInjective
  <2>6. ExistsBijection(1..k, F)
    BY <2>5 DEF ExistsBijection
  <2>7. Cardinality(F) = k
    BY <2>1, <2>6, FS_Bijection
  <2> QED
    BY <2>7 DEF F
<1>4. First(k) \subseteq First(n)
  BY <1>1, <1>2
<1>5. Unanswered(r) => k < n /\ NextFigure(r) = P[k + 1]
  BY <1>2, <1>3 DEF Unanswered, NextFigure, P, n
<1>6. ~Unanswered(r) => k = n
  BY <1>1, <1>2, <1>3 DEF Unanswered, P, n
<1>7. Unanswered(r) => k \in 0..(n - 1)
  BY <1>1, <1>2, <1>5
<1> QED
  BY <1>1, <1>2, <1>4, <1>5, <1>6, <1>7 DEF P, n

Figures == ReportFields \cup StatsFields \cup TickerFields \cup {"rows"}

LEMMA StampType == ReadTypes => stamp \in Nat /\ used \subseteq Nat \ {0}
BY NodeReadsAssumption DEF ReadTypes

\* Whatever a statement reads has the type of its figure.
LEMMA QueryTypes ==
  ASSUME ReadTypes, NEW f \in Figures
  PROVE  Query(f) \in FigureType(f)
<1>1. CASE f \in {"total", "fresh", "groups"}
  BY <1>1, Queries, Counts DEF FigureType
<1>2. CASE f = "stamp"
  BY <1>2, Queries, StampType DEF FigureType
<1>3. CASE f = "rows"
  BY <1>3, Queries DEF FigureType, FreshRows
<1>4. CASE f = "samples"
  BY <1>4, Queries DEF FigureType, FreshRows, Measured
<1>5. CASE f \in {"all", "online", "offline", "onion"}
  BY <1>5, Queries, Counts DEF FigureType, KnownRows, OfflineRows
<1> QED
  BY <1>1, <1>2, <1>3, <1>4, <1>5
     DEF Figures, ReportFields, StatsFields, TickerFields

LEMMA StatementsAreFigures ==
  ASSUME NEW r \in Request
  PROVE  /\ Len(Program(r)) \in Nat
         /\ \A i \in 1..Len(Program(r)) : Program(r)[i] \in Figures
         /\ \A i \in 1..Len(Program(r)) : Softened(r, Program(r)[i]) =>
              FigureType(Program(r)[i]) = Nat
<1>1. CASE r \in ReportPoll
  <2>1. Program(r) = <<"total", "stamp", "groups">>
    BY <1>1, Programs
  <2> QED
    BY <2>1 DEF Figures, ReportFields, FigureType
<1>2. CASE r = "stats"
  <2>1. Program(r) = <<"all", "online", "offline", "fresh", "onion", "samples">>
    BY <1>2, Programs
  <2> QED
    BY <1>2, <2>1 DEF Figures, StatsFields, Softened
<1>3. CASE r = "ticker"
  <2>1. Program(r) = <<"fresh", "onion">>
    BY <1>3, Programs
  <2> QED
    BY <2>1 DEF Figures, TickerFields, FigureType
<1>4. CASE r = "nodes"
  <2>1. Program(r) = <<"rows">>
    BY <1>4, Programs
  <2> QED
    BY <1>4, <2>1 DEF Figures, Softened
<1> QED
  BY <1>1, <1>2, <1>3, <1>4 DEF Request

InOrder(r, q) ==
  \E k \in 0..Len(Program(r)) : DOMAIN q.read = {Program(r)[i] : i \in 1..k}

\* A statement that answers, or one that counts as 0.
LEMMA OneFigureMore ==
  ASSUME ReadTypes, ReadsInOrder, NEW r \in Request, Unanswered(r),
         NEW v \in FigureType(NextFigure(r)), NEW p,
         DOMAIN p = {"sent", "read", "touched", "zero"}, p.zero \in BOOLEAN,
         p.sent = request[r].sent, p.touched = request[r].touched,
         p.read = With(request[r].read, NextFigure(r), v)
  PROVE  RequestShape(p) /\ InOrder(r, p) /\ NextFigure(r) \in Figures
<1> DEFINE q == request[r]
           f == NextFigure(r)
           P == Program(r)
<1>1. PICK k \in 0..(Len(P) - 1) :
        DOMAIN q.read = {P[i] : i \in 1..k} /\ f = P[k + 1]
  BY NextInOrder
<1>2. Len(P) \in Nat /\ k + 1 \in 0..Len(P) /\ k + 1 \in 1..Len(P)
  BY StatementsAreFigures
<1>3. RequestShape(q)
  BY DEF ReadTypes, RequestShape
<1>4. /\ p.read = With(q.read, f, v) /\ p.sent = q.sent /\ p.touched = q.touched
      /\ DOMAIN p = {"sent", "read", "touched", "zero"}
  OBVIOUS
<1>5. /\ DOMAIN p.read = DOMAIN q.read \cup {f} /\ p.read[f] = v
      /\ \A g \in DOMAIN q.read : g # f => p.read[g] = q.read[g]
  <2> HIDE DEF q, f
  <2>1. p.read = With(q.read, f, v)
    BY <1>4
  <2>2. DOMAIN p.read = DOMAIN q.read \cup {f}
    BY <2>1 DEF With
  <2>3. p.read[f] = v
    BY <2>1 DEF With
  <2>4. \A g \in DOMAIN q.read : g # f => p.read[g] = q.read[g]
    BY <2>1 DEF With
  <2> QED
    BY <2>2, <2>3, <2>4
<1>6. DOMAIN p.read = {P[i] : i \in 1..(k + 1)}
  <2>1. \A x : x \in DOMAIN q.read <=> \E i \in 1..k : P[i] = x
    BY <1>1
  <2>2. \A i : i \in 1..(k + 1) <=> i \in 1..k \/ i = k + 1
    OBVIOUS
  <2> HIDE DEF P, f, q
  <2>3. \A x : x \in DOMAIN p.read <=> \E i \in 1..(k + 1) : P[i] = x
    BY <1>1, <1>5, <2>1, <2>2
  <2> QED
    BY ONLY <2>3, Zenon
<1>7. InOrder(r, p)
  BY <1>2, <1>6 DEF InOrder
<1>8. RequestShape(p)
  <2>1. \A g \in DOMAIN p.read : p.read[g] \in FigureType(g)
    BY <1>3, <1>5 DEF RequestShape
  <2>2. p.sent \in BOOLEAN /\ p.zero \in BOOLEAN
    BY <1>3, <1>4 DEF RequestShape
  <2>3. p.touched \in Nat
    BY <1>3, <1>4 DEF RequestShape
  <2> QED
    BY <1>4, <2>1, <2>2, <2>3 DEF RequestShape
<1>9. f \in Figures
  BY <1>1, <1>2, StatementsAreFigures
<1> QED
  BY <1>7, <1>8, <1>9

ShapeInv == ReadTypes /\ ReadsInOrder

LEMMA ShapeByRequest ==
  /\ ReadTypes <=>
       /\ status \in [Node -> RowState] /\ used \subseteq Stamp /\ stamp \in used \cup {0}
       /\ DOMAIN request = Request /\ \A r \in Request : RequestShape(request[r])
       /\ data \in Shown
  /\ ReadsInOrder <=> \A r \in Request : InOrder(r, request[r])
BY DEF ReadTypes, ReadsInOrder, RequestShape, InOrder

LEMMA UnreadInOrder ==
  ASSUME NEW r \in Request
  PROVE  InOrder(r, Unread)
<1>1. {Program(r)[i] : i \in 1..0} = {} /\ 0 \in 0..Len(Program(r))
  BY StatementsAreFigures
<1> QED
  BY <1>1, ShapeOfUnread DEF InOrder

\* One request takes a step, and the others stand still.
LEMMA ShapeOfOthers ==
  ASSUME ShapeInv, NEW r \in Request, NEW p, RequestShape(p), InOrder(r, p),
         request' = [request EXCEPT ![r] = p],
         UNCHANGED <<status, stamp, used>>,
         data' \in Shown
  PROVE  ShapeInv'
<1>1. DOMAIN request = Request
  BY ShapeByRequest DEF ShapeInv
<1>2. \A o \in Request : request'[o] = IF o = r THEN p ELSE request[o]
  BY <1>1
<1>3. \A o \in Request : RequestShape(request'[o]) /\ InOrder(o, request'[o])
  BY <1>2, ShapeByRequest DEF ShapeInv
<1>4. DOMAIN request' = Request
  BY <1>1
<1>5. ReadsInOrder'
  BY <1>3 DEF ReadsInOrder, InOrder
<1>6. status' \in [Node -> RowState] /\ used' \subseteq Stamp /\ stamp' \in used' \cup {0}
  BY DEF ShapeInv, ReadTypes
<1>7. ReadTypes'
  BY <1>3, <1>4, <1>6 DEF ReadTypes, RequestShape, Shown
<1> QED
  BY <1>5, <1>7 DEF ShapeInv

LEMMA ShapeOfCommit ==
  ASSUME ShapeInv, NEW s \in Stamp \ used, NEW t \in [Node -> RowState], Commit(s, t)
  PROVE  ShapeInv'
<1>1. \A r \in Request :
        RequestShape(request[r]) /\ InOrder(r, request[r]) /\ DOMAIN request = Request
  BY ShapeByRequest DEF ShapeInv
<1>2. Cardinality(Changed(t)) \in Nat
  BY CommitDrift DEF ShapeInv, Commit
<1>3. ASSUME NEW r \in Request
      PROVE  RequestShape(request'[r]) /\ InOrder(r, request'[r])
  <2>1. CASE request[r].read = <<>>
    <3>1. request'[r] = request[r]
      BY <2>1 DEF Commit
    <3> QED
      BY <1>1, <3>1
  <2>2. CASE request[r].read # <<>>
    <3> DEFINE q == request[r]
               p == request'[r]
    <3>1. p = [q EXCEPT !.touched = @ + Cardinality(Changed(t))]
      BY <2>2 DEF Commit, Changed
    <3>2. DOMAIN q = {"sent", "read", "touched", "zero"}
      BY <1>1 DEF RequestShape
    <3>3. /\ p.read = q.read /\ p.sent = q.sent /\ p.zero = q.zero
          /\ p.touched = q.touched + Cardinality(Changed(t))
          /\ DOMAIN p = {"sent", "read", "touched", "zero"}
      BY <3>1, <3>2
    <3>5. q.touched \in Nat /\ \A f \in DOMAIN q.read : q.read[f] \in FigureType(f)
      BY <1>1 DEF RequestShape
    <3>6. q.sent \in BOOLEAN /\ q.zero \in BOOLEAN
      BY <1>1 DEF RequestShape
    <3> HIDE DEF p, q
    <3>8. RequestShape(p)
      BY <1>2, <3>3, <3>5, <3>6 DEF RequestShape
    <3>9. InOrder(r, q) => InOrder(r, p)
      BY <3>3 DEF InOrder
    <3> QED
      BY <1>1, <3>8, <3>9 DEF p, q
  <2> QED
    BY <2>1, <2>2
<1>4. ReadsInOrder'
  BY <1>3 DEF ReadsInOrder, InOrder
<1>5. /\ status' \in [Node -> RowState] /\ used' \subseteq Stamp /\ stamp' \in used' \cup {0}
      /\ data' \in Shown'
      /\ DOMAIN request' = Request
  <2>1. /\ status' \in [Node -> RowState] /\ used' \subseteq Stamp /\ stamp' \in used' \cup {0}
        /\ DOMAIN request' = Request
    BY DEF Commit, ShapeInv, ReadTypes
  <2>2. data' = data /\ used \subseteq used'
    BY DEF Commit
  <2>3. data \in Shown
    BY DEF ShapeInv, ReadTypes
  <2> QED
    BY <2>1, <2>2, <2>3 DEF Shown
<1>6. ReadTypes'
  BY <1>3, <1>5 DEF ReadTypes, RequestShape
<1> QED
  BY <1>4, <1>6 DEF ShapeInv

\* An answered report has read all its figures.
LEMMA AnsweredReport ==
  ASSUME ShapeInv, NEW r \in ReportPoll, Answered(r)
  PROVE  /\ DOMAIN request[r].read = {"total", "stamp", "groups"}
         /\ request[r].read.total \in Nat /\ request[r].read.groups \in Nat
         /\ request[r].read.stamp \in Nat
<1>1. r \in Request
  BY DEF Request
<1>2. DOMAIN request[r].read = {Program(r)[i] : i \in 1..Len(Program(r))}
  BY <1>1, NextInOrder DEF Answered, ShapeInv
<1>3. Program(r) = <<"total", "stamp", "groups">>
  BY Programs
<1>4. DOMAIN request[r].read = {"total", "stamp", "groups"}
  <2>1. \A x : x \in DOMAIN request[r].read <=> \E i \in 1..3 : <<"total", "stamp", "groups">>[i] = x
    BY <1>2, <1>3
  <2>2. \A i : i \in 1..3 <=> i = 1 \/ i = 2 \/ i = 3
    OBVIOUS
  <2>3. /\ <<"total", "stamp", "groups">>[1] = "total"
        /\ <<"total", "stamp", "groups">>[2] = "stamp"
        /\ <<"total", "stamp", "groups">>[3] = "groups"
    OBVIOUS
  <2>4. \A x : x \in DOMAIN request[r].read <=> x \in {"total", "stamp", "groups"}
    BY <2>1, <2>2, <2>3
  <2> QED
    BY <2>4
<1>5. \A f \in DOMAIN request[r].read : request[r].read[f] \in FigureType(f)
  BY <1>1 DEF ShapeInv, ReadTypes
<1> QED
  BY <1>4, <1>5 DEF FigureType

LEMMA ShapeStep ==
  ASSUME ShapeInv, ReportInv, NodesStep
  PROVE  ShapeInv'
<1>1. data \in Shown
  BY DEF ShapeInv, ReadTypes
<1>2. \A r \in Request : RequestShape(request[r]) /\ InOrder(r, request[r])
  BY ShapeByRequest DEF ShapeInv
<1>3. CASE \E s \in Stamp \ used, t \in [Node -> RowState] : Commit(s, t)
  BY <1>3, ShapeOfCommit
<1>4. ASSUME NEW r \in Request, SendRequest(r)
      PROVE  ShapeInv'
  <2> DEFINE q == request[r]
             p == [q EXCEPT !.sent = TRUE]
  <2>1. DOMAIN q = {"sent", "read", "touched", "zero"}
    BY <1>2 DEF RequestShape
  <2>2. /\ p.read = q.read /\ p.touched = q.touched /\ p.zero = q.zero
        /\ p.sent = TRUE
        /\ DOMAIN p = {"sent", "read", "touched", "zero"}
    BY <2>1
  <2>3. /\ q.touched \in Nat /\ q.zero \in BOOLEAN
        /\ \A f \in DOMAIN q.read : q.read[f] \in FigureType(f)
        /\ InOrder(r, q)
    BY <1>2 DEF RequestShape
  <2>4. request' = [request EXCEPT ![r] = p]
    BY <1>4 DEF SendRequest
  <2> HIDE DEF p, q
  <2>5. RequestShape(p)
    BY <2>2, <2>3 DEF RequestShape
  <2>6. InOrder(r, p)
    BY <2>2, <2>3 DEF InOrder
  <2> QED
    BY <1>1, <1>4, <2>4, <2>5, <2>6, ShapeOfOthers DEF SendRequest
<1>5. ASSUME NEW r \in Request, ReadStatement(r)
      PROVE  ShapeInv'
  <2> DEFINE q == request[r]
             f == NextFigure(r)
             p == [q EXCEPT !.zero = q.zero, !.read = With(@, f, Query(f))]
  <2>1. Unanswered(r) /\ f \in Figures
    BY <1>5, NextInOrder, StatementsAreFigures DEF ReadStatement, ShapeInv
  <2>2. Query(f) \in FigureType(f)
    BY <2>1, QueryTypes DEF ShapeInv
  <2>3. q.zero \in BOOLEAN /\ DOMAIN q = {"sent", "read", "touched", "zero"}
    BY <1>2 DEF RequestShape
  <2>4. RequestShape(p) /\ InOrder(r, p)
    <3>1. /\ DOMAIN p = {"sent", "read", "touched", "zero"} /\ p.zero \in BOOLEAN
          /\ p.sent = q.sent /\ p.touched = q.touched
          /\ p.read = With(q.read, f, Query(f))
      BY <2>3
    <3> HIDE DEF p
    <3> QED
      BY <2>1, <2>2, <2>3, <3>1, OneFigureMore DEF ShapeInv
  <2>5. request' = [request EXCEPT ![r] = p]
    <3>1. p = [q EXCEPT !.read = With(@, f, Query(f))]
      BY <2>3
    <3> QED
      BY <1>5, <3>1 DEF ReadStatement
  <2> QED
    BY <1>1, <1>5, <2>4, <2>5, ShapeOfOthers DEF ReadStatement
<1>6. ASSUME NEW r \in Request, NEW p, RequestShape(p), InOrder(r, p),
             request' = [request EXCEPT ![r] = p], UNCHANGED <<status, stamp, used, data>>
      PROVE  ShapeInv'
  BY <1>1, <1>6, ShapeOfOthers
<1>7. ASSUME NEW r \in Request, StatementFails(r)
      PROVE  ShapeInv'
  <2> DEFINE q == request[r]
             f == NextFigure(r)
  <2>1. CASE Softened(r, f)
    <3> DEFINE z == q.zero \/ f # "stamp"
               p == [q EXCEPT !.zero = z, !.read = With(@, f, 0)]
    <3>1. Unanswered(r) /\ z \in BOOLEAN
      BY <1>7 DEF StatementFails
    <3>2. 0 \in FigureType(f)
      BY <2>1, <3>1, NextInOrder, StatementsAreFigures DEF ShapeInv
    <3>3. RequestShape(p) /\ InOrder(r, p)
      <4>1. /\ DOMAIN p = {"sent", "read", "touched", "zero"} /\ p.zero \in BOOLEAN
            /\ p.sent = q.sent /\ p.touched = q.touched
            /\ p.read = With(q.read, f, 0)
        <5>1. DOMAIN q = {"sent", "read", "touched", "zero"}
          BY <1>2 DEF RequestShape
        <5> HIDE DEF q, z, f
        <5> QED
          BY <3>1, <5>1
      <4> HIDE DEF p, z
      <4> QED
        BY <3>1, <3>2, <4>1, OneFigureMore DEF ShapeInv
    <3>4. request' = [request EXCEPT ![r] = p]
      <4> DEFINE o == [q EXCEPT !.zero = @ \/ f # "stamp", !.read = With(q.read, f, 0)]
      <4>1. request' = [request EXCEPT ![r] = IF Softened(r, f) THEN o ELSE Unread]
        BY <1>7, Zenon DEF StatementFails
      <4>2. o = p
        OBVIOUS
      <4> HIDE DEF p, o
      <4> QED
        BY <2>1, <4>1, <4>2
    <3> HIDE DEF p
    <3> QED
      BY <1>6, <1>7, <3>3, <3>4 DEF StatementFails
  <2>2. CASE ~Softened(r, f)
    <3>1. request' = [request EXCEPT ![r] = Unread]
      BY <1>7, <2>2 DEF StatementFails
    <3> QED
      BY <1>6, <1>7, <3>1, ShapeOfUnread, UnreadInOrder DEF StatementFails
  <2> QED
    BY <2>1, <2>2
<1>8. ASSUME NEW r \in Request, DropAnswer(r)
      PROVE  ShapeInv'
  BY <1>6, <1>8, ShapeOfUnread, UnreadInOrder DEF DropAnswer
<1>9. ASSUME NEW r \in Request, ReceiveReport(r)
      PROVE  ShapeInv'
  <2>1. r \in ReportPoll /\ Answered(r)
    BY <1>9 DEF ReceiveReport
  <2>2. /\ request[r].read.total \in Nat /\ request[r].read.groups \in Nat
        /\ "stamp" \in DOMAIN request[r].read
        /\ request[r].touched \in Nat /\ request[r].zero \in BOOLEAN
    BY <1>2, <2>1, AnsweredReport DEF Request, RequestShape
  <2>3. request[r].read.stamp \in used \cup {0}
    BY <2>1, <2>2 DEF ReportInv
  <2>4. data' \in Shown
    BY <1>1, <1>9, <2>2, <2>3 DEF ReceiveReport, Shown
  <2>5. request' = [request EXCEPT ![r] = Unread] /\ UNCHANGED <<status, stamp, used>>
    BY <1>9 DEF ReceiveReport
  <2> QED
    BY <2>4, <2>5, ShapeOfOthers, ShapeOfUnread, UnreadInOrder
<1>10. CASE UNCHANGED nodeVars
  <2>1. UNCHANGED <<status, stamp, request, data, failures, used>>
    BY <1>10 DEF nodeVars
  <2>2. ReadsInOrder'
    BY <2>1 DEF ShapeInv, ReadsInOrder
  <2>3. ReadTypes'
    BY <2>1 DEF ShapeInv, ReadTypes, Shown
  <2> QED
    BY <2>2, <2>3 DEF ShapeInv
<1> QED
  BY <1>3, <1>4, <1>5, <1>7, <1>8, <1>9, <1>10 DEF NodesStep

-----------------------------------------------------------------------------
(* What a response has read so far.                                         *)

LEMMA OrderKept ==
  ASSUME ReadsInOrder, NEW r \in Request,
         NEW j \in 1..Len(Program(r)), Program(r)[j] \in DOMAIN request[r].read,
         NEW i \in 1..j
  PROVE  Program(r)[i] \in DOMAIN request[r].read
<1>1. Len(Program(r)) \in Nat
  BY StatementsAreFigures
<1>2. PICK k \in 0..Len(Program(r)) :
        DOMAIN request[r].read = {Program(r)[m] : m \in 1..k}
  BY DEF ReadsInOrder
<1>3. PICK m \in 1..k : Program(r)[m] = Program(r)[j]
  BY <1>2
<1>4. m = j
  BY <1>1, <1>2, <1>3, StatementsDistinct
<1>5. i \in 1..k
  BY <1>1, <1>2, <1>4
<1> QED
  BY <1>2, <1>5

LEMMA NextIsNew ==
  ASSUME ReadsInOrder, NEW r \in Request, Unanswered(r)
  PROVE  NextFigure(r) \notin DOMAIN request[r].read
<1>1. Len(Program(r)) \in Nat
  BY StatementsAreFigures
<1>2. PICK k \in 0..(Len(Program(r)) - 1) :
        /\ DOMAIN request[r].read = {Program(r)[i] : i \in 1..k}
        /\ NextFigure(r) = Program(r)[k + 1]
  BY NextInOrder
<1>3. \A i \in 1..k : Program(r)[i] # Program(r)[k + 1]
  BY <1>1, StatementsDistinct
<1> QED
  BY <1>2, <1>3

LEMMA ReportOrder ==
  ASSUME ReadsInOrder, NEW r \in ReportPoll
  PROVE  LET D == DOMAIN request[r].read
         IN  /\ D # {} => "total" \in D
             /\ "stamp" \in D => "total" \in D
             /\ "groups" \in D => "stamp" \in D
<1> DEFINE D == DOMAIN request[r].read
<1>1. r \in Request /\ Program(r) = <<"total", "stamp", "groups">>
  BY Programs DEF Request
<1>2. \A j \in 1..3 : Program(r)[j] \in D => \A i \in 1..j : Program(r)[i] \in D
  <2>1. Len(Program(r)) = 3
    BY <1>1
  <2> QED
    BY <1>1, <2>1, OrderKept
<1>3. D # {} => \E j \in 1..3 : Program(r)[j] \in D
  <2>1. D \subseteq {Program(r)[j] : j \in 1..Len(Program(r))}
    BY <1>1, NextInOrder
  <2>2. Len(Program(r)) = 3
    BY <1>1
  <2> HIDE DEF D
  <2> QED
    BY <2>1, <2>2
<1>4. Program(r)[1] = "total" /\ Program(r)[2] = "stamp" /\ Program(r)[3] = "groups"
  BY <1>1
<1>5. D # {} => "total" \in D
  BY <1>2, <1>3, <1>4
<1>6. "stamp" \in D => "total" \in D
  BY <1>2, <1>4
<1>7. "groups" \in D => "stamp" \in D
  BY <1>2, <1>4
<1> QED
  BY <1>5, <1>6, <1>7

LEMMA NextOfReport ==
  ASSUME ReadsInOrder, NEW r \in ReportPoll, Unanswered(r)
  PROVE  NextFigure(r) \in {"total", "stamp", "groups"}
<1>1. r \in Request /\ Program(r) = <<"total", "stamp", "groups">>
  BY Programs DEF Request
<1>2. PICK k \in 0..(Len(Program(r)) - 1) : NextFigure(r) = Program(r)[k + 1]
  BY <1>1, NextInOrder
<1>3. k \in 0..2
  BY <1>1, <1>2
<1> QED
  BY <1>1, <1>2, <1>3

LEMMA TickerOrder ==
  ASSUME ReadsInOrder
  PROVE  LET D == DOMAIN request["ticker"].read
         IN  "onion" \in D => "fresh" \in D
<1>1. "ticker" \in Request /\ Program("ticker") = <<"fresh", "onion">>
  BY Programs DEF Request
<1>2. Len(Program("ticker")) = 2 /\ Program("ticker")[1] = "fresh"
      /\ Program("ticker")[2] = "onion"
  BY <1>1
<1>3. 2 \in 1..Len(Program("ticker")) /\ 1 \in 1..2
  BY <1>2
<1> QED
  BY <1>1, <1>2, <1>3, OrderKept

LEMMA StatsOrder ==
  ASSUME ReadsInOrder
  PROVE  LET D == DOMAIN request["stats"].read
         IN  /\ D # {} => "all" \in D
             /\ "offline" \in D => "online" \in D
             /\ "fresh" \in D => "online" \in D /\ "offline" \in D
             /\ "onion" \in D => "fresh" \in D
             /\ "samples" \in D => "fresh" \in D
<1> DEFINE D == DOMAIN request["stats"].read
           P == Program("stats")
<1>1. "stats" \in Request
      /\ P = <<"all", "online", "offline", "fresh", "onion", "samples">>
  BY Programs DEF Request
<1>2. /\ Len(P) = 6 /\ P[1] = "all" /\ P[2] = "online" /\ P[3] = "offline"
      /\ P[4] = "fresh" /\ P[5] = "onion" /\ P[6] = "samples"
  BY <1>1
<1>3. \A j \in 1..6 : P[j] \in D => \A i \in 1..j : P[i] \in D
  BY <1>1, <1>2, OrderKept
<1>4. D # {} => \E j \in 1..6 : P[j] \in D
  <2>1. D \subseteq {P[j] : j \in 1..Len(P)}
    BY <1>1, NextInOrder
  <2> HIDE DEF D, P
  <2> QED
    BY <1>2, <2>1
<1> HIDE DEF D, P
<1>5. D # {} => "all" \in D
  BY <1>2, <1>3, <1>4
<1>6. "offline" \in D => "online" \in D
  BY <1>2, <1>3
<1>7. "fresh" \in D => "online" \in D /\ "offline" \in D
  BY <1>2, <1>3
<1>8. "onion" \in D => "fresh" \in D
  BY <1>2, <1>3
<1>9. "samples" \in D => "fresh" \in D
  BY <1>2, <1>3
<1> QED
  BY <1>5, <1>6, <1>7, <1>8, <1>9 DEF D

-----------------------------------------------------------------------------
(* The figures of a response.                                               *)

Fig(r) == [f \in Figures |-> FigureOf(r, f)]

WithinDrift(r, v, d) ==
  /\ r \in ReportPoll => v["total"] - v["groups"] \in (-d)..d
  /\ r = "ticker" => v["onion"] <= v["fresh"] + d
  /\ r = "stats" =>
       /\ v["online"] + v["offline"] - v["all"] \in (-d)..d
       /\ v["fresh"] <= v["online"] + d
       /\ v["onion"] <= v["fresh"] + d
       /\ Cardinality(v["samples"]) <= v["fresh"] + d

LEMMA DriftByRequest ==
  DriftInv <=> \A r \in Request : ~request[r].zero =>
                 WithinDrift(r, Fig(r), request[r].touched)
BY DEF DriftInv, WithinDrift, Fig, Figures, ReportFields, StatsFields, TickerFields

Counted == {"total", "groups", "all", "online", "offline", "fresh", "onion"}

LEMMA FigTypes ==
  ASSUME ReadTypes, NEW r \in Request
  PROVE  /\ \A f \in Figures : Fig(r)[f] \in FigureType(f)
         /\ \A f \in Counted : Fig(r)[f] \in Nat
         /\ IsFiniteSet(Fig(r)["samples"]) /\ Cardinality(Fig(r)["samples"]) \in Nat
<1>1. \A f \in Figures : Fig(r)[f] \in FigureType(f)
  BY QueryTypes DEF Fig, FigureOf, ReadTypes
<1>2. \A f \in Counted : f \in Figures /\ FigureType(f) = Nat
  BY DEF Counted, Figures, ReportFields, StatsFields, TickerFields, FigureType
<1>3. Fig(r)["samples"] \subseteq Node
  BY <1>1 DEF FigureType, Measured, Figures, StatsFields
<1>4. IsFiniteSet(Fig(r)["samples"])
  BY <1>3, NodeReadsAssumption, FS_Subset
<1> QED
  BY <1>1, <1>2, <1>4, FS_CardinalityType

TypedFigures ==
  \A r \in Request : /\ \A f \in Counted : Fig(r)[f] \in Nat
                     /\ Cardinality(Fig(r)["samples"]) \in Nat

LEMMA FigTypesNow == ReadTypes => TypedFigures
BY FigTypes DEF TypedFigures

LEMMA FigTypesLater == ReadTypes' => TypedFigures'
BY FigTypesNow, PTL

\* The parts of the table add up, at the moment.
CountsHold ==
  /\ Cardinality(OnlineRows) + Cardinality(OfflineRows) = Cardinality(KnownRows)
  /\ Cardinality(FreshRows) <= Cardinality(OnlineRows)
  /\ Cardinality(FreshRows \cap Onion) <= Cardinality(FreshRows)
  /\ Cardinality(SampleRows) <= Cardinality(FreshRows)
  /\ Cardinality(FreshRows) \in Nat /\ Cardinality(OnlineRows) \in Nat
  /\ Cardinality(OfflineRows) \in Nat /\ Cardinality(KnownRows) \in Nat
  /\ Cardinality(SampleRows) \in Nat /\ Cardinality(FreshRows \cap Onion) \in Nat

LEMMA CountsNow == ReadTypes => CountsHold
BY Counts DEF CountsHold

LEMMA CountsLater == ReadTypes' => CountsHold'
BY CountsNow, PTL

UnreadFits ==
  \A r \in Request : DOMAIN request[r].read = {} /\ request[r].touched \in Nat =>
    WithinDrift(r, Fig(r), request[r].touched)

\* Nothing read yet: the figures are those of one moment.
LEMMA UnreadFitsNow == ReadTypes => UnreadFits
<1> SUFFICES ASSUME ReadTypes, NEW r \in Request, DOMAIN request[r].read = {},
                    request[r].touched \in Nat
             PROVE  WithinDrift(r, Fig(r), request[r].touched)
  BY DEF UnreadFits
<1> DEFINE v == Fig(r)
<1>1. \A f \in Figures : v[f] = Query(f)
  BY DEF Fig, FigureOf
<1>2. {"total", "groups", "fresh", "all", "online", "offline", "onion", "samples"}
        \subseteq Figures
  BY DEF Figures, ReportFields, StatsFields, TickerFields
<1> HIDE DEF v
<1>3. /\ v["total"] = Cardinality(FreshRows) /\ v["groups"] = Cardinality(FreshRows)
      /\ v["fresh"] = Cardinality(FreshRows) /\ v["online"] = Cardinality(OnlineRows)
      /\ v["onion"] = Cardinality(FreshRows \cap Onion)
  BY <1>1, <1>2, Queries
<1>4. /\ v["all"] = Cardinality(KnownRows) /\ v["offline"] = Cardinality(OfflineRows)
      /\ v["samples"] = SampleRows
  BY <1>1, <1>2, Queries DEF KnownRows, OfflineRows, SampleRows
<1>5. CountsHold
  BY CountsNow
<1>6. r \in ReportPoll => v["total"] - v["groups"] \in (-request[r].touched)..request[r].touched
  BY <1>3, <1>5 DEF CountsHold
<1>7. v["online"] + v["offline"] - v["all"] \in (-request[r].touched)..request[r].touched
  BY <1>3, <1>4, <1>5 DEF CountsHold
<1>8. v["onion"] <= v["fresh"] + request[r].touched
  BY <1>3, <1>5 DEF CountsHold
<1>9. v["fresh"] <= v["online"] + request[r].touched
  BY <1>3, <1>5 DEF CountsHold
<1>10. Cardinality(v["samples"]) <= v["fresh"] + request[r].touched
  BY <1>3, <1>4, <1>5 DEF CountsHold
<1> QED
  BY <1>6, <1>7, <1>8, <1>9, <1>10 DEF WithinDrift, v

LEMMA UnreadFitsLater == ReadTypes' => UnreadFits'
BY UnreadFitsNow, PTL

\* A figure read stays, one to be read moves by the rows that changed.
LEMMA FiguresMove ==
  ASSUME ShapeInv, ShapeInv', NEW t \in [Node -> RowState], status' = t,
         NEW r \in Request, request'[r].read = request[r].read
  PROVE  LET D == DOMAIN request[r].read
             k == Cardinality(Changed(t))
         IN  /\ k \in Nat
             /\ \A f \in Figures : f \in D => Fig(r)'[f] = Fig(r)[f]
             /\ \A f \in {"groups", "fresh", "all", "online", "offline", "onion"} :
                  Fig(r)'[f] - Fig(r)[f] \in (-k)..k
             /\ Cardinality(Fig(r)'["samples"]) - Cardinality(Fig(r)["samples"]) \in (-k)..k
             /\ "samples" \notin D => Fig(r)'["samples"] = SampleRows'
             /\ "onion" \notin D => Fig(r)'["onion"] = Cardinality(FreshRows \cap Onion)'
             /\ "fresh" \notin D => Fig(r)'["fresh"] = Cardinality(FreshRows)'
             /\ "online" \notin D =>
                  /\ Fig(r)["online"] = Cardinality(OnlineRows)
                  /\ Fig(r)'["online"] = Cardinality(OnlineRows)'
             /\ "offline" \notin D =>
                  /\ Fig(r)["offline"] = Cardinality(OfflineRows)
                  /\ Fig(r)'["offline"] = Cardinality(OfflineRows)'
<1> DEFINE D == DOMAIN request[r].read
           k == Cardinality(Changed(t))
           Near(x) == x \in (-k)..k
<1>1. \A f \in Figures : f \in D => Fig(r)'[f] = Fig(r)[f]
  BY DEF Fig, FigureOf
<1>2. \A f \in Figures : f \notin D => Fig(r)'[f] = Query(f)' /\ Fig(r)[f] = Query(f)
  BY DEF Fig, FigureOf
<1>3. {"groups", "fresh", "all", "online", "offline", "onion", "samples"} \subseteq Figures
  BY DEF Figures, ReportFields, StatsFields, TickerFields
<1>4. /\ k \in Nat
      /\ Near(Cardinality(FreshRows)' - Cardinality(FreshRows))
      /\ Near(Cardinality(OnlineRows)' - Cardinality(OnlineRows))
      /\ Near(Cardinality(OfflineRows)' - Cardinality(OfflineRows))
      /\ Near(Cardinality(KnownRows)' - Cardinality(KnownRows))
      /\ Near(Cardinality(SampleRows)' - Cardinality(SampleRows))
      /\ Near(Cardinality(FreshRows \cap Onion)' - Cardinality(FreshRows \cap Onion))
  BY CommitDrift DEF ShapeInv
<1>5. /\ Query("groups") = Cardinality(FreshRows) /\ Query("fresh") = Cardinality(FreshRows)
      /\ Query("all") = Cardinality(KnownRows) /\ Query("online") = Cardinality(OnlineRows)
      /\ Query("offline") = Cardinality(OfflineRows)
      /\ Query("onion") = Cardinality(FreshRows \cap Onion)
      /\ Query("samples") = SampleRows
  BY Queries DEF KnownRows, OfflineRows, SampleRows
<1>6. /\ Query("groups")' = Cardinality(FreshRows)' /\ Query("fresh")' = Cardinality(FreshRows)'
      /\ Query("all")' = Cardinality(KnownRows)' /\ Query("online")' = Cardinality(OnlineRows)'
      /\ Query("offline")' = Cardinality(OfflineRows)'
      /\ Query("onion")' = Cardinality(FreshRows \cap Onion)'
      /\ Query("samples")' = SampleRows'
  BY DEF Query, KnownRows, OfflineRows, SampleRows
<1>7. /\ \A f \in Counted : Fig(r)[f] \in Nat
      /\ Cardinality(Fig(r)["samples"]) \in Nat
  BY FigTypes DEF ShapeInv
<1> HIDE DEF D, k
<1>8. \A f \in {"groups", "fresh", "all", "online", "offline", "onion"} :
        Near(Fig(r)'[f] - Fig(r)[f])
  <2>1. ASSUME NEW f \in {"groups", "fresh", "all", "online", "offline", "onion"}, f \in D
        PROVE  Near(Fig(r)'[f] - Fig(r)[f])
    <3>1. Fig(r)'[f] = Fig(r)[f] /\ Fig(r)[f] \in Nat
      BY <1>1, <1>3, <1>7, <2>1 DEF Counted
    <3> QED
      BY <1>4, <3>1
  <2>2. ASSUME NEW f \in {"groups", "fresh", "all", "online", "offline", "onion"}, f \notin D
        PROVE  Near(Fig(r)'[f] - Fig(r)[f])
    <3>1. Fig(r)'[f] = Query(f)' /\ Fig(r)[f] = Query(f)
      BY <1>2, <1>3, <2>2
    <3>2. Near(Query(f)' - Query(f))
      <4> HIDE DEF Near
      <4> QED
        BY <1>4, <1>5, <1>6
    <3> QED
      BY <3>1, <3>2
  <2> QED
    BY <2>1, <2>2
<1>9. Near(Cardinality(Fig(r)'["samples"]) - Cardinality(Fig(r)["samples"]))
  <2>1. CASE "samples" \in D
    BY <1>1, <1>3, <1>4, <1>7, <2>1
  <2>2. CASE "samples" \notin D
    <3>1. Fig(r)'["samples"] = SampleRows' /\ Fig(r)["samples"] = SampleRows
      BY <1>2, <1>3, <1>5, <1>6, <2>2
    <3> QED
      BY <1>4, <3>1
  <2> QED
    BY <2>1, <2>2
<1>10. /\ "samples" \notin D => Fig(r)'["samples"] = SampleRows'
       /\ "onion" \notin D => Fig(r)'["onion"] = Cardinality(FreshRows \cap Onion)'
       /\ "fresh" \notin D => Fig(r)'["fresh"] = Cardinality(FreshRows)'
       /\ "online" \notin D => /\ Fig(r)["online"] = Cardinality(OnlineRows)
                               /\ Fig(r)'["online"] = Cardinality(OnlineRows)'
       /\ "offline" \notin D => /\ Fig(r)["offline"] = Cardinality(OfflineRows)
                                /\ Fig(r)'["offline"] = Cardinality(OfflineRows)'
  BY <1>2, <1>3, <1>5, <1>6
<1> QED
  BY <1>1, <1>4, <1>8, <1>9, <1>10 DEF D, k

\* A snapshot that falls while a response is read.
LEMMA DriftOfCommit ==
  ASSUME ShapeInv, ShapeInv', DriftInv,
         NEW s \in Stamp \ used, NEW t \in [Node -> RowState], Commit(s, t),
         NEW r \in Request, ~request'[r].zero
  PROVE  WithinDrift(r, Fig(r)', request'[r].touched)
<1> DEFINE D == DOMAIN request[r].read
           k == Cardinality(Changed(t))
           d == request[r].touched
           v == Fig(r)
           w == Fig(r)'
<1>1. RequestShape(request[r]) /\ RequestShape(request'[r])
  BY ShapeByRequest DEF ShapeInv, ReadTypes, RequestShape
<1>2. CountsHold /\ CountsHold' /\ UnreadFits'
  BY CountsNow, CountsLater, UnreadFitsLater DEF ShapeInv
<1>3. CASE D = {}
  <2>1. request'[r].read = request[r].read
    <3>1. DOMAIN request[r] = {"sent", "read", "touched", "zero"}
      BY <1>1 DEF RequestShape
    <3> QED
      BY <3>1 DEF Commit
  <2>2. DOMAIN request'[r].read = {} /\ request'[r].touched \in Nat
    BY <1>1, <1>3, <2>1 DEF RequestShape
  <2> QED
    BY <1>2, <2>2 DEF UnreadFits
<1>4. CASE D # {}
  <2>1. request[r].read # <<>>
    <3>1. DOMAIN <<>> = {}
      OBVIOUS
    <3> QED
      BY <1>4, <3>1
  <2>2. /\ request'[r].read = request[r].read /\ request'[r].zero = request[r].zero
        /\ request'[r].touched = d + k
    <3>1. DOMAIN request[r] = {"sent", "read", "touched", "zero"}
      BY <1>1 DEF RequestShape
    <3>2. request'[r] = [request[r] EXCEPT !.touched = @ + Cardinality(Changed(t))]
      BY <2>1 DEF Commit, Changed
    <3> QED
      BY <3>1, <3>2
  <2>3. d \in Nat /\ WithinDrift(r, v, d)
    BY <1>1, <2>2, DriftByRequest DEF RequestShape
  <2>4. status' = t
    BY DEF Commit
  <2>5. /\ k \in Nat
        /\ \A f \in Figures : f \in D => w[f] = v[f]
        /\ \A f \in {"groups", "fresh", "all", "online", "offline", "onion"} :
             w[f] - v[f] \in (-k)..k
        /\ Cardinality(w["samples"]) - Cardinality(v["samples"]) \in (-k)..k
        /\ "samples" \notin D => w["samples"] = SampleRows'
        /\ "onion" \notin D => w["onion"] = Cardinality(FreshRows \cap Onion)'
        /\ "fresh" \notin D => w["fresh"] = Cardinality(FreshRows)'
        /\ "online" \notin D => /\ v["online"] = Cardinality(OnlineRows)
                                /\ w["online"] = Cardinality(OnlineRows)'
        /\ "offline" \notin D => /\ v["offline"] = Cardinality(OfflineRows)
                                 /\ w["offline"] = Cardinality(OfflineRows)'
    BY <2>2, <2>4, FiguresMove
  <2>6. /\ \A f \in Counted : v[f] \in Nat
        /\ Cardinality(v["samples"]) \in Nat
    BY FigTypes DEF ShapeInv
  <2>7. \A f \in Counted : w[f] \in Int
    BY FigTypesLater DEF ShapeInv, TypedFigures
  <2>8. Cardinality(w["samples"]) \in Nat
    BY FigTypesLater DEF ShapeInv, TypedFigures
  <2>9. Counted \cup {"samples"} \subseteq Figures
    BY DEF Counted, Figures, ReportFields, StatsFields, TickerFields
  <2>11. CASE r \in ReportPoll
    <3>1. "total" \in D
      BY <1>4, <2>11, ReportOrder DEF ShapeInv
    <3> HIDE DEF v, w, k, d, D
    <3>2. w["total"] = v["total"] /\ w["groups"] - v["groups"] \in (-k)..k
      BY <2>5, <2>9, <3>1 DEF Counted
    <3>3. v["total"] - v["groups"] \in (-d)..d
      BY <2>3, <2>11 DEF WithinDrift
    <3>4. v["total"] \in Nat /\ v["groups"] \in Nat /\ w["groups"] \in Int
      BY <2>6, <2>7 DEF Counted
    <3>5. w["total"] - w["groups"] \in (-(d + k))..(d + k)
      BY <2>3, <2>5, <3>2, <3>3, <3>4
    <3>6. r # "ticker" /\ r # "stats"
      BY <2>11, NodeReadsAssumption
    <3>7. WithinDrift(r, w, d + k)
      BY <3>5, <3>6 DEF WithinDrift
    <3> QED
      BY <2>2, <3>7 DEF w, d, k
  <2>12. CASE r = "ticker"
    <3>1. "onion" \in D => "fresh" \in D
      BY <2>12, TickerOrder DEF ShapeInv
    <3>2. r \notin ReportPoll /\ r # "stats"
      BY <2>12, NodeReadsAssumption
    <3> HIDE DEF v, w, k, d, D
    <3>3. v["onion"] <= v["fresh"] + d
      BY <2>3, <2>12 DEF WithinDrift
    <3>4. /\ v["onion"] \in Nat /\ v["fresh"] \in Nat
          /\ w["onion"] \in Int /\ w["fresh"] \in Int
          /\ w["onion"] - v["onion"] \in (-k)..k
      BY <2>5, <2>6, <2>7 DEF Counted
    <3>5. w["onion"] <= w["fresh"] + (d + k)
      <4>1. CASE "fresh" \in D
        <5>1. w["fresh"] = v["fresh"]
          BY <2>5, <2>9, <4>1 DEF Counted
        <5> QED
          BY <2>3, <2>5, <3>3, <3>4, <5>1
      <4>2. CASE "fresh" \notin D
        <5>1. /\ w["onion"] = Cardinality(FreshRows \cap Onion)'
              /\ w["fresh"] = Cardinality(FreshRows)'
          BY <2>5, <3>1, <4>2
        <5> QED
          BY <1>2, <2>3, <2>5, <5>1 DEF CountsHold
      <4> QED
        BY <4>1, <4>2
    <3>6. WithinDrift(r, w, d + k)
      BY <3>2, <3>5 DEF WithinDrift
    <3> QED
      BY <2>2, <3>6 DEF w, d, k
  <2>13. CASE r = "stats"
    <3>1. /\ "all" \in D /\ ("offline" \in D => "online" \in D)
          /\ "fresh" \in D => "online" \in D /\ "offline" \in D
          /\ "onion" \in D => "fresh" \in D
          /\ "samples" \in D => "fresh" \in D
      BY <1>4, <2>13, StatsOrder DEF ShapeInv
    <3>2. r \notin ReportPoll /\ r # "ticker"
      BY <2>13, NodeReadsAssumption
    <3> HIDE DEF v, w, k, d, D
    <3>3. /\ v["online"] + v["offline"] - v["all"] \in (-d)..d
          /\ v["fresh"] <= v["online"] + d
          /\ v["onion"] <= v["fresh"] + d
          /\ Cardinality(v["samples"]) <= v["fresh"] + d
      BY <2>3, <2>13 DEF WithinDrift
    <3>4. /\ v["onion"] \in Nat /\ v["fresh"] \in Nat /\ v["online"] \in Nat
          /\ v["offline"] \in Nat /\ v["all"] \in Nat
          /\ w["onion"] \in Int /\ w["fresh"] \in Int /\ w["online"] \in Int
          /\ w["offline"] \in Int /\ w["all"] = v["all"]
          /\ w["onion"] - v["onion"] \in (-k)..k /\ w["fresh"] - v["fresh"] \in (-k)..k
          /\ w["offline"] - v["offline"] \in (-k)..k
      BY <2>5, <2>6, <2>7, <2>9, <3>1 DEF Counted
    <3>5. \A f \in Counted \cup {"samples"} : f \in D => w[f] = v[f]
      BY <2>5, <2>9
    <3>6. w["online"] + w["offline"] - w["all"] \in (-(d + k))..(d + k)
      <4>1. CASE "online" \in D
        <5>1. w["online"] = v["online"]
          BY <3>5, <4>1 DEF Counted
        <5> QED
          BY <2>3, <2>5, <3>3, <3>4, <5>1
      <4>2. CASE "online" \notin D
        <5>1. /\ v["online"] = Cardinality(OnlineRows) /\ v["offline"] = Cardinality(OfflineRows)
              /\ w["online"] = Cardinality(OnlineRows)' /\ w["offline"] = Cardinality(OfflineRows)'
          BY <2>5, <3>1, <4>2
        <5>2. Cardinality(KnownRows)' - Cardinality(KnownRows) \in (-k)..k
          BY <2>4, CommitDrift DEF ShapeInv, k
        <5>3. /\ v["online"] + v["offline"] = Cardinality(KnownRows)
              /\ w["online"] + w["offline"] = Cardinality(KnownRows)'
              /\ Cardinality(KnownRows) \in Nat /\ Cardinality(KnownRows)' \in Nat
          BY <1>2, <5>1 DEF CountsHold
        <5> QED
          BY <2>3, <2>5, <3>3, <3>4, <5>2, <5>3
      <4> QED
        BY <4>1, <4>2
    <3>7. w["fresh"] <= w["online"] + (d + k)
      <4>1. CASE "online" \in D
        <5>1. w["online"] = v["online"]
          BY <3>5, <4>1 DEF Counted
        <5> QED
          BY <2>3, <2>5, <3>3, <3>4, <5>1
      <4>2. CASE "online" \notin D
        <5>1. /\ w["fresh"] = Cardinality(FreshRows)'
              /\ w["online"] = Cardinality(OnlineRows)'
          BY <2>5, <3>1, <4>2
        <5> QED
          BY <1>2, <2>3, <2>5, <5>1 DEF CountsHold
      <4> QED
        BY <4>1, <4>2
    <3>8. w["onion"] <= w["fresh"] + (d + k)
      <4>1. CASE "fresh" \in D
        <5>1. w["fresh"] = v["fresh"]
          BY <3>5, <4>1 DEF Counted
        <5> QED
          BY <2>3, <2>5, <3>3, <3>4, <5>1
      <4>2. CASE "fresh" \notin D
        <5>1. /\ w["onion"] = Cardinality(FreshRows \cap Onion)'
              /\ w["fresh"] = Cardinality(FreshRows)'
          BY <2>5, <3>1, <4>2
        <5> QED
          BY <1>2, <2>3, <2>5, <5>1 DEF CountsHold
      <4> QED
        BY <4>1, <4>2
    <3>9. Cardinality(w["samples"]) <= w["fresh"] + (d + k)
      <4>1. CASE "fresh" \in D
        <5>1. w["fresh"] = v["fresh"]
          BY <3>5, <4>1 DEF Counted
        <5> QED
          BY <2>3, <2>5, <2>6, <2>8, <3>3, <3>4, <5>1
      <4>2. CASE "fresh" \notin D
        <5>1. /\ w["samples"] = SampleRows'
              /\ w["fresh"] = Cardinality(FreshRows)'
          BY <2>5, <3>1, <4>2
        <5>2. Cardinality(w["samples"]) = Cardinality(SampleRows)'
          BY <5>1
        <5> QED
          BY <1>2, <2>3, <2>5, <5>1, <5>2 DEF CountsHold
      <4> QED
        BY <4>1, <4>2
    <3>10. WithinDrift(r, w, d + k)
      BY <3>2, <3>6, <3>7, <3>8, <3>9 DEF WithinDrift
    <3> QED
      BY <2>2, <3>10 DEF w, d, k
  <2>14. CASE r = "nodes"
    <3>1. r \notin ReportPoll /\ r # "ticker" /\ r # "stats"
      BY <2>14, NodeReadsAssumption
    <3> QED
      BY <3>1 DEF WithinDrift
  <2> QED
    BY <2>11, <2>12, <2>13, <2>14 DEF Request
<1> QED
  BY <1>3, <1>4

LEMMA DriftLater ==
  (\A r \in Request : ~request[r].zero => WithinDrift(r, Fig(r), request[r].touched))'
    => DriftInv'
BY DriftByRequest, PTL

\* A request none of whose counts changed, read or unread.
LEMMA DriftOfSame ==
  ASSUME DriftInv, NEW r \in Request,
         request'[r].zero = request[r].zero, request'[r].touched = request[r].touched,
         \A f \in Figures \ {"stamp"} : FigureOf(r, f)' = FigureOf(r, f)
  PROVE  (~request[r].zero => WithinDrift(r, Fig(r), request[r].touched))'
<1>1. \A f \in Figures \ {"stamp"} : (Fig(r)')[f] = Fig(r)[f]
  BY DEF Fig
<1>2. ~request[r].zero => WithinDrift(r, Fig(r), request[r].touched)
  BY DriftByRequest
<1>3. WithinDrift(r, Fig(r), request[r].touched)' <=>
        WithinDrift(r, Fig(r)', request'[r].touched)
  BY DEF WithinDrift
<1> HIDE DEF Fig
<1>4. WithinDrift(r, Fig(r)', request'[r].touched) <=>
        WithinDrift(r, Fig(r), request[r].touched)
  <2> DEFINE v == Fig(r)
             w == Fig(r)'
  <2>1. /\ w["total"] = v["total"] /\ w["groups"] = v["groups"]
        /\ w["onion"] = v["onion"] /\ w["fresh"] = v["fresh"]
        /\ w["online"] = v["online"] /\ w["offline"] = v["offline"]
        /\ w["all"] = v["all"] /\ w["samples"] = v["samples"]
    BY <1>1 DEF Figures, ReportFields, StatsFields, TickerFields
  <2> HIDE DEF v, w
  <2> QED
    BY <2>1 DEF WithinDrift, v, w
<1> QED
  BY <1>2, <1>3, <1>4

LEMMA DriftOfUnread ==
  ASSUME ReadTypes', NEW r \in Request, request'[r] = Unread
  PROVE  (~request[r].zero => WithinDrift(r, Fig(r), request[r].touched))'
<1>1. DOMAIN request'[r].read = {} /\ request'[r].touched \in Nat
  BY ShapeOfUnread DEF RequestShape
<1>2. UnreadFits'
  BY UnreadFitsLater
<1> QED
  BY <1>1, <1>2 DEF UnreadFits

LEMMA DriftStep ==
  ASSUME ShapeInv, ShapeInv', DriftInv, NodesStep
  PROVE  DriftInv'
<1> DEFINE Fits(r) == ~request[r].zero => WithinDrift(r, Fig(r), request[r].touched)
<1> SUFFICES ASSUME NEW r \in Request
             PROVE  Fits(r)'
  BY DriftLater
<1>1. DOMAIN request = Request /\ \A o \in Request : RequestShape(request[o])
  BY DEF ShapeInv, ReadTypes, RequestShape
<1>2. CASE \E s \in Stamp \ used, t \in [Node -> RowState] : Commit(s, t)
  <2>1. PICK s \in Stamp \ used, t \in [Node -> RowState] : Commit(s, t)
    BY <1>2
  <2>2. ~request'[r].zero => WithinDrift(r, Fig(r)', request'[r].touched)
    BY <2>1, DriftOfCommit
  <2>3. WithinDrift(r, Fig(r), request[r].touched)' <=>
          WithinDrift(r, Fig(r)', request'[r].touched)
    BY DEF WithinDrift
  <2> QED
    BY <2>2, <2>3
<1>3. ASSUME UNCHANGED <<status, stamp>>, request'[r] = request[r]
      PROVE  Fits(r)'
  <2>1. \A f \in Figures : Query(f)' = Query(f)
    BY <1>3 DEF Query, FreshRows, IsFresh, OnlineRows
  <2>2. \A f \in Figures : FigureOf(r, f)' = FigureOf(r, f)
    BY <1>3, <2>1 DEF FigureOf
  <2> QED
    BY <1>3, <2>2, DriftOfSame
<1>4. ASSUME request'[r] = Unread
      PROVE  Fits(r)'
  BY <1>4, DriftOfUnread DEF ShapeInv
<1>5. ASSUME NEW o \in Request, SendRequest(o)
      PROVE  Fits(r)'
  <2>1. CASE o # r
    BY <1>1, <1>3, <1>5, <2>1 DEF SendRequest
  <2>2. CASE o = r
    <3>1. request'[r] = [request[r] EXCEPT !.sent = TRUE]
      BY <1>1, <1>5, <2>2 DEF SendRequest
    <3>2. /\ request'[r].read = request[r].read /\ request'[r].zero = request[r].zero
          /\ request'[r].touched = request[r].touched
      BY <1>1, <3>1 DEF RequestShape
    <3>3. \A f \in Figures : Query(f)' = Query(f)
      BY <1>5 DEF SendRequest, Query, FreshRows, IsFresh, OnlineRows
    <3>4. \A f \in Figures : FigureOf(r, f)' = FigureOf(r, f)
      BY <3>2, <3>3 DEF FigureOf
    <3> QED
      BY <3>2, <3>4, DriftOfSame
  <2> QED
    BY <2>1, <2>2
<1>6. ASSUME NEW o \in Request, ReadStatement(o)
      PROVE  Fits(r)'
  <2>1. CASE o # r
    BY <1>1, <1>3, <1>6, <2>1 DEF ReadStatement
  <2>2. CASE o = r
    <3> DEFINE g == NextFigure(r)
    <3>1. request'[r] = [request[r] EXCEPT !.read = With(@, g, Query(g))]
      BY <1>1, <1>6, <2>2 DEF ReadStatement
    <3> HIDE DEF g
    <3>2. /\ request'[r].read = With(request[r].read, g, Query(g))
          /\ request'[r].zero = request[r].zero
          /\ request'[r].touched = request[r].touched
      BY <1>1, <3>1 DEF RequestShape
    <3>3. \A f \in Figures : Query(f)' = Query(f)
      BY <1>6 DEF ReadStatement, Query, FreshRows, IsFresh, OnlineRows
    <3>4. g \notin DOMAIN request[r].read
      BY <1>6, <2>2, NextInOrder, NextIsNew DEF g, ReadStatement, ShapeInv
    <3>5. \A f \in Figures : FigureOf(r, f)' = FigureOf(r, f)
      BY <3>2, <3>3, <3>4 DEF FigureOf, With
    <3> QED
      BY <3>2, <3>5, DriftOfSame
  <2> QED
    BY <2>1, <2>2
<1>7. ASSUME NEW o \in Request, StatementFails(o)
      PROVE  Fits(r)'
  <2>1. CASE o # r
    BY <1>1, <1>3, <1>7, <2>1 DEF StatementFails
  <2>2. CASE o = r /\ ~Softened(r, NextFigure(r))
    BY <1>1, <1>4, <1>7, <2>2 DEF StatementFails
  <2>3. CASE o = r /\ Softened(r, NextFigure(r))
    <3> DEFINE g == NextFigure(r)
    <3>1. request'[r] = [request[r] EXCEPT !.zero = @ \/ g # "stamp",
                                           !.read = With(request[r].read, g, 0)]
      BY <1>1, <1>7, <2>3 DEF StatementFails
    <3> HIDE DEF g
    <3>2. /\ request'[r].zero = (request[r].zero \/ g # "stamp")
          /\ request'[r].touched = request[r].touched
          /\ request'[r].read = With(request[r].read, g, 0)
      BY <1>1, <3>1 DEF RequestShape
    <3>3. CASE g = "stamp"
      <4>1. \A f \in Figures : Query(f)' = Query(f)
        BY <1>7 DEF StatementFails, Query, FreshRows, IsFresh, OnlineRows
      <4>2. \A f \in Figures \ {"stamp"} : FigureOf(r, f)' = FigureOf(r, f)
        BY <3>2, <3>3, <4>1 DEF FigureOf, With
      <4>3. request'[r].zero = request[r].zero
        BY <1>1, <3>2, <3>3 DEF RequestShape
      <4> QED
        BY <3>2, <4>2, <4>3, DriftOfSame
    <3>4. CASE g # "stamp"
      BY <3>2, <3>4
    <3> QED
      BY <3>3, <3>4
  <2> QED
    BY <2>1, <2>2, <2>3
<1>8. ASSUME NEW o \in Request, ReceiveReport(o) \/ DropAnswer(o)
      PROVE  Fits(r)'
  <2>1. CASE o # r
    BY <1>1, <1>3, <1>8, <2>1 DEF ReceiveReport, DropAnswer
  <2>2. CASE o = r
    BY <1>1, <1>4, <1>8, <2>2 DEF ReceiveReport, DropAnswer
  <2> QED
    BY <2>1, <2>2
<1>9. CASE UNCHANGED nodeVars
  BY <1>3, <1>9 DEF nodeVars
<1> QED
  BY <1>2, <1>5, <1>6, <1>7, <1>8, <1>9 DEF NodesStep

\* A response that has been answered shows the figures it has read.
LEMMA AnsweredDrift ==
  ASSUME ShapeInv, DriftInv
  PROVE  FiguresDrift
<1> SUFFICES ASSUME NEW r \in Request, Answered(r), ~request[r].zero
             PROVE  LET v == request[r].read
                        d == request[r].touched
                    IN  /\ r \in ReportPoll => v.total - v.groups \in (-d)..d
                        /\ r = "ticker" => v.onion <= v.fresh + d
                        /\ r = "stats" =>
                             /\ v.online + v.offline - v.all \in (-d)..d
                             /\ v.fresh <= v.online + d
                             /\ v.onion <= v.fresh + d
                             /\ Cardinality(v.samples) <= v.fresh + d
  BY DEF FiguresDrift
<1> DEFINE v == request[r].read
           d == request[r].touched
<1>1. \A f \in Figures : f \in DOMAIN v => Fig(r)[f] = v[f]
  BY DEF Fig, FigureOf
<1>2. WithinDrift(r, Fig(r), d)
  BY DriftByRequest
<1>3. Len(Program(r)) \in Nat
      /\ \A i \in 1..Len(Program(r)) : Program(r)[i] \in Figures \cap DOMAIN v
  <2>1. DOMAIN v = {Program(r)[i] : i \in 1..Len(Program(r))}
    BY NextInOrder DEF ShapeInv, Answered
  <2> HIDE DEF v
  <2> QED
    BY <2>1, StatementsAreFigures
<1>4. \A i \in 1..Len(Program(r)) : Fig(r)[Program(r)[i]] = v[Program(r)[i]]
  BY <1>1, <1>3
<1> HIDE DEF v, d
<1>5. CASE r \in ReportPoll
  <2>1. Program(r) = <<"total", "stamp", "groups">> /\ r # "ticker" /\ r # "stats"
    BY <1>5, Programs, NodeReadsAssumption
  <2>2. Len(Program(r)) = 3 /\ Program(r)[1] = "total" /\ Program(r)[3] = "groups"
    BY <2>1
  <2>3. Fig(r)["total"] = v["total"] /\ Fig(r)["groups"] = v["groups"]
    BY <1>4, <2>2
  <2> QED
    BY <1>2, <1>5, <2>1, <2>3 DEF WithinDrift, v, d
<1>6. CASE r = "ticker"
  <2>1. Program(r) = <<"fresh", "onion">> /\ r \notin ReportPoll /\ r # "stats"
    BY <1>6, Programs, NodeReadsAssumption
  <2>2. Len(Program(r)) = 2 /\ Program(r)[1] = "fresh" /\ Program(r)[2] = "onion"
    BY <2>1
  <2>3. Fig(r)["fresh"] = v["fresh"] /\ Fig(r)["onion"] = v["onion"]
    BY <1>4, <2>2
  <2> QED
    BY <1>2, <1>6, <2>1, <2>3 DEF WithinDrift, v, d
<1>7. CASE r = "stats"
  <2>1. /\ Program(r) = <<"all", "online", "offline", "fresh", "onion", "samples">>
        /\ r \notin ReportPoll /\ r # "ticker"
    BY <1>7, Programs, NodeReadsAssumption
  <2>2. /\ Len(Program(r)) = 6 /\ Program(r)[1] = "all" /\ Program(r)[2] = "online"
        /\ Program(r)[3] = "offline" /\ Program(r)[4] = "fresh"
        /\ Program(r)[5] = "onion" /\ Program(r)[6] = "samples"
    BY <2>1
  <2>3. /\ Fig(r)["all"] = v["all"] /\ Fig(r)["online"] = v["online"]
        /\ Fig(r)["offline"] = v["offline"] /\ Fig(r)["fresh"] = v["fresh"]
        /\ Fig(r)["onion"] = v["onion"] /\ Fig(r)["samples"] = v["samples"]
    BY <1>4, <2>2
  <2> QED
    BY <1>2, <1>7, <2>1, <2>3 DEF WithinDrift, v, d
<1>8. CASE r = "nodes"
  BY <1>8, NodeReadsAssumption
<1> QED
  BY <1>5, <1>6, <1>7, <1>8 DEF Request

-----------------------------------------------------------------------------
(* Reports under a stamp.                                                   *)

\* A report under way: under the newest stamp it has the newest figures.
TrueToStamp(q) ==
  LET Has(f) == f \in DOMAIN q.read
  IN  /\ Has("stamp") => q.read.stamp \in used \cup {0}
      /\ Has("stamp") /\ q.read.stamp = stamp /\ stamp # 0 /\ Has("groups") =>
           q.read.groups = Cardinality(FreshRows)

LEMMA ReportsByRequest ==
  ReportInv <=> DashboardExact /\ \A r \in ReportPoll : TrueToStamp(request[r])
BY DEF ReportInv, TrueToStamp

LEMMA ReportsLater ==
  DashboardExact' /\ (\A r \in ReportPoll : TrueToStamp(request[r]))' => ReportInv'
BY ReportsByRequest, PTL

LEMMA UnreadWillBeTrue ==
  ASSUME NEW r, request'[r] = Unread
  PROVE  TrueToStamp(request[r])'
BY ShapeOfUnread DEF TrueToStamp

\* A new stamp: no report has it yet.
LEMMA ReportsOfCommit ==
  ASSUME ShapeInv, ReportInv, NEW s \in Stamp \ used, NEW t \in [Node -> RowState],
         Commit(s, t)
  PROVE  ReportInv'
<1>1. s # 0 /\ s \notin used \cup {0} /\ stamp' = s /\ used' = used \cup {s} /\ data' = data
  BY NodeReadsAssumption DEF Commit
<1>2. data.stamp \in used \cup {0}
  BY DEF ShapeInv, ReadTypes, Shown
<1>3. DashboardExact'
  BY <1>1, <1>2 DEF ReportInv, DashboardExact
<1>4. ASSUME NEW r \in ReportPoll
      PROVE  TrueToStamp(request[r])'
  <2> DEFINE q == request[r]
             p == request'[r]
  <2>1. r \in Request /\ TrueToStamp(q)
    BY ReportsByRequest DEF Request
  <2>2. RequestShape(q)
    BY <2>1, ShapeByRequest DEF ShapeInv
  <2>3. p.read = q.read
    <3>1. CASE q.read = <<>>
      BY <2>1, <3>1 DEF Commit
    <3>2. CASE q.read # <<>>
      <4>1. p = [q EXCEPT !.touched = @ + Cardinality(Changed(t))]
        BY <2>1, <3>2 DEF Commit, Changed
      <4> QED
        BY <2>2, <4>1 DEF RequestShape
    <3> QED
      BY <3>1, <3>2
  <2>4. "stamp" \in DOMAIN q.read => q.read.stamp \in used \cup {0}
    BY <2>1 DEF TrueToStamp
  <2> QED
    BY <1>1, <2>3, <2>4 DEF TrueToStamp
<1> QED
  BY <1>3, <1>4, ReportsLater

LEMMA ReportsStep ==
  ASSUME ShapeInv, DriftInv, ReportInv, NodesStep
  PROVE  ReportInv'
<1> DEFINE Exact(o) == TrueToStamp(request[o])
<1>1. DOMAIN request = Request /\ \A o \in Request : RequestShape(request[o])
  BY DEF ShapeInv, ReadTypes, RequestShape
<1>2. CASE \E s \in Stamp \ used, t \in [Node -> RowState] : Commit(s, t)
  BY <1>2, ReportsOfCommit
<1>3. ASSUME UNCHANGED <<status, stamp, used, data>>,
             \A r \in ReportPoll : Exact(r)' \/ request'[r] = request[r]
      PROVE  ReportInv'
  <2>1. UNCHANGED FreshRows
    BY <1>3 DEF FreshRows, IsFresh
  <2>2. DashboardExact'
    BY <1>3, <2>1 DEF ReportInv, DashboardExact
  <2>3. \A r \in ReportPoll : request'[r] = request[r] => Exact(r)'
    BY <1>3, <2>1, ReportsByRequest DEF TrueToStamp
  <2> QED
    BY <1>3, <2>2, <2>3, ReportsLater
<1>4. ASSUME NEW o \in Request, SendRequest(o)
      PROVE  ReportInv'
  <2>1. ASSUME NEW r \in ReportPoll
        PROVE  Exact(r)' \/ request'[r] = request[r]
    <3>1. CASE r # o
      BY <1>1, <1>4, <3>1 DEF SendRequest, Request
    <3>2. CASE r = o
      <4>1. request'[r] = [request[r] EXCEPT !.sent = TRUE]
        BY <1>1, <1>4, <3>2 DEF SendRequest
      <4>2. request'[r].read = request[r].read
        BY <1>1, <3>2, <4>1 DEF RequestShape
      <4>3. TrueToStamp(request[r])
        BY ReportsByRequest
      <4>4. UNCHANGED <<status, stamp, used>>
        BY <1>4 DEF SendRequest
      <4>5. UNCHANGED FreshRows
        BY <4>4 DEF FreshRows, IsFresh
      <4> QED
        BY <4>2, <4>3, <4>4, <4>5 DEF TrueToStamp
    <3> QED
      BY <3>1, <3>2
  <2> QED
    BY <1>3, <1>4, <2>1 DEF SendRequest
<1>5. ASSUME NEW o \in Request, ReadStatement(o)
      PROVE  ReportInv'
  <2>1. ASSUME NEW r \in ReportPoll
        PROVE  Exact(r)' \/ request'[r] = request[r]
    <3>1. CASE r # o
      BY <1>1, <1>5, <3>1 DEF ReadStatement, Request
    <3>2. CASE r = o
      <4> DEFINE q == request[r]
                 p == request'[r]
                 g == NextFigure(r)
      <4>1. p = [q EXCEPT !.read = With(@, g, Query(g))]
        BY <1>1, <1>5, <3>2 DEF ReadStatement
      <4>2. g \notin DOMAIN q.read /\ g \in {"total", "stamp", "groups"}
        <5>1. Unanswered(r) /\ r \in Request
          BY <1>5, <3>2 DEF ReadStatement
        <5> QED
          BY <5>1, NextIsNew, NextOfReport DEF ShapeInv
      <4>3. /\ "stamp" \in DOMAIN q.read => "total" \in DOMAIN q.read
            /\ "groups" \in DOMAIN q.read => "stamp" \in DOMAIN q.read
        BY ReportOrder DEF ShapeInv
      <4>4. UNCHANGED <<status, stamp, used>>
        BY <1>5 DEF ReadStatement
      <4>5. UNCHANGED FreshRows
        BY <4>4 DEF FreshRows, IsFresh
      <4>6. TrueToStamp(q)
        BY ReportsByRequest
      <4>7. stamp \in used \cup {0}
        BY DEF ShapeInv, ReadTypes
      <4>8. /\ g \in {"total", "groups"} => Query(g) = Cardinality(FreshRows)
            /\ g = "stamp" => Query(g) = stamp
        BY Queries
      <4>9. DOMAIN q = {"sent", "read", "touched", "zero"}
        BY <1>1, <3>2 DEF RequestShape
      <4> HIDE DEF q, g
      <4>10. p.read = With(q.read, g, Query(g)) 
        BY <4>1, <4>9
      <4>11. /\ DOMAIN p.read = DOMAIN q.read \cup {g} /\ p.read[g] = Query(g)
             /\ \A f \in DOMAIN q.read : p.read[f] = q.read[f]
        BY <4>2, <4>10 DEF With
      <4>12. CASE g = "total"
        BY <4>2, <4>3, <4>4, <4>5, <4>6, <4>8, <4>10, <4>11, <4>12 DEF TrueToStamp
      <4>13. CASE g = "stamp"
        BY <4>2, <4>3, <4>4, <4>5, <4>6, <4>7, <4>8, <4>10, <4>11, <4>13 DEF TrueToStamp
      <4>14. CASE g = "groups"
        BY <4>2, <4>3, <4>4, <4>5, <4>6, <4>8, <4>10, <4>11, <4>14 DEF TrueToStamp
      <4> QED
        BY <4>2, <4>12, <4>13, <4>14
    <3> QED
      BY <3>1, <3>2
  <2> QED
    BY <1>3, <1>5, <2>1 DEF ReadStatement
<1>6. ASSUME NEW o \in Request, StatementFails(o)
      PROVE  ReportInv'
  <2>1. ASSUME NEW r \in ReportPoll
        PROVE  Exact(r)' \/ request'[r] = request[r]
    <3>1. CASE r # o
      BY <1>1, <1>6, <3>1 DEF StatementFails, Request
    <3>2. CASE r = o /\ ~Softened(r, NextFigure(r))
      <4>1. request'[r] = Unread
        BY <1>1, <1>6, <3>2 DEF StatementFails
      <4> QED
        BY <4>1, UnreadWillBeTrue
    <3>3. CASE r = o /\ Softened(r, NextFigure(r))
      <4> DEFINE q == request[r]
                 p == request'[r]
      <4> DEFINE g == NextFigure(r)
      <4>1. p = [q EXCEPT !.zero = @ \/ g # "stamp", !.read = With(q.read, g, 0)]
        BY <1>1, <1>6, <3>3 DEF StatementFails
      <4>2. g \in {"total", "stamp"}
        BY <3>3, NodeReadsAssumption DEF Softened
      <4>3. DOMAIN q = {"sent", "read", "touched", "zero"}
        BY <1>1, <3>3 DEF RequestShape
      <4> HIDE DEF g
      <4>4. p.read = With(q.read, g, 0)
        BY <4>1, <4>3
      <4>5. UNCHANGED <<status, stamp, used>>
        BY <1>6 DEF StatementFails
      <4>6. UNCHANGED FreshRows
        BY <4>5 DEF FreshRows, IsFresh
      <4>7. TrueToStamp(q)
        BY ReportsByRequest
      <4> HIDE DEF q
      <4>8. /\ DOMAIN p.read = DOMAIN q.read \cup {g} /\ p.read[g] = 0
            /\ \A f \in DOMAIN q.read : f # g => p.read[f] = q.read[f]
        BY <4>4 DEF With
      <4> QED
        BY <4>2, <4>5, <4>6, <4>7, <4>8 DEF TrueToStamp
    <3> QED
      BY <3>1, <3>2, <3>3
  <2> QED
    BY <1>3, <1>6, <2>1 DEF StatementFails
<1>7. ASSUME NEW o \in Request, DropAnswer(o)
      PROVE  ReportInv'
  <2>1. ASSUME NEW r \in ReportPoll
        PROVE  Exact(r)' \/ request'[r] = request[r]
    BY <1>1, <1>7, UnreadWillBeTrue DEF DropAnswer, Request
  <2> QED
    BY <1>3, <1>7, <2>1 DEF DropAnswer
<1>8. ASSUME NEW o \in Request, ReceiveReport(o)
      PROVE  ReportInv'
  <2> DEFINE q == request[o]
  <2>1. o \in ReportPoll /\ Answered(o)
    BY <1>8 DEF ReceiveReport
  <2>2. DOMAIN q.read = {"total", "stamp", "groups"}
    BY <2>1, AnsweredReport
  <2>3. TrueToStamp(q)
    BY <2>1, ReportsByRequest
  <2>4. UNCHANGED <<status, stamp, used>>
    BY <1>8 DEF ReceiveReport
  <2>5. UNCHANGED FreshRows
    BY <2>4 DEF FreshRows, IsFresh
  <2>6. q.read.stamp = stamp /\ stamp # 0 => q.read.groups = Cardinality(FreshRows)
    BY <2>2, <2>3 DEF TrueToStamp
  <2>7. ~q.zero => q.read.total - q.read.groups \in (-q.touched)..q.touched
    BY <2>1, AnsweredDrift DEF FiguresDrift, Request
  <2>8. DashboardExact'
    <3>1. CASE data' = data
      BY <2>4, <2>5, <3>1 DEF DashboardExact, ReportInv
    <3>2. CASE data' = [stamp |-> q.read.stamp, total |-> q.read.total,
                        groups |-> q.read.groups, counted |-> ~q.zero,
                        drift |-> q.touched]
      <4>1. /\ data'.stamp = q.read.stamp /\ data'.total = q.read.total
            /\ data'.groups = q.read.groups /\ data'.drift = q.touched
        BY <3>2
      <4>2. data'.counted <=> ~q.zero
        BY <3>2
      <4> HIDE DEF q
      <4> QED
        BY <2>4, <2>5, <2>6, <2>7, <4>1, <4>2 DEF DashboardExact
    <3> QED
      BY <1>8, <3>1, <3>2 DEF ReceiveReport
  <2>9. ASSUME NEW r \in ReportPoll
        PROVE  Exact(r)'
    <3>1. CASE r # o
      <4>1. request'[r] = request[r]
        BY <1>1, <1>8, <3>1 DEF ReceiveReport, Request
      <4>2. TrueToStamp(request[r])
        BY ReportsByRequest
      <4> QED
        BY <2>4, <2>5, <4>1, <4>2 DEF TrueToStamp
    <3>2. CASE r = o
      BY <1>1, <1>8, <3>2, UnreadWillBeTrue DEF ReceiveReport
    <3> QED
      BY <3>1, <3>2
  <2> QED
    BY <2>8, <2>9, ReportsLater
<1>9. CASE UNCHANGED nodeVars
  BY <1>3, <1>9 DEF nodeVars
<1> QED
  BY <1>2, <1>4, <1>5, <1>6, <1>7, <1>8, <1>9 DEF NodesStep

-----------------------------------------------------------------------------
(* The inductive invariant of the figures.                                  *)

FiguresInv == ShapeInv /\ DriftInv /\ ReportInv

LEMMA FiguresInit == Init => FiguresInv
<1> SUFFICES ASSUME Init
             PROVE  FiguresInv
  OBVIOUS
<1>1. NodesInit
  BY DEF Init
<1>2. \A r \in Request : request[r] = Unread
  BY <1>1 DEF NodesInit
<1>3. \A r \in Request : RequestShape(request[r]) /\ InOrder(r, request[r])
  BY <1>2, ShapeOfUnread, UnreadInOrder
<1>4. /\ status \in [Node -> RowState] /\ used \subseteq Stamp /\ stamp \in used \cup {0}
      /\ DOMAIN request = Request
  BY <1>1 DEF NodesInit
<1>5. data \in Shown
  BY <1>1 DEF NodesInit, NoReport, Shown
<1>6. ShapeInv
  BY <1>3, <1>4, <1>5, ShapeByRequest DEF ShapeInv
<1>7. DriftInv
  <2>1. \A r \in Request : DOMAIN request[r].read = {} /\ request[r].touched \in Nat
    BY <1>2, ShapeOfUnread DEF RequestShape
  <2> QED
    BY <1>6, <2>1, UnreadFitsNow, DriftByRequest DEF UnreadFits, ShapeInv
<1>8. ReportInv
  <2>1. /\ data.stamp = 0 /\ data.total = 0 /\ data.groups = 0 /\ data.drift = 0
    BY <1>1 DEF NodesInit, NoReport
  <2>2. \A r \in ReportPoll : TrueToStamp(request[r])
    BY <1>2, ShapeOfUnread DEF TrueToStamp, Request
  <2> QED
    BY <2>1, <2>2, ReportsByRequest DEF DashboardExact
<1> QED
  BY <1>6, <1>7, <1>8 DEF FiguresInv

LEMMA FiguresStep == FiguresInv /\ [Next]_siteVars => FiguresInv'
<1> SUFFICES ASSUME FiguresInv, NodesStep
             PROVE  FiguresInv'
  BY StepsOfNodes
<1>1. ShapeInv'
  BY ShapeStep DEF FiguresInv
<1>2. ReportInv'
  BY ReportsStep DEF FiguresInv
<1>3. DriftInv'
  BY <1>1, DriftStep DEF FiguresInv
<1> QED
  BY <1>1, <1>2, <1>3 DEF FiguresInv

LEMMA FiguresAlways == Spec => []FiguresInv
BY FiguresInit, FiguresStep, PTL DEF Spec

-----------------------------------------------------------------------------
(* The pages of the nodes table.                                            *)

Slice(R, at, a, b) == {n \in R : at[n] >= a /\ at[n] < b}

\* A run of places of a ranking holds as many rows as places.
LEMMA SliceSize ==
  ASSUME NEW R, NEW N \in Nat, NEW at \in Bijection(R, 0..(N - 1)),
         NEW a \in Nat, NEW b \in Nat, a <= b, b <= N
  PROVE  IsFiniteSet(Slice(R, at, a, b)) /\ Cardinality(Slice(R, at, a, b)) = b - a
<1> DEFINE S == {n \in R : at[n] >= a /\ at[n] < b}
           T == a..(b - 1)
           g == [i \in T |-> CHOOSE n \in R : at[n] = i]
<1>1. /\ \A n \in R : at[n] \in 0..(N - 1)
      /\ \A m, n \in R : at[m] = at[n] => m = n
      /\ \A i \in 0..(N - 1) : \E n \in R : at[n] = i
  BY DEF Bijection, Injection, Surjection, IsInjective
<1>2. T \subseteq 0..(N - 1)
  OBVIOUS
<1>3. \A i \in T : g[i] \in R /\ at[g[i]] = i
  BY <1>1, <1>2
<1>4. \A i \in T : g[i] \in S
  BY <1>3
<1>5. \A n \in S : at[n] \in T
  BY <1>1
<1>6. \A n \in S : g[at[n]] = n
  BY <1>1, <1>3, <1>5
<1>7. DOMAIN g = T
  OBVIOUS
<1>8. g = [i \in T |-> g[i]]
  OBVIOUS
<1>9. IsFiniteSet(T) /\ Cardinality(T) = b - a
  <2>1. a \in Int /\ b - 1 \in Int
    OBVIOUS
  <2>2. IsFiniteSet(a..(b - 1)) /\ Cardinality(a..(b - 1)) = IF a > b - 1 THEN 0 ELSE (b - 1) - a + 1
    BY <2>1, FS_Interval
  <2> QED
    BY <2>2
<1> HIDE DEF S, T, g
<1>10. g \in [T -> S]
  BY <1>4, <1>8
<1>11. g \in Bijection(T, S)
  BY <1>3, <1>5, <1>6, <1>10 DEF Bijection, Injection, Surjection, IsInjective
<1>12. ExistsBijection(T, S)
  BY <1>11 DEF ExistsBijection
<1> QED
  BY <1>9, <1>12, FS_Bijection DEF S, Slice

\* The elements ahead of each, counted, rank a finite set.
LEMMA RankOfOrder ==
  ASSUME NEW R, IsFiniteSet(R), NEW ahead \in [R -> SUBSET R],
         \A n \in R : n \notin ahead[n],
         \A m, n \in R : m \in ahead[n] => ahead[m] \subseteq ahead[n],
         \A m, n \in R : m = n \/ m \in ahead[n] \/ n \in ahead[m]
  PROVE  LET N == Cardinality(R)
             at == [n \in R |-> Cardinality(ahead[n])]
         IN  /\ N \in Nat /\ at \in Bijection(R, 0..(N - 1))
             /\ \A n \in R : at[n] \in 0..(N - 1)
             /\ \A m, n \in R : at[m] < at[n] <=> m \in ahead[n]
<1> DEFINE N == Cardinality(R)
           at == [n \in R |-> Cardinality(ahead[n])]
<1>1. N \in Nat
  BY FS_CardinalityType
<1>2. ASSUME NEW n \in R
      PROVE  IsFiniteSet(ahead[n]) /\ at[n] \in Nat /\ at[n] < N
  <2>1. ahead[n] \subseteq R /\ n \notin ahead[n]
    OBVIOUS
  <2>2. /\ IsFiniteSet(ahead[n]) /\ Cardinality(ahead[n]) <= Cardinality(R)
        /\ Cardinality(R) # Cardinality(ahead[n])
    BY <2>1, FS_Subset
  <2>3. Cardinality(ahead[n]) \in Nat
    BY <2>2, FS_CardinalityType
  <2> HIDE DEF N
  <2> QED
    BY <1>1, <2>2, <2>3 DEF N
<1>3. ASSUME NEW m \in R, NEW n \in R, m \in ahead[n]
      PROVE  at[m] < at[n]
  <2>1. ahead[m] \subseteq ahead[n] /\ m \in ahead[n] /\ m \notin ahead[m]
    BY <1>3
  <2>2. IsFiniteSet(ahead[n]) /\ at[m] \in Nat /\ at[n] \in Nat
    BY <1>2
  <2>3. /\ Cardinality(ahead[m]) <= Cardinality(ahead[n])
        /\ Cardinality(ahead[n]) # Cardinality(ahead[m])
    BY <2>1, <2>2, FS_Subset
  <2> QED
    BY <2>2, <2>3
<1> HIDE DEF N, at
<1>4. \A n \in R : at[n] \in 0..(N - 1)
  BY <1>1, <1>2
<1>5. \A m, n \in R : at[m] < at[n] => m \in ahead[n]
  <2> SUFFICES ASSUME NEW m \in R, NEW n \in R, at[m] < at[n]
               PROVE  m \in ahead[n]
    OBVIOUS
  <2>1. m # n /\ n \notin ahead[m]
    BY <1>3, <1>4
  <2> QED
    BY <2>1
<1>6. \A m, n \in R : at[m] = at[n] => m = n
  BY <1>3, <1>4
<1>7. at \in [R -> 0..(N - 1)]
  BY <1>4 DEF at
<1>8. at \in Injection(R, 0..(N - 1))
  BY <1>6, <1>7 DEF Injection, IsInjective
<1>9. IsFiniteSet(0..(N - 1)) /\ Cardinality(0..(N - 1)) = Cardinality(R)
  <2>1. 0 \in Int /\ N - 1 \in Int
    BY <1>1
  <2>2. /\ IsFiniteSet(0..(N - 1))
        /\ Cardinality(0..(N - 1)) = IF 0 > N - 1 THEN 0 ELSE (N - 1) - 0 + 1
    BY <2>1, FS_Interval
  <2>3. Cardinality(0..(N - 1)) = N
    BY <1>1, <2>2
  <2> QED
    BY <2>2, <2>3 DEF N
<1>10. at \in Surjection(R, 0..(N - 1))
  BY <1>8, <1>9, FS_Injection
<1>11. at \in Bijection(R, 0..(N - 1))
  BY <1>8, <1>10 DEF Bijection
<1> QED
  BY <1>1, <1>3, <1>4, <1>5, <1>11 DEF N, at

\* The order of the table: by the column, then by the place in the table.
Less(m, n) == Depth[m] < Depth[n] \/ (Depth[m] = Depth[n] /\ RowOrder[m] < RowOrder[n])

LEMMA PositionsRank ==
  ASSUME NEW R \in SUBSET Node
  PROVE  /\ IsFiniteSet(R) /\ Cardinality(R) \in Nat
         /\ [n \in R |-> Position(R, n)] \in Bijection(R, 0..(Cardinality(R) - 1))
         /\ \A n \in R : Position(R, n) \in 0..(Cardinality(R) - 1)
         /\ \A m, n \in R : Position(R, m) < Position(R, n) => Depth[m] <= Depth[n]
<1> DEFINE ahead == [n \in R |-> {m \in R : Less(m, n)}]
           at == [n \in R |-> Cardinality(ahead[n])]
           N == Cardinality(R)
<1>1. IsFiniteSet(R)
  BY NodeReadsAssumption, FS_Subset
<1>2. \A n \in R : RowOrder[n] \in Nat /\ Depth[n] \in Nat
  BY NodeReadsAssumption
<1>3. \A m, n \in R : m \in ahead[n] <=> Less(m, n)
  OBVIOUS
<1>4. ahead \in [R -> SUBSET R]
  OBVIOUS
<1>5. \A n \in R : at[n] = Position(R, n)
  BY DEF Position, Less
<1>6. at = [n \in R |-> Position(R, n)]
  BY <1>5
<1> HIDE DEF ahead
<1>7. \A n \in R : n \notin ahead[n]
  BY <1>2, <1>3 DEF Less
<1>8. \A m, n \in R : m \in ahead[n] => ahead[m] \subseteq ahead[n]
  <2>1. \A l, m, n \in R : Less(l, m) /\ Less(m, n) => Less(l, n)
    BY <1>2 DEF Less
  <2> QED
    BY <1>3, <1>4, <2>1
<1>9. \A m, n \in R : m = n \/ m \in ahead[n] \/ n \in ahead[m]
  <2>1. \A m, n \in R : m = n \/ Less(m, n) \/ Less(n, m)
    BY <1>2, NodeReadsAssumption DEF Less
  <2> QED
    BY <1>3, <2>1
<1>10. /\ N \in Nat /\ at \in Bijection(R, 0..(N - 1))
       /\ \A n \in R : at[n] \in 0..(N - 1)
       /\ \A m, n \in R : at[m] < at[n] <=> m \in ahead[n]
  BY <1>1, <1>4, <1>7, <1>8, <1>9, RankOfOrder
<1> HIDE DEF at, N
<1>11. \A m, n \in R : Position(R, m) < Position(R, n) => Depth[m] <= Depth[n]
  BY <1>2, <1>3, <1>5, <1>10 DEF Less
<1> QED
  BY <1>1, <1>5, <1>6, <1>10, <1>11 DEF N

\* Where a row stands in the order asked for.
Place(R, desc) ==
  [n \in R |-> IF desc THEN Cardinality(R) - 1 - Position(R, n) ELSE Position(R, n)]

LEMMA PlacesRank ==
  ASSUME NEW R \in SUBSET Node, NEW desc \in BOOLEAN
  PROVE  /\ Cardinality(R) \in Nat
         /\ Place(R, desc) \in Bijection(R, 0..(Cardinality(R) - 1))
         /\ \A m, n \in R : Place(R, desc)[m] < Place(R, desc)[n] =>
              IF desc THEN Depth[m] >= Depth[n] ELSE Depth[m] <= Depth[n]
<1> DEFINE N == Cardinality(R)
           up == [n \in R |-> Position(R, n)]
           at == Place(R, desc)
<1>1. /\ N \in Nat /\ up \in Bijection(R, 0..(N - 1))
      /\ \A n \in R : Position(R, n) \in 0..(N - 1)
      /\ \A m, n \in R : Position(R, m) < Position(R, n) => Depth[m] <= Depth[n]
  BY PositionsRank
<1>2. CASE ~desc
  <2>1. at = up
    BY <1>2 DEF Place
  <2>2. \A n \in R : at[n] = Position(R, n)
    BY <2>1
  <2>3. \A m, n \in R : at[m] < at[n] => Depth[m] <= Depth[n]
    BY <1>1, <2>2
  <2> HIDE DEF at, up, N
  <2> QED
    BY <1>1, <1>2, <2>1, <2>3 DEF at, N
<1>3. CASE desc
  <2>1. \A n \in R : at[n] = N - 1 - Position(R, n)
    BY <1>3 DEF Place
  <2>2. /\ \A m, n \in R : up[m] = up[n] => m = n
        /\ \A i \in 0..(N - 1) : \E n \in R : up[n] = i
    BY <1>1 DEF Bijection, Injection, Surjection, IsInjective
  <2>3. \A n \in R : up[n] = Position(R, n)
    OBVIOUS
  <2>4. at \in [R -> 0..(N - 1)]
    <3>1. \A n \in R : at[n] \in 0..(N - 1)
      BY <1>1, <2>1
    <3> QED
      BY <3>1 DEF Place
  <2> HIDE DEF up, at, N
  <2>5. \A m, n \in R : at[m] = at[n] => m = n
    <3> SUFFICES ASSUME NEW m \in R, NEW n \in R, at[m] = at[n]
                 PROVE  m = n
      OBVIOUS
    <3>1. Position(R, m) \in 0..(N - 1) /\ Position(R, n) \in 0..(N - 1)
      BY <1>1
    <3>2. Position(R, m) = Position(R, n)
      BY <1>1, <2>1, <3>1
    <3>3. up[m] = up[n]
      BY <2>3, <3>2
    <3> QED
      BY <2>2, <3>3
  <2>6. \A i \in 0..(N - 1) : \E n \in R : at[n] = i
    <3> SUFFICES ASSUME NEW i \in 0..(N - 1)
                 PROVE  \E n \in R : at[n] = i
      OBVIOUS
    <3>1. PICK n \in R : up[n] = N - 1 - i
      BY <1>1, <2>2
    <3> QED
      BY <1>1, <2>1, <2>3, <3>1
  <2>7. at \in Bijection(R, 0..(N - 1))
    BY <2>4, <2>5, <2>6 DEF Bijection, Injection, Surjection, IsInjective
  <2>8. \A m, n \in R : at[m] < at[n] => Depth[m] >= Depth[n]
    <3> SUFFICES ASSUME NEW m \in R, NEW n \in R, at[m] < at[n]
                 PROVE  Depth[m] >= Depth[n]
      OBVIOUS
    <3>1. Position(R, n) < Position(R, m)
      BY <1>1, <2>1
    <3>2. Depth[n] <= Depth[m] /\ Depth[n] \in Nat /\ Depth[m] \in Nat
      BY <1>1, <3>1, NodeReadsAssumption
    <3> QED
      BY <3>2
  <2> QED
    BY <1>1, <1>3, <2>7, <2>8 DEF at, N
<1> QED
  BY <1>2, <1>3

\* The i-th row of a page is the one that stands there.
LEMMA RowsOfPage ==
  ASSUME NEW R \in SUBSET Node, NEW desc \in BOOLEAN, NEW offset \in Nat
  PROVE  LET s == NodesPage(R, desc, offset)
         IN  \A i \in 1..PageSize :
               /\ i \in DOMAIN s <=> offset + i <= Cardinality(R)
               /\ i \in DOMAIN s => s[i] \in R /\ Place(R, desc)[s[i]] = offset + i - 1
<1> DEFINE N == Cardinality(R)
           at == Place(R, desc)
           At(n) == IF desc THEN Cardinality(R) - 1 - Position(R, n) ELSE Position(R, n)
           page == {n \in R : OnPage(At(n), offset)}
           Row(i) == CHOOSE n \in page : Cardinality({m \in page : At(m) < At(n)}) = i - 1
           s == [i \in 1..Cardinality(page) |-> Row(i)]
           end == IF offset + PageSize <= N THEN offset + PageSize ELSE N
<1>1. s = NodesPage(R, desc, offset)
  BY DEF NodesPage
<1>2. /\ N \in Nat /\ at \in Bijection(R, 0..(N - 1)) /\ PageSize \in Nat \ {0}
      /\ \A n \in R : at[n] = At(n)
  BY PlacesRank, NodeReadsAssumption DEF Place
<1>3. /\ \A n \in R : at[n] \in 0..(N - 1)
      /\ \A m, n \in R : at[m] = at[n] => m = n
      /\ \A j \in 0..(N - 1) : \E n \in R : at[n] = j
  BY <1>2 DEF Bijection, Injection, Surjection, IsInjective
<1>4. \A n : n \in page <=> n \in R /\ at[n] >= offset /\ at[n] < offset + PageSize
  BY <1>2 DEF OnPage
<1> HIDE DEF page, at, At, N
<1>5. CASE offset >= N
  <2>1. page = {}
    BY <1>2, <1>3, <1>4, <1>5
  <2>2. Cardinality(page) = 0
    BY <2>1, FS_EmptySet
  <2>3. \A i \in 1..PageSize : i \notin DOMAIN s /\ ~(offset + i <= N)
    BY <1>2, <1>5, <2>2
  <2> HIDE DEF s
  <2> QED
    BY <1>1, <2>3 DEF N
<1>6. CASE offset < N
  <2>1. end \in Nat /\ offset <= end /\ end <= N
    BY <1>2, <1>6
  <2>2. page = Slice(R, at, offset, end)
    <3>1. \A n : n \in page <=> n \in R /\ at[n] >= offset /\ at[n] < end
      BY <1>2, <1>3, <1>4
    <3> HIDE DEF end
    <3> QED
      BY <3>1 DEF Slice
  <2> HIDE DEF end
  <2>3. Cardinality(page) = end - offset
    <3>1. Cardinality(Slice(R, at, offset, end)) = end - offset
      BY <1>2, <2>1, SliceSize
    <3> QED
      BY <2>2, <3>1
  <2>4. ASSUME NEW n \in page
        PROVE  Cardinality({m \in page : At(m) < At(n)}) = at[n] - offset
    <3>1. n \in R /\ at[n] \in Nat /\ offset <= at[n] /\ at[n] < end /\ at[n] <= N
      BY <1>2, <1>3, <2>1, <2>2 DEF Slice
    <3>2. {m \in page : At(m) < At(n)} = Slice(R, at, offset, at[n])
      <4>1. \A m : m \in page /\ At(m) < At(n) <=> m \in R /\ at[m] >= offset /\ at[m] < at[n]
        <5>1. At(n) = at[n] /\ \A m \in R : At(m) = at[m] /\ at[m] \in Int
          BY <1>2, <1>3, <3>1
        <5>2. \A m : m \in page <=> m \in R /\ at[m] >= offset /\ at[m] < end
          BY <2>2 DEF Slice
        <5> QED
          BY <2>1, <3>1, <5>1, <5>2
      <4> QED
        BY <4>1 DEF Slice
    <3>3. Cardinality(Slice(R, at, offset, at[n])) = at[n] - offset
      <4> DEFINE b == at[n]
      <4>1. b \in Nat /\ offset <= b /\ b <= N
        BY <3>1
      <4> HIDE DEF b
      <4>2. Cardinality(Slice(R, at, offset, b)) = b - offset
        BY <1>2, <4>1, SliceSize
      <4> QED
        BY <4>2 DEF b
    <3> QED
      BY <3>2, <3>3
  <2>5. ASSUME NEW i \in 1..(end - offset)
        PROVE  Row(i) \in R /\ at[Row(i)] = offset + i - 1
    <3>1. offset + i - 1 \in 0..(N - 1) /\ offset + i - 1 < end
      BY <1>2, <2>1
    <3>2. PICK n \in R : at[n] = offset + i - 1
      BY <1>3, <3>1
    <3>3. n \in page
      BY <2>2, <3>1, <3>2 DEF Slice
    <3>4. Cardinality({m \in page : At(m) < At(n)}) = i - 1
      BY <2>4, <3>2, <3>3
    <3>5. \E x \in page : Cardinality({m \in page : At(m) < At(x)}) = i - 1
      BY <3>3, <3>4
    <3>6. Row(i) \in page /\ Cardinality({m \in page : At(m) < At(Row(i))}) = i - 1
      BY <3>5
    <3> HIDE DEF Row
    <3>7. at[Row(i)] - offset = i - 1 /\ Row(i) \in R
      BY <2>2, <2>4, <3>6 DEF Slice
    <3>8. at[Row(i)] \in Int
      BY <1>3, <3>7
    <3> QED
      BY <3>7, <3>8
  <2>6. \A i \in 1..PageSize : i \in 1..(end - offset) <=> offset + i <= N
    BY <1>2, <1>6 DEF end
  <2>7. DOMAIN s = 1..(end - offset) /\ \A i \in 1..(end - offset) : s[i] = Row(i)
    BY <2>3
  <2> HIDE DEF s, Row
  <2> QED
    BY <1>1, <2>5, <2>6, <2>7 DEF N, at
<1> QED
  BY <1>2, <1>5, <1>6

LEMMA DivisionOfPlaces ==
  ASSUME NEW P \in Nat \ {0}
  PROVE  /\ \A j \in Nat : /\ j \div P \in 0..j
                           /\ (j \div P) * P <= j /\ j < (j \div P) * P + P
         /\ \A k, l \in Nat : \A x, y \in 1..P : k < l => k * P + x < l * P + y
<1>1. ASSUME NEW j \in Nat
      PROVE  /\ j \div P \in 0..j
             /\ (j \div P) * P <= j /\ j < (j \div P) * P + P
  <2>1. j \div P \in Nat /\ (j \div P) * P <= j /\ j < (j \div P) * P + P
    OBVIOUS
  <2> DEFINE k == j \div P
  <2> HIDE DEF k
  <2>2. ASSUME k \in Nat, k * P <= j
        PROVE  k <= j
    <3>1. k * P = k + k * (P - 1) /\ k * (P - 1) \in Nat
      BY <2>2
    <3> QED
      BY <2>2, <3>1
  <2>3. k <= j
    BY <2>1, <2>2 DEF k
  <2> QED
    BY <2>1, <2>3 DEF k
<1>2. ASSUME NEW k \in Nat, NEW l \in Nat, NEW x \in 1..P, NEW y \in 1..P, k < l
      PROVE  k * P + x < l * P + y
  <2>1. l * P = (k + 1) * P + (l - k - 1) * P /\ (l - k - 1) * P \in Nat
    BY <1>2
  <2>2. (k + 1) * P = k * P + P /\ k * P \in Nat
    OBVIOUS
  <2> QED
    BY <2>1, <2>2
<1> QED
  BY <1>1, <1>2

\* Cut into pages, the ranking is whole.
LEMMA AllPages ==
  ASSUME NEW R \in SUBSET Node, NEW desc \in BOOLEAN
  PROVE  LET Listed(k) == NodesPage(R, desc, k * PageSize)
             places == {p \in (0..Cardinality(Node)) \X (1..PageSize) :
                          p[2] \in DOMAIN Listed(p[1])}
             RowAt(p) == Listed(p[1])[p[2]]
             Before(p, q) == p[1] < q[1] \/ (p[1] = q[1] /\ p[2] < q[2])
         IN  /\ {RowAt(p) : p \in places} = R
             /\ Cardinality(places) = Cardinality(R)
             /\ \A p, q \in places : Before(p, q) =>
                  IF desc THEN Depth[RowAt(p)] >= Depth[RowAt(q)]
                  ELSE Depth[RowAt(p)] <= Depth[RowAt(q)]
<1> DEFINE Listed(k) == NodesPage(R, desc, k * PageSize)
           places == {p \in (0..Cardinality(Node)) \X (1..PageSize) :
                        p[2] \in DOMAIN Listed(p[1])}
           RowAt(p) == Listed(p[1])[p[2]]
           Before(p, q) == p[1] < q[1] \/ (p[1] = q[1] /\ p[2] < q[2])
           P == PageSize
           N == Cardinality(R)
           M == Cardinality(Node)
           at == Place(R, desc)
           All == (0..M) \X (1..P)
           Home(n) == <<at[n] \div P, at[n] - (at[n] \div P) * P + 1>>
<1>1. /\ N \in Nat /\ M \in Nat /\ N <= M /\ P \in Nat \ {0} /\ IsFiniteSet(R)
  <2>1. IsFiniteSet(Node) /\ IsFiniteSet(R) /\ N <= M
    BY NodeReadsAssumption, FS_Subset
  <2> QED
    BY <2>1, FS_CardinalityType, NodeReadsAssumption
<1>2. /\ at \in Bijection(R, 0..(N - 1))
      /\ \A m, n \in R : at[m] < at[n] =>
           IF desc THEN Depth[m] >= Depth[n] ELSE Depth[m] <= Depth[n]
  BY PlacesRank
<1>3. /\ \A n \in R : at[n] \in 0..(N - 1)
      /\ \A m, n \in R : at[m] = at[n] => m = n
  BY <1>2 DEF Bijection, Injection, Surjection, IsInjective
<1>4. \A k \in Nat : k * P \in Nat
  BY <1>1
<1>5. \A k \in Nat, i \in 1..P :
        /\ i \in DOMAIN Listed(k) <=> k * P + i <= N
        /\ i \in DOMAIN Listed(k) =>
             Listed(k)[i] \in R /\ at[Listed(k)[i]] = k * P + i - 1
  BY <1>4, RowsOfPage
<1>6. \A p \in All : p[1] \in Nat /\ p[2] \in 1..P
  BY <1>1
<1> HIDE DEF at, N, M, P, Listed
<1>7. \A p : p \in places <=> p \in All /\ p[1] * P + p[2] <= N
  BY <1>5, <1>6 DEF M, P
<1>8. \A p \in places : RowAt(p) \in R /\ at[RowAt(p)] = p[1] * P + p[2] - 1
  BY <1>5, <1>6 DEF M, P
<1>9. \A n \in R : Home(n) \in places /\ RowAt(Home(n)) = n
  <2> SUFFICES ASSUME NEW n \in R
               PROVE  Home(n) \in places /\ RowAt(Home(n)) = n
    OBVIOUS
  <2> DEFINE j == at[n]
             k == at[n] \div P
             i == j - k * P + 1
  <2>1. j \in Nat /\ j < N
    BY <1>1, <1>3
  <2>2. k \in 0..j /\ k * P <= j /\ j < k * P + P /\ k * P \in Nat
    <3> HIDE DEF j
    <3>1. j \div P \in 0..j /\ (j \div P) * P <= j /\ j < (j \div P) * P + P
      BY <1>1, <2>1, DivisionOfPlaces
    <3>2. k = j \div P
      BY DEF j
    <3>3. k \in Nat
      BY <2>1, <3>1, <3>2
    <3> QED
      BY <1>4, <3>1, <3>2, <3>3
  <2>3. Home(n) = <<k, i>>
    OBVIOUS
  <2> HIDE DEF j, k, Home
  <2>4. i \in 1..P /\ k \in 0..M /\ k * P + i = j + 1
    BY <1>1, <2>1, <2>2
  <2> HIDE DEF i
  <2>5. Home(n) \in All /\ Home(n)[1] = k /\ Home(n)[2] = i
    BY <2>3, <2>4
  <2>6. Home(n) \in places
    BY <1>1, <1>7, <2>1, <2>4, <2>5
  <2> HIDE DEF places, RowAt, All
  <2>7. RowAt(Home(n)) \in R /\ at[RowAt(Home(n))] = k * P + i - 1
    BY <1>8, <2>5, <2>6
  <2>8. at[RowAt(Home(n))] = j
    BY <2>1, <2>2, <2>4, <2>7
  <2> QED
    BY <1>3, <2>6, <2>7, <2>8 DEF j
<1>10. \A p, q \in places : Before(p, q) => at[RowAt(p)] < at[RowAt(q)]
  <2> SUFFICES ASSUME NEW p \in places, NEW q \in places, Before(p, q)
               PROVE  at[RowAt(p)] < at[RowAt(q)]
    OBVIOUS
  <2>1. p[1] \in Nat /\ q[1] \in Nat /\ p[2] \in 1..P /\ q[2] \in 1..P
    BY <1>6, <1>7
  <2> DEFINE x == p[1] * P
             y == q[1] * P
  <2>2. x \in Nat /\ y \in Nat
    BY <1>4, <2>1
  <2>3. x + p[2] < y + q[2]
    <3>1. CASE p[1] < q[1]
      BY <1>1, <2>1, <3>1, DivisionOfPlaces
    <3>2. CASE p[1] = q[1] /\ p[2] < q[2]
      <4>1. x = y
        BY <3>2
      <4> HIDE DEF x, y
      <4> QED
        BY <1>1, <2>1, <2>2, <3>2, <4>1
    <3> QED
      BY <3>1, <3>2
  <2>4. at[RowAt(p)] = x + p[2] - 1 /\ at[RowAt(q)] = y + q[2] - 1
    BY <1>8
  <2> HIDE DEF x, y, RowAt
  <2> QED
    BY <1>1, <2>1, <2>2, <2>3, <2>4
<1>11. \A p \in places : Home(RowAt(p)) = p
  <2> SUFFICES ASSUME NEW p \in places
               PROVE  Home(RowAt(p)) = p
    OBVIOUS
  <2> DEFINE h == Home(RowAt(p))
  <2>1. h \in places /\ RowAt(h) = RowAt(p)
    BY <1>8, <1>9
  <2>2. p \in All /\ h \in All
    BY <1>7, <2>1
  <2> HIDE DEF h
  <2>3. p = <<p[1], p[2]>> /\ h = <<h[1], h[2]>>
    BY <2>2
  <2>4. /\ p[1] \in Nat /\ h[1] \in Nat
        /\ p[2] \in Nat /\ h[2] \in Nat
    BY <1>1, <1>6, <2>2
  <2>5. ~Before(p, h) /\ ~Before(h, p)
    <3>1. at[RowAt(p)] \in Nat
      BY <1>3, <1>8
    <3> HIDE DEF Before, RowAt, places
    <3> QED
      BY <1>10, <2>1, <3>1
  <2>6. p[1] = h[1] /\ p[2] = h[2]
    BY <2>4, <2>5
  <2> QED
    BY <2>3, <2>6 DEF h
<1>12. {RowAt(p) : p \in places} = R
  <2> HIDE DEF places, RowAt, Home
  <2> QED
    BY <1>8, <1>9
<1>13. Cardinality(places) = Cardinality(R)
  <2> DEFINE f == [n \in R |-> Home(n)]
  <2> HIDE DEF places, RowAt, Home
  <2>1. f \in [R -> places] /\ \A n \in R : f[n] = Home(n)
    BY <1>9
  <2> HIDE DEF f
  <2>2. \A m, n \in R : f[m] = f[n] => m = n
    BY <1>9, <2>1
  <2>3. \A p \in places : \E n \in R : f[n] = p
    BY <1>8, <1>11, <2>1
  <2>4. f \in Bijection(R, places)
    BY <2>1, <2>2, <2>3 DEF Bijection, Injection, Surjection, IsInjective
  <2>5. ExistsBijection(R, places)
    BY <2>4 DEF ExistsBijection
  <2> QED
    BY <1>1, <2>5, FS_Bijection
<1>14. \A p, q \in places : Before(p, q) =>
         IF desc THEN Depth[RowAt(p)] >= Depth[RowAt(q)]
         ELSE Depth[RowAt(p)] <= Depth[RowAt(q)]
  <2> HIDE DEF places, RowAt, Before
  <2> QED
    BY <1>2, <1>8, <1>10
<1> QED
  BY <1>12, <1>13, <1>14 DEF Listed

-----------------------------------------------------------------------------
(* The histogram of latencies.                                              *)

\* A set of naturals that is not empty has a smallest element.
LEMMA LeastNumber ==
  ASSUME NEW T \in SUBSET Nat, T # {}
  PROVE  \E x \in T : \A y \in T : x <= y
<1> DEFINE Rel == OpToRel(<, Nat)
<1>1. IsWellFoundedOn(Rel, Nat)
  BY NatLessThanWellFounded
<1>2. \A x, y \in Nat : <<y, x>> \in Rel <=> y < x
  BY DEF OpToRel
<1> HIDE DEF Rel
<1>3. PICK x \in T : \A y \in T : ~ (<<y, x>> \in Rel)
  BY <1>1, WFMin
<1>4. \A y \in T : x \in Nat /\ y \in Nat /\ ~ (y < x)
  BY <1>2, <1>3
<1>5. \A y \in T : x <= y
  BY <1>4
<1> QED
  BY <1>5

LEMMA EdgesIncrease ==
  /\ Len(Edges) \in Nat /\ DOMAIN Edges = 1..Len(Edges)
  /\ \A i \in DOMAIN Edges : Edges[i] \in Nat \ {0}
  /\ \A i, j \in DOMAIN Edges : i < j => Edges[i] < Edges[j]
<1>1. /\ Len(Edges) \in Nat /\ DOMAIN Edges = 1..Len(Edges)
      /\ \A i \in DOMAIN Edges : Edges[i] \in Nat \ {0}
  <2>1. Edges \in Seq(Nat \ {0})
    BY NodeReadsAssumption
  <2>2. Len(Edges) \in Nat /\ DOMAIN Edges = 1..Len(Edges)
    BY <2>1, LenProperties
  <2>3. \A i \in 1..Len(Edges) : Edges[i] \in Nat \ {0}
    BY <2>1, ElementOfSeq
  <2> QED
    BY <2>2, <2>3
<1>2. \A i \in DOMAIN Edges : i = 1 \/ Edges[i - 1] < Edges[i]
  BY NodeReadsAssumption
<1>3. ASSUME NEW i \in DOMAIN Edges
      PROVE  \A j \in DOMAIN Edges : i < j => Edges[i] < Edges[j]
  <2> DEFINE T == {j \in DOMAIN Edges : i < j /\ ~(Edges[i] < Edges[j])}
  <2>1. T \subseteq Nat
    BY <1>1
  <2>2. ASSUME T # {}
        PROVE  FALSE
    <3> HIDE DEF T
    <3>1. PICK j \in T : \A y \in T : j <= y
      BY <2>1, <2>2, LeastNumber
    <3>2. j \in DOMAIN Edges /\ i < j /\ ~(Edges[i] < Edges[j])
      BY DEF T
    <3>3. j # 1 /\ j - 1 \in DOMAIN Edges /\ i <= j - 1 /\ j - 1 < j
      BY <1>1, <3>2
    <3>4. Edges[j - 1] < Edges[j]
      BY <1>2, <3>2, <3>3
    <3>5. j - 1 \notin T
      BY <2>1, <3>1, <3>3
    <3>6. i = j - 1 \/ Edges[i] < Edges[j - 1]
      BY <1>1, <3>3, <3>5 DEF T
    <3> QED
      BY <1>1, <3>2, <3>3, <3>4, <3>6
  <2> QED
    BY <2>2
<1> QED
  BY <1>1, <1>3

\* A measurement lies in the band whose edges enclose it, and in no other.
LEMMA BandsEnclose ==
  ASSUME NEW ms \in Nat
  PROVE  /\ Band(ms) \in 1..(Len(Edges) + 1)
         /\ \A b \in 1..(Len(Edges) + 1) :
              Band(ms) = b <=> /\ b = 1 \/ ms >= Edges[b - 1]
                               /\ b \in DOMAIN Edges => ms < Edges[b]
<1> DEFINE L == Len(Edges)
           T == {i \in DOMAIN Edges : UnderEdge(ms, Edges[i])} \cup {L + 1}
<1>1. /\ L \in Nat /\ DOMAIN Edges = 1..L
      /\ \A i \in 1..L : Edges[i] \in Nat
      /\ \A i, j \in 1..L : i < j => Edges[i] < Edges[j]
  BY EdgesIncrease
<1>2. T \subseteq 1..(L + 1) /\ T \subseteq Nat /\ L + 1 \in T
  BY <1>1
<1>3. Band(ms) = Min(T)
  BY DEF Band
<1>4. Min(T) \in T /\ \A y \in T : Min(T) <= y
  <2> HIDE DEF T
  <2>1. \E x \in T : \A y \in T : x <= y
    BY <1>2, LeastNumber
  <2> QED
    BY <2>1 DEF Min
<1>5. \A i \in 1..L : i \in T <=> ms < Edges[i]
  BY <1>1 DEF UnderEdge
<1> DEFINE m == Min(T)
<1>6. m \in T /\ m \in 1..(L + 1) /\ \A y \in T : m <= y
  BY <1>2, <1>4
<1> HIDE DEF T, L, m
<1>7. \A i \in 1..L : i < m => ms >= Edges[i]
  BY <1>1, <1>5, <1>6
<1>8. m \in 1..L => ms < Edges[m]
  BY <1>5, <1>6
<1>9. m = 1 \/ ms >= Edges[m - 1]
  BY <1>1, <1>6, <1>7
<1>10. ASSUME NEW b \in 1..(L + 1), b = 1 \/ ms >= Edges[b - 1], b \in 1..L => ms < Edges[b]
       PROVE  b = m
  <2>1. ~(b < m)
    BY <1>1, <1>6, <1>7, <1>10
  <2>2. ~(m < b)
    <3> SUFFICES ASSUME m < b
                 PROVE  FALSE
      OBVIOUS
    <3>1. m \in 1..L /\ b - 1 \in 1..L /\ m <= b - 1 /\ b # 1
      BY <1>1, <1>6
    <3>2. ms < Edges[m] /\ ms >= Edges[b - 1]
      BY <1>8, <1>10, <3>1
    <3>3. Edges[m] <= Edges[b - 1]
      BY <1>1, <3>1
    <3> QED
      BY <1>1, <3>1, <3>2, <3>3
  <2> QED
    BY <1>1, <1>6, <2>1, <2>2
<1>11. Band(ms) = m
  BY <1>3 DEF m
<1> QED
  BY <1>1, <1>6, <1>8, <1>9, <1>10, <1>11 DEF L

\* Of finitely many measurements one is the largest.
LEMMA LargestMeasured ==
  ASSUME NEW S, IsFiniteSet(S), S # {}, NEW f, \A x \in S : f[x] \in Nat
  PROVE  \E x \in S : \A y \in S : f[y] <= f[x]
<1> DEFINE UpTo(x) == {y \in S : f[y] <= f[x]}
           N == Cardinality(S)
           T == {N - Cardinality(UpTo(x)) : x \in S}
<1>1. \A x \in S : IsFiniteSet(UpTo(x)) /\ Cardinality(UpTo(x)) <= N
  <2> SUFFICES ASSUME NEW x \in S
               PROVE  IsFiniteSet(UpTo(x)) /\ Cardinality(UpTo(x)) <= N
    OBVIOUS
  <2>1. UpTo(x) \subseteq S
    OBVIOUS
  <2> HIDE DEF UpTo
  <2> QED
    BY <2>1, FS_Subset
<1>2. N \in Nat /\ \A x \in S : Cardinality(UpTo(x)) \in Nat
  BY <1>1, FS_CardinalityType
<1>3. T \subseteq Nat /\ T # {}
  <2> HIDE DEF UpTo, N
  <2>1. \A x \in S : N - Cardinality(UpTo(x)) \in Nat
    BY <1>1, <1>2
  <2> QED
    BY <2>1
<1> HIDE DEF T, N
<1>4. PICK m \in T : \A c \in T : m <= c
  BY <1>3, LeastNumber
<1>5. PICK x \in S : m = N - Cardinality(UpTo(x))
  BY DEF T
<1>6. ASSUME NEW y \in S, f[x] < f[y]
      PROVE  FALSE
  <2>1. UpTo(x) \subseteq UpTo(y) /\ y \in UpTo(y) /\ y \notin UpTo(x)
    BY <1>6
  <2>2. m <= N - Cardinality(UpTo(y))
    BY <1>4 DEF T
  <2>3. IsFiniteSet(UpTo(y))
    BY <1>1
  <2> HIDE DEF UpTo
  <2>4. /\ Cardinality(UpTo(x)) <= Cardinality(UpTo(y))
        /\ Cardinality(UpTo(x)) # Cardinality(UpTo(y))
    BY <2>1, <2>3, FS_Subset
  <2> QED
    BY <1>2, <1>5, <2>2, <2>4
<1>7. \A y \in S : f[y] <= f[x]
  BY <1>6
<1> QED
  BY <1>7

Under(S, f, v) == {x \in S : f[x] < v}
AtMost(S, f, v) == {x \in S : f[x] <= v}

\* There is a k-th smallest measurement, with at most k below it and more than
\* k up to it.
LEMMA RankedExists ==
  ASSUME NEW S, IsFiniteSet(S), NEW f \in [S -> Nat], NEW k \in Nat, k < Cardinality(S)
  PROVE  /\ Ranked(f, k) \in Nat
         /\ Cardinality(Under(S, f, Ranked(f, k))) <= k
         /\ Cardinality(AtMost(S, f, Ranked(f, k))) > k
<1> DEFINE Lower(v) == {x \in S : f[x] < v}
           UpTo(v) == {x \in S : f[x] <= v}
           Values == {f[x] : x \in S}
           V == {v \in Values : Cardinality(UpTo(v)) > k}
<1>1. Cardinality(S) \in Nat /\ S # {} /\ Values \subseteq Nat
  <2>1. Cardinality(S) \in Nat
    BY FS_CardinalityType
  <2>2. S # {}
    BY <2>1, FS_EmptySet
  <2> QED
    BY <2>1, <2>2
<1>2. \A x \in S : f[x] \in Nat
  OBVIOUS
<1>3. V # {}
  <2>1. PICK x \in S : \A y \in S : f[y] <= f[x]
    BY <1>1, <1>2, LargestMeasured
  <2>2. UpTo(f[x]) = S
    BY <2>1
  <2>3. f[x] \in V
    BY <2>2
  <2> QED
    BY <2>3
<1>4. PICK v \in V : \A w \in V : v <= w
  <2>1. V \subseteq Nat
    BY <1>1
  <2> HIDE DEF V
  <2> QED
    BY <1>3, <2>1, LeastNumber
<1>5. Cardinality(Lower(v)) <= k
  <2>1. CASE Lower(v) = {}
    BY <2>1, FS_EmptySet
  <2>2. CASE Lower(v) # {}
    <3> DEFINE B == Lower(v)
    <3>1. B \subseteq S /\ \A x \in B : f[x] \in Nat /\ f[x] < v
      OBVIOUS
    <3>2. \A x \in S : x \in B <=> f[x] < v
      OBVIOUS
    <3> HIDE DEF B
    <3>3. IsFiniteSet(B) /\ B # {}
      BY <2>2, <3>1, FS_Subset DEF B
    <3>4. PICK x \in B : \A y \in B : f[y] <= f[x]
      BY <3>1, <3>3, LargestMeasured
    <3>5. v \in Nat
      BY <1>1
    <3>6. UpTo(f[x]) = B
      BY <1>2, <3>1, <3>2, <3>4, <3>5
    <3>7. f[x] \notin V
      BY <1>4, <3>1, <3>5
    <3>8. f[x] \in Values
      BY <3>1
    <3>9. ~(Cardinality(B) > k) /\ Cardinality(B) \in Nat
      BY <3>3, <3>6, <3>7, <3>8, FS_CardinalityType
    <3> QED
      BY <3>9 DEF B
  <2> QED
    BY <2>1, <2>2
<1>6. v \in Values /\ Cardinality(UpTo(v)) > k
  OBVIOUS
<1>7. DOMAIN f = S
  OBVIOUS
<1>8. Ranked(f, k) = CHOOSE w \in Values : Cardinality(Lower(w)) <= k /\ Cardinality(UpTo(w)) > k
  BY <1>7 DEF Ranked
<1> HIDE DEF Values, V, Lower, UpTo
<1>9. /\ Ranked(f, k) \in Values
      /\ Cardinality(Lower(Ranked(f, k))) <= k /\ Cardinality(UpTo(Ranked(f, k))) > k
  BY <1>5, <1>6, <1>8
<1> QED
  BY <1>1, <1>9 DEF Lower, UpTo, Under, AtMost

\* The median of a histogram halves the measurements.
LEMMA MedianHalves ==
  ASSUME NEW S, IsFiniteSet(S), NEW f \in [S -> Nat]
  PROVE  LET med == Histogram(f).median
             Side(T) == 2 * Cardinality(T) <= Cardinality(DOMAIN f)
         IN  Side({n \in DOMAIN f : f[n] < med}) /\ Side({n \in DOMAIN f : f[n] > med})
<1> DEFINE med == Histogram(f).median
           N == Cardinality(S)
           Lower == {n \in S : f[n] < med}
           UpTo == {n \in S : f[n] <= med}
           Upper == {n \in S : f[n] > med}
<1>1. DOMAIN f = S
  OBVIOUS
<1>2. med = IF S = {} THEN -1 ELSE Ranked(f, N \div 2)
  BY <1>1 DEF Histogram
<1>3. N \in Nat /\ Lower \subseteq S /\ Upper \subseteq S /\ UpTo \subseteq S
  BY FS_CardinalityType
<1>4. /\ IsFiniteSet(Lower) /\ Cardinality(Lower) \in Nat
      /\ IsFiniteSet(Upper) /\ Cardinality(Upper) \in Nat
      /\ IsFiniteSet(UpTo) /\ Cardinality(UpTo) \in Nat
  <2> HIDE DEF Lower, Upper, UpTo
  <2>1. IsFiniteSet(Lower) /\ IsFiniteSet(Upper) /\ IsFiniteSet(UpTo)
    BY <1>3, FS_Subset
  <2> QED
    BY <2>1, FS_CardinalityType
<1>5. CASE S = {}
  <2>1. Lower = {} /\ Upper = {}
    BY <1>5
  <2>2. Cardinality(Lower) = 0 /\ Cardinality(Upper) = 0
    BY <2>1, FS_EmptySet
  <2>3. 2 * Cardinality(Lower) <= N /\ 2 * Cardinality(Upper) <= N
    <3> HIDE DEF N, Lower, Upper
    <3> QED
      BY <1>3, <2>2
  <2> QED
    BY <1>1, <2>3
<1>6. CASE S # {}
  <2> DEFINE k == N \div 2
  <2>1. N # 0
    BY <1>6, FS_EmptySet
  <2>2. k \in Nat /\ k < N /\ 2 * k <= N /\ N <= 2 * k + 1
    <3> HIDE DEF N
    <3> QED
      BY <1>3, <2>1
  <2> HIDE DEF k
  <2>3. med = Ranked(f, k)
    BY <1>2, <1>6 DEF k
  <2>4. /\ med \in Nat /\ Cardinality(Under(S, f, med)) <= k
        /\ Cardinality(AtMost(S, f, med)) > k
    BY <2>2, <2>3, RankedExists
  <2>5. Cardinality(Lower) <= k /\ Cardinality(UpTo) > k
    BY <2>4 DEF Under, AtMost
  <2>6. UpTo \cup Upper = S /\ UpTo \cap Upper = {}
    BY <2>4
  <2> HIDE DEF Lower, UpTo, Upper, med
  <2>7. Cardinality(UpTo \cup Upper) =
          Cardinality(UpTo) + Cardinality(Upper) - Cardinality(UpTo \cap Upper)
    BY <1>4, FS_Union
  <2>8. Cardinality(UpTo \cap Upper) = 0 /\ Cardinality(UpTo \cup Upper) = N
    BY <2>6, FS_EmptySet
  <2>9. Cardinality(UpTo) + Cardinality(Upper) = N
    BY <1>4, <2>7, <2>8
  <2> HIDE DEF N
  <2>10. 2 * Cardinality(Lower) <= N /\ 2 * Cardinality(Upper) <= N
    BY <1>3, <1>4, <2>2, <2>5, <2>9
  <2> QED
    BY <1>1, <2>10 DEF Lower, Upper, med, N
<1> QED
  BY <1>5, <1>6

\* The histogram of any measurements.
LEMMA HistogramCounts ==
  ASSUME NEW S, IsFiniteSet(S), NEW f \in [S -> Nat]
  PROVE  LET h == Histogram(f)
             Within(b) == {n \in DOMAIN f :
                             f[n] >= b.min_ms /\ (b.max_ms = -1 \/ f[n] < b.max_ms)}
         IN  /\ \A n \in DOMAIN f : \E b \in h.buckets : n \in Within(b)
             /\ \A b \in h.buckets : b.count > 0 /\ b.count = Cardinality(Within(b))
             /\ \A b, c \in h.buckets : b # c => Within(b) \cap Within(c) = {}
<1> DEFINE h == Histogram(f)
           Within(b) == {n \in DOMAIN f :
                           f[n] >= b.min_ms /\ (b.max_ms = -1 \/ f[n] < b.max_ms)}
           L == Len(Edges)
           InBand(i) == {x \in DOMAIN f : Band(f[x]) = i}
           Bucket(i) == [min_ms |-> IF i = 1 THEN 0 ELSE Edges[i - 1],
                         max_ms |-> IF i \in DOMAIN Edges THEN Edges[i] ELSE -1,
                         count |-> Cardinality(InBand(i))]
           Used == {i \in 1..(L + 1) : InBand(i) # {}}
<1>1. DOMAIN f = S /\ \A x \in S : f[x] \in Nat
  OBVIOUS
<1>2. h.buckets = {Bucket(i) : i \in Used}
  BY DEF Histogram
<1>3. L \in Nat /\ DOMAIN Edges = 1..L /\ \A i \in 1..L : Edges[i] \in Nat \ {0}
  BY EdgesIncrease
<1>4. \A x \in S : Band(f[x]) \in 1..(L + 1)
  BY <1>1, BandsEnclose
<1>5. ASSUME NEW i \in 1..(L + 1)
      PROVE  Within(Bucket(i)) = InBand(i)
  <2>1. \A x \in S : Band(f[x]) = i <=> /\ i = 1 \/ f[x] >= Edges[i - 1]
                                        /\ i \in DOMAIN Edges => f[x] < Edges[i]
    BY <1>1, BandsEnclose
  <2>2. /\ Bucket(i).min_ms = IF i = 1 THEN 0 ELSE Edges[i - 1]
        /\ Bucket(i).max_ms = IF i \in DOMAIN Edges THEN Edges[i] ELSE -1
    OBVIOUS
  <2> HIDE DEF Bucket
  <2>3. \A x \in S : f[x] >= Bucket(i).min_ms <=> i = 1 \/ f[x] >= Edges[i - 1]
    BY <1>1, <2>2
  <2>4. \A x \in S : (Bucket(i).max_ms = -1 \/ f[x] < Bucket(i).max_ms) <=>
                     (i \in DOMAIN Edges => f[x] < Edges[i])
    BY <1>1, <1>3, <2>2
  <2>5. \A x \in S : x \in Within(Bucket(i)) <=> x \in InBand(i)
    BY <1>1, <2>1, <2>3, <2>4
  <2> QED
    BY <1>1, <2>5
<1>6. \A i : Bucket(i).count = Cardinality(InBand(i))
  OBVIOUS
<1> HIDE DEF h, Within, Bucket, L
<1>7. \A b \in h.buckets : \E i \in Used : b = Bucket(i)
  BY <1>2
<1>8. \A n \in S : Band(f[n]) \in Used /\ n \in InBand(Band(f[n]))
  BY <1>1, <1>4
<1>9. ASSUME NEW n \in S
      PROVE  \E b \in h.buckets : n \in Within(b)
  <2>1. Bucket(Band(f[n])) \in h.buckets
    BY <1>2, <1>8
  <2>2. n \in Within(Bucket(Band(f[n])))
    BY <1>4, <1>5, <1>8
  <2> QED
    BY <2>1, <2>2
<1>10. ASSUME NEW b \in h.buckets
       PROVE  b.count > 0 /\ b.count = Cardinality(Within(b))
  <2>1. PICK i \in Used : b = Bucket(i)
    BY <1>7
  <2>2. i \in 1..(L + 1) /\ InBand(i) # {} /\ InBand(i) \subseteq S
    BY <1>1
  <2>3. Within(b) = InBand(i) /\ b.count = Cardinality(InBand(i))
    BY <1>5, <1>6, <2>1, <2>2
  <2> HIDE DEF InBand
  <2>4. IsFiniteSet(InBand(i)) /\ Cardinality(InBand(i)) # 0
    BY <2>2, FS_Subset, FS_EmptySet
  <2>5. Cardinality(InBand(i)) \in Nat
    BY <2>4, FS_CardinalityType
  <2> QED
    BY <2>3, <2>4, <2>5
<1>11. ASSUME NEW b \in h.buckets, NEW c \in h.buckets, b # c
       PROVE  Within(b) \cap Within(c) = {}
  <2>1. PICK i \in Used : b = Bucket(i)
    BY <1>7
  <2>2. PICK j \in Used : c = Bucket(j)
    BY <1>7
  <2>3. i # j
    BY <1>11, <2>1, <2>2
  <2>4. Within(b) = InBand(i) /\ Within(c) = InBand(j)
    BY <1>5, <2>1, <2>2
  <2> QED
    BY <2>3, <2>4
<1> QED
  BY <1>1, <1>9, <1>10, <1>11 DEF h, Within

-----------------------------------------------------------------------------
(* The newest rows of a set of blocks.                                      *)

AboveIn(H, h) == Cardinality({k \in H : k > h})

LEMMA Heightwise ==
  ASSUME NEW H \in SUBSET Height
  PROVE  IsFiniteSet(H) /\ Cardinality(H) \in Nat /\ \A h \in H : h \in Nat
<1>1. H \subseteq Nat /\ \A h \in H : h <= MaxHeight
  BY ReadsAssumption DEF Height
<1>2. IsFiniteSet(H)
  BY <1>1, ReadsAssumption, FS_BoundedSetOfNaturals
<1> QED
  BY <1>1, <1>2, FS_CardinalityType

LEMMA HeightsRank ==
  ASSUME NEW H \in SUBSET Height
  PROVE  LET N == Cardinality(H)
             at == [h \in H |-> AboveIn(H, h)]
         IN  /\ at \in Bijection(H, 0..(N - 1))
             /\ \A h \in H : AboveIn(H, h) \in 0..(N - 1)
             /\ \A h, k \in H : AboveIn(H, h) < AboveIn(H, k) <=> h > k
             /\ \A h, k \in H : AboveIn(H, h) = AboveIn(H, k) => h = k
<1> DEFINE ahead == [h \in H |-> {k \in H : k > h}]
           at == [h \in H |-> Cardinality(ahead[h])]
           N == Cardinality(H)
<1>1. IsFiniteSet(H) /\ \A h \in H : h \in Nat
  BY Heightwise
<1>2. \A h, k \in H : h \in ahead[k] <=> h > k
  OBVIOUS
<1>3. ahead \in [H -> SUBSET H]
  OBVIOUS
<1>4. \A h \in H : at[h] = AboveIn(H, h)
  BY DEF AboveIn
<1>5. at = [h \in H |-> AboveIn(H, h)]
  BY <1>4
<1> HIDE DEF ahead
<1>6. \A h \in H : h \notin ahead[h]
  BY <1>1, <1>2
<1>7. \A h, k \in H : h \in ahead[k] => ahead[h] \subseteq ahead[k]
  BY <1>1, <1>2, <1>3
<1>8. \A h, k \in H : h = k \/ h \in ahead[k] \/ k \in ahead[h]
  BY <1>1, <1>2
<1>9. /\ N \in Nat /\ at \in Bijection(H, 0..(N - 1))
      /\ \A h \in H : at[h] \in 0..(N - 1)
      /\ \A h, k \in H : at[h] < at[k] <=> h \in ahead[k]
  BY <1>1, <1>3, <1>6, <1>7, <1>8, RankOfOrder
<1>10. \A h, k \in H : at[h] = at[k] => h = k
  BY <1>9 DEF Bijection, Injection, IsInjective
<1> HIDE DEF at, N
<1>11. \A h, k \in H : AboveIn(H, h) < AboveIn(H, k) <=> h > k
  BY <1>2, <1>4, <1>9
<1>12. \A h, k \in H : AboveIn(H, h) = AboveIn(H, k) => h = k
  BY <1>4, <1>10
<1>13. \A h \in H : AboveIn(H, h) \in 0..(N - 1)
  BY <1>4, <1>9
<1> QED
  BY <1>5, <1>9, <1>11, <1>12, <1>13 DEF N

LEMMA NewestRows ==
  ASSUME NEW H \in SUBSET Height, NEW n \in Nat
  PROVE  LET s == Newest(n, H)
             N == Cardinality(H)
             c == IF n <= N THEN n ELSE N
         IN  /\ c \in Nat /\ s \in Seq(Height) /\ Len(s) = c /\ DOMAIN s = 1..c
             /\ \A i \in 1..c : s[i] \in H /\ AboveIn(H, s[i]) = i - 1
             /\ \A h \in H : AboveIn(H, h) < c => s[AboveIn(H, h) + 1] = h
<1> DEFINE N == Cardinality(H)
           c == IF n <= N THEN n ELSE N
           Above(h) == Cardinality({k \in H : k > h})
           kept == {h \in H : Above(h) < n}
           Row(i) == CHOOSE h \in kept : Above(h) = i - 1
           s == [i \in 1..Cardinality(kept) |-> Row(i)]
           at == [h \in H |-> AboveIn(H, h)]
<1>1. s = Newest(n, H)
  BY DEF Newest
<1>2. /\ N \in Nat /\ at \in Bijection(H, 0..(N - 1))
      /\ \A h \in H : AboveIn(H, h) \in 0..(N - 1)
      /\ \A h, k \in H : AboveIn(H, h) = AboveIn(H, k) => h = k
  BY Heightwise, HeightsRank
<1>3. \A h \in H : at[h] = AboveIn(H, h) /\ Above(h) = AboveIn(H, h)
  BY DEF AboveIn
<1>4. c \in Nat /\ c <= N /\ 0 <= c
  BY <1>2
<1>5. \A j \in 0..(N - 1) : \E h \in H : at[h] = j
  BY <1>2 DEF Bijection, Surjection
<1> HIDE DEF at, N, Above
<1>6. \A h : h \in kept <=> h \in H /\ at[h] >= 0 /\ at[h] < c
  <2>1. \A h \in H : at[h] \in Nat /\ at[h] < N
    BY <1>2, <1>3
  <2> QED
    BY <1>2, <1>3, <2>1
<1>7. kept = Slice(H, at, 0, c)
  <2> HIDE DEF kept
  <2> QED
    BY <1>6 DEF Slice
<1> HIDE DEF c
<1>8. Cardinality(kept) = c
  <2>1. Cardinality(Slice(H, at, 0, c)) = c - 0
    BY <1>2, <1>4, SliceSize
  <2> QED
    BY <1>4, <1>7, <2>1
<1> HIDE DEF kept
<1>9. ASSUME NEW i \in 1..c
      PROVE  Row(i) \in H /\ AboveIn(H, Row(i)) = i - 1
  <2>1. i - 1 \in 0..(N - 1) /\ i - 1 < c
    BY <1>2, <1>4
  <2>2. PICK h \in H : at[h] = i - 1
    BY <1>5, <2>1
  <2>3. h \in kept
    BY <1>6, <2>1, <2>2
  <2>4. Above(h) = i - 1
    BY <1>3, <2>2
  <2>5. Row(i) \in kept /\ Above(Row(i)) = i - 1
    BY <2>3, <2>4
  <2> HIDE DEF Row
  <2> QED
    BY <1>3, <1>6, <2>5
<1> HIDE DEF Row
<1>10. DOMAIN s = 1..c /\ \A i \in 1..c : s[i] = Row(i)
  BY <1>8
<1>11. s \in Seq(Height) /\ Len(s) = c
  <2>1. \A i \in 1..c : Row(i) \in Height
    BY <1>9
  <2>2. s \in [1..c -> Height]
    BY <1>8, <2>1
  <2> HIDE DEF s
  <2> QED
    BY <1>4, <2>2
<1>12. ASSUME NEW h \in H, AboveIn(H, h) < c
       PROVE  s[AboveIn(H, h) + 1] = h
  <2>1. AboveIn(H, h) + 1 \in 1..c /\ AboveIn(H, h) \in Nat
    BY <1>2, <1>4, <1>12
  <2>2. AboveIn(H, Row(AboveIn(H, h) + 1)) = AboveIn(H, h)
    BY <1>9, <2>1
  <2> QED
    BY <1>2, <1>9, <1>10, <2>1, <2>2
<1> HIDE DEF s
<1> QED
  BY <1>1, <1>4, <1>9, <1>10, <1>11, <1>12 DEF c, N

\* They are the ones with fewer than so many above, newest first.
LEMMA NewestHeights ==
  ASSUME NEW H \in SUBSET Height, NEW n \in Nat
  PROVE  LET s == Newest(n, H)
         IN  /\ Heights(s) \subseteq H /\ Descends(s)
             /\ \A h \in H : AboveIn(H, h) < n => h \in Heights(s)
             /\ \A h \in Heights(s) : AboveIn(H, h) < n
             /\ Cardinality(H) <= n => Heights(s) = H
             /\ IsFiniteSet(Heights(s)) /\ Cardinality(Heights(s)) \in Nat
             /\ Cardinality(Heights(s)) < n => Heights(s) = H
<1> DEFINE s == Newest(n, H)
           N == Cardinality(H)
           c == IF n <= N THEN n ELSE N
<1>1. /\ c \in Nat /\ DOMAIN s = 1..c
      /\ \A i \in 1..c : s[i] \in H /\ AboveIn(H, s[i]) = i - 1
      /\ \A h \in H : AboveIn(H, h) < c => s[AboveIn(H, h) + 1] = h
  BY NewestRows
<1>2. /\ N \in Nat /\ IsFiniteSet(H)
      /\ \A h \in H : AboveIn(H, h) \in 0..(N - 1)
      /\ \A h, k \in H : AboveIn(H, h) < AboveIn(H, k) <=> h > k
  BY Heightwise, HeightsRank
<1>3. \A h : h \in Heights(s) <=> \E i \in 1..c : s[i] = h
  BY <1>1 DEF Heights
<1> HIDE DEF s, N
<1>4. Heights(s) \subseteq H
  BY <1>1, <1>3
<1>5. Descends(s)
  BY <1>1, <1>2 DEF Descends
<1>6. \A h \in H : AboveIn(H, h) < n => h \in Heights(s)
  BY <1>1, <1>2, <1>3
<1>7. \A h \in Heights(s) : AboveIn(H, h) < n
  BY <1>1, <1>3
<1>8. N <= n => Heights(s) = H
  BY <1>2, <1>4, <1>6
<1>9. IsFiniteSet(Heights(s)) /\ Cardinality(Heights(s)) \in Nat
  BY <1>2, <1>4, FS_Subset, FS_CardinalityType
<1>10. Cardinality(Heights(s)) < n => Heights(s) = H
  <2> SUFFICES ASSUME n < N
               PROVE  Cardinality(Heights(s)) >= n
    BY <1>2, <1>8, <1>9
  <2>1. s \in Injection(1..n, Heights(s))
    <3>1. c = n
      BY <1>2
    <3>2. s \in Seq(Height) /\ Len(s) = c
      BY NewestRows DEF s, N
    <3>3. s \in [1..n -> Heights(s)]
      BY <1>1, <1>3, <3>1, <3>2
    <3>4. \A i, j \in 1..n : s[i] = s[j] => i = j
      BY <1>1, <3>1
    <3> QED
      BY <3>3, <3>4 DEF Injection, IsInjective
  <2>2. Cardinality(1..n) <= Cardinality(Heights(s))
    BY <1>9, <2>1, FS_Injection
  <2>3. Cardinality(1..n) = n
    <3>1. 1 \in Int /\ n \in Int
      OBVIOUS
    <3>2. Cardinality(1..n) = IF 1 > n THEN 0 ELSE n - 1 + 1
      BY <3>1, FS_Interval
    <3> QED
      BY <3>2
  <2> QED
    BY <1>9, <2>2, <2>3
<1> QED
  BY <1>4, <1>5, <1>6, <1>7, <1>8, <1>9, <1>10 DEF s, N

-----------------------------------------------------------------------------
(* The blocks table.                                                        *)

StripReads ==
  \/ ReceiveStep \/ Scroll
  \/ \E f \in Fetch : AnswerFetch(f) \/ LoseFetch(f)
  \/ \E p \in Poll : SendPoll(p)

PeriodReads == ReadPeriod \/ ReadList \/ ReadTally \/ ReadStatsPeriod \/ NextFigures

\* What a step of the site is to the blocks table and its readers.
BlocksStep ==
  \/ \E d \in Nat : NewBlock(d)
  \/ StoreStep \/ RefreshStep
  \/ StripReads \/ PeriodReads
  \/ UNCHANGED blockVars

LEMMA StepsOfBlocks == [Next]_siteVars => BlocksStep
<1>1. 0 \in Nat /\ \A d \in 0..MaxDepth : d \in Nat
  BY ReadsAssumption
<1> QED
  BY <1>1 DEF Next, siteVars, StripNext, PeriodNext, BlocksStep, StripReads, PeriodReads

LEMMA ReadersRest ==
  ASSUME StripReads \/ PeriodReads \/ UNCHANGED blockVars
  PROVE  UNCHANGED blocksVars
<1>1. CASE StripReads
  BY <1>1 DEF StripReads, ReceiveStep, ReceiveFirst, ReceiveOlder, ReceivePoll,
              Scroll, AnswerFetch, LoseFetch, SendPoll
<1>2. CASE PeriodReads
  BY <1>2 DEF PeriodReads, ReadPeriod, ReadList, ReadTally, ReadStatsPeriod,
              NextFigures, Figure
<1>3. CASE UNCHANGED blockVars
  BY <1>3 DEF blockVars
<1> QED  BY <1>1, <1>2, <1>3

\* The highest of a set of heights.
LEMMA Highest ==
  ASSUME NEW H \in SUBSET Height, H # {}
  PROVE  Max(H) \in H /\ Max(H) \in Nat /\ \A h \in H : h <= Max(H)
<1>1. IsFiniteSet(H) /\ \A h \in H : h \in Nat
  BY Heightwise
<1> DEFINE id == [h \in H |-> h]
<1>2. \A h \in H : id[h] \in Nat
  BY <1>1
<1>3. \E x \in H : \A y \in H : id[y] <= id[x]
  <2> HIDE DEF id
  <2> QED  BY <1>1, <1>2, LargestMeasured
<1>4. PICK x \in H : \A y \in H : x >= y
  BY <1>1, <1>3
<1> QED  BY <1>1, <1>4 DEF Max

LEMMA HighestGrows ==
  ASSUME NEW H \in SUBSET Height, NEW K \in SUBSET Height, H # {}, H \subseteq K
  PROVE  Max(H) <= Max(K)
  BY Highest

\* The first block of a period, and the period after it.
LEMMA PeriodStarts ==
  ASSUME NEW t \in Nat
  PROVE  PeriodStart(t) \in Nat /\ PeriodStart(t) <= t
<1> DEFINE a == t \div Period
<1>1. Period \in Nat /\ Period > 0
  BY ReadsAssumption
<1>2. a \in Nat /\ a * Period <= t
  BY <1>1, Z3
<1>3. a * Period \in Nat
  BY <1>1, <1>2, Z3
<1> QED  BY <1>2, <1>3 DEF PeriodStart

LEMMA PeriodsOrdered ==
  ASSUME NEW t \in Nat, NEW m \in Nat, t <= m
  PROVE  /\ PeriodStart(t) <= PeriodStart(m)
         /\ PeriodStart(t) # PeriodStart(m) => PeriodStart(t) + Period <= m
<1> DEFINE a == t \div Period
           b == m \div Period
<1>1. Period \in Nat /\ Period > 0
  BY ReadsAssumption
<1>2. a \in Nat /\ b \in Nat /\ a <= b /\ b * Period <= m
  BY <1>1, Z3
<1>3. PeriodStart(t) = a * Period /\ PeriodStart(m) = b * Period
  BY DEF PeriodStart
<1> HIDE DEF a, b
<1>4. CASE a = b
  <2>1. PeriodStart(t) = PeriodStart(m) /\ PeriodStart(t) \in Nat
    BY <1>3, <1>4, PeriodStarts
  <2> QED  BY <2>1
<1>5. CASE a # b
  <2>1. PICK d \in Nat : b = a + 1 + d
    <3>1. b - a - 1 \in Nat /\ b = a + 1 + (b - a - 1)
      BY <1>2, <1>5
    <3> QED  BY <3>1
  <2>2. (a + 1 + d) * Period = a * Period + Period + d * Period
    BY <1>1, <1>2, <2>1, Z3
  <2>3. d * Period \in Nat /\ a * Period \in Nat
    BY <1>1, <1>2, <2>1, Z3
  <2>4. b * Period = a * Period + Period + d * Period
    BY <2>1, <2>2
  <2> QED  BY <1>1, <1>2, <1>3, <2>3, <2>4
<1> QED  BY <1>4, <1>5

\* The period of a later block is the same or begins after the earlier one.
LEMMA PeriodOfStart ==
  ASSUME NEW t \in Nat
  PROVE  PeriodStart(PeriodStart(t)) = PeriodStart(t)
<1> DEFINE a == t \div Period
<1>1. Period \in Nat /\ Period > 0
  BY ReadsAssumption
<1>2. a \in Nat
  BY <1>1, Z3
<1> HIDE DEF a
<1>3. (a * Period) \div Period = a
  BY <1>1, <1>2, Z3
<1> QED  BY <1>3 DEF PeriodStart, a

LEMMA WindowOfTip ==
  ASSUME NEW t \in Height
  PROVE  t \in NewestWindow(t) /\ NewestWindow(t) \subseteq 0..t
  BY ReadsAssumption DEF NewestWindow, Height

LEMMA TableInit == Init => TableInv
<1> SUFFICES ASSUME Init PROVE TableInv
  OBVIOUS
<1>1. FirstTip \in Height /\ Signalling \subseteq Height
  BY ReadsAssumption DEF Height
<1>2. /\ top = FirstTip /\ chain = Signalling /\ torn = FALSE /\ stale = {}
      /\ signals = chain \cap stored
      /\ \E older \in SUBSET (0..FirstTip) : stored = older \cup NewestWindow(FirstTip)
  BY DEF Init, BlocksInit
<1>3. stored \subseteq 0..top /\ stored # {}
  BY <1>1, <1>2, WindowOfTip
<1> QED  BY <1>1, <1>2, <1>3 DEF TableInv

HeightsOfTable ==
  /\ stored \in SUBSET Height /\ MaxStored \in stored /\ MaxStored \in Nat
  /\ MaxStored <= top /\ \A h \in stored : h <= MaxStored
  /\ top \in Nat /\ PeriodStart(top) \in Nat /\ PeriodStart(top) <= top

LEMMA StoredHeights == TableInv => HeightsOfTable
<1> SUFFICES ASSUME TableInv PROVE HeightsOfTable
  OBVIOUS
<1>1. stored \in SUBSET Height /\ stored # {} /\ stored \subseteq 0..top
  BY ReadsAssumption DEF TableInv, Height
<1>2. Max(stored) \in stored /\ Max(stored) \in Nat /\ \A h \in stored : h <= Max(stored)
  BY <1>1, Highest
<1>3. top \in Nat /\ PeriodStart(top) \in Nat /\ PeriodStart(top) <= top
  BY PeriodStarts DEF TableInv, Height
<1> QED  BY <1>1, <1>2, <1>3 DEF MaxStored, HeightsOfTable

LEMMA StoredHeightsLater == TableInv' => HeightsOfTable'
  BY StoredHeights, PTL

\* What an upsert leaves behind is the chain of now at the heights it stores.
LEMMA UpsertKeeps ==
  ASSUME TableInv, NEW H \in SUBSET (0..top), UpsertBlocks(H), UNCHANGED chainVars,
         torn' \in BOOLEAN
  PROVE  TableInv' /\ stored' = stored \cup H
<1>1. /\ stored' = stored \cup H /\ signals' = (signals \ H) \cup (chain \cap H)
      /\ stale' = stale \ H
  BY DEF UpsertBlocks, UpsertedSignals
<1>2. top' = top /\ chain' = chain
  BY DEF chainVars
<1>3. \A h \in stored' : h \notin stale' => (h \in signals' <=> h \in chain')
  BY <1>1, <1>2 DEF TableInv
<1>4. signals' \subseteq stored' /\ stale' \subseteq Height /\ stored' # {} /\ stored' \subseteq 0..top
  BY <1>1 DEF TableInv
<1> QED  BY <1>1, <1>2, <1>3, <1>4 DEF TableInv

\* A step leaves the table alone, stores a window, or stores a block below the
\* tip, or is a new block.
TableKept == UNCHANGED <<chainVars, tableVars>>
WindowStored == UpsertWindow /\ UNCHANGED chainVars
MissingStored == \E h \in 0..top : UpsertMissing(h) /\ UNCHANGED chainVars

LEMMA TableKinds ==
  ASSUME TableInv, TalliesInv, BlocksStep
  PROVE  (\E d \in Nat : NewBlock(d)) \/ TableKept \/ WindowStored \/ MissingStored
<1>1. CASE StripReads \/ PeriodReads \/ UNCHANGED blockVars
  BY <1>1, ReadersRest DEF blocksVars, TableKept
<1>2. ASSUME NEW h \in Height, StoreMissing(h)
      PROVE  MissingStored
  <2>1. h \in 0..top
    BY <1>2 DEF StoreMissing, Height, TableInv
  <2> QED  BY <1>2, <2>1 DEF StoreMissing, MissingStored, chainVars
<1>3. ASSUME NEW c \in Crawler, NEW h \in Height, BackfillBlock(c, h)
      PROVE  MissingStored
  <2>1. h \in 0..top
    BY <1>3 DEF BackfillBlock, TalliesInv
  <2> QED  BY <1>3, <2>1 DEF BackfillBlock, MissingStored, chainVars
<1>4. ASSUME NEW c \in Crawler, RefreshWindow(c)
      PROVE  TableKept \/ WindowStored
  BY <1>4 DEF RefreshWindow, TableKept, WindowStored, chainVars
<1>5. ASSUME NEW c \in Crawler, ScanPeriod(c) \/ WriteSnapshot(c) \/ Restart(c)
      PROVE  TableKept
  BY <1>5 DEF ScanPeriod, WriteSnapshot, Restart, TableKept, chainVars, tableVars
<1>6. StoreWindow => WindowStored
  BY DEF StoreWindow, WindowStored, chainVars
<1> QED
  BY <1>1, <1>2, <1>3, <1>4, <1>5, <1>6 DEF BlocksStep, StoreStep, RefreshStep

\* The heights a new block replaces, and what it leaves of the chain.
Replaced(d) == {h \in Height : h > top - d /\ h <= top}

LEMMA NewBlockMoves ==
  ASSUME TableInv, NEW d \in Nat, NewBlock(d)
  PROVE  /\ top' = top + 1 /\ top' \in Height /\ top \in Nat
         /\ chain' \subseteq Height
         /\ \A h \in Height : h \notin Replaced(d) => (h \in chain' <=> h \in chain)
         /\ UNCHANGED <<stored, signals, torn, phase, found, faults, stripVars>>
         /\ stale' = stale \cup (Replaced(d) \cap stored)
         /\ tally' = Moved(tally, Replaced(d))
         /\ cache' = [c \in Crawler |-> Moved(cache[c], Replaced(d))]
<1>1. top \in Nat /\ MaxHeight \in Nat
  BY ReadsAssumption DEF TableInv, Height
<1>2. top < MaxHeight /\ top' = top + 1
  BY DEF NewBlock
<1>3. PICK S \in SUBSET Replaced(d) : chain' = (chain \ Replaced(d)) \cup S
  BY DEF NewBlock, Replaced
<1>4. Replaced(d) \subseteq Height /\ chain \subseteq Height
  BY DEF Replaced, TableInv
<1>5. top' \in Height
  BY <1>1, <1>2 DEF Height
<1> QED  BY <1>1, <1>2, <1>3, <1>4, <1>5 DEF NewBlock, Replaced

LEMMA TableStep ==
  TableInv /\ TalliesInv /\ BlocksStep =>
    TableInv' /\ stored \subseteq stored' /\ MaxStored <= MaxStored'
<1> SUFFICES ASSUME TableInv, TalliesInv, BlocksStep
             PROVE  TableInv' /\ stored \subseteq stored' /\ MaxStored <= MaxStored'
  OBVIOUS
<1>a. TableInv' /\ stored \subseteq stored'
  <2>1. ASSUME NEW d \in Nat, NewBlock(d)
        PROVE  TableInv' /\ stored \subseteq stored'
    <3>1. /\ top' = top + 1 /\ top' \in Height /\ top \in Nat /\ chain' \subseteq Height
          /\ \A h \in Height : h \notin Replaced(d) => (h \in chain' <=> h \in chain)
          /\ UNCHANGED <<stored, signals, torn>>
          /\ stale' = stale \cup (Replaced(d) \cap stored)
      BY <2>1, NewBlockMoves
    <3>2. stored' \subseteq 0..top' /\ stored' # {}
      BY <3>1 DEF TableInv
    <3>3. stored \subseteq Height
      BY StoredHeights DEF HeightsOfTable
    <3>4. \A h \in stored' : h \notin stale' => (h \in signals' <=> h \in chain')
      BY <3>1, <3>3 DEF TableInv
    <3>5. stale' \subseteq Height
      BY <3>1, <3>3 DEF TableInv
    <3> QED  BY <3>1, <3>2, <3>4, <3>5 DEF TableInv
  <2>2. CASE TableKept
    BY <2>2 DEF TableKept, chainVars, tableVars, TableInv
  <2>3. CASE WindowStored
    <3>1. NewestWindow(top) \in SUBSET (0..top)
      BY WindowOfTip DEF TableInv
    <3>2. torn' \in BOOLEAN
      BY <2>3 DEF WindowStored, UpsertWindow, TableInv
    <3> QED  BY <2>3, <3>1, <3>2, UpsertKeeps DEF WindowStored, UpsertWindow
  <2>4. CASE MissingStored
    <3>1. PICK h \in 0..top : UpsertMissing(h) /\ UNCHANGED chainVars
      BY <2>4 DEF MissingStored
    <3>2. {h} \in SUBSET (0..top) /\ torn' \in BOOLEAN
      BY <3>1 DEF UpsertMissing, TableInv
    <3> QED  BY <3>1, <3>2, UpsertKeeps DEF UpsertMissing
  <2> QED  BY <2>1, <2>2, <2>3, <2>4, TableKinds
<1>b. stored \in SUBSET Height /\ stored # {} /\ stored' \in SUBSET Height
  BY <1>a, StoredHeights, StoredHeightsLater DEF HeightsOfTable
<1>c. Max(stored) <= Max(stored')
  BY <1>a, <1>b, HighestGrows
<1> QED  BY <1>a, <1>c DEF MaxStored

-----------------------------------------------------------------------------
(* The tallies.                                                             *)

LEMMA ScanFits ==
  ASSUME TableInv
  PROVE  /\ TallyFits(Scanned, top, chain) /\ Scanned.start = PeriodStart(top)
         /\ Scanned.heights \subseteq 0..top
<1>1. top \in Nat /\ PeriodStart(top) \in Nat /\ chain \subseteq Height
  BY StoredHeights DEF HeightsOfTable, TableInv
<1>2. /\ Scanned.start = PeriodStart(top) /\ Scanned.tip = top /\ Scanned.moved = {}
      /\ Scanned.heights = chain \cap (PeriodStart(top)..top)
      /\ Scanned \in Tally
  BY <1>1 DEF Scanned, ScanStart, Tally
<1>3. PeriodStart(top)..top \subseteq 0..top
  BY <1>1
<1> QED  BY <1>1, <1>2, <1>3 DEF TallyFits, TallyTypes

LEMMA NoTallyFits == TableInv => TallyFits(NoTally, top, chain) /\ ~Known(NoTally)
<1> SUFFICES ASSUME TableInv PROVE TallyFits(NoTally, top, chain) /\ ~Known(NoTally)
  OBVIOUS
<1>1. /\ NoTally.start = 0 /\ NoTally.tip = -1 /\ NoTally.heights = {}
      /\ NoTally.moved = {} /\ top \in Nat /\ NoTally \in Tally
  BY StoredHeights DEF NoTally, HeightsOfTable, Tally
<1> QED  BY <1>1 DEF TallyFits, TallyTypes, Known

LEMMA MovedFields ==
  ASSUME NEW y \in Tally, NEW R
  PROVE  /\ Moved(y, R).start = y.start /\ Moved(y, R).tip = y.tip
         /\ Moved(y, R).heights = y.heights
         /\ Moved(y, R).moved = y.moved \cup (R \cap (y.start..y.tip))
  BY DEF Moved, Tally

\* A new block leaves a tally as true of the chain as it was.
LEMMA MovedFits ==
  ASSUME NEW y, NEW t \in Nat, NEW u \in Nat, NEW S, NEW T, NEW R \in SUBSET Height,
         t <= u, u \in Height, TallyFits(y, t, S),
         \A h \in Height : h \notin R => (h \in T <=> h \in S)
  PROVE  TallyFits(Moved(y, R), u, T) /\ y \in Tally
<1> DEFINE z == Moved(y, R)
<1>1. y \in Tally /\ y.tip \in Nat \cup {-1} /\ y.start \in Nat /\ y.tip <= t
  BY DEF TallyFits, TallyTypes, Tally
<1>2. /\ z.start = y.start /\ z.tip = y.tip /\ z.heights = y.heights
      /\ z.moved = y.moved \cup (R \cap (y.start..y.tip))
  BY <1>1, MovedFields
<1>3. z \in Tally
  BY <1>1 DEF Moved, Tally
<1> HIDE DEF z
<1>4. y.start..y.tip \subseteq Height
  <2>1. 0..u \subseteq Height
    BY ReadsAssumption DEF Height
  <2> QED  BY <1>1, <2>1
<1>5. \A h \in z.start..z.tip : h \notin z.moved => (h \in z.heights <=> h \in T)
  BY <1>2, <1>4 DEF TallyFits
<1>6. z.tip <= u
  BY <1>1, <1>2
<1>7. TallyTypes(z) /\ (Known(z) => z.start = PeriodStart(z.tip))
  BY <1>2, <1>3 DEF TallyFits, TallyTypes, Known
<1> QED  BY <1>1, <1>5, <1>6, <1>7 DEF TallyFits, z

\* Without a new block, the stored and the cached tallies are among those there
\* were, a scan of the moment, and none.
TalliesChange ==
  /\ UNCHANGED chainVars
  /\ tally' \in {tally} \cup {cache[c] : c \in Crawler}
  /\ DOMAIN cache' = Crawler
  /\ \A c \in Crawler : cache'[c] \in {cache[c], Scanned, NoTally}
  /\ DOMAIN found' = Crawler /\ \A c \in Crawler : found'[c] \subseteq 0..top

LEMMA TalliesKinds ==
  ASSUME TableInv, TalliesInv, BlocksStep
  PROVE  (\E d \in Nat : NewBlock(d)) \/ TalliesChange
<1>1. /\ DOMAIN cache = Crawler /\ DOMAIN found = Crawler
      /\ \A c \in Crawler : found[c] \subseteq 0..top
  BY DEF TalliesInv
<1>2. Scanned.heights \subseteq 0..top
  BY ScanFits
<1>3. ASSUME UNCHANGED <<chainVars, tally, cache, found>>
      PROVE  TalliesChange
  BY <1>1, <1>3 DEF TalliesChange
<1>4. CASE StripReads \/ PeriodReads \/ UNCHANGED blockVars
  BY <1>3, <1>4, ReadersRest DEF blocksVars, crawlVars
<1>5. CASE StoreStep
  BY <1>3, <1>5 DEF StoreStep, StoreWindow, StoreMissing, crawlVars
<1>6. ASSUME NEW c \in Crawler, ScanPeriod(c)
      PROVE  TalliesChange
  <2>1. /\ UNCHANGED <<chainVars, tally>>
        /\ cache' = [cache EXCEPT ![c] = Scanned] \/ cache' = cache
        /\ found' = [found EXCEPT ![c] = Scanned.heights] \/ found' = [found EXCEPT ![c] = {}]
    BY <1>6 DEF ScanPeriod, Cached
  <2>2. DOMAIN cache' = Crawler /\ \A k \in Crawler : cache'[k] \in {cache[k], Scanned}
    BY <1>1, <2>1
  <2>3. DOMAIN found' = Crawler /\ \A k \in Crawler : found'[k] \subseteq 0..top
    BY <1>1, <1>2, <2>1
  <2> QED  BY <2>1, <2>2, <2>3 DEF TalliesChange
<1>7. ASSUME NEW c \in Crawler, RefreshWindow(c)
      PROVE  TalliesChange
  <2>1. /\ UNCHANGED <<chainVars, tally, cache>>
        /\ found' \in {[found EXCEPT ![c] = {}], [found EXCEPT ![c] = found[c] \ stored']}
    BY <1>7 DEF RefreshWindow
  <2>2. DOMAIN found' = Crawler /\ \A k \in Crawler : found'[k] \subseteq 0..top
    BY <1>1, <2>1
  <2> QED  BY <1>1, <2>1, <2>2 DEF TalliesChange
<1>8. ASSUME NEW c \in Crawler, NEW h \in Height, BackfillBlock(c, h)
      PROVE  TalliesChange
  <2>1. /\ UNCHANGED <<chainVars, tally, cache>>
        /\ found' = [found EXCEPT ![c] = found[c] \ {h}]
    BY <1>8 DEF BackfillBlock
  <2>2. DOMAIN found' = Crawler /\ \A k \in Crawler : found'[k] \subseteq 0..top
    BY <1>1, <2>1
  <2> QED  BY <1>1, <2>1, <2>2 DEF TalliesChange
<1>9. ASSUME NEW c \in Crawler, WriteSnapshot(c)
      PROVE  TalliesChange
  <2>1. /\ UNCHANGED <<chainVars, cache>> /\ (tally' = cache[c] \/ tally' = tally)
        /\ found' = [found EXCEPT ![c] = {}]
    BY <1>9 DEF WriteSnapshot
  <2>2. DOMAIN found' = Crawler /\ \A k \in Crawler : found'[k] \subseteq 0..top
    BY <1>1, <2>1
  <2> QED  BY <1>1, <2>1, <2>2 DEF TalliesChange
<1>10. ASSUME NEW c \in Crawler, Restart(c)
       PROVE  TalliesChange
  <2>1. /\ UNCHANGED <<chainVars, tally>>
        /\ cache' = [cache EXCEPT ![c] = Scanned] \/ cache' = [cache EXCEPT ![c] = NoTally]
        /\ found' = [found EXCEPT ![c] = {}]
    BY <1>10 DEF Restart
  <2>2. /\ DOMAIN cache' = Crawler
        /\ \A k \in Crawler : cache'[k] \in {cache[k], Scanned, NoTally}
    BY <1>1, <2>1
  <2>3. DOMAIN found' = Crawler /\ \A k \in Crawler : found'[k] \subseteq 0..top
    BY <1>1, <2>1
  <2> QED  BY <2>1, <2>2, <2>3 DEF TalliesChange
<1> QED
  BY <1>4, <1>5, <1>6, <1>7, <1>8, <1>9, <1>10 DEF BlocksStep, RefreshStep

LEMMA TalliesInit == Init => TalliesInv
<1> SUFFICES ASSUME Init PROVE TalliesInv
  OBVIOUS
<1>1. TableInv
  BY TableInit
<1>2. /\ tally = NoTally /\ cache \in [Crawler -> {Scanned, NoTally}]
      /\ found = [c \in Crawler |-> {}]
  BY DEF Init, BlocksInit
<1> QED  BY <1>1, <1>2, ScanFits, NoTallyFits DEF TalliesInv

LEMMA TalliesStep == TableInv /\ TalliesInv /\ BlocksStep => TalliesInv'
<1> SUFFICES ASSUME TableInv, TalliesInv, BlocksStep PROVE TalliesInv'
  OBVIOUS
<1>1. ASSUME NEW d \in Nat, NewBlock(d)
      PROVE  TalliesInv'
  <2>1. /\ tally' = Moved(tally, Replaced(d)) /\ found' = found
        /\ cache' = [c \in Crawler |-> Moved(cache[c], Replaced(d))]
        /\ top' = top + 1 /\ top \in Nat /\ top' \in Height
        /\ \A h \in Height : h \notin Replaced(d) => (h \in chain' <=> h \in chain)
    BY <1>1, NewBlockMoves
  <2>2. Replaced(d) \in SUBSET Height /\ top' \in Nat /\ top <= top'
    BY <2>1 DEF Replaced
  <2>3. TallyFits(tally', top', chain')
    BY <2>1, <2>2, MovedFits DEF TalliesInv
  <2>4. ASSUME NEW c \in Crawler
        PROVE  TallyFits(cache'[c], top', chain')
    <3>1. TallyFits(cache[c], top, chain) /\ cache'[c] = Moved(cache[c], Replaced(d))
      BY <2>1 DEF TalliesInv
    <3> QED  BY <2>1, <2>2, <3>1, MovedFits
  <2>5. \A c \in Crawler : found'[c] \subseteq 0..top'
    BY <2>1 DEF TalliesInv
  <2> QED  BY <2>1, <2>3, <2>4, <2>5 DEF TalliesInv
<1>2. CASE TalliesChange
  <2>1. top' = top /\ chain' = chain
    BY <1>2 DEF TalliesChange, chainVars
  <2>2. TallyFits(tally', top', chain')
    BY <1>2, <2>1 DEF TalliesChange, TalliesInv
  <2>3. \A c \in Crawler : TallyFits(cache'[c], top', chain')
    BY <1>2, <2>1, ScanFits, NoTallyFits DEF TalliesChange, TalliesInv
  <2> QED  BY <1>2, <2>1, <2>2, <2>3 DEF TalliesChange, TalliesInv
<1> QED  BY <1>1, <1>2, TalliesKinds

-----------------------------------------------------------------------------
(* Crawlers that have caught up with the period.                            *)

LEMMA ProgressInit == Init => ProgressInv
<1> SUFFICES ASSUME Init PROVE ProgressInv
  OBVIOUS
<1>1. /\ phase = [c \in Crawler |-> "new"] /\ progress = [c \in Crawler |-> "behind"]
      /\ tally = NoTally
  BY DEF Init, BlocksInit
<1>2. OfPeriod(tally, top)
  BY <1>1 DEF OfPeriod, Known, NoTally
<1> QED  BY <1>1, <1>2 DEF ProgressInv

\* What holds of each crawler.
CrawlerFits(c) ==
  /\ progress[c] \in {"behind", "scanned", "current"}
  /\ progress[c] = "scanned" => phase[c] \in {"scanned", "stored"}
  /\ progress[c] # "behind" => OfPeriod(cache[c], top)
  /\ \/ progress[c] = "current"
     \/ progress[c] = "scanned" /\ phase[c] = "stored"
     => MaxStored >= PeriodStart(top)

LEMMA ProgressParts ==
  ProgressInv <=>
    /\ DOMAIN phase = Crawler /\ DOMAIN progress = Crawler
    /\ \A c \in Crawler : CrawlerFits(c)
    /\ (\A c \in Crawler : progress[c] = "current") => OfPeriod(tally, top)
  BY DEF ProgressInv, CrawlerFits

LEMMA ProgressPartsLater ==
  (/\ DOMAIN phase' = Crawler /\ DOMAIN progress' = Crawler
   /\ \A c \in Crawler : CrawlerFits(c)'
   /\ (\A c \in Crawler : progress'[c] = "current") => OfPeriod(tally', top'))
  => ProgressInv'
  BY DEF ProgressInv, CrawlerFits

\* A crawler that does nothing while the table grows.
LEMMA CrawlerRests ==
  ASSUME TableInv, TableInv', top' = top, MaxStored <= MaxStored', NEW c \in Crawler,
         CrawlerFits(c), progress'[c] = progress[c], phase'[c] = phase[c],
         cache'[c] = cache[c]
  PROVE  CrawlerFits(c)'
<1>1. MaxStored \in Nat /\ MaxStored' \in Nat /\ PeriodStart(top) \in Nat
  BY StoredHeights, StoredHeightsLater DEF HeightsOfTable
<1>2. PeriodStart(top)' = PeriodStart(top) /\ OfPeriod(cache[c], top)' = OfPeriod(cache'[c], top')
  BY DEF PeriodStart, OfPeriod
<1>3. MaxStored >= PeriodStart(top) => MaxStored' >= PeriodStart(top)
  BY <1>1
<1> QED  BY <1>2, <1>3 DEF CrawlerFits, OfPeriod

LEMMA FaultFields ==
  ASSUME DOMAIN progress = Crawler, NEW c \in Crawler, Fault(c)
  PROVE  /\ DOMAIN progress' = Crawler
         /\ progress'[c] = IF progress[c] = "scanned" THEN "behind" ELSE progress[c]
         /\ \A k \in Crawler \ {c} : progress'[k] = progress[k]
  BY DEF Fault

\* A step of one crawler.
CrawlerStep(c) ==
  \/ ScanPeriod(c) \/ RefreshWindow(c) \/ WriteSnapshot(c) \/ Restart(c)
  \/ \E h \in Height : BackfillBlock(c, h)

LEMMA CrawlerMoves ==
  ASSUME TableInv, TableInv', TalliesInv, MaxStored <= MaxStored', ProgressInv,
         NEW c \in Crawler, CrawlerStep(c)
  PROVE  /\ DOMAIN phase' = Crawler /\ DOMAIN progress' = Crawler /\ top' = top
         /\ CrawlerFits(c)'
         /\ \A k \in Crawler \ {c} : /\ progress'[k] = progress[k] /\ phase'[k] = phase[k]
                                     /\ cache'[k] = cache[k]
         /\ \/ tally' = tally /\ (progress'[c] = "current" => progress[c] = "current")
            \/ tally' = cache[c] /\ (progress'[c] = "current" => OfPeriod(cache[c], top))
<1>1. /\ DOMAIN phase = Crawler /\ DOMAIN progress = Crawler /\ DOMAIN cache = Crawler
      /\ CrawlerFits(c)
  BY ProgressParts DEF TalliesInv
<1>2. /\ progress[c] \in {"behind", "scanned", "current"}
      /\ progress[c] = "scanned" => phase[c] \in {"scanned", "stored"}
      /\ progress[c] # "behind" => OfPeriod(cache[c], top)
      /\ progress[c] = "current" => MaxStored >= PeriodStart(top)
      /\ progress[c] = "scanned" /\ phase[c] = "stored" => MaxStored >= PeriodStart(top)
  BY <1>1 DEF CrawlerFits
<1>3. MaxStored \in Nat /\ MaxStored' \in Nat /\ PeriodStart(top) \in Nat
  BY StoredHeights, StoredHeightsLater DEF HeightsOfTable
<1>4. MaxStored >= PeriodStart(top) => MaxStored' >= PeriodStart(top)
  BY <1>3
<1>5. top' = top
  BY DEF CrawlerStep, ScanPeriod, RefreshWindow, WriteSnapshot, Restart, BackfillBlock,
         chainVars
<1>6. PeriodStart(top)' = PeriodStart(top) /\ OfPeriod(cache[c], top)' = OfPeriod(cache'[c], top)
  BY <1>5 DEF PeriodStart, OfPeriod
<1>7. SUFFICES
        /\ DOMAIN phase' = Crawler /\ DOMAIN progress' = Crawler
        /\ progress'[c] \in {"behind", "scanned", "current"}
        /\ progress'[c] = "scanned" => phase'[c] \in {"scanned", "stored"}
        /\ progress'[c] # "behind" => OfPeriod(cache'[c], top)
        /\ \/ progress'[c] = "current"
           \/ progress'[c] = "scanned" /\ phase'[c] = "stored"
           => MaxStored' >= PeriodStart(top)
        /\ \A k \in Crawler \ {c} : /\ progress'[k] = progress[k] /\ phase'[k] = phase[k]
                                    /\ cache'[k] = cache[k]
        /\ \/ tally' = tally /\ (progress'[c] = "current" => progress[c] = "current")
           \/ tally' = cache[c] /\ (progress'[c] = "current" => OfPeriod(cache[c], top))
  BY <1>5, <1>6 DEF CrawlerFits
<1>8. CASE ScanPeriod(c)
  <2>1. /\ phase[c] \in {"new", "idle"} /\ phase' = [phase EXCEPT ![c] = "scanned"]
        /\ tally' = tally /\ progress[c] # "scanned"
    BY <1>2, <1>8 DEF ScanPeriod
  <2>2. OfPeriod(Scanned, top)
    BY ScanFits DEF OfPeriod
  <2>3. CASE /\ cache' = [cache EXCEPT ![c] = Scanned]
             /\ progress' = [progress EXCEPT ![c] = IF progress[c] = "behind" THEN "scanned"
                                                     ELSE progress[c]]
    BY <1>1, <1>2, <1>4, <2>1, <2>2, <2>3
  <2>4. CASE Fault(c) /\ cache' = cache
    BY <1>1, <1>2, <1>4, <2>1, <2>4, FaultFields
  <2> QED  BY <1>8, <2>3, <2>4 DEF ScanPeriod, Cached
<1>9. CASE RefreshWindow(c)
  <2>1. /\ phase' = [phase EXCEPT ![c] = "stored"] /\ tally' = tally /\ cache' = cache
    BY <1>9 DEF RefreshWindow
  <2>2. CASE UpsertWindow /\ progress' = progress
    <3>1. top \in stored'
      <4>1. top \in NewestWindow(top)
        BY WindowOfTip DEF TableInv
      <4> QED  BY <2>2, <4>1 DEF UpsertWindow, UpsertBlocks
    <3>2. MaxStored' >= PeriodStart(top)
      <4>1. top <= MaxStored' /\ top \in Nat /\ PeriodStart(top) <= top
        BY <3>1, StoredHeights, StoredHeightsLater DEF HeightsOfTable
      <4> QED  BY <1>3, <4>1
    <3> QED  BY <1>1, <1>2, <2>1, <2>2, <3>2
  <2>3. CASE Fault(c)
    BY <1>1, <1>2, <1>4, <2>1, <2>3, FaultFields
  <2> QED  BY <1>9, <2>2, <2>3 DEF RefreshWindow
<1>10. CASE WriteSnapshot(c)
  <2>1. /\ phase[c] # "scanned" /\ cache' = cache
        /\ phase' = [phase EXCEPT ![c] = IF phase[c] = "stored" THEN "idle" ELSE phase[c]]
    BY <1>10 DEF WriteSnapshot
  <2>2. CASE /\ tally' = cache[c]
             /\ progress' = [progress EXCEPT ![c] = IF progress[c] = "scanned" THEN "current"
                                                     ELSE progress[c]]
    BY <1>1, <1>2, <1>4, <2>1, <2>2
  <2>3. CASE Fault(c) /\ tally' = tally
    BY <1>1, <1>2, <1>4, <2>1, <2>3, FaultFields
  <2> QED  BY <1>10, <2>2, <2>3 DEF WriteSnapshot
<1>11. CASE Restart(c)
  <2>1. /\ phase' = [phase EXCEPT ![c] = "new"] /\ Fault(c) /\ tally' = tally
        /\ cache' = [cache EXCEPT ![c] = Scanned] \/ cache' = [cache EXCEPT ![c] = NoTally]
    BY <1>11 DEF Restart
  <2>2. OfPeriod(Scanned, top) /\ OfPeriod(NoTally, top)
    BY ScanFits, NoTallyFits DEF OfPeriod
  <2>3. cache'[c] \in {Scanned, NoTally} /\ \A k \in Crawler \ {c} : cache'[k] = cache[k]
    BY <1>1, <2>1
  <2> QED  BY <1>1, <1>2, <1>4, <2>1, <2>2, <2>3, FaultFields
<1>12. CASE \E h \in Height : BackfillBlock(c, h)
  <2>1. phase' = phase /\ progress' = progress /\ cache' = cache /\ tally' = tally
    BY <1>12 DEF BackfillBlock
  <2> QED  BY <1>1, <1>2, <1>4, <2>1
<1> QED  BY <1>8, <1>9, <1>10, <1>11, <1>12 DEF CrawlerStep

LEMMA ProgressStep ==
  TableInv /\ TalliesInv /\ ProgressInv /\ BlocksStep => ProgressInv'
<1> SUFFICES ASSUME TableInv, TalliesInv, ProgressInv, BlocksStep PROVE ProgressInv'
  OBVIOUS
<1>1. TableInv' /\ MaxStored <= MaxStored'
  BY TableStep
<1>2. /\ DOMAIN phase = Crawler /\ DOMAIN progress = Crawler
      /\ \A c \in Crawler : CrawlerFits(c)
      /\ (\A c \in Crawler : progress[c] = "current") => OfPeriod(tally, top)
  BY ProgressParts
<1>3. ASSUME NEW d \in Nat, NewBlock(d)
      PROVE  ProgressInv'
  <2>1. /\ tally' = Moved(tally, Replaced(d)) /\ phase' = phase
        /\ cache' = [c \in Crawler |-> Moved(cache[c], Replaced(d))]
        /\ stored' = stored
    BY <1>3, NewBlockMoves
  <2>2. progress' = IF PeriodStart(top') = PeriodStart(top) THEN progress
                    ELSE [c \in Crawler |-> "behind"]
    BY <1>3 DEF NewBlock
  <2>3. tally \in Tally /\ \A c \in Crawler : cache[c] \in Tally
    BY DEF TalliesInv, TallyFits, TallyTypes
  <2>4. CASE PeriodStart(top') = PeriodStart(top)
    <3>1. progress' = progress /\ MaxStored' = MaxStored
      BY <2>1, <2>2, <2>4 DEF MaxStored
    <3>2. OfPeriod(tally, top) => OfPeriod(tally', top')
      BY <2>1, <2>3, <2>4, MovedFields DEF OfPeriod, Known
    <3>3. ASSUME NEW c \in Crawler
          PROVE  CrawlerFits(c)'
      <4>1. cache'[c] = Moved(cache[c], Replaced(d)) /\ cache[c] \in Tally
        BY <2>1, <2>3
      <4>2. OfPeriod(cache[c], top) => OfPeriod(cache'[c], top')
        BY <2>4, <4>1, MovedFields DEF OfPeriod, Known
      <4> QED  BY <1>2, <2>1, <2>4, <3>1, <4>2 DEF CrawlerFits
    <3> QED  BY <1>2, <2>1, <3>1, <3>2, <3>3, ProgressPartsLater
  <2>5. CASE PeriodStart(top') # PeriodStart(top)
    <3>1. progress' = [c \in Crawler |-> "behind"]
      BY <2>2, <2>5
    <3>2. \A c \in Crawler : CrawlerFits(c)'
      BY <3>1 DEF CrawlerFits
    <3>3. \E c \in Crawler : progress'[c] # "current"
      BY <3>1, ReadsAssumption
    <3> QED  BY <1>2, <2>1, <3>1, <3>2, <3>3, ProgressPartsLater
  <2> QED  BY <2>4, <2>5
<1>4. ASSUME UNCHANGED <<chainVars, tally, crawlVars>>
      PROVE  ProgressInv'
  <2>1. /\ top' = top /\ tally' = tally /\ cache' = cache /\ phase' = phase
        /\ progress' = progress
    BY <1>4 DEF chainVars, crawlVars
  <2>2. \A c \in Crawler : CrawlerFits(c)'
    BY <1>1, <1>2, <2>1, CrawlerRests
  <2> QED  BY <1>2, <2>1, <2>2, ProgressPartsLater
<1>5. ASSUME NEW c \in Crawler, CrawlerStep(c)
      PROVE  ProgressInv'
  <2>1. /\ DOMAIN phase' = Crawler /\ DOMAIN progress' = Crawler /\ top' = top
        /\ CrawlerFits(c)'
        /\ \A k \in Crawler \ {c} : /\ progress'[k] = progress[k] /\ phase'[k] = phase[k]
                                    /\ cache'[k] = cache[k]
        /\ \/ tally' = tally /\ (progress'[c] = "current" => progress[c] = "current")
           \/ tally' = cache[c] /\ (progress'[c] = "current" => OfPeriod(cache[c], top))
    BY <1>1, <1>5, CrawlerMoves
  <2>2. \A k \in Crawler : CrawlerFits(k)'
    BY <1>1, <1>2, <2>1, CrawlerRests
  <2>3. (\A k \in Crawler : progress'[k] = "current") => OfPeriod(tally', top')
    <3> SUFFICES ASSUME \A k \in Crawler : progress'[k] = "current"
                 PROVE  OfPeriod(tally', top)
      BY <2>1
    <3>1. progress'[c] = "current"
      OBVIOUS
    <3>2. CASE tally' = tally /\ progress[c] = "current"
      <4>1. \A k \in Crawler : progress[k] = "current"
        BY <2>1, <3>2
      <4> QED  BY <1>2, <3>2, <4>1
    <3>3. CASE tally' = cache[c] /\ OfPeriod(cache[c], top)
      BY <3>3
    <3> QED  BY <2>1, <3>1, <3>2, <3>3
  <2> QED  BY <2>1, <2>2, <2>3, ProgressPartsLater
<1>6. RefreshStep => \E c \in Crawler : CrawlerStep(c)
  BY DEF RefreshStep, CrawlerStep
<1>7. StoreStep => UNCHANGED <<chainVars, tally, crawlVars>>
  BY DEF StoreStep, StoreWindow, StoreMissing
<1>8. StripReads \/ PeriodReads \/ UNCHANGED blockVars =>
        UNCHANGED <<chainVars, tally, crawlVars>>
  BY ReadersRest DEF blocksVars
<1> QED  BY <1>3, <1>4, <1>5, <1>6, <1>7, <1>8 DEF BlocksStep


-----------------------------------------------------------------------------
(* The figures of /api/blocks.                                              *)

\* The next field of the response and the ones before it.
LEMMA FigureFields ==
  ASSUME NEW now, NEW then, NEW fields, Figure(now, then, fields),
         "next" \in DOMAIN figures, "next" \notin DOMAIN fields
  PROVE  /\ figures.next = now /\ "next" \in DOMAIN figures' /\ figures'.next = then
         /\ \A x \in DOMAIN fields : x \in DOMAIN figures' /\ figures'[x] = fields[x]
         /\ \A x \in DOMAIN figures :
              x # "next" /\ x \notin DOMAIN fields =>
                x \in DOMAIN figures' /\ figures'[x] = figures[x]
  BY DEF Figure

\* Nothing read so far is wrong of a table that has grown.
LEMMA FiguresOutlive ==
  ASSUME TableInv, TableInv', stored \subseteq stored', MaxStored <= MaxStored',
         \A x \in {"start", "due", "settled", "list", "tally", "statsStart"} :
           /\ x \in DOMAIN figures => x \in DOMAIN figures'
           /\ figures'[x] = figures[x],
         "doubt" \in DOMAIN figures =>
           /\ "doubt" \in DOMAIN figures'
           /\ figures.doubt \subseteq Height =>
                /\ figures.doubt \subseteq figures'.doubt
                /\ figures'.doubt \subseteq Height
  PROVE  /\ PeriodRead(figures) => PeriodRead(figures)'
         /\ ListRead(figures) => ListRead(figures)'
         /\ ListRead(figures) /\ TallyRead(figures) => TallyRead(figures)'
         /\ PeriodRead(figures) /\ StatsRead(figures) => StatsRead(figures)'
<1> DEFINE g == figures
           M == MaxStored
           N == MaxStored'
<1>1. M \in Nat /\ N \in Nat /\ M <= N
  BY StoredHeights, StoredHeightsLater DEF HeightsOfTable
<1>2. PeriodRead(g) => PeriodRead(g)'
  <2>1. 0..M \subseteq 0..N
    BY <1>1
  <2> QED  BY <2>1 DEF PeriodRead, PeriodStart
<1>3. ListRead(g) => ListRead(g)'
  BY DEF ListRead
<1>4. ListRead(g) /\ TallyRead(g) => TallyRead(g)'
  BY DEF ListRead, TallyRead, TallyTypes, KeptUp, Known, ListTallied
<1>5. PeriodRead(g) /\ StatsRead(g) => StatsRead(g)'
  <2> SUFFICES ASSUME PeriodRead(g), StatsRead(g) PROVE StatsRead(g)'
    OBVIOUS
  <2>1. g.start \in 0..M
    BY DEF PeriodRead
  <2>2. g.start..M \subseteq g.start..N
    BY <1>1, <2>1
  <2> QED  BY <2>2 DEF StatsRead, PeriodStart
<1> QED  BY <1>2, <1>3, <1>4, <1>5

LEMMA PeriodInit == Init => PeriodInv
  BY DEF Init, BlocksInit, NoFigures, PeriodInv

\* Once every crawler is through a refresh in the period, so is the table, and
\* the tallies are of the period.
LEMMA Settled ==
  ASSUME TableInv, ProgressInv, \A c \in Crawler : progress[c] = "current"
  PROVE  /\ PeriodStart(MaxStored) = PeriodStart(top)
         /\ OfPeriod(tally, top) /\ \A c \in Crawler : OfPeriod(cache[c], top)
<1>1. /\ OfPeriod(tally, top) /\ \A c \in Crawler : OfPeriod(cache[c], top)
      /\ \A c \in Crawler : MaxStored >= PeriodStart(top)
  BY DEF ProgressInv
<1>2. MaxStored >= PeriodStart(top)
  BY <1>1, ReadsAssumption
<1>3. /\ MaxStored \in Nat /\ top \in Nat /\ MaxStored <= top
      /\ PeriodStart(top) \in Nat
  BY StoredHeights DEF HeightsOfTable
<1>4. PeriodStart(MaxStored) <= PeriodStart(top)
  BY <1>3, PeriodsOrdered
<1>5. PeriodStart(PeriodStart(top)) <= PeriodStart(MaxStored)
  BY <1>2, <1>3, PeriodsOrdered
<1>6. PeriodStart(PeriodStart(top)) = PeriodStart(top) /\ PeriodStart(MaxStored) \in Nat
  BY <1>3, PeriodOfStart, PeriodStarts
<1>7. PeriodStart(MaxStored) = PeriodStart(top)
  <2> HIDE DEF PeriodStart
  <2> QED  BY <1>3, <1>4, <1>5, <1>6
<1> QED  BY <1>1, <1>7

\* A field that is read, of those the earlier statements read.
LEMMA ReadsStep ==
  ASSUME TableInv, TableInv', TalliesInv, ProgressInv, PeriodInv, PeriodReads
  PROVE  PeriodInv'
<1> DEFINE g == figures
           k == figures'
           Tallies == {tally} \cup {cache[c] : c \in Crawler}
<1>0. UNCHANGED blocksVars
  BY ReadersRest
<1>1. /\ stored' = stored /\ tally' = tally /\ MaxStored' = MaxStored /\ chain' = chain
      /\ cache' = cache /\ top' = top
  BY <1>0 DEF blocksVars, tableVars, chainVars, crawlVars, MaxStored
<1>2. /\ stored \in SUBSET Height /\ MaxStored \in stored /\ MaxStored \in Nat
      /\ MaxStored <= top /\ top \in Nat /\ \A h \in stored : h <= MaxStored
  BY StoredHeights DEF HeightsOfTable
<1>3. "next" \in DOMAIN figures
  BY DEF PeriodInv
<1>4. CASE ReadPeriod
  <2> DEFINE all == \A c \in Crawler : progress[c] = "current"
             fields == [start |-> PeriodStart(MaxStored), due |-> PeriodStart(top),
                        settled |-> all]
  <2>a. Figure("period", "list", fields)
    BY <1>4 DEF ReadPeriod
  <2>b. /\ DOMAIN fields = {"start", "due", "settled"}
        /\ fields.start = PeriodStart(MaxStored) /\ fields.due = PeriodStart(top)
        /\ fields.settled = all
    <3> HIDE DEF all
    <3> QED  OBVIOUS
  <2> HIDE DEF fields
  <2>1. /\ g.next = "period" /\ "next" \in DOMAIN k /\ k.next = "list"
        /\ {"start", "due", "settled"} \subseteq DOMAIN k
        /\ k.start = PeriodStart(MaxStored) /\ k.due = PeriodStart(top)
        /\ k.settled = all
    <3> HIDE DEF all
    <3> QED  BY <1>3, <2>a, <2>b, FigureFields
  <2>2. k.start \in 0..MaxStored /\ k.start = PeriodStart(k.start)
    BY <1>2, <2>1, PeriodStarts, PeriodOfStart
  <2>3. k.settled => k.start = k.due
    BY <2>1, Settled
  <2>4. PeriodRead(g)'
    BY <1>1, <2>1, <2>2, <2>3 DEF PeriodRead, PeriodStart
  <2>5. ASSUME k.settled, NEW y \in Tallies, Known(y)
        PROVE  y.start >= k.start
    <3>1. OfPeriod(y, top) /\ k.start = PeriodStart(top)
      BY <2>1, <2>5, Settled
    <3>2. y.start = k.start /\ k.start \in Nat
      BY <1>2, <2>5, <3>1, PeriodStarts DEF OfPeriod
    <3> QED  BY <3>2
  <2>6. \A y \in Tallies : KeptUp(k, y)
    BY <2>5 DEF KeptUp
  <2>7. (\A y \in {tally} \cup {cache[c] : c \in Crawler} : KeptUp(figures, y))'
    BY <1>1, <2>6 DEF KeptUp, Known
  <2> QED  BY <2>1, <2>4, <2>7 DEF PeriodInv
<1>5. CASE ReadList
  <2>1. /\ g.next = "list" /\ "next" \in DOMAIN k /\ k.next = "tally"
        /\ {"list", "doubt"} \subseteq DOMAIN k
        /\ k.list = Heights(Newest(SigLimit, SignallingFrom(g.start)))
        /\ k.doubt = {h \in (chain \ stored) \cup stale : h >= g.start}
    BY <1>3, <1>5, FigureFields DEF ReadList
  <2>2. PeriodRead(g) /\ \A y \in Tallies : KeptUp(g, y)
    BY <2>1 DEF PeriodInv
  <2>3. \A x \in {"start", "due", "settled"} : x \in DOMAIN k /\ k[x] = g[x]
    BY <1>3, <1>5, <2>2, FigureFields DEF ReadList, PeriodRead
  <2>4. PeriodRead(g)'
    BY <1>1, <2>2, <2>3 DEF PeriodRead, PeriodStart
  <2>5. (\A y \in {tally} \cup {cache[c] : c \in Crawler} : KeptUp(figures, y))'
    BY <1>1, <2>2, <2>3 DEF KeptUp, Known
  <2>6. /\ signals \subseteq stored /\ chain \subseteq Height /\ stale \subseteq Height
        /\ \A h \in stored : h \notin stale => (h \in signals <=> h \in chain)
    BY DEF TableInv
  <2>7. SignallingFrom(g.start) \in SUBSET Height /\ SigLimit \in Nat
    BY <1>2, <2>6, ReadsAssumption DEF SignallingFrom
  <2>8. /\ k.list \subseteq SignallingFrom(g.start)
        /\ Cardinality(k.list) < SigLimit => k.list = SignallingFrom(g.start)
    <3> DEFINE from == SignallingFrom(g.start)
    <3>1. /\ Heights(Newest(SigLimit, from)) \subseteq from
          /\ Cardinality(Heights(Newest(SigLimit, from))) < SigLimit =>
               Heights(Newest(SigLimit, from)) = from
      <4> HIDE DEF from
      <4> QED  BY <2>7, NewestHeights DEF from
    <3> QED  BY <2>1, <3>1
  <2>9. ListRead(g)'
    BY <1>1, <2>1, <2>3, <2>6, <2>8 DEF ListRead, SignallingFrom
  <2>10. ListFits(g)'
    BY <1>1, <2>1, <2>3, <2>6, <2>8 DEF ListFits, SignallingFrom
  <2> QED  BY <2>1, <2>4, <2>5, <2>9, <2>10 DEF PeriodInv
<1>6. CASE ReadTally
  <2>1. PICK y \in {tally, NoTally} : Figure("tally", "stats", [tally |-> y])
    BY <1>6 DEF ReadTally
  <2>2. /\ g.next = "tally" /\ "next" \in DOMAIN k /\ k.next = "stats"
        /\ "tally" \in DOMAIN k /\ k.tally = y
    BY <1>3, <2>1, FigureFields
  <2>3. PeriodRead(g) /\ ListRead(g) /\ ListFits(g) /\ KeptUp(g, tally)
    BY <2>2 DEF PeriodInv
  <2>4. \A x \in {"start", "due", "settled", "list", "doubt"} :
          x \in DOMAIN k /\ k[x] = g[x]
    BY <1>3, <2>1, <2>3, FigureFields DEF PeriodRead, ListRead
  <2>5. PeriodRead(g)' /\ ListRead(g)'
    BY <1>1, <2>3, <2>4 DEF PeriodRead, PeriodStart, ListRead
  <2>6. TallyFits(y, top, chain) /\ KeptUp(g, y)
    BY <2>3, NoTallyFits DEF TalliesInv, KeptUp
  <2>7. TallyTypes(y) /\ KeptUp(k, y)
    BY <2>4, <2>6 DEF TallyFits, KeptUp
  <2>8. ASSUME y.start = k.start
        PROVE  /\ \A h \in k.list : h <= y.tip => h \in y.heights \cup k.doubt \cup y.moved
               /\ Cardinality(k.list) < SigLimit =>
                    \A h \in y.heights : h \in k.list \cup k.doubt \cup y.moved
    <3>1. /\ y.start \in Nat /\ y.tip \in Nat \cup {-1}
          /\ y.heights \subseteq y.start..y.tip
          /\ \A h \in y.start..y.tip : h \notin y.moved => (h \in y.heights <=> h \in chain)
      BY <2>6 DEF TallyFits, TallyTypes, Tally
    <3>2. \A h \in k.list : h \in Nat /\ h >= y.start /\ h \in chain \cup k.doubt
      <4>1. \A h \in stored : h \in Nat
        BY <1>2, Heightwise
      <4> QED  BY <2>3, <2>4, <2>8, <4>1 DEF ListRead, ListFits
    <3>3. \A h \in k.list : h <= y.tip => h \in y.heights \cup k.doubt \cup y.moved
      <4> SUFFICES ASSUME NEW h \in k.list, h <= y.tip
                   PROVE  h \in y.heights \cup k.doubt \cup y.moved
        OBVIOUS
      <4>1. h \in y.start..y.tip
        BY <3>1, <3>2
      <4> QED  BY <3>1, <3>2, <4>1
    <3>4. ASSUME Cardinality(k.list) < SigLimit, NEW h \in y.heights
          PROVE  h \in k.list \cup k.doubt \cup y.moved
      <4>1. h \in y.start..y.tip
        BY <3>1
      <4>2. h >= k.start
        BY <2>8, <3>1, <4>1
      <4>3. h \notin y.moved => h \in chain
        BY <3>1, <4>1
      <4> QED  BY <2>3, <2>4, <3>4, <4>2, <4>3 DEF ListFits
    <3> QED  BY <3>3, <3>4
  <2>9. TallyRead(g)'
    BY <2>2, <2>7, <2>8 DEF TallyRead, TallyTypes, KeptUp, Known, ListTallied
  <2> QED  BY <2>2, <2>5, <2>9 DEF PeriodInv
<1>7. CASE ReadStatsPeriod
  <2>1. /\ g.next = "stats" /\ "next" \in DOMAIN k /\ k.next = "done"
        /\ "statsStart" \in DOMAIN k /\ k.statsStart = PeriodStart(MaxStored)
    BY <1>3, <1>7, FigureFields DEF ReadStatsPeriod
  <2>2. PeriodRead(g) /\ ListRead(g) /\ TallyRead(g)
    BY <2>1 DEF PeriodInv
  <2>3. \A x \in {"start", "due", "settled", "list", "doubt", "tally"} :
          x \in DOMAIN k /\ k[x] = g[x]
    BY <1>3, <1>7, <2>2, FigureFields
       DEF ReadStatsPeriod, PeriodRead, ListRead, TallyRead
  <2>4. PeriodRead(g)' /\ ListRead(g)'
    BY <1>1, <2>2, <2>3 DEF PeriodRead, PeriodStart, ListRead
  <2>5. TallyRead(g)'
    BY <1>1, <2>2, <2>3 DEF TallyRead, TallyTypes, KeptUp, Known, ListTallied
  <2>6. MaxStored \in k.start..MaxStored
    <3>1. k.start \in 0..MaxStored
      BY <2>2, <2>3 DEF PeriodRead
    <3> QED  BY <1>2, <3>1
  <2>7. StatsRead(g)'
    BY <1>1, <2>1, <2>6 DEF StatsRead, PeriodStart
  <2> QED  BY <2>1, <2>4, <2>5, <2>7 DEF PeriodInv
<1>8. CASE NextFigures
  BY <1>8 DEF NextFigures, NoFigures, PeriodInv
<1> QED  BY <1>4, <1>5, <1>6, <1>7, <1>8 DEF PeriodReads

\* A new block while a response is being read.
LEMMA NewBlockFigures ==
  ASSUME TableInv, TableInv', TalliesInv, PeriodInv, NEW d \in Nat, NewBlock(d),
         stored \subseteq stored', MaxStored <= MaxStored'
  PROVE  PeriodInv'
<1> DEFINE g == figures
           k == figures'
           R == Replaced(d)
<1>1. /\ tally' = Moved(tally, R) /\ cache' = [c \in Crawler |-> Moved(cache[c], R)]
      /\ chain' \subseteq Height /\ stored' = stored
      /\ \A h \in Height : h \notin R => (h \in chain' <=> h \in chain)
  BY NewBlockMoves
<1>2. /\ figures' = IF figures.next = "tally"
                    THEN [figures EXCEPT !.doubt = figures.doubt
                                           \cup {h \in R : h >= figures.start}]
                    ELSE figures
      /\ R \subseteq Height
  BY DEF NewBlock, Replaced
<1> HIDE DEF R
<1>3. /\ "next" \in DOMAIN k /\ k.next = g.next /\ DOMAIN k = DOMAIN g
      /\ \A x \in {"start", "due", "settled", "list", "tally", "statsStart"} : k[x] = g[x]
      /\ "doubt" \in DOMAIN g =>
           k.doubt = IF g.next = "tally" THEN g.doubt \cup {h \in R : h >= g.start}
                     ELSE g.doubt
  BY <1>2 DEF PeriodInv
<1>4. /\ PeriodRead(figures) => PeriodRead(figures)'
      /\ ListRead(figures) => ListRead(figures)'
      /\ ListRead(figures) /\ TallyRead(figures) => TallyRead(figures)'
      /\ PeriodRead(figures) /\ StatsRead(figures) => StatsRead(figures)'
  <2>1. \A x \in {"start", "due", "settled", "list", "tally", "statsStart"} :
          /\ x \in DOMAIN figures => x \in DOMAIN figures'
          /\ figures'[x] = figures[x]
    BY <1>3
  <2>2. "doubt" \in DOMAIN figures =>
          /\ "doubt" \in DOMAIN figures'
          /\ figures.doubt \subseteq Height =>
               /\ figures.doubt \subseteq figures'.doubt
               /\ figures'.doubt \subseteq Height
    BY <1>2, <1>3
  <2> QED  BY <2>1, <2>2, FiguresOutlive
<1>5. ASSUME g.next \in {"list", "tally"}
      PROVE  (\A y \in {tally} \cup {cache[c] : c \in Crawler} : KeptUp(figures, y))'
  <2>1. \A y \in {tally} \cup {cache[c] : c \in Crawler} : KeptUp(g, y)
    BY <1>5 DEF PeriodInv
  <2>2. tally \in Tally /\ \A c \in Crawler : cache[c] \in Tally
    BY DEF TalliesInv, TallyFits, TallyTypes
  <2>3. \A y \in Tally : KeptUp(g, y) => KeptUp(k, Moved(y, R))
    BY <1>3, MovedFields DEF KeptUp, Known
  <2>4. KeptUp(k, tally') /\ \A c \in Crawler : KeptUp(k, cache'[c])
    BY <1>1, <2>1, <2>2, <2>3
  <2> QED  BY <2>4 DEF KeptUp, Known
<1>6. ASSUME g.next = "tally"
      PROVE  ListFits(g)'
  <2>1. PeriodRead(g) /\ ListRead(g) /\ ListFits(g)
    BY <1>6 DEF PeriodInv
  <2>2. k.doubt = g.doubt \cup {h \in R : h >= g.start} /\ k.list = g.list /\ k.start = g.start
    BY <1>3, <1>6, <2>1 DEF ListRead
  <2>3. \A h \in g.list : h \in Height /\ h >= g.start
    <3>1. stored \subseteq Height
      BY StoredHeights DEF HeightsOfTable
    <3> QED  BY <2>1, <3>1 DEF ListRead
  <2>4. \A h \in k.list : h \in chain' \cup k.doubt
    BY <1>1, <2>1, <2>2, <2>3 DEF ListFits
  <2>5. ASSUME Cardinality(k.list) < SigLimit, NEW h \in chain', h >= k.start
        PROVE  h \in k.list \cup k.doubt
    BY <1>1, <2>1, <2>2, <2>5 DEF ListFits
  <2> QED  BY <2>4, <2>5 DEF ListFits
<1> QED  BY <1>3, <1>4, <1>5, <1>6 DEF PeriodInv

\* A step of a crawler while a response is being read.
LEMMA CrawlerFigures ==
  ASSUME TableInv, TableInv', TalliesInv, PeriodInv, TalliesChange, figures' = figures,
         stored \subseteq stored', MaxStored <= MaxStored'
  PROVE  PeriodInv'
<1>1. /\ PeriodRead(figures) => PeriodRead(figures)'
      /\ ListRead(figures) => ListRead(figures)'
      /\ ListRead(figures) /\ TallyRead(figures) => TallyRead(figures)'
      /\ PeriodRead(figures) /\ StatsRead(figures) => StatsRead(figures)'
  BY FiguresOutlive
<1>2. chain' = chain
  BY DEF TalliesChange, chainVars
<1>3. ListFits(figures) => ListFits(figures)'
  BY <1>2 DEF ListFits
<1>4. ASSUME figures.next \in {"list", "tally"}
      PROVE  (\A y \in {tally} \cup {cache[c] : c \in Crawler} : KeptUp(figures, y))'
  <2>1. /\ PeriodRead(figures)
        /\ \A y \in {tally} \cup {cache[c] : c \in Crawler} : KeptUp(figures, y)
    BY <1>4 DEF PeriodInv
  <2>2. KeptUp(figures, NoTally)
    BY NoTallyFits DEF KeptUp
  <2>3. KeptUp(figures, Scanned)
    <3>1. figures.start \in 0..MaxStored /\ figures.start = PeriodStart(figures.start)
      BY <2>1 DEF PeriodRead
    <3>2. MaxStored \in Nat /\ MaxStored <= top /\ top \in Nat /\ PeriodStart(top) \in Nat
      BY StoredHeights DEF HeightsOfTable
    <3>3. figures.start \in Nat /\ figures.start <= top
      BY <3>1, <3>2
    <3>4. PeriodStart(figures.start) <= PeriodStart(top)
      BY <3>2, <3>3, PeriodsOrdered
    <3>5. Scanned.start = PeriodStart(top)
      BY ScanFits
    <3>6. Scanned.start >= figures.start
      <4> HIDE DEF PeriodStart
      <4> QED  BY <3>1, <3>2, <3>3, <3>4, <3>5
    <3> QED  BY <3>6 DEF KeptUp
  <2>4. KeptUp(figures, tally') /\ \A c \in Crawler : KeptUp(figures, cache'[c])
    BY <2>1, <2>2, <2>3 DEF TalliesChange
  <2> QED  BY <2>4 DEF KeptUp, Known
<1> QED  BY <1>1, <1>3, <1>4 DEF PeriodInv

LEMMA PeriodStep ==
  TableInv /\ TalliesInv /\ ProgressInv /\ PeriodInv /\ BlocksStep => PeriodInv'
<1> SUFFICES ASSUME TableInv, TalliesInv, ProgressInv, PeriodInv, BlocksStep
             PROVE  PeriodInv'
  OBVIOUS
<1>1. TableInv' /\ stored \subseteq stored' /\ MaxStored <= MaxStored'
  BY TableStep
<1>2. CASE PeriodReads
  BY <1>1, <1>2, ReadsStep
<1>3. ASSUME NEW d \in Nat, NewBlock(d)
      PROVE  PeriodInv'
  BY <1>1, <1>3, NewBlockFigures
<1>4. CASE TalliesChange /\ figures' = figures
  BY <1>1, <1>4, CrawlerFigures
<1>5. PeriodReads \/ (\E d \in Nat : NewBlock(d)) \/ figures' = figures
  BY DEF BlocksStep, StripReads, StoreStep, StoreWindow, StoreMissing, RefreshStep,
         ScanPeriod, RefreshWindow, BackfillBlock, WriteSnapshot, Restart,
         ReceiveStep, ReceiveFirst, ReceiveOlder, ReceivePoll, Scroll, AnswerFetch,
         LoseFetch, SendPoll, blockVars
<1> QED  BY <1>2, <1>3, <1>4, <1>5, TalliesKinds

\* A complete response adds up.
LEMMA DoneFigures == TableInv /\ PeriodInv => PeriodFigures
<1> SUFFICES ASSUME TableInv, PeriodInv, figures.next = "done" PROVE PeriodFigures
  BY DEF PeriodFigures
<1> DEFINE g == figures
           y == figures.tally
           Covered(H) == {h \in H : h >= y.start /\ h <= y.tip}
           doubtful == figures.doubt \cup y.moved
<1>1. /\ PeriodRead(figures) /\ ListRead(figures) /\ TallyRead(figures)
      /\ StatsRead(figures)
  BY DEF PeriodInv
<1>2. stored \in SUBSET Height /\ MaxStored \in Nat /\ MaxStored <= top /\ top \in Nat
  BY StoredHeights DEF HeightsOfTable
<1>3. /\ y.start \in Nat /\ y.tip \in Nat \cup {-1} /\ y.moved \in SUBSET Height
      /\ y.heights \in SUBSET Height /\ y.heights \subseteq y.start..y.tip
      /\ g.list \in SUBSET Height /\ g.doubt \in SUBSET Height
  BY <1>1, <1>2 DEF TallyRead, TallyTypes, Tally, ListRead
<1>4. ASSUME y.start = g.start
      PROVE  /\ Cardinality(Covered(g.list \ doubtful)) <= Cardinality(y.heights)
             /\ Cardinality(g.list) < SigLimit =>
                  Cardinality(y.heights) <= Cardinality(Covered(g.list \cup doubtful))
  <2>1. /\ \A h \in g.list : h <= y.tip => h \in y.heights \cup doubtful
        /\ Cardinality(g.list) < SigLimit => \A h \in y.heights : h \in g.list \cup doubtful
    BY <1>1, <1>4 DEF TallyRead, ListTallied
  <2>2. Covered(g.list \ doubtful) \subseteq y.heights
    BY <2>1
  <2>3. Cardinality(g.list) < SigLimit => y.heights \subseteq Covered(g.list \cup doubtful)
    <3> SUFFICES ASSUME Cardinality(g.list) < SigLimit, NEW h \in y.heights
                 PROVE  h \in Covered(g.list \cup doubtful)
      OBVIOUS
    <3>1. h >= y.start /\ h <= y.tip
      BY <1>3
    <3> QED  BY <2>1, <3>1
  <2>4. Covered(g.list \cup doubtful) \in SUBSET Height
    BY <1>3
  <2> HIDE DEF Covered, doubtful, g, y
  <2>5. IsFiniteSet(y.heights) /\ IsFiniteSet(Covered(g.list \cup doubtful))
    BY <1>3, <2>4, Heightwise
  <2>6. Cardinality(Covered(g.list \ doubtful)) <= Cardinality(y.heights)
    BY <2>2, <2>5, FS_Subset
  <2>7. Cardinality(g.list) < SigLimit =>
          Cardinality(y.heights) <= Cardinality(Covered(g.list \cup doubtful))
    BY <2>3, <2>5, FS_Subset
  <2> QED  BY <2>6, <2>7
<1>5. PICK m \in g.start..MaxStored : g.statsStart = PeriodStart(m)
  BY <1>1 DEF StatsRead
<1>6. g.start \in 0..MaxStored /\ g.start = PeriodStart(g.start)
  BY <1>1 DEF PeriodRead
<1>7. g.start \in Nat /\ m \in Nat /\ g.start <= m /\ m <= MaxStored
  BY <1>2, <1>5, <1>6
<1>8. /\ PeriodStart(g.start) <= PeriodStart(m)
      /\ PeriodStart(g.start) # PeriodStart(m) => PeriodStart(g.start) + Period <= m
      /\ PeriodStart(m) \in Nat
  BY <1>7, PeriodStarts, PeriodsOrdered
<1>9. \/ g.statsStart = g.start
      \/ g.statsStart > g.start /\ top >= g.start + Period
  <2>1. Period \in Nat
    BY ReadsAssumption
  <2>2. /\ g.start <= g.statsStart /\ g.statsStart \in Nat
        /\ g.start # g.statsStart => g.start + Period <= m
    BY <1>5, <1>6, <1>8
  <2> QED  BY <1>2, <1>7, <2>1, <2>2
<1> QED  BY <1>4, <1>9 DEF PeriodFigures

\* A complete response whose crawlers had caught up with the period.
LEMMA DoneTally == PeriodInv => TallyKeepsUp
<1> SUFFICES ASSUME PeriodInv, figures.next = "done", figures.settled PROVE TallyKeepsUp
  BY DEF TallyKeepsUp
<1>1. PeriodRead(figures) /\ TallyRead(figures)
  BY DEF PeriodInv
<1>2. figures.start = figures.due
  BY <1>1 DEF PeriodRead
<1>3. Known(figures.tally) => figures.tally.start >= figures.start
  BY <1>1 DEF TallyRead, KeptUp
<1> QED  BY <1>2, <1>3 DEF TallyKeepsUp

-----------------------------------------------------------------------------
(* A page of blocks.                                                        *)

\* The rows of a page are the newest of the set it pages.
IsPage(p, H, limit) ==
  LET N == Cardinality(H)
      c == IF limit <= N THEN limit ELSE N
  IN  /\ p.rows \in Seq(Height) /\ Len(p.rows) = c /\ DOMAIN p.rows = 1..c
      /\ c \in Nat /\ N \in Nat
      /\ \A i \in 1..c : p.rows[i] \in H /\ AboveIn(H, p.rows[i]) = i - 1
      /\ \A h \in H : AboveIn(H, h) < limit => p.rows[AboveIn(H, h) + 1] = h
      /\ p.more \in BOOLEAN /\ (p.more <=> N > limit)

LEMMA PageRows ==
  ASSUME NEW H \in SUBSET Height, NEW limit \in Nat
  PROVE  IsPage(Page(H, limit), H, limit)
<1> DEFINE rows == Newest(limit + 1, H)
           N == Cardinality(H)
           all == IF limit + 1 <= N THEN limit + 1 ELSE N
           c == IF limit <= N THEN limit ELSE N
           p == Page(H, limit)
           more == Len(rows) > limit
<1>1. N \in Nat /\ c \in Nat
  BY Heightwise
<1>2. /\ all \in Nat /\ rows \in Seq(Height) /\ Len(rows) = all /\ DOMAIN rows = 1..all
      /\ \A i \in 1..all : rows[i] \in H /\ AboveIn(H, rows[i]) = i - 1
      /\ \A h \in H : AboveIn(H, h) < all => rows[AboveIn(H, h) + 1] = h
  <2>1. limit + 1 \in Nat
    OBVIOUS
  <2> QED  BY <2>1, NewestRows
<1>3. \A h \in H : AboveIn(H, h) \in 0..(N - 1)
  BY HeightsRank
<1>4. /\ p.rows = IF more THEN SubSeq(rows, 1, limit) ELSE rows
      /\ p.more = more
  BY DEF Page
<1>5. more <=> N > limit
  BY <1>1, <1>2
<1>6. CASE N > limit
  <2>1. all = limit + 1 /\ c = limit /\ more
    BY <1>1, <1>5, <1>6
  <2>2. \A i \in 1..limit : rows[i] \in Height
    BY <1>2, <2>1
  <2>3. /\ SubSeq(rows, 1, limit) \in Seq(Height)
        /\ Len(SubSeq(rows, 1, limit)) = IF 1 <= limit THEN limit - 1 + 1 ELSE 0
        /\ \A i \in 1..(limit - 1 + 1) : SubSeq(rows, 1, limit)[i] = rows[1 + i - 1]
    BY <2>2, SubSeqProperties
  <2>4. p.rows = SubSeq(rows, 1, limit)
    BY <1>4, <2>1
  <2> HIDE DEF p, rows
  <2>5. /\ p.rows \in Seq(Height) /\ Len(p.rows) = limit
        /\ \A i \in 1..limit : p.rows[i] = rows[i]
    BY <2>3, <2>4
  <2>6. DOMAIN p.rows = 1..limit
    BY <2>5, LenProperties
  <2>7. \A i \in 1..limit : p.rows[i] \in H /\ AboveIn(H, p.rows[i]) = i - 1
    BY <1>2, <2>1, <2>5
  <2>8. ASSUME NEW h \in H, AboveIn(H, h) < limit
        PROVE  p.rows[AboveIn(H, h) + 1] = h
    <3>1. AboveIn(H, h) \in Nat /\ AboveIn(H, h) + 1 \in 1..limit /\ AboveIn(H, h) < all
      BY <1>1, <1>3, <2>1, <2>8
    <3> QED  BY <1>2, <2>5, <3>1
  <2>9. p.more = TRUE
    BY <1>4, <2>1
  <2> HIDE DEF c, N
  <2> QED
    BY <1>1, <1>6, <2>1, <2>5, <2>6, <2>7, <2>8, <2>9 DEF IsPage, p, N, c
<1>7. CASE ~(N > limit)
  <2>1. all = N /\ c = N /\ ~more /\ p.rows = rows
    BY <1>1, <1>4, <1>5, <1>7
  <2>2. ASSUME NEW h \in H
        PROVE  p.rows[AboveIn(H, h) + 1] = h
    BY <1>1, <1>2, <1>3, <2>1
  <2>3. p.more = FALSE
    <3>1. (Len(rows) > limit) = FALSE
      BY <2>1
    <3> QED  BY <1>4, <3>1
  <2> HIDE DEF c, N, p, rows
  <2> QED  BY <1>1, <1>2, <1>7, <2>1, <2>2, <2>3 DEF IsPage, p, N, c
<1> QED  BY <1>6, <1>7

\* The rows descend, reach down to the last one, and are those with fewer than
\* the limit above them.
LEMMA PageHeights ==
  ASSUME NEW H \in SUBSET Height, NEW limit \in Nat \ {0}
  PROVE  LET p == Page(H, limit)
         IN  /\ p.rows \in Seq(Height) /\ p.more \in BOOLEAN
             /\ Descends(p.rows) /\ Heights(p.rows) \subseteq H
             /\ DownTo(p.rows, p.more, H)
             /\ \A h \in H : h \in Heights(p.rows) <=> AboveIn(H, h) < limit
             /\ H # {} => p.rows # <<>> /\ p.rows[1] = Max(H)
<1> DEFINE p == Page(H, limit)
           N == Cardinality(H)
           c == IF limit <= N THEN limit ELSE N
<1>1. /\ p.rows \in Seq(Height) /\ Len(p.rows) = c /\ DOMAIN p.rows = 1..c
      /\ c \in Nat /\ N \in Nat
      /\ \A i \in 1..c : p.rows[i] \in H /\ AboveIn(H, p.rows[i]) = i - 1
      /\ \A h \in H : AboveIn(H, h) < limit => p.rows[AboveIn(H, h) + 1] = h
      /\ p.more \in BOOLEAN /\ (p.more <=> N > limit)
  BY PageRows DEF IsPage
<1>2. /\ \A h \in H : AboveIn(H, h) \in 0..(N - 1)
      /\ \A h, k \in H : AboveIn(H, h) < AboveIn(H, k) <=> h > k
      /\ \A h \in H : h \in Nat
  BY Heightwise, HeightsRank
<1> HIDE DEF p
<1>3. Heights(p.rows) = {p.rows[i] : i \in 1..c}
  BY <1>1 DEF Heights
<1>4. Heights(p.rows) \subseteq H
  BY <1>1, <1>3
<1>5. ASSUME NEW i \in 1..c, NEW j \in 1..c, i < j
      PROVE  p.rows[i] > p.rows[j]
  <2>1. /\ p.rows[i] \in H /\ p.rows[j] \in H
        /\ AboveIn(H, p.rows[i]) = i - 1 /\ AboveIn(H, p.rows[j]) = j - 1
    BY <1>1
  <2>2. i - 1 < j - 1
    BY <1>1, <1>5
  <2> QED  BY <1>2, <2>1, <2>2
<1>6. Descends(p.rows)
  BY <1>1, <1>5 DEF Descends
<1>7. ASSUME NEW h \in H
      PROVE  h \in Heights(p.rows) <=> AboveIn(H, h) < limit
  <2>1. ASSUME h \in Heights(p.rows) PROVE AboveIn(H, h) < limit
    <3>1. PICK i \in 1..c : p.rows[i] = h
      BY <1>3, <2>1
    <3>2. AboveIn(H, h) = i - 1 /\ i - 1 < limit
      BY <1>1, <3>1
    <3> QED  BY <3>2
  <2>2. ASSUME AboveIn(H, h) < limit PROVE h \in Heights(p.rows)
    <3>1. AboveIn(H, h) + 1 \in 1..c
      BY <1>1, <1>2, <2>2
    <3> QED  BY <1>1, <1>3, <2>2, <3>1
  <2> QED  BY <2>1, <2>2
<1>8. ASSUME NEW h \in H, p.rows = <<>> \/ h >= Last(p.rows) \/ ~p.more
      PROVE  h \in Heights(p.rows)
  <2>1. AboveIn(H, h) \in Nat /\ AboveIn(H, h) < N /\ N > 0
    BY <1>1, <1>2
  <2>2. c > 0 /\ p.rows # <<>>
    BY <1>1, <2>1, EmptySeq
  <2> SUFFICES ASSUME ~(AboveIn(H, h) < limit) PROVE FALSE
    BY <1>7
  <2>3. N > limit /\ c = limit /\ c \in 1..c /\ p.more
    BY <1>1, <2>1
  <2>4. h >= Last(p.rows) /\ Last(p.rows) = p.rows[c]
    BY <1>1, <1>8, <2>2, <2>3 DEF Last
  <2>5. p.rows[c] \in H /\ AboveIn(H, p.rows[c]) = c - 1 /\ c - 1 < AboveIn(H, h)
    BY <1>1, <2>1, <2>3
  <2>6. p.rows[c] > h
    BY <1>2, <2>5
  <2> QED  BY <1>2, <2>4, <2>5, <2>6
<1>9. DownTo(p.rows, p.more, H)
  BY <1>8 DEF DownTo
<1>10. ASSUME H # {} PROVE p.rows # <<>> /\ p.rows[1] = Max(H)
  <2>1. PICK x \in H : TRUE
    BY <1>10
  <2>2. AboveIn(H, x) \in Nat /\ AboveIn(H, x) < N
    BY <1>1, <1>2, <2>1
  <2>3. N > 0 /\ c > 0 /\ 1 \in 1..c
    BY <1>1, <2>2
  <2>4. p.rows # <<>>
    BY <1>1, <2>3, EmptySeq
  <2>5. p.rows[1] \in H /\ AboveIn(H, p.rows[1]) = 0
    BY <1>1, <2>3
  <2>6. Max(H) \in H /\ \A h \in H : h <= Max(H)
    BY <1>10, Highest
  <2>7. ~(AboveIn(H, Max(H)) < 0) /\ ~(Max(H) > p.rows[1])
    BY <1>2, <2>5, <2>6
  <2>8. Max(H) \in Nat /\ p.rows[1] \in Nat /\ p.rows[1] <= Max(H)
    BY <1>2, <2>5, <2>6
  <2> QED  BY <2>4, <2>7, <2>8
<1> QED  BY <1>1, <1>4, <1>6, <1>7, <1>9, <1>10 DEF p

LEMMA AboveType ==
  ASSUME NEW H \in SUBSET Height, NEW h
  PROVE  AboveIn(H, h) \in Nat
<1>1. {k \in H : k > h} \in SUBSET H /\ IsFiniteSet(H)
  BY Heightwise
<1>2. IsFiniteSet({k \in H : k > h})
  BY <1>1, FS_Subset
<1> QED  BY <1>2, FS_CardinalityType DEF AboveIn

\* How many of a set are above a height at most,
LEMMA FewAbove ==
  ASSUME NEW H \in SUBSET Height, NEW h \in Nat, NEW m \in Nat, h <= m,
         \A k \in H : k <= m
  PROVE  AboveIn(H, h) <= m - h
<1> DEFINE K == {k \in H : k > h}
<1>1. K \subseteq (h + 1)..m
  BY Heightwise
<1>2. IsFiniteSet((h + 1)..m) /\ Cardinality((h + 1)..m) = m - h
  <2>1. h + 1 \in Int /\ m \in Int
    OBVIOUS
  <2>2. /\ IsFiniteSet((h + 1)..m)
        /\ Cardinality((h + 1)..m) = IF h + 1 > m THEN 0 ELSE m - (h + 1) + 1
    BY <2>1, FS_Interval
  <2> QED  BY <2>2
<1>3. AboveIn(H, h) = Cardinality(K)
  BY DEF AboveIn
<1> HIDE DEF K
<1>4. Cardinality(K) <= Cardinality((h + 1)..m)
  BY <1>1, <1>2, FS_Subset
<1> QED  BY <1>2, <1>3, <1>4

\* and at least.
LEMMA ManyAbove ==
  ASSUME NEW H \in SUBSET Height, NEW h \in Nat, NEW m \in Nat, NEW w \in Nat,
         h <= m - w, \A k \in Nat : k <= m /\ k > m - w => k \in H
  PROVE  AboveIn(H, h) >= w
<1> DEFINE K == {k \in H : k > h}
           L == (m - w + 1)..m
<1>1. L \subseteq K
  <2> SUFFICES ASSUME NEW k \in L PROVE k \in K
    OBVIOUS
  <2>1. k \in Nat /\ k <= m /\ k > m - w /\ k > h
    OBVIOUS
  <2> QED  BY <2>1
<1>2. IsFiniteSet(L) /\ Cardinality(L) = w
  <2>1. m - w + 1 \in Int /\ m \in Int
    OBVIOUS
  <2>2. /\ IsFiniteSet(L)
        /\ Cardinality(L) = IF m - w + 1 > m THEN 0 ELSE m - (m - w + 1) + 1
    BY <2>1, FS_Interval
  <2> QED  BY <2>2
<1>3. AboveIn(H, h) = Cardinality(K)
  BY DEF AboveIn
<1>4. IsFiniteSet(K)
  <2>1. K \subseteq H /\ IsFiniteSet(H)
    BY Heightwise
  <2> HIDE DEF K
  <2> QED  BY <2>1, FS_Subset
<1> HIDE DEF K, L
<1>5. Cardinality(L) <= Cardinality(K)
  BY <1>1, <1>4, FS_Subset
<1> QED  BY <1>2, <1>3, <1>5

-----------------------------------------------------------------------------
(* What a poll adds.                                                        *)

IndexBelow(S, i) == {k \in S : k < i}

\* Every place among a set of indices is some index's.
LEMMA IndexAtPlace ==
  ASSUME NEW S, IsFiniteSet(S), \A i \in S : i \in Nat
  PROVE  /\ Cardinality(S) \in Nat
         /\ \A j \in 1..Cardinality(S) : \E i \in S : Cardinality(IndexBelow(S, i)) = j - 1
<1> DEFINE ahead == [i \in S |-> IndexBelow(S, i)]
           at == [i \in S |-> Cardinality(ahead[i])]
           N == Cardinality(S)
<1>1. ahead \in [S -> SUBSET S]
  BY DEF IndexBelow
<1>2. \A i, k \in S : k \in ahead[i] <=> k < i
  BY DEF IndexBelow
<1>3. \A i \in S : at[i] = Cardinality(IndexBelow(S, i))
  OBVIOUS
<1> HIDE DEF ahead
<1>4. \A i \in S : i \notin ahead[i]
  BY <1>2
<1>5. \A k, i \in S : k \in ahead[i] => ahead[k] \subseteq ahead[i]
  BY <1>1, <1>2
<1>6. \A k, i \in S : k = i \/ k \in ahead[i] \/ i \in ahead[k]
  BY <1>2
<1>7. N \in Nat /\ at \in Bijection(S, 0..(N - 1))
  BY <1>1, <1>4, <1>5, <1>6, RankOfOrder
<1> HIDE DEF at, N
<1>8. ASSUME NEW j \in 1..N
      PROVE  \E i \in S : Cardinality(IndexBelow(S, i)) = j - 1
  <2>1. j - 1 \in 0..(N - 1)
    BY <1>7
  <2>2. \E i \in S : at[i] = j - 1
    BY <1>7, <2>1 DEF Bijection, Surjection
  <2> QED  BY <1>3, <2>2
<1> QED  BY <1>7, <1>8 DEF N

NewRows(rows) == {i \in DOMAIN rows : rows[i] \notin Heights(strip)}

LEMMA NewRowsOf ==
  ASSUME NEW rows \in Seq(Height)
  PROVE  /\ NewRows(rows) \in SUBSET (1..Len(rows)) /\ IsFiniteSet(NewRows(rows))
         /\ Cardinality(NewRows(rows)) \in Nat
         /\ \A i \in NewRows(rows) : i \in Nat
<1>1. Len(rows) \in Nat /\ DOMAIN rows = 1..Len(rows)
  BY LenProperties
<1>2. NewRows(rows) \in SUBSET (1..Len(rows))
  BY <1>1 DEF NewRows
<1>3. IsFiniteSet(1..Len(rows))
  <2>1. 1 \in Int /\ Len(rows) \in Int
    BY <1>1
  <2> QED  BY <2>1, FS_Interval
<1>4. IsFiniteSet(NewRows(rows))
  BY <1>2, <1>3, FS_Subset
<1> QED  BY <1>1, <1>2, <1>4, FS_CardinalityType

LEMMA FreshIs ==
  ASSUME NEW rows \in Seq(Height)
  PROVE  Fresh(rows) =
           [j \in 1..Cardinality(NewRows(rows)) |->
              rows[CHOOSE i \in NewRows(rows) :
                     Cardinality(IndexBelow(NewRows(rows), i)) = j - 1]]
  BY DEF Fresh, NewRows, IndexBelow

LEMMA FreshInSeq ==
  ASSUME NEW rows \in Seq(Height)
  PROVE  Fresh(rows) \in Seq(Height)
<1> DEFINE S == NewRows(rows)
           N == Cardinality(S)
           PickAt(j) == CHOOSE i \in S : Cardinality(IndexBelow(S, i)) = j - 1
<1>1. /\ S \in SUBSET (1..Len(rows)) /\ IsFiniteSet(S) /\ N \in Nat
      /\ \A i \in S : i \in Nat
  BY NewRowsOf
<1>2. \A j \in 1..N : \E i \in S : Cardinality(IndexBelow(S, i)) = j - 1
  <2> HIDE DEF S
  <2> QED  BY <1>1, IndexAtPlace
<1>3. Fresh(rows) = [j \in 1..N |-> rows[PickAt(j)]]
  BY FreshIs
<1>4. \A j \in 1..N : PickAt(j) \in S
  BY <1>2
<1> HIDE DEF S, N, PickAt
<1>5. \A j \in 1..N : rows[PickAt(j)] \in Height
  BY <1>1, <1>4, ElementOfSeq
<1>6. Fresh(rows) \in [1..N -> Height]
  BY <1>3, <1>5
<1> QED  BY <1>1, <1>6

\* The indices from the first one on are an interval.
LEMMA DownClosed ==
  ASSUME NEW n \in Nat, NEW S \in SUBSET (1..n),
         \A i, k \in 1..n : i \in S /\ k < i => k \in S
  PROVE  \E c \in 0..n : S = 1..c
<1>1. CASE S = {}
  <2>1. 0 \in 0..n /\ S = 1..0
    BY <1>1
  <2> QED  BY <2>1
<1>2. CASE S # {}
  <2> DEFINE id == [i \in S |-> i]
  <2>1. IsFiniteSet(S)
    <3>1. 1 \in Int /\ n \in Int
      OBVIOUS
    <3>2. IsFiniteSet(1..n)
      BY <3>1, FS_Interval
    <3> QED  BY <3>2, FS_Subset
  <2>2. \A i \in S : id[i] \in Nat
    OBVIOUS
  <2>3. \E x \in S : \A y \in S : id[y] <= id[x]
    <3> HIDE DEF id
    <3> QED  BY <1>2, <2>1, <2>2, LargestMeasured
  <2>4. PICK c \in S : \A y \in S : y <= c
    BY <2>3
  <2>5. S = 1..c
    <3>1. ASSUME NEW k \in S PROVE k \in 1..c
      BY <2>4
    <3>2. ASSUME NEW k \in 1..c PROVE k \in S
      <4>1. k \in 1..n /\ c \in 1..n /\ (k < c \/ k = c)
        OBVIOUS
      <4> QED  BY <4>1
    <3> QED  BY <3>1, <3>2
  <2> QED  BY <2>5
<1> QED  BY <1>1, <1>2

\* Of descending rows of which the strip has those up to some height: the rows
\* above it, in their order.
LEMMA FreshPrefix ==
  ASSUME NEW rows \in Seq(Height), Descends(rows), NEW s \in Nat,
         \A h \in Heights(rows) : h \in Heights(strip) <=> h <= s
  PROVE  /\ Fresh(rows) \in Seq(Height)
         /\ Len(Fresh(rows)) \in Nat /\ Len(Fresh(rows)) <= Len(rows)
         /\ \A j \in 1..Len(Fresh(rows)) : Fresh(rows)[j] = rows[j]
         /\ \A i \in 1..Len(rows) : i <= Len(Fresh(rows)) <=> rows[i] > s
<1> DEFINE S == NewRows(rows)
           L == Len(rows)
           f == Fresh(rows)
<1>1. /\ S \in SUBSET (1..L) /\ IsFiniteSet(S) /\ Cardinality(S) \in Nat
      /\ \A i \in S : i \in Nat
  BY NewRowsOf
<1>2. L \in Nat /\ DOMAIN rows = 1..L /\ \A i \in 1..L : rows[i] \in Nat
  <2>1. L \in Nat /\ DOMAIN rows = 1..L /\ \A i \in 1..L : rows[i] \in Height
    BY LenProperties
  <2> QED  BY <2>1, ReadsAssumption DEF Height
<1>3. \A i \in 1..L : i \in S <=> rows[i] > s
  <2>1. \A i \in 1..L : rows[i] \in Heights(rows)
    BY <1>2 DEF Heights
  <2>2. \A i \in 1..L : rows[i] \in Heights(strip) <=> ~(rows[i] > s)
    BY <1>2, <2>1
  <2> QED  BY <1>2, <2>2 DEF NewRows
<1>4. \A i, k \in 1..L : i \in S /\ k < i => k \in S
  <2> SUFFICES ASSUME NEW i \in 1..L, NEW k \in 1..L, i \in S, k < i
               PROVE  k \in S
    OBVIOUS
  <2>1. rows[k] > rows[i] /\ rows[i] > s
    BY <1>2, <1>3 DEF Descends
  <2> QED  BY <1>2, <1>3, <2>1
<1> HIDE DEF S, L
<1>5. PICK c \in 0..L : S = 1..c
  BY <1>1, <1>2, <1>4, DownClosed
<1>6. c \in Nat /\ c <= L
  BY <1>2, <1>5
<1>7. Cardinality(S) = c
  <2>1. 1 \in Int /\ c \in Int
    BY <1>6
  <2>2. Cardinality(1..c) = IF 1 > c THEN 0 ELSE c - 1 + 1
    BY <2>1, FS_Interval
  <2> QED  BY <1>5, <1>6, <2>2
<1>8. \A i \in 1..c : Cardinality(IndexBelow(S, i)) = i - 1
  <2> SUFFICES ASSUME NEW i \in 1..c PROVE Cardinality(IndexBelow(S, i)) = i - 1
    OBVIOUS
  <2>1. IndexBelow(S, i) = 1..(i - 1)
    BY <1>5, <1>6 DEF IndexBelow
  <2>2. 1 \in Int /\ i - 1 \in Int
    OBVIOUS
  <2>3. Cardinality(1..(i - 1)) = IF 1 > i - 1 THEN 0 ELSE i - 1 - 1 + 1
    BY <2>2, FS_Interval
  <2> QED  BY <2>1, <2>3
<1> DEFINE PickAt(j) == CHOOSE i \in S : Cardinality(IndexBelow(S, i)) = j - 1
<1>9. \A j \in 1..c : PickAt(j) = j
  <2> SUFFICES ASSUME NEW j \in 1..c PROVE PickAt(j) = j
    OBVIOUS
  <2>1. j \in S /\ Cardinality(IndexBelow(S, j)) = j - 1
    BY <1>5, <1>8
  <2>2. \A i \in S : Cardinality(IndexBelow(S, i)) = j - 1 => i = j
    <3> SUFFICES ASSUME NEW i \in S, Cardinality(IndexBelow(S, i)) = j - 1 PROVE i = j
      OBVIOUS
    <3>1. i \in 1..c /\ i - 1 = j - 1
      BY <1>5, <1>8
    <3> QED  BY <3>1
  <2> QED  BY <2>1, <2>2
<1>10. f = [j \in 1..c |-> rows[PickAt(j)]]
  <2>1. f = [j \in 1..Cardinality(S) |-> rows[PickAt(j)]]
    BY FreshIs DEF S
  <2> QED  BY <1>7, <2>1
<1> HIDE DEF PickAt
<1>11. \A j \in 1..c : rows[PickAt(j)] = rows[j]
  BY <1>9
<1>12. f = [j \in 1..c |-> rows[j]]
  <2>1. [j \in 1..c |-> rows[PickAt(j)]] = [j \in 1..c |-> rows[j]]
    BY <1>11
  <2> QED  BY <1>10, <2>1
<1>13. f \in Seq(Height)
  BY FreshInSeq
<1> HIDE DEF f
<1>14. DOMAIN f = 1..c /\ \A j \in 1..c : f[j] = rows[j]
  BY <1>12
<1>15. Len(f) = c
  BY <1>6, <1>13, <1>14, LenProperties
<1>16. \A i \in 1..L : i <= c <=> rows[i] > s
  <2> SUFFICES ASSUME NEW i \in 1..L PROVE i <= c <=> rows[i] > s
    OBVIOUS
  <2>1. i <= c <=> i \in S
    BY <1>2, <1>5, <1>6
  <2> QED  BY <1>3, <2>1
<1> QED  BY <1>6, <1>13, <1>14, <1>15, <1>16 DEF f, L

-----------------------------------------------------------------------------
(* The newest window.                                                       *)

LEMMA WindowInit == Init => WindowInv
<1> SUFFICES ASSUME Init PROVE NewestWindow(MaxStored) \subseteq stored
  BY DEF WindowInv
<1>1. FirstTip \in Height /\ FirstTip \in Nat
  BY ReadsAssumption DEF Height
<1>2. \E older \in SUBSET (0..FirstTip) : stored = older \cup NewestWindow(FirstTip)
  BY DEF Init, BlocksInit
<1>3. FirstTip \in stored /\ NewestWindow(FirstTip) \subseteq stored /\ top = FirstTip
  BY <1>1, <1>2, WindowOfTip DEF Init, BlocksInit
<1>4. MaxStored = FirstTip
  BY <1>1, <1>3, TableInit, StoredHeights DEF HeightsOfTable
<1> QED  BY <1>3, <1>4

\* What is stored besides, while no block was stored above all others by the
\* backfill, is below the newest window or above it.
LEMMA WindowStep ==
  ASSUME TableInv, TalliesInv, WindowInv, BlocksStep
  PROVE  /\ WindowInv' /\ (torn => torn')
         /\ ~torn' => \A h \in stored' \ stored : h <= MaxStored - Window \/ h > MaxStored
<1> DEFINE M == MaxStored
<1>1. TableInv' /\ stored \subseteq stored' /\ MaxStored <= MaxStored'
  BY TableStep
<1>2. /\ stored \in SUBSET Height /\ M \in stored /\ M \in Nat /\ M <= top
      /\ \A h \in stored : h <= M
  BY StoredHeights DEF HeightsOfTable
<1>3. /\ stored' \in SUBSET Height /\ MaxStored' \in stored' /\ MaxStored' \in Nat
      /\ \A h \in stored' : h <= MaxStored'
  BY <1>1, StoredHeightsLater DEF HeightsOfTable
<1>4. ~torn => \A h \in Height : h <= M /\ h > M - Window => h \in stored
  BY DEF WindowInv, NewestWindow
<1>5. \A h \in Height : h \in Nat
  BY ReadsAssumption DEF Height
<1>6. Window \in Nat /\ Window > 0
  BY ReadsAssumption
<1>7. CASE WindowStored
  <2>1. /\ top \in Height /\ top \in Nat /\ torn' = torn
        /\ stored' = stored \cup NewestWindow(top)
    BY <1>7 DEF WindowStored, UpsertWindow, UpsertBlocks, TableInv, Height
  <2>2. top \in stored' /\ NewestWindow(top) \subseteq 0..top
    BY <2>1, WindowOfTip
  <2>3. \A h \in stored' : h <= top
    BY <1>2, <2>1, <2>2
  <2>4. MaxStored' = top
    BY <1>3, <2>1, <2>2, <2>3
  <2>5. NewestWindow(MaxStored)' = NewestWindow(top)
    BY <2>4 DEF NewestWindow
  <2>6. NewestWindow(MaxStored)' \subseteq stored'
    BY <2>1, <2>5
  <2>7. ~torn' => \A h \in stored' \ stored : h <= M - Window \/ h > M
    BY <1>2, <1>3, <1>4, <1>5, <1>6, <2>1
  <2> QED  BY <2>1, <2>6, <2>7 DEF WindowInv
<1>8. CASE MissingStored
  <2>1. PICK b \in 0..top : UpsertMissing(b)
    BY <1>8 DEF MissingStored
  <2>2. /\ b \in Nat /\ stored' = stored \cup {b}
        /\ (torn => torn') /\ (~torn' => ~torn /\ ~(b > M))
    <3>1. b \in Nat
      BY <1>2, <2>1
    <3>2. stored' = stored \cup {b} /\ torn' = (torn \/ b > M)
      BY <2>1 DEF UpsertMissing, UpsertBlocks, MaxStored
    <3> HIDE DEF M
    <3>3. (torn => torn') /\ (~torn' => ~torn /\ ~(b > M))
      BY <3>2, Zenon
    <3> QED  BY <3>1, <3>2, <3>3
  <2>3. ~torn' => MaxStored' = M
    BY <1>2, <1>3, <1>5, <2>2
  <2>4. ~torn' => NewestWindow(MaxStored)' \subseteq stored'
    <3> SUFFICES ASSUME ~torn' PROVE NewestWindow(MaxStored)' \subseteq stored'
      OBVIOUS
    <3>1. NewestWindow(MaxStored)' = NewestWindow(M)
      BY <2>3 DEF NewestWindow
    <3>2. NewestWindow(M) \subseteq stored
      BY <2>2 DEF WindowInv
    <3> QED  BY <2>2, <3>1, <3>2
  <2>5. ~torn' => \A h \in stored' \ stored : h <= M - Window \/ h > M
    BY <1>2, <1>3, <1>4, <1>5, <1>6, <2>2
  <2> QED  BY <2>2, <2>4, <2>5 DEF WindowInv
<1>9. ASSUME stored' = stored, torn' = torn
      PROVE  /\ WindowInv'
             /\ \A h \in stored' \ stored : h <= M - Window \/ h > M
  BY <1>9 DEF WindowInv, MaxStored, NewestWindow
<1>10. ASSUME NEW d \in Nat, NewBlock(d)
       PROVE  stored' = stored /\ torn' = torn
  BY <1>10, NewBlockMoves
<1>11. TableKept => stored' = stored /\ torn' = torn
  BY DEF TableKept, tableVars
<1> QED  BY <1>7, <1>8, <1>9, <1>10, <1>11, TableKinds

-----------------------------------------------------------------------------
(* The strip.                                                               *)

BrowserInv == StripTypes /\ FetchInv /\ StripInv

LEMMA HeightIsNat ==
  /\ \A h \in Height : h \in Nat /\ h \in Int
  /\ 0 \in Height
  /\ Window \in Nat /\ TipLimit \in Nat \ {0} /\ PageLimit \in Nat \ {0}
  /\ TipLimit <= Window /\ Window <= PageLimit
  BY ReadsAssumption DEF Height

\* The ends of a sequence of heights.
LEMMA EndsOf ==
  ASSUME NEW s \in Seq(Height), s # <<>>
  PROVE  /\ Len(s) \in Nat /\ Len(s) > 0 /\ DOMAIN s = 1..Len(s)
         /\ s[1] \in Heights(s) /\ s[1] \in Height
         /\ Last(s) = s[Len(s)] /\ Last(s) \in Heights(s) /\ Last(s) \in Height
         /\ Descends(s) => \A h \in Heights(s) : h <= s[1] /\ h >= Last(s)
<1>1. Len(s) \in Nat /\ Len(s) > 0 /\ DOMAIN s = 1..Len(s)
  BY EmptySeq, LenProperties
<1>2. 1 \in 1..Len(s) /\ Len(s) \in 1..Len(s)
  BY <1>1
<1>3. \A i \in 1..Len(s) : s[i] \in Height /\ s[i] \in Nat
  BY ElementOfSeq, HeightIsNat
<1>4. ASSUME Descends(s), NEW h \in Heights(s)
      PROVE  h <= s[1]
  <2>1. PICK i \in 1..Len(s) : s[i] = h
    BY <1>1 DEF Heights
  <2>2. CASE i = 1
    BY <1>3, <2>1, <2>2
  <2>3. CASE i # 1
    <3>1. 1 < i
      BY <1>1, <2>3
    <3>2. s[1] > s[i]
      BY <1>1, <1>2, <1>4, <3>1 DEF Descends
    <3> QED  BY <1>2, <1>3, <2>1, <3>2
  <2> QED  BY <2>2, <2>3
<1>5. ASSUME Descends(s), NEW h \in Heights(s)
      PROVE  h >= s[Len(s)]
  <2>1. PICK i \in 1..Len(s) : s[i] = h
    BY <1>1 DEF Heights
  <2>2. i = Len(s) \/ i < Len(s)
    <3> DEFINE n == Len(s)
    <3> HIDE DEF n
    <3>1. n \in Nat /\ i \in 1..n
      BY <1>1 DEF n
    <3>2. i = n \/ i < n
      BY <3>1
    <3> QED  BY <3>2 DEF n
  <2>3. CASE i = Len(s)
    BY <1>2, <1>3, <2>1, <2>3
  <2>4. CASE i < Len(s)
    <3>1. s[i] > s[Len(s)]
      BY <1>1, <1>2, <1>5, <2>4 DEF Descends
    <3> QED  BY <1>2, <1>3, <2>1, <3>1
  <2> QED  BY <2>2, <2>3, <2>4
<1> QED  BY <1>1, <1>2, <1>3, <1>4, <1>5 DEF Last, Heights

\* Two sequences of heights, one after the other.
LEMMA Joined ==
  ASSUME NEW a \in Seq(Height), NEW b \in Seq(Height)
  PROVE  /\ a \o b \in Seq(Height) /\ Heights(a \o b) = Heights(a) \cup Heights(b)
         /\ b # <<>> => Last(a \o b) = Last(b) /\ a \o b # <<>>
         /\ a # <<>> => (a \o b)[1] = a[1] /\ a \o b # <<>>
         /\ a = <<>> => a \o b = b
         /\ b = <<>> => a \o b = a
         /\ Descends(a) /\ Descends(b) /\ (\A x \in Heights(a), y \in Heights(b) : x > y) =>
              Descends(a \o b)
<1> DEFINE s == a \o b
           m == Len(a)
           n == Len(b)
<1>1. /\ s \in Seq(Height) /\ Len(s) = m + n
      /\ \A i \in 1..(m + n) : s[i] = IF i <= m THEN a[i] ELSE b[i - m]
  BY ConcatProperties
<1>2. m \in Nat /\ n \in Nat /\ DOMAIN a = 1..m /\ DOMAIN b = 1..n /\ DOMAIN s = 1..(m + n)
  BY <1>1, LenProperties
<1>3. (a # <<>> => m > 0) /\ (b # <<>> => n > 0)
  BY EmptySeq
<1> HIDE DEF s, m, n
<1>4. \A i \in 1..m : i \in 1..(m + n) /\ s[i] = a[i]
  BY <1>1, <1>2
<1>5. \A j \in 1..n : m + j \in 1..(m + n) /\ s[m + j] = b[j]
  <2> SUFFICES ASSUME NEW j \in 1..n
               PROVE  m + j \in 1..(m + n) /\ s[m + j] = b[j]
    OBVIOUS
  <2> DEFINE i == m + j
  <2>1. i \in 1..(m + n) /\ ~(i <= m) /\ i - m = j
    BY <1>2
  <2> HIDE DEF i
  <2>2. s[i] = b[j]
    BY <1>1, <2>1
  <2> QED  BY <2>1, <2>2 DEF i
<1>6. \A i \in 1..(m + n) : i \in 1..m \/ \E j \in 1..n : i = m + j
  <2> SUFFICES ASSUME NEW i \in 1..(m + n), i \notin 1..m
               PROVE  \E j \in 1..n : i = m + j
    OBVIOUS
  <2>1. i - m \in 1..n /\ i = m + (i - m)
    BY <1>2
  <2> QED  BY <2>1
<1>7. Heights(s) = Heights(a) \cup Heights(b)
  <2>1. ASSUME NEW h \in Heights(s) PROVE h \in Heights(a) \cup Heights(b)
    <3>1. PICK i \in 1..(m + n) : s[i] = h
      BY <1>2, <2>1 DEF Heights
    <3>2. CASE i \in 1..m
      BY <1>2, <1>4, <3>1, <3>2 DEF Heights
    <3>3. CASE i \notin 1..m
      <4>1. PICK j \in 1..n : i = m + j
        BY <1>6, <3>3
      <4> QED  BY <1>2, <1>5, <3>1, <4>1 DEF Heights
    <3> QED  BY <3>2, <3>3
  <2>2. ASSUME NEW h \in Heights(a) PROVE h \in Heights(s)
    BY <1>2, <1>4, <2>2 DEF Heights
  <2>3. ASSUME NEW h \in Heights(b) PROVE h \in Heights(s)
    BY <1>2, <1>5, <2>3 DEF Heights
  <2> QED  BY <2>1, <2>2, <2>3
<1>8. b # <<>> => Last(s) = Last(b) /\ s # <<>>
  <2> SUFFICES ASSUME b # <<>> PROVE Last(s) = Last(b) /\ s # <<>>
    OBVIOUS
  <2>1. n \in 1..n /\ m + n > 0
    BY <1>2, <1>3
  <2>2. s[m + n] = b[n]
    BY <1>5, <2>1
  <2> QED  BY <1>1, <2>1, <2>2, EmptySeq DEF Last, n
<1>9. a # <<>> => s[1] = a[1] /\ s # <<>>
  <2> SUFFICES ASSUME a # <<>> PROVE s[1] = a[1] /\ s # <<>>
    OBVIOUS
  <2>1. 1 \in 1..m /\ m + n > 0
    BY <1>2, <1>3
  <2> QED  BY <1>1, <1>4, <2>1, EmptySeq
<1>10. (a = <<>> => s = b) /\ (b = <<>> => s = a)
  BY ConcatEmptySeq DEF s
<1>11. ASSUME Descends(a), Descends(b), \A x \in Heights(a), y \in Heights(b) : x > y
       PROVE  Descends(s)
  <2> SUFFICES ASSUME NEW i \in 1..(m + n), NEW k \in 1..(m + n), i < k
               PROVE  s[i] > s[k]
    BY <1>2 DEF Descends
  <2>1. CASE k \in 1..m
    <3>1. i \in 1..m
      BY <1>2, <2>1
    <3> QED  BY <1>2, <1>4, <1>11, <2>1, <3>1 DEF Descends
  <2>2. CASE i \notin 1..m
    <3>1. k \notin 1..m
      BY <1>2, <2>2
    <3>2. PICK x \in 1..n : i = m + x
      BY <1>6, <2>2
    <3>3. PICK y \in 1..n : k = m + y
      BY <1>6, <3>1
    <3>4. x < y
      BY <1>2, <3>2, <3>3
    <3>5. b[x] > b[y]
      BY <1>2, <1>11, <3>4 DEF Descends
    <3> QED  BY <1>5, <3>2, <3>3, <3>5
  <2>3. CASE i \in 1..m /\ k \notin 1..m
    <3>1. PICK y \in 1..n : k = m + y
      BY <1>6, <2>3
    <3>2. s[i] \in Heights(a) /\ s[k] \in Heights(b)
      BY <1>2, <1>4, <1>5, <2>3, <3>1 DEF Heights
    <3> QED  BY <1>11, <3>2
  <2> QED  BY <2>1, <2>2, <2>3
<1> QED  BY <1>1, <1>7, <1>8, <1>9, <1>10, <1>11 DEF s

\* The requests by name.
LEMMA Requests ==
  /\ "first" \in Fetch /\ "older" \in Fetch /\ Poll \subseteq Fetch
  /\ \A p \in Poll : p # "first" /\ p # "older"
  /\ \A f \in Fetch : f = "first" \/ f = "older" \/ f \in Poll
  /\ Idle \in PageRequest /\ Idle.phase = "none"
<1>1. <<>> \in Seq(Height)
  BY EmptySeq
<1>2. Idle \in PageRequest /\ Idle.phase = "none"
  BY <1>1, HeightIsNat DEF Idle, PageRequest
<1> QED  BY <1>2, ReadsAssumption DEF Fetch

LEMMA BrowserInit == Init => BrowserInv
<1> SUFFICES ASSUME Init PROVE BrowserInv
  OBVIOUS
<1>1. /\ strip = <<>> /\ hasMore = TRUE /\ loading = FALSE /\ base = {}
      /\ fetch = [f \in Fetch |-> IF f = "first" THEN [Idle EXCEPT !.phase = "sent"] ELSE Idle]
  BY DEF Init, BlocksInit
<1>2. /\ [Idle EXCEPT !.phase = "sent"] \in PageRequest
      /\ [Idle EXCEPT !.phase = "sent"].phase = "sent"
  BY Requests DEF PageRequest, Idle
<1>3. fetch \in [Fetch -> PageRequest] /\ fetch["first"].phase = "sent"
  BY <1>1, <1>2, Requests
<1>4. \A f \in Fetch \ {"first"} : fetch[f].phase = "none"
  BY <1>1, Requests
<1>5. strip \in Seq(Height)
  BY <1>1, EmptySeq
<1>6. StripTypes
  BY <1>1, <1>3, <1>4, <1>5, Requests DEF StripTypes
<1>7. FetchInv
  BY <1>3, <1>4, Requests DEF FetchInv, FirstFits, OlderFits, PollFits
<1> QED  BY <1>1, <1>6, <1>7 DEF BrowserInv, StripInv

\* A step that leaves the browser alone.
LEMMA BrowserRests ==
  ASSUME BrowserInv, UNCHANGED stripVars, stored \subseteq stored', torn => torn'
  PROVE  BrowserInv'
  BY DEF BrowserInv, StripTypes, FetchInv, StripInv, FirstFits, OlderFits, PollFits,
         DownTo, stripVars

\* What the requests a step leaves alone hold of, as long as the strip keeps its
\* last block.
LEMMA FitsKept ==
  ASSUME FetchInv, base' = base, torn => torn'
  PROVE  /\ fetch'["first"] = fetch["first"] => FirstFits(fetch["first"])'
         /\ fetch'["older"] = fetch["older"]
            /\ (fetch["older"].phase # "none" => Last(strip)' = Last(strip)) =>
              OlderFits(fetch["older"])'
         /\ \A p \in Poll : fetch'[p] = fetch[p] => PollFits(fetch[p])'
  BY DEF FetchInv, FirstFits, OlderFits, PollFits, DownTo

\* A request under way that has no answer.
FitsUnanswered ==
  /\ fetch["first"].phase # "answered" => FirstFits(fetch["first"])
  /\ fetch["older"].phase = "none" => OlderFits(fetch["older"])
  /\ \A p \in Poll : fetch[p].phase # "answered" => PollFits(fetch[p])

LEMMA UnansweredFits == FitsUnanswered
  BY DEF FitsUnanswered, FirstFits, OlderFits, PollFits

LEMMA UnansweredFitsLater == FitsUnanswered'
  BY DEF FitsUnanswered, FirstFits, OlderFits, PollFits

\* The facts a step of the browser starts from.
LEMMA BrowserNow ==
  ASSUME TableInv, BrowserInv
  PROVE  /\ stored \in SUBSET Height /\ stored # {} /\ base \in SUBSET Height
         /\ base # {} => Max(base) \in Nat /\ Max(base) <= MaxStored /\ Max(base) \in base
                         /\ \A h \in base : h <= Max(base)
         /\ fetch \in [Fetch -> PageRequest]
         /\ \A f \in Fetch : fetch[f].rows \in Seq(Height) /\ fetch[f].more \in BOOLEAN
                            /\ fetch[f].before \in Height
<1>1. /\ stored \in SUBSET Height /\ stored # {} /\ \A h \in stored : h <= MaxStored
  BY StoredHeights DEF HeightsOfTable
<1>2. base \in SUBSET Height /\ base \subseteq stored
  BY <1>1 DEF BrowserInv, StripTypes
<1>3. base # {} => /\ Max(base) \in Nat /\ Max(base) <= MaxStored /\ Max(base) \in base
                   /\ \A h \in base : h <= Max(base)
  BY <1>1, <1>2, Highest
<1>4. fetch \in [Fetch -> PageRequest]
  BY DEF BrowserInv, StripTypes
<1>5. \A f \in Fetch : /\ fetch[f].rows \in Seq(Height) /\ fetch[f].more \in BOOLEAN
                      /\ fetch[f].before \in Height
  BY <1>4 DEF PageRequest
<1> QED  BY <1>1, <1>2, <1>3, <1>4, <1>5

\* The first page.
LEMMA AnswerFirst ==
  ASSUME TableInv, WindowInv, BrowserInv, AnswerFetch("first")
  PROVE  BrowserInv'
<1> DEFINE page == Page(stored, PageLimit)
           q == [phase |-> "answered", before |-> fetch["first"].before,
                 rows |-> page.rows, more |-> page.more]
<1>1. /\ fetch["first"].phase = "sent" /\ fetch' = [fetch EXCEPT !["first"] = q]
      /\ base' = stored /\ UNCHANGED <<blocksVars, strip, hasMore, loading, missed>>
  BY DEF AnswerFetch
<1>2. stored' = stored /\ torn' = torn
  BY <1>1 DEF blocksVars, tableVars
<1>3. /\ stored \in SUBSET Height /\ stored # {} /\ fetch \in [Fetch -> PageRequest]
      /\ fetch["first"].before \in Height
  BY BrowserNow, Requests
<1>4. /\ page.rows \in Seq(Height) /\ page.more \in BOOLEAN
      /\ Descends(page.rows) /\ DownTo(page.rows, page.more, stored)
      /\ \A h \in stored : h \in Heights(page.rows) <=> AboveIn(stored, h) < PageLimit
      /\ page.rows # <<>> /\ page.rows[1] = Max(stored)
  BY <1>3, HeightIsNat, PageHeights
<1>5. q \in PageRequest
  BY <1>3, <1>4 DEF PageRequest
<1>6. /\ q.phase = "answered" /\ q.rows = page.rows /\ q.more = page.more
  OBVIOUS
<1>7. ~torn => NewestWindow(Max(stored)) \subseteq Heights(page.rows)
  <2> SUFFICES ASSUME ~torn, NEW h \in NewestWindow(Max(stored))
               PROVE  h \in Heights(page.rows)
    OBVIOUS
  <2>1. h \in stored /\ h \in Nat /\ h <= MaxStored /\ h > MaxStored - Window
    BY HeightIsNat DEF WindowInv, MaxStored, NewestWindow
  <2>2. MaxStored \in Nat /\ \A k \in stored : k <= MaxStored
    BY StoredHeights DEF HeightsOfTable
  <2>3. AboveIn(stored, h) <= MaxStored - h
    BY <1>3, <2>1, <2>2, FewAbove
  <2>4. AboveIn(stored, h) \in Nat
    BY <1>3, AboveType
  <2>5. AboveIn(stored, h) < PageLimit
    BY <2>1, <2>2, <2>3, <2>4, HeightIsNat
  <2> QED  BY <1>4, <2>1, <2>5
<1> HIDE DEF page, q
<1>8. /\ fetch' \in [Fetch -> PageRequest] /\ fetch'["first"] = q
      /\ \A f \in Fetch \ {"first"} : fetch'[f] = fetch[f]
  BY <1>1, <1>3, <1>5, Requests
<1>9. strip = <<>> /\ \A f \in Fetch \ {"first"} : fetch[f].phase = "none"
  BY <1>1 DEF BrowserInv, StripTypes
<1>10. StripTypes'
  <2>1. /\ strip \in Seq(Height) /\ hasMore \in BOOLEAN /\ loading \in BOOLEAN
        /\ (loading <=> fetch["older"].phase # "none")
    BY DEF BrowserInv, StripTypes
  <2> QED  BY <1>1, <1>2, <1>3, <1>6, <1>8, <1>9, <2>1, Requests DEF StripTypes
<1>11. FetchInv'
  <2>1. FirstFits(fetch["first"])'
    <3>1. NewestWindow(Max(base))' = NewestWindow(Max(stored))
      BY <1>1 DEF NewestWindow
    <3>2. DownTo(fetch["first"].rows, fetch["first"].more, base)'
      BY <1>1, <1>4, <1>6, <1>8 DEF DownTo, Last
    <3>3. Descends(fetch["first"].rows)'
      BY <1>4, <1>6, <1>8 DEF Descends
    <3>4. Heights(fetch["first"].rows)' = Heights(page.rows)
      BY <1>6, <1>8 DEF Heights
    <3>5. fetch'["first"].rows # <<>> /\ fetch'["first"].rows[1] = Max(base')
      BY <1>1, <1>4, <1>6, <1>8
    <3> QED  BY <1>2, <1>7, <3>1, <3>2, <3>3, <3>4, <3>5 DEF FirstFits
  <2> QED  BY <1>8, <1>9, <2>1, Requests, UnansweredFitsLater DEF FetchInv, FitsUnanswered
<1>12. StripInv'
  BY <1>1, <1>9 DEF StripInv
<1> QED  BY <1>10, <1>11, <1>12 DEF BrowserInv

\* An older page.
LEMMA AnswerOlder ==
  ASSUME TableInv, BrowserInv, AnswerFetch("older")
  PROVE  BrowserInv'
<1> DEFINE before == fetch["older"].before
           page == Page(Below(before), PageLimit)
           q == [phase |-> "answered", before |-> before,
                 rows |-> page.rows, more |-> page.more]
<1>1. /\ fetch["older"].phase = "sent" /\ fetch' = [fetch EXCEPT !["older"] = q]
      /\ base' = base /\ UNCHANGED <<blocksVars, strip, hasMore, loading, missed>>
  BY DEF AnswerFetch
<1>2. stored' = stored /\ torn' = torn
  BY <1>1 DEF blocksVars, tableVars
<1>3. /\ stored \in SUBSET Height /\ fetch \in [Fetch -> PageRequest]
      /\ before \in Height /\ base \subseteq stored
  BY BrowserNow, Requests DEF BrowserInv, StripTypes
<1>4. /\ Below(before) \in SUBSET Height /\ \A h \in Below(before) : h < before
      /\ \A h \in base : h < before => h \in Below(before)
  BY <1>3 DEF Below
<1>5. /\ page.rows \in Seq(Height) /\ page.more \in BOOLEAN
      /\ Descends(page.rows) /\ Heights(page.rows) \subseteq Below(before)
      /\ DownTo(page.rows, page.more, Below(before))
  BY <1>4, HeightIsNat, PageHeights
<1>6. q \in PageRequest
  BY <1>3, <1>5 DEF PageRequest
<1>7. /\ q.phase = "answered" /\ q.rows = page.rows /\ q.more = page.more
      /\ q.before = before
  OBVIOUS
<1>8. fetch["older"].phase = "sent" /\ before = Last(strip)
  BY <1>1 DEF BrowserInv, FetchInv, OlderFits
<1> HIDE DEF page, q
<1>9. /\ fetch' \in [Fetch -> PageRequest] /\ fetch'["older"] = q
      /\ \A f \in Fetch \ {"older"} : fetch'[f] = fetch[f]
  BY <1>1, <1>3, <1>6, Requests
<1>10. StripTypes'
  <2>1. /\ strip \in Seq(Height) /\ hasMore \in BOOLEAN /\ loading
        /\ strip # <<>> => fetch["first"].phase = "none" /\ base # {}
        /\ fetch["first"].phase = "answered" => base # {}
        /\ \A f \in Fetch \ {"first"} : fetch[f].phase # "none" => strip # <<>>
    BY <1>1, Requests DEF BrowserInv, StripTypes
  <2>2. strip # <<>>
    BY <1>1, <2>1, Requests
  <2> QED  BY <1>1, <1>2, <1>3, <1>7, <1>9, <2>1, <2>2, Requests DEF StripTypes
<1>11. FetchInv'
  <2>1. OlderFits(fetch["older"])'
    <3>1. DownTo(page.rows, page.more, {h \in base : h < before})
      BY <1>4, <1>5 DEF DownTo
    <3> QED  BY <1>1, <1>4, <1>5, <1>7, <1>8, <1>9, <3>1 DEF OlderFits, DownTo, Last
  <2> QED  BY <1>1, <1>2, <1>9, <2>1, Requests, FitsKept DEF BrowserInv, FetchInv
<1>12. StripInv'
  BY <1>1, <1>2 DEF BrowserInv, StripInv, DownTo
<1> QED  BY <1>10, <1>11, <1>12 DEF BrowserInv

\* A poll is answered with the newest blocks, and they are without a gap.
LEMMA AnswerPoll ==
  ASSUME TableInv, WindowInv, BrowserInv, NEW p \in Poll, AnswerFetch(p)
  PROVE  BrowserInv'
<1> DEFINE page == Page(stored, TipLimit)
           q == [phase |-> "answered", before |-> fetch[p].before,
                 rows |-> page.rows, more |-> page.more]
           M == Max(stored)
<1>0. p \in Fetch /\ p # "first" /\ p # "older"
  BY Requests
<1>1. /\ fetch[p].phase = "sent" /\ fetch' = [fetch EXCEPT ![p] = q]
      /\ base' = base /\ UNCHANGED <<blocksVars, strip, hasMore, loading, missed>>
  BY <1>0 DEF AnswerFetch
<1>2. stored' = stored /\ torn' = torn
  BY <1>1 DEF blocksVars, tableVars
<1>3. /\ stored \in SUBSET Height /\ stored # {} /\ fetch \in [Fetch -> PageRequest]
      /\ fetch[p].before \in Height /\ base \subseteq stored
  BY <1>0, BrowserNow DEF BrowserInv, StripTypes
<1>4. /\ page.rows \in Seq(Height) /\ page.more \in BOOLEAN
      /\ Descends(page.rows) /\ Heights(page.rows) \subseteq stored
      /\ \A h \in stored : h \in Heights(page.rows) <=> AboveIn(stored, h) < TipLimit
      /\ page.rows # <<>> /\ page.rows[1] = M
  BY <1>3, HeightIsNat, PageHeights
<1>5. q \in PageRequest
  BY <1>3, <1>4 DEF PageRequest
<1>6. /\ q.phase = "answered" /\ q.rows = page.rows /\ q.more = page.more
  OBVIOUS
<1>7. M \in Nat /\ M \in stored /\ \A k \in stored : k <= M
  BY <1>3, Highest
<1>8. strip # <<>> /\ base # {} /\ Max(base) \in Nat /\ Max(base) <= M
  <2>1. strip # <<>> /\ base # {}
    BY <1>0, <1>1 DEF BrowserInv, StripTypes
  <2> QED  BY <2>1, BrowserNow DEF MaxStored
<1> HIDE DEF page, q, M
<1>9. ASSUME ~torn, NEW h \in Height
      PROVE  h \in Heights(page.rows) <=> h <= M /\ h > M - TipLimit
  <2>1. \A k \in Height : k <= M /\ k > M - Window => k \in stored
    BY <1>9 DEF WindowInv, MaxStored, NewestWindow, M
  <2>2. h \in Nat /\ TipLimit \in Nat \ {0} /\ TipLimit <= Window /\ Window \in Nat
    BY HeightIsNat
  <2>3. ASSUME h <= M, h > M - TipLimit
        PROVE  h \in Heights(page.rows)
    <3>1. h \in stored
      BY <1>7, <2>1, <2>2, <2>3
    <3>2. AboveIn(stored, h) <= M - h
      BY <1>3, <1>7, <2>2, <2>3, FewAbove
    <3>3. AboveIn(stored, h) \in Nat
      BY <1>3, AboveType
    <3>4. AboveIn(stored, h) < TipLimit
      BY <1>7, <2>2, <2>3, <3>2, <3>3
    <3> QED  BY <1>4, <3>1, <3>4
  <2>4. ASSUME h \in Heights(page.rows)
        PROVE  h <= M /\ h > M - TipLimit
    <3>1. h \in stored /\ AboveIn(stored, h) < TipLimit /\ h <= M
      BY <1>4, <1>7, <2>4
    <3> SUFFICES ASSUME h <= M - TipLimit PROVE FALSE
      BY <1>7, <2>2, <3>1
    <3>2. ASSUME NEW k \in Nat, k <= M, k > M - TipLimit
          PROVE  k \in stored
      <4>1. M \in Height
        BY <1>3, <1>7
      <4>2. k \in Height
        BY <1>7, <3>2, <4>1, ReadsAssumption DEF Height
      <4> QED  BY <1>7, <2>1, <2>2, <3>2, <4>2
    <3>3. AboveIn(stored, h) >= TipLimit
      BY <1>3, <1>7, <2>2, <3>2, ManyAbove
    <3>4. AboveIn(stored, h) \in Nat
      BY <1>3, AboveType
    <3> QED  BY <2>2, <3>1, <3>3, <3>4
  <2> QED  BY <2>3, <2>4
<1>10. /\ fetch' \in [Fetch -> PageRequest] /\ fetch'[p] = q
       /\ \A f \in Fetch \ {p} : fetch'[f] = fetch[f]
  BY <1>0, <1>1, <1>3, <1>5
<1>11. StripTypes'
  <2>1. /\ strip \in Seq(Height) /\ hasMore \in BOOLEAN /\ loading \in BOOLEAN
        /\ (loading <=> fetch["older"].phase # "none")
        /\ fetch["first"].phase = "none"
    BY <1>8 DEF BrowserInv, StripTypes
  <2>2. fetch'["older"] = fetch["older"] /\ fetch'["first"] = fetch["first"]
    BY <1>0, <1>10, Requests
  <2> QED  BY <1>1, <1>2, <1>3, <1>8, <1>10, <2>1, <2>2 DEF StripTypes
<1>12. FetchInv'
  <2>1. PollFits(fetch[p])'
    <3>1. ~torn => Heights(page.rows) = {h \in Height : h <= M /\ h > M - TipLimit}
      <4> SUFFICES ASSUME ~torn
                   PROVE  Heights(page.rows) = {h \in Height : h <= M /\ h > M - TipLimit}
        OBVIOUS
      <4>1. Heights(page.rows) \subseteq Height
        BY <1>3, <1>4
      <4> QED  BY <1>9, <4>1
    <3>2. Descends(fetch[p].rows)'
      BY <1>4, <1>6, <1>10 DEF Descends
    <3>3. Heights(fetch[p].rows)' = Heights(page.rows)
      BY <1>6, <1>10 DEF Heights
    <3>4. fetch'[p].rows # <<>> /\ fetch'[p].rows[1] = M /\ M >= Max(base')
      BY <1>1, <1>4, <1>6, <1>7, <1>8, <1>10
    <3> QED  BY <1>2, <3>1, <3>2, <3>3, <3>4 DEF PollFits
  <2>2. /\ FirstFits(fetch["first"])' /\ OlderFits(fetch["older"])'
        /\ \A r \in Poll \ {p} : PollFits(fetch[r])'
    <3>1. fetch'["older"] = fetch["older"] /\ fetch'["first"] = fetch["first"]
      BY <1>0, <1>10, Requests
    <3>2. Last(strip)' = Last(strip)
      BY <1>1 DEF Last
    <3>3. \A r \in Poll \ {p} : fetch'[r] = fetch[r]
      BY <1>10, Requests
    <3> QED  BY <1>1, <1>2, <3>1, <3>2, <3>3, FitsKept DEF BrowserInv
  <2> QED  BY <2>1, <2>2 DEF FetchInv
<1>13. StripInv'
  BY <1>1, <1>2 DEF BrowserInv, StripInv, DownTo
<1> QED  BY <1>11, <1>12, <1>13 DEF BrowserInv

\* An answer is lost.
LEMMA LoseAny ==
  ASSUME TableInv, BrowserInv, NEW f \in Fetch, LoseFetch(f)
  PROVE  BrowserInv'
<1>1. /\ fetch[f].phase = "answered" /\ fetch' = [fetch EXCEPT ![f] = Idle]
      /\ loading' = (loading /\ f # "older")
      /\ UNCHANGED <<blocksVars, strip, hasMore, base, missed>>
  BY DEF LoseFetch, LoadingAfter
<1>2. stored' = stored /\ torn' = torn
  BY <1>1 DEF blocksVars, tableVars
<1>3. /\ fetch' \in [Fetch -> PageRequest] /\ fetch'[f].phase = "none"
      /\ \A g \in Fetch \ {f} : fetch'[g] = fetch[g]
  BY <1>1, Requests, BrowserNow
<1>4. StripTypes'
  <2>1. \A g \in Fetch : fetch'[g].phase = "none" \/ fetch'[g] = fetch[g]
    BY <1>3
  <2>2. loading' \in BOOLEAN /\ (loading' <=> fetch'["older"].phase # "none")
    <3>1. loading \in BOOLEAN /\ (loading <=> fetch["older"].phase # "none")
      BY DEF BrowserInv, StripTypes
    <3>2. CASE f = "older"
      BY <1>1, <1>3, <3>2
    <3>3. CASE f # "older"
      BY <1>1, <1>3, <3>1, <3>3, Requests
    <3> QED  BY <3>2, <3>3
  <2>3. /\ strip \in Seq(Height) /\ hasMore \in BOOLEAN /\ base \subseteq stored
        /\ strip # <<>> => fetch["first"].phase = "none" /\ base # {}
        /\ fetch["first"].phase = "answered" => base # {}
        /\ \A g \in Fetch \ {"first"} : fetch[g].phase # "none" => strip # <<>>
    BY DEF BrowserInv, StripTypes
  <2> QED  BY <1>1, <1>2, <1>3, <2>1, <2>2, <2>3, Requests DEF StripTypes
<1>5. FetchInv'
  <2>1. Last(strip)' = Last(strip)
    BY <1>1 DEF Last
  <2>2. FirstFits(fetch["first"])'
    BY <1>1, <1>2, <1>3, Requests, FitsKept, UnansweredFitsLater DEF BrowserInv, FitsUnanswered
  <2>3. OlderFits(fetch["older"])'
    BY <1>1, <1>2, <1>3, <2>1, Requests, FitsKept, UnansweredFitsLater
       DEF BrowserInv, FitsUnanswered
  <2>4. \A p \in Poll : PollFits(fetch[p])'
    BY <1>1, <1>2, <1>3, Requests, FitsKept, UnansweredFitsLater DEF BrowserInv, FitsUnanswered
  <2> QED  BY <2>2, <2>3, <2>4 DEF FetchInv
<1>6. StripInv'
  BY <1>1, <1>2 DEF BrowserInv, StripInv, DownTo
<1> QED  BY <1>4, <1>5, <1>6 DEF BrowserInv

LEMMA SendPollKeeps ==
  ASSUME TableInv, BrowserInv, NEW p \in Poll, SendPoll(p)
  PROVE  BrowserInv'
<1> DEFINE q == [fetch[p] EXCEPT !.phase = "sent"]
<1>0. p \in Fetch /\ p # "first" /\ p # "older"
  BY Requests
<1>1. /\ fetch[p] = Idle /\ strip # <<>> /\ fetch' = [fetch EXCEPT ![p] = q]
      /\ UNCHANGED <<blocksVars, strip, hasMore, loading, base, missed>>
  BY DEF SendPoll
<1>2. stored' = stored /\ torn' = torn
  BY <1>1 DEF blocksVars, tableVars
<1>3. q \in PageRequest /\ q.phase = "sent"
  BY <1>0, BrowserNow DEF PageRequest
<1> HIDE DEF q
<1>4. /\ fetch' \in [Fetch -> PageRequest] /\ fetch'[p] = q
      /\ \A f \in Fetch \ {p} : fetch'[f] = fetch[f]
  BY <1>0, <1>1, <1>3, BrowserNow
<1>5. fetch'["older"] = fetch["older"] /\ fetch'["first"] = fetch["first"]
  BY <1>0, <1>4, Requests
<1>6. StripTypes'
  <2>1. /\ strip \in Seq(Height) /\ hasMore \in BOOLEAN /\ base \subseteq stored
        /\ loading \in BOOLEAN /\ (loading <=> fetch["older"].phase # "none")
        /\ strip # <<>> => fetch["first"].phase = "none" /\ base # {}
    BY DEF BrowserInv, StripTypes
  <2> QED  BY <1>1, <1>2, <1>4, <1>5, <2>1 DEF StripTypes
<1>7. FetchInv'
  <2>1. Last(strip)' = Last(strip)
    BY <1>1 DEF Last
  <2>2. \A r \in Poll : PollFits(fetch[r])'
    BY <1>1, <1>2, <1>3, <1>4, Requests, FitsKept, UnansweredFitsLater
       DEF BrowserInv, FitsUnanswered
  <2> QED  BY <1>1, <1>2, <1>5, <2>1, <2>2, FitsKept DEF BrowserInv, FetchInv
<1>8. StripInv'
  BY <1>1, <1>2 DEF BrowserInv, StripInv, DownTo
<1> QED  BY <1>6, <1>7, <1>8 DEF BrowserInv

LEMMA ScrollKeeps ==
  ASSUME TableInv, BrowserInv, Scroll
  PROVE  BrowserInv'
<1> DEFINE q == [fetch["older"] EXCEPT !.phase = "sent", !.before = strip[Len(strip)]]
<1>1. /\ ~loading /\ strip # <<>> /\ loading' = TRUE
      /\ fetch' = [fetch EXCEPT !["older"] = q]
      /\ UNCHANGED <<blocksVars, strip, hasMore, base, missed>>
  <2>1. fetch' = [fetch EXCEPT !["older"].phase = "sent",
                               !["older"].before = strip[Len(strip)]]
    BY DEF Scroll
  <2>2. fetch' = [fetch EXCEPT !["older"] = q]
    BY <2>1, BrowserNow, Requests
  <2> QED  BY <2>2 DEF Scroll
<1>2. stored' = stored /\ torn' = torn
  BY <1>1 DEF blocksVars, tableVars
<1>3. q \in PageRequest /\ q.phase = "sent" /\ q.before = Last(strip)
  <2>1. strip \in Seq(Height)
    BY DEF BrowserInv, StripTypes
  <2>2. strip[Len(strip)] \in Height
    BY <1>1, <2>1, EndsOf
  <2> QED  BY <2>2, BrowserNow, Requests DEF PageRequest, Last
<1> HIDE DEF q
<1>4. /\ fetch' \in [Fetch -> PageRequest] /\ fetch'["older"] = q
      /\ \A f \in Fetch \ {"older"} : fetch'[f] = fetch[f]
  BY <1>1, <1>3, BrowserNow, Requests
<1>5. StripTypes'
  <2>1. /\ strip \in Seq(Height) /\ hasMore \in BOOLEAN /\ base \subseteq stored
        /\ strip # <<>> => fetch["first"].phase = "none" /\ base # {}
    BY DEF BrowserInv, StripTypes
  <2> QED  BY <1>1, <1>2, <1>3, <1>4, <2>1, Requests DEF StripTypes
<1>6. FetchInv'
  <2>1. OlderFits(fetch["older"])'
    BY <1>1, <1>3, <1>4 DEF OlderFits, Last
  <2> QED  BY <1>1, <1>2, <1>4, <2>1, Requests, FitsKept DEF BrowserInv, FetchInv
<1>7. StripInv'
  BY <1>1, <1>2 DEF BrowserInv, StripInv, DownTo
<1> QED  BY <1>5, <1>6, <1>7 DEF BrowserInv

\* The strip is what the first page says.
LEMMA ReceiveFirstKeeps ==
  ASSUME TableInv, BrowserInv, ReceiveFirst
  PROVE  BrowserInv'
<1> DEFINE rows == fetch["first"].rows
<1>1. /\ fetch["first"].phase = "answered" /\ strip' = rows
      /\ hasMore' = fetch["first"].more /\ fetch' = [fetch EXCEPT !["first"] = Idle]
      /\ UNCHANGED <<blocksVars, loading, base, missed>>
  BY DEF ReceiveFirst
<1>2. stored' = stored /\ torn' = torn
  BY <1>1 DEF blocksVars, tableVars
<1>3. /\ fetch' \in [Fetch -> PageRequest] /\ fetch'["first"].phase = "none"
      /\ \A f \in Fetch \ {"first"} : fetch'[f] = fetch[f]
  BY <1>1, Requests, BrowserNow
<1>4. /\ strip = <<>> /\ base # {} /\ base \subseteq stored
      /\ \A f \in Fetch \ {"first"} : fetch[f].phase = "none"
  BY <1>1 DEF BrowserInv, StripTypes
<1>5. /\ rows \in Seq(Height) /\ fetch["first"].more \in BOOLEAN
      /\ base \in SUBSET Height /\ Max(base) \in Nat
  BY <1>4, Requests, BrowserNow
<1>6. /\ rows # <<>> /\ Descends(rows) /\ rows[1] = Max(base)
      /\ DownTo(rows, fetch["first"].more, base)
      /\ ~torn => NewestWindow(Max(base)) \subseteq Heights(rows)
  BY <1>1 DEF BrowserInv, FetchInv, FirstFits
<1>7. \A f \in Fetch : fetch'[f].phase = "none"
  BY <1>3, <1>4
<1>8. StripTypes'
  <2>1. loading \in BOOLEAN /\ (loading <=> fetch["older"].phase # "none")
    BY DEF BrowserInv, StripTypes
  <2> QED  BY <1>1, <1>2, <1>3, <1>4, <1>5, <1>7, <2>1, Requests DEF StripTypes
<1>9. FetchInv'
  BY <1>7, Requests, UnansweredFitsLater DEF FetchInv, FitsUnanswered
<1> HIDE DEF rows
<1>10. StripInv'
  <2>1. Descends(strip)'
    BY <1>1, <1>6 DEF Descends
  <2>2. DownTo(strip, hasMore, base)'
    BY <1>1, <1>6 DEF DownTo, Last
  <2>3. ~torn => (NewestWindow(Max(base)) \subseteq Heights(strip))'
    BY <1>1, <1>6 DEF NewestWindow, Heights
  <2>4. strip'[1] = Max(base) /\ base' = base
    BY <1>1, <1>6
  <2>5. {h \in Height : h > Max(base') /\ h <= strip'[1]} = {}
    BY <1>5, <2>4, HeightIsNat
  <2> QED  BY <1>2, <1>5, <2>1, <2>2, <2>3, <2>4, <2>5 DEF StripInv
<1> QED  BY <1>8, <1>9, <1>10 DEF BrowserInv

\* The older page continues the strip.
LEMMA ReceiveOlderKeeps ==
  ASSUME TableInv, BrowserInv, ReceiveOlder
  PROVE  BrowserInv'
<1> DEFINE q == fetch["older"]
           rows == q.rows
<1>1. /\ q.phase = "answered" /\ strip' = strip \o rows
      /\ hasMore' = q.more /\ loading' = FALSE
      /\ fetch' = [fetch EXCEPT !["older"] = Idle]
      /\ UNCHANGED <<blocksVars, base, missed>>
  BY DEF ReceiveOlder
<1>2. stored' = stored /\ torn' = torn
  BY <1>1 DEF blocksVars, tableVars
<1>3. /\ fetch' \in [Fetch -> PageRequest] /\ fetch'["older"].phase = "none"
      /\ \A f \in Fetch \ {"older"} : fetch'[f] = fetch[f]
  BY <1>1, Requests, BrowserNow
<1>4. /\ strip # <<>> /\ strip \in Seq(Height) /\ base \subseteq stored
      /\ fetch["first"].phase = "none" /\ base # {}
  BY <1>1, Requests DEF BrowserInv, StripTypes
<1>5. /\ rows \in Seq(Height) /\ q.more \in BOOLEAN
      /\ base \in SUBSET Height /\ Max(base) \in Nat
  BY <1>4, Requests, BrowserNow
<1>6. /\ q.before = Last(strip) /\ Descends(rows) /\ \A h \in Heights(rows) : h < Last(strip)
      /\ DownTo(rows, q.more, {h \in base : h < Last(strip)})
  BY <1>1 DEF BrowserInv, FetchInv, OlderFits
<1>7. /\ strip' \in Seq(Height) /\ Heights(strip') = Heights(strip) \cup Heights(rows)
      /\ strip' # <<>> /\ strip'[1] = strip[1]
      /\ rows # <<>> => Last(strip') = Last(rows)
      /\ rows = <<>> => strip' = strip
  BY <1>1, <1>4, <1>5, Joined
<1>8. StripTypes'
  <2>1. fetch'["first"] = fetch["first"]
    BY <1>3, Requests
  <2> QED  BY <1>1, <1>2, <1>3, <1>4, <1>5, <1>7, <2>1 DEF StripTypes
<1>9. FetchInv'
  BY <1>1, <1>2, <1>3, Requests, FitsKept, UnansweredFitsLater
     DEF BrowserInv, FetchInv, FitsUnanswered
<1>10. StripInv'
  <2> SUFFICES ASSUME ~missed, ~torn
               PROVE  /\ Descends(strip') /\ strip'[1] >= Max(base)
                      /\ DownTo(strip', hasMore', base)
                      /\ NewestWindow(Max(base)) \subseteq Heights(strip')
                      /\ {h \in Height : h > Max(base) /\ h <= strip'[1]} \subseteq Heights(strip')
    BY <1>1, <1>2 DEF StripInv, NewestWindow, Heights, DownTo, Last, Descends
  <2>1. /\ Descends(strip) /\ strip[1] >= Max(base) /\ DownTo(strip, hasMore, base)
        /\ NewestWindow(Max(base)) \subseteq Heights(strip)
        /\ {h \in Height : h > Max(base) /\ h <= strip[1]} \subseteq Heights(strip)
    BY <1>4 DEF BrowserInv, StripInv
  <2>2. \A h \in Heights(strip) : h >= Last(strip)
    BY <1>4, <2>1, EndsOf
  <2>3. Descends(strip')
    <3>1. \A h \in Heights(strip) : h \in Nat
      BY <1>4, LenProperties, HeightIsNat DEF Heights
    <3>2. \A h \in Heights(rows) : h \in Nat
      BY <1>5, LenProperties, HeightIsNat DEF Heights
    <3>3. Last(strip) \in Nat
      BY <1>4, EndsOf, HeightIsNat
    <3>4. \A x \in Heights(strip), y \in Heights(rows) : x > y
      BY <1>6, <2>2, <3>1, <3>2, <3>3
    <3> QED  BY <1>1, <1>4, <1>5, <1>6, <2>1, <3>4, Joined
  <2>4. ASSUME NEW h \in base, h >= Last(strip') \/ ~hasMore'
        PROVE  h \in Heights(strip')
    <3>1. CASE h >= Last(strip)
      BY <1>7, <2>1, <3>1 DEF DownTo
    <3>2. CASE ~(h >= Last(strip))
      <4>1. h \in Nat /\ Last(strip) \in Nat
        BY <1>4, <1>5, EndsOf, HeightIsNat
      <4>2. h \in {k \in base : k < Last(strip)}
        BY <3>2, <4>1
      <4>3. rows = <<>> \/ h >= Last(rows) \/ ~q.more
        BY <1>1, <1>7, <2>4
      <4>4. h \in Heights(rows)
        BY <1>6, <4>2, <4>3 DEF DownTo
      <4> QED  BY <1>7, <4>4
    <3> QED  BY <3>1, <3>2
  <2>5. DownTo(strip', hasMore', base)
    BY <1>7, <2>4 DEF DownTo
  <2> QED  BY <1>7, <2>1, <2>3, <2>5
<1> QED  BY <1>8, <1>9, <1>10 DEF BrowserInv

\* A poll's answer adds the blocks above the strip, without a gap unless it says
\* that it missed some.
LEMMA ReceivePollKeeps ==
  ASSUME TableInv, BrowserInv, NEW p \in Poll, ReceivePoll(p)
  PROVE  BrowserInv'
<1> DEFINE rows == fetch[p].rows
           new == Fresh(rows)
           B == Max(base)
           s == strip[1]
           r == rows[1]
<1>0. p \in Fetch /\ p # "first" /\ p # "older"
  BY Requests
<1>1. /\ fetch[p].phase = "answered" /\ strip' = new \o strip
      /\ missed' = (missed \/ \A h \in Heights(rows) : h > s + 1)
      /\ fetch' = [fetch EXCEPT ![p] = Idle]
      /\ UNCHANGED <<blocksVars, hasMore, loading, base>>
  BY DEF ReceivePoll
<1>2. stored' = stored /\ torn' = torn
  BY <1>1 DEF blocksVars, tableVars
<1>3. /\ fetch' \in [Fetch -> PageRequest] /\ fetch'[p].phase = "none"
      /\ \A f \in Fetch \ {p} : fetch'[f] = fetch[f]
  BY <1>0, <1>1, Requests, BrowserNow
<1>4. /\ strip # <<>> /\ strip \in Seq(Height) /\ base \subseteq stored
      /\ fetch["first"].phase = "none" /\ base # {}
  BY <1>0, <1>1 DEF BrowserInv, StripTypes
<1>5. rows \in Seq(Height) /\ base \in SUBSET Height /\ B \in Nat
  BY <1>0, <1>4, BrowserNow
<1>6. new \in Seq(Height)
  BY <1>5, FreshInSeq
<1> HIDE DEF rows, new
<1>7. /\ strip' \in Seq(Height) /\ Heights(strip') = Heights(new) \cup Heights(strip)
      /\ strip' # <<>> /\ Last(strip') = Last(strip)
      /\ new # <<>> => strip'[1] = new[1]
      /\ new = <<>> => strip' = strip
  BY <1>1, <1>4, <1>6, Joined
<1>8. StripTypes'
  <2>1. fetch'["first"] = fetch["first"] /\ fetch'["older"] = fetch["older"]
    BY <1>0, <1>3, Requests
  <2>2. /\ hasMore \in BOOLEAN /\ loading \in BOOLEAN
        /\ (loading <=> fetch["older"].phase # "none")
    BY DEF BrowserInv, StripTypes
  <2> QED  BY <1>1, <1>2, <1>3, <1>4, <1>7, <2>1, <2>2 DEF StripTypes
<1>9. FetchInv'
  <2>1. Last(strip)' = Last(strip)
    BY <1>7 DEF Last
  <2>2. \A f \in Poll : PollFits(fetch[f])'
    BY <1>1, <1>2, <1>3, Requests, FitsKept, UnansweredFitsLater
       DEF BrowserInv, FitsUnanswered
  <2>3. fetch'["first"] = fetch["first"] /\ fetch'["older"] = fetch["older"]
    BY <1>0, <1>3, Requests
  <2> QED  BY <1>1, <1>2, <2>1, <2>2, <2>3, FitsKept DEF BrowserInv, FetchInv
<1>10. StripInv'
  <2> SUFFICES ASSUME ~missed', ~torn
               PROVE  /\ Descends(strip') /\ strip'[1] >= B
                      /\ DownTo(strip', hasMore', base)
                      /\ NewestWindow(B) \subseteq Heights(strip')
                      /\ {h \in Height : h > B /\ h <= strip'[1]} \subseteq Heights(strip')
    BY <1>1, <1>2 DEF StripInv, NewestWindow, Heights, DownTo, Last, Descends
  <2>1. ~missed /\ \E h \in Heights(rows) : ~(h > s + 1)
    BY <1>1
  <2>2. /\ Descends(strip) /\ s >= B /\ DownTo(strip, hasMore, base)
        /\ NewestWindow(B) \subseteq Heights(strip)
        /\ {h \in Height : h > B /\ h <= s} \subseteq Heights(strip)
    BY <1>4, <2>1 DEF BrowserInv, StripInv
  <2>3. /\ rows # <<>> /\ Descends(rows) /\ r >= B
        /\ Heights(rows) = {h \in Height : h <= r /\ h > r - TipLimit}
    BY <1>1 DEF BrowserInv, FetchInv, PollFits, rows
  <2>4. /\ s \in Nat /\ \A h \in Heights(strip) : h <= s
    BY <1>4, <2>2, EndsOf, HeightIsNat
  <2>5. r \in Nat /\ Len(rows) \in Nat /\ Len(rows) > 0 /\ DOMAIN rows = 1..Len(rows)
    BY <1>5, <2>3, EndsOf, HeightIsNat
  <2> HIDE DEF B, s, r
  <2>6. ASSUME NEW h \in Heights(rows)
        PROVE  h \in Heights(strip) <=> h <= s
    <3>1. h \in Height /\ h \in Nat /\ h > r - TipLimit
      BY <2>3, HeightIsNat
    <3>2. h > B - Window
      BY <1>5, <2>3, <2>5, <3>1, HeightIsNat
    <3>3. ASSUME h <= s PROVE h \in Heights(strip)
      <4>1. CASE h <= B
        BY <2>2, <3>1, <3>2, <4>1 DEF NewestWindow
      <4>2. CASE ~(h <= B)
        BY <1>5, <2>2, <3>1, <3>3, <4>2
      <4> QED  BY <4>1, <4>2
    <3> QED  BY <2>4, <3>3
  <2>7. /\ Len(new) \in Nat /\ Len(new) <= Len(rows)
        /\ \A j \in 1..Len(new) : new[j] = rows[j]
        /\ \A i \in 1..Len(rows) : i <= Len(new) <=> rows[i] > s
    BY <1>5, <2>3, <2>4, <2>6, FreshPrefix DEF new
  <2>8. DOMAIN new = 1..Len(new) /\ (new = <<>> <=> Len(new) = 0)
    BY <1>6, EmptySeq, LenProperties
  <2>9. \A j \in 1..Len(new) : j \in 1..Len(rows) /\ new[j] = rows[j] /\ new[j] > s
    BY <2>5, <2>7
  <2>10. \A h \in Heights(new) : h > s
    BY <2>8, <2>9 DEF Heights
  <2>11. ASSUME NEW h \in Height, s < h, h <= r
         PROVE  h \in Heights(new)
    <3>1. PICK k \in Heights(rows) : ~(k > s + 1)
      BY <2>1
    <3>2. k \in Nat /\ k > r - TipLimit /\ k <= s + 1 /\ h \in Nat
      BY <2>3, <2>4, <3>1, HeightIsNat
    <3>3. h > r - TipLimit
      BY <2>4, <2>5, <2>11, <3>2, HeightIsNat
    <3>4. h \in Heights(rows)
      BY <2>3, <2>11, <3>3
    <3>5. PICK i \in 1..Len(rows) : rows[i] = h
      BY <2>5, <3>4 DEF Heights
    <3>6. i <= Len(new)
      BY <2>7, <2>11, <3>2, <3>5, <2>4
    <3>7. i \in 1..Len(new)
      BY <2>5, <2>7, <3>6
    <3> QED  BY <2>8, <2>9, <3>5, <3>7 DEF Heights
  <2>12. Descends(strip')
    <3>1. Descends(new)
      <4> SUFFICES ASSUME NEW i \in 1..Len(new), NEW j \in 1..Len(new), i < j
                   PROVE  new[i] > new[j]
        BY <2>8 DEF Descends
      <4>1. rows[i] > rows[j]
        BY <2>3, <2>5, <2>9 DEF Descends
      <4> QED  BY <2>9, <4>1
    <3>2. \A x \in Heights(new), y \in Heights(strip) : x > y
      <4>1. \A x \in Heights(new) : x \in Nat
        BY <1>6, LenProperties, HeightIsNat DEF Heights
      <4>2. \A y \in Heights(strip) : y \in Nat
        BY <1>4, LenProperties, HeightIsNat DEF Heights
      <4> QED  BY <2>4, <2>10, <4>1, <4>2
    <3> QED  BY <1>1, <1>4, <1>6, <2>2, <3>1, <3>2, Joined
  <2>13. DownTo(strip', hasMore', base)
    BY <1>1, <1>4, <1>7, <2>2 DEF DownTo
  <2>14. strip'[1] = s \/ (strip'[1] = r /\ r > s)
    <3>1. CASE new = <<>>
      BY <1>7, <3>1 DEF s
    <3>2. CASE new # <<>>
      <4>1. 1 \in 1..Len(new)
        BY <2>7, <2>8, <3>2
      <4>2. new[1] = r /\ new[1] > s
        BY <2>9, <4>1 DEF r
      <4> QED  BY <1>7, <3>2, <4>2
    <3> QED  BY <3>1, <3>2
  <2>15. strip'[1] >= B
    BY <1>5, <2>2, <2>3, <2>14
  <2>16. ASSUME NEW h \in Height, h > B, h <= strip'[1]
         PROVE  h \in Heights(strip')
    <3>1. h \in Nat
      BY HeightIsNat
    <3>2. CASE h <= s
      BY <1>7, <2>2, <2>16, <3>2
    <3>3. CASE ~(h <= s)
      <4>1. s < h /\ h <= r
        BY <2>4, <2>14, <2>16, <3>1, <3>3
      <4> QED  BY <1>7, <2>11, <4>1
    <3> QED  BY <3>2, <3>3
  <2>17. NewestWindow(B) \subseteq Heights(strip')
    BY <1>7, <2>2
  <2> QED  BY <2>12, <2>13, <2>15, <2>16, <2>17
<1> QED  BY <1>8, <1>9, <1>10 DEF BrowserInv

-----------------------------------------------------------------------------

LEMMA BrowserStep ==
  TableInv /\ TalliesInv /\ WindowInv /\ BrowserInv /\ BlocksStep => BrowserInv'
<1> SUFFICES ASSUME TableInv, TalliesInv, WindowInv, BrowserInv, BlocksStep
             PROVE  BrowserInv'
  OBVIOUS
<1>1. stored \subseteq stored' /\ (torn => torn')
  BY TableStep, WindowStep
<1>2. CASE UNCHANGED stripVars
  BY <1>1, <1>2, BrowserRests
<1>3. CASE StripReads
  <2>1. ASSUME NEW f \in Fetch, AnswerFetch(f) PROVE BrowserInv'
    BY <2>1, Requests, AnswerFirst, AnswerOlder, AnswerPoll
  <2>2. ASSUME NEW f \in Fetch, LoseFetch(f) PROVE BrowserInv'
    BY <2>2, LoseAny
  <2>3. ASSUME NEW p \in Poll, SendPoll(p) PROVE BrowserInv'
    BY <2>3, SendPollKeeps
  <2>4. ASSUME NEW p \in Poll, ReceivePoll(p) PROVE BrowserInv'
    BY <2>4, ReceivePollKeeps
  <2> QED
    BY <1>3, <2>1, <2>2, <2>3, <2>4, ReceiveFirstKeeps, ReceiveOlderKeeps, ScrollKeeps
       DEF StripReads, ReceiveStep
<1>4. StripReads \/ UNCHANGED stripVars
  BY DEF BlocksStep, NewBlock, StoreStep, StoreWindow, StoreMissing, RefreshStep,
         ScanPeriod, RefreshWindow, BackfillBlock, WriteSnapshot, Restart, PeriodReads,
         ReadPeriod, ReadList, ReadTally, ReadStatsPeriod, NextFigures, Figure,
         blockVars, stripVars
<1> QED  BY <1>2, <1>3, <1>4

LEMMA BrowserExact == TableInv /\ BrowserInv => StripExact
<1> SUFFICES ASSUME TableInv, BrowserInv PROVE StripExact
  OBVIOUS
<1>1. loading => fetch["older"] # Idle
  BY Requests DEF BrowserInv, StripTypes
<1>2. ASSUME ~missed, ~torn, strip # <<>>
      PROVE  /\ \A i \in 1..(Len(strip) - 1) : strip[i] > strip[i + 1]
             /\ \A h \in base : h >= strip[Len(strip)] \/ ~hasMore => h \in Heights(strip)
             /\ \A h \in stored : h > Max(base) /\ h <= strip[1] => h \in Heights(strip)
  <2>1. /\ Descends(strip) /\ DownTo(strip, hasMore, base)
        /\ {h \in Height : h > Max(base) /\ h <= strip[1]} \subseteq Heights(strip)
    BY <1>2 DEF BrowserInv, StripInv
  <2>2. strip \in Seq(Height) /\ stored \in SUBSET Height
    BY BrowserNow DEF BrowserInv, StripTypes
  <2>3. Len(strip) \in Nat /\ DOMAIN strip = 1..Len(strip)
    BY <2>2, LenProperties
  <2>4. ASSUME NEW i \in 1..(Len(strip) - 1)
        PROVE  strip[i] > strip[i + 1]
    <3>1. i \in 1..Len(strip) /\ i + 1 \in 1..Len(strip) /\ i < i + 1
      BY <2>3
    <3> QED  BY <2>1, <2>3, <3>1 DEF Descends
  <2>5. \A h \in base : h >= strip[Len(strip)] \/ ~hasMore => h \in Heights(strip)
    BY <2>1 DEF DownTo, Last
  <2>6. \A h \in stored : h > Max(base) /\ h <= strip[1] => h \in Heights(strip)
    BY <2>1, <2>2
  <2> QED  BY <2>4, <2>5, <2>6
<1> QED  BY <1>1, <1>2 DEF StripExact

-----------------------------------------------------------------------------
(* Theorems.                                                                *)

\* The counts of one response never contradict each other by more than the rows
\* that snapshots changed while it was read, whatever the number of crawlers
\* writing and wherever in its statements their commits fall (db.rs's read_stats,
\* read_ticker, read_report).
THEOREM FiguresNearlyAddUp == Spec => []FiguresDrift
<1>1. FiguresInv => FiguresDrift
  BY AnsweredDrift DEF FiguresInv
<1> QED
  BY <1>1, FiguresAlways, PTL

\* What the dashboard shows under the stamp of the newest snapshot is that
\* snapshot, for any number of polls that overlap, fail, get lost or overtake
\* each other, and stamps committed in any order (pollOnce in dashboard.js); its
\* total, unless that count failed, is off by no more than the rows changed while
\* the report was read.
THEOREM NewestStampNewestReport == Spec => []DashboardExact
<1>1. FiguresInv => DashboardExact
  BY DEF FiguresInv, ReportInv
<1> QED
  BY <1>1, FiguresAlways, PTL

\* The pages of the nodes table list every matching row once and in the order
\* asked for, however many rows tie on the column and wherever a page ends: the
\* sort is stable and a descending order its reverse (db.rs's read_nodes).
THEOREM PagesListEachRowOnce == Spec => []PagesExact
<1>1. FiguresInv => PagesExact
  <2> SUFFICES ASSUME FiguresInv, Answered("nodes"), NEW desc \in BOOLEAN
               PROVE  request["nodes"].read.rows \in SUBSET Node
    BY AllPages DEF PagesExact
  <2>1. "nodes" \in Request /\ Program("nodes") = <<"rows">> /\ ShapeInv
    BY Programs DEF Request, FiguresInv
  <2>2. DOMAIN request["nodes"].read = {Program("nodes")[i] : i \in 1..Len(Program("nodes"))}
    BY <2>1, NextInOrder DEF Answered, ShapeInv
  <2>3. "rows" \in DOMAIN request["nodes"].read
    BY <2>1, <2>2
  <2>4. request["nodes"].read["rows"] \in FigureType("rows")
    BY <2>1, <2>3 DEF ShapeInv, ReadTypes
  <2> QED
    BY <2>4 DEF FigureType
<1> QED
  BY <1>1, FiguresAlways, PTL

\* The histogram of /stats counts every measured latency once, in the band it
\* lies in, leaves out empty bands, and its median has no more than half of the
\* measurements on either side, for any edges that increase (node.rs's
\* latency_histogram).
THEOREM HistogramIsExact == Spec => []HistogramExact
<1>1. ASSUME FiguresInv, Answered("stats")
      PROVE  LET S == request["stats"].read.samples
             IN  IsFiniteSet(S) /\ [n \in S |-> Latency[n]] \in [S -> Nat]
  <2>1. "stats" \in Request /\ ShapeInv
        /\ Program("stats") = <<"all", "online", "offline", "fresh", "onion", "samples">>
    BY <1>1, Programs DEF Request, FiguresInv
  <2>2. DOMAIN request["stats"].read =
          {Program("stats")[i] : i \in 1..Len(Program("stats"))}
    BY <1>1, <2>1, NextInOrder DEF Answered, ShapeInv
  <2>3. "samples" \in DOMAIN request["stats"].read
    <3>1. Len(Program("stats")) = 6 /\ Program("stats")[6] = "samples"
      BY <2>1
    <3> QED
      BY <2>2, <3>1
  <2>4. request["stats"].read["samples"] \in SUBSET Measured
    BY <2>1, <2>3 DEF ShapeInv, ReadTypes, FigureType
  <2> DEFINE S == request["stats"].read.samples
  <2>5. S \subseteq Measured /\ Measured \subseteq Node
    BY <2>4 DEF Measured
  <2> HIDE DEF S
  <2>6. IsFiniteSet(S)
    BY <2>5, NodeReadsAssumption, FS_Subset
  <2>7. \A n \in S : Latency[n] \in Nat
    BY <2>5, NodeReadsAssumption DEF Measured
  <2> QED
    BY <2>6, <2>7 DEF S
<1>2. FiguresInv => HistogramExact
  <2> SUFFICES ASSUME FiguresInv, Answered("stats")
               PROVE  LET f == [n \in request["stats"].read.samples |-> Latency[n]]
                          h == Histogram(f)
                          Within(b) == {n \in DOMAIN f :
                                          f[n] >= b.min_ms /\ (b.max_ms = -1 \/ f[n] < b.max_ms)}
                          Side(T) == 2 * Cardinality(T) <= Cardinality(DOMAIN f)
                      IN  /\ \A n \in DOMAIN f : \E b \in h.buckets : n \in Within(b)
                          /\ \A b \in h.buckets : b.count > 0 /\ b.count = Cardinality(Within(b))
                          /\ \A b, c \in h.buckets : b # c => Within(b) \cap Within(c) = {}
                          /\ Side({n \in DOMAIN f : f[n] < h.median})
                          /\ Side({n \in DOMAIN f : f[n] > h.median})
    BY DEF HistogramExact
  <2> DEFINE S == request["stats"].read.samples
             f == [n \in S |-> Latency[n]]
  <2>1. IsFiniteSet(S) /\ f \in [S -> Nat]
    BY <1>1
  <2> HIDE DEF f, S
  <2>2. LET h == Histogram(f)
            Within(b) == {n \in DOMAIN f :
                            f[n] >= b.min_ms /\ (b.max_ms = -1 \/ f[n] < b.max_ms)}
        IN  /\ \A n \in DOMAIN f : \E b \in h.buckets : n \in Within(b)
            /\ \A b \in h.buckets : b.count > 0 /\ b.count = Cardinality(Within(b))
            /\ \A b, c \in h.buckets : b # c => Within(b) \cap Within(c) = {}
    BY <2>1, HistogramCounts
  <2>3. LET med == Histogram(f).median
            Side(T) == 2 * Cardinality(T) <= Cardinality(DOMAIN f)
        IN  Side({n \in DOMAIN f : f[n] < med}) /\ Side({n \in DOMAIN f : f[n] > med})
    BY <2>1, MedianHalves
  <2> QED
    BY <2>2, <2>3 DEF f, S
<1> QED
  BY <1>2, FiguresAlways, PTL

\* The invariant of the period figures: the table, the tallies, how far the
\* crawlers have got in the period, and what has been read.
PeriodTablesInv == TableInv /\ TalliesInv /\ ProgressInv /\ PeriodInv

LEMMA PeriodTablesAlways == Spec => []PeriodTablesInv
<1>1. Init => PeriodTablesInv
  BY TableInit, TalliesInit, ProgressInit, PeriodInit DEF PeriodTablesInv
<1>2. PeriodTablesInv /\ [Next]_siteVars => PeriodTablesInv'
  BY TableStep, TalliesStep, ProgressStep, PeriodStep, StepsOfBlocks DEF PeriodTablesInv
<1> QED  BY <1>1, <1>2, PTL DEF Spec

\* In a response of /api/blocks whose list and tally are of the same period, the
\* list never has more of the blocks the tally covers than the tally counts, and
\* has all of them unless it is cut, but for blocks not yet stored and heights a
\* reorganisation has replaced; for any number of crawlers, failures, restarts
\* and reorganisations (/api/blocks in serve.rs; db.rs's write_blocks,
\* read_period_signalling_blocks, read_signalling, read_period_block_stats).
THEOREM PeriodFiguresAgree == Spec => []PeriodFigures
<1>1. PeriodTablesInv => PeriodFigures
  BY DoneFigures DEF PeriodTablesInv
<1> QED  BY <1>1, PeriodTablesAlways, PTL

\* When every crawler has got through one refresh in a period, whatever failed or
\* restarted afterwards, the next response has the list of that period, and no
\* tally of an earlier one (the snapshot callback of main.rs; db.rs's read_signalling).
THEOREM TallyOfTheListsPeriod == Spec => []TallyKeepsUp
<1>1. PeriodTablesInv => TallyKeepsUp
  BY DoneTally DEF PeriodTablesInv
<1> QED  BY <1>1, PeriodTablesAlways, PTL

\* However polls, older pages, lost answers and the crawler's commits interleave,
\* the strip has every block it should, once and in order (blocks.js's
\* refreshStripTip and loadOlderStripPage; db.rs's read_blocks_page), unless more
\* blocks came between two polls than a poll asks for or the backfill stored a
\* block above all others.
THEOREM StripHasEveryBlockOnce == Spec => []StripExact
<1> DEFINE Inv == TableInv /\ TalliesInv /\ WindowInv /\ BrowserInv
<1>1. Init => Inv
  BY TableInit, TalliesInit, WindowInit, BrowserInit
<1>2. Inv /\ [Next]_siteVars => Inv'
  BY TableStep, TalliesStep, WindowStep, BrowserStep, StepsOfBlocks
<1>3. Inv => StripExact
  BY BrowserExact
<1> QED  BY <1>1, <1>2, <1>3, PTL DEF Spec
==============================================================================
