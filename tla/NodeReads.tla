------------------------------ MODULE NodeReads ------------------------------
(***************************************************************************)
(* What the dashboard and the /stats page get to see of the nodes table    *)
(* (read_report, read_stats, read_ticker and read_nodes in src/src/db.rs)  *)
(* while crawlers commit snapshots to it.  A response is read by several   *)
(* statements on a connection without a transaction, so that each sees     *)
(* the table of its own moment; the page polls and keeps a report unless   *)
(* its stamp is the one it has (src/src/web/dashboard.js).                 *)
(*                                                                         *)
(* Freshness is judged against one cutoff per request: a row is aged when  *)
(* its last_seen lies before it.  Module NodeStore has what a snapshot     *)
(* does to a row; here it may leave any row in any state.                  *)
(***************************************************************************)
EXTENDS Integers, Sequences, FiniteSetsExt

CONSTANTS
  Node,         \* the addresses
  Onion,        \* those of the Tor network
  RowOrder,     \* per node: its place in the table
  Depth,        \* per node: the column the table is sorted by
  Latency,      \* per node: latency_ms, -1 for NULL
  Edges,        \* LATENCY_BUCKET_EDGES
  PageSize,     \* rows of the table's page
  ReportPoll,   \* polls of /api/report that may be under way at once
  Stamp,        \* generated_at of the snapshots to come
  MaxFailures   \* bound: statements that fail

ASSUME NodeReadsAssumption ==
  /\ IsFiniteSet(Node) /\ Onion \subseteq Node
  /\ RowOrder \in [Node -> Nat]
  /\ \A m, n \in Node : RowOrder[m] = RowOrder[n] => m = n
  /\ Depth \in [Node -> Nat] /\ Latency \in [Node -> Nat \cup {-1}]
  /\ Edges \in Seq(Nat \ {0})
  /\ \A i \in DOMAIN Edges : i = 1 \/ Edges[i - 1] < Edges[i]
  /\ PageSize \in Nat \ {0} /\ IsFiniteSet(ReportPoll)
  /\ ReportPoll \cap {"stats", "ticker", "nodes"} = {}
  /\ Stamp \subseteq Nat \ {0} /\ IsFiniteSet(Stamp) /\ MaxFailures \in Nat

Request == ReportPoll \cup {"stats", "ticker", "nodes"}

VARIABLES
  status,    \* per node: none (no row), offline, aged or fresh
  stamp,     \* meta row generated_at, 0 before the first snapshot
  request,   \* per request: what its statements have read
  data,      \* DATA of the dashboard: the report it shows
  failures,
  used       \* history: the stamps committed

nodeVars == <<status, stamp, request, data, failures, used>>

\* counted and drift are history: whether the total is a count that did not
\* fail, and the rows that snapshots changed while the report was read.
NoReport == [stamp |-> 0, total |-> 0, groups |-> 0, counted |-> TRUE, drift |-> 0]

\* read: the figures so far.  The others are history: the row changes of
\* snapshots meanwhile, and whether a failed count stands as 0.
Unread == [sent |-> FALSE, read |-> <<>>, touched |-> 0, zero |-> FALSE]

RowState == {"none", "offline", "aged", "fresh"}

NodesInit ==
  /\ status \in [Node -> RowState] /\ stamp \in Stamp \cup {0}
  /\ stamp = 0 <=> \A n \in Node : status[n] = "none"
  /\ used = {stamp} \ {0}
  /\ request = [r \in Request |-> Unread]
  /\ data = NoReport /\ failures = 0

-----------------------------------------------------------------------------
(* The crawlers.                                                            *)

\* write_snapshot, one transaction.  It is stamped before it is written (the
\* last one of a crawl even before its geolocation), so stamps of two crawlers
\* may be committed in either order; no two are alike here.
Commit(s, t) ==
  /\ \A n \in Node : t[n] = "none" => status[n] = "none"
  /\ status' = t /\ stamp' = s /\ used' = used \cup {s}
  /\ request' = [r \in Request |->
       IF request[r].read = <<>> THEN request[r]
       ELSE [request[r] EXCEPT
               !.touched = @ + Cardinality({n \in Node : t[n] # status[n]})]]
  /\ UNCHANGED <<data, failures>>

-----------------------------------------------------------------------------
(* The queries.                                                             *)

\* Mutant: the cutoff alone.
SeenLately(n) == status[n] \in {"fresh", "offline"}

\* fresh_clause: online, and confirmed within the window.
IsFresh(n) == status[n] = "fresh"

FreshRows == {n \in Node : IsFresh(n)}
OnlineRows == {n \in Node : status[n] \in {"aged", "fresh"}}

\* Mutant: the report's stamp is read after its rows.
StampLast(r) ==
  CASE r \in ReportPoll -> <<"total", "groups", "stamp">>
    [] r = "stats" -> <<"all", "online", "offline", "fresh", "onion", "samples">>
    [] r = "ticker" -> <<"fresh", "onion">>
    [] r = "nodes" -> <<"rows">>

\* The statements of each response, in order.  The report reads its total, the
\* meta rows, and the rows it groups by client, version and readiness (the
\* capped list for the maps and its edges follow and are left out); /stats and
\* the ticker read one count after the other, and the measured latencies last;
\* the nodes table is a single statement.
Program(r) ==
  CASE r \in ReportPoll -> <<"total", "stamp", "groups">>
    [] r = "stats" -> <<"all", "online", "offline", "fresh", "onion", "samples">>
    [] r = "ticker" -> <<"fresh", "onion">>
    [] r = "nodes" -> <<"rows">>

Query(f) ==
  CASE f \in {"total", "fresh", "groups"} -> Cardinality(FreshRows)
    [] f = "stamp" -> stamp
    [] f = "rows" -> FreshRows
    [] f = "all" -> Cardinality({n \in Node : status[n] # "none"})
    [] f = "online" -> Cardinality(OnlineRows)
    [] f = "offline" -> Cardinality({n \in Node : status[n] = "offline"})
    [] f = "onion" -> Cardinality(FreshRows \cap Onion)
    [] f = "samples" -> {n \in FreshRows : Latency[n] >= 0}

\* Some failed statements leave a default: the report's total and every count of
\* the ticker a 0, a meta row (meta_get, .ok()) the empty string.  Any other
\* fails the request.
Softened(r, f) == f \in {"total", "stamp"} \/ r = "ticker"

With(read, f, v) == [g \in DOMAIN read \cup {f} |-> IF g = f THEN v ELSE read[g]]

Unanswered(r) == Cardinality(DOMAIN request[r].read) < Len(Program(r))
NextFigure(r) == Program(r)[Cardinality(DOMAIN request[r].read) + 1]

SendRequest(r) ==
  /\ ~request[r].sent
  /\ request' = [request EXCEPT ![r].sent = TRUE]
  /\ UNCHANGED <<status, stamp, data, failures, used>>

ReadStatement(r) ==
  /\ request[r].sent /\ Unanswered(r)
  /\ request' = [request EXCEPT ![r].read = With(@, NextFigure(r), Query(NextFigure(r)))]
  /\ UNCHANGED <<status, stamp, data, failures, used>>

StatementFails(r) ==
  /\ request[r].sent /\ Unanswered(r)
  /\ failures < MaxFailures /\ failures' = failures + 1
  /\ request' = [request EXCEPT ![r] =
       IF Softened(r, NextFigure(r))
       THEN [request[r] EXCEPT !.zero = @ \/ NextFigure(r) # "stamp",
                               !.read = With(request[r].read, NextFigure(r), 0)]
       ELSE Unread]
  /\ UNCHANGED <<status, stamp, data, used>>

Answered(r) == request[r].sent /\ ~Unanswered(r)

-----------------------------------------------------------------------------
(* The dashboard.                                                           *)

\* fresh.generated_at !== DATA.generated_at.
OtherStamp(s) == s # data.stamp

\* pollOnce: polls overlap when the server is slow, and a late answer may be
\* the older one.  A report whose stamp could not be read is shown too, under
\* no stamp, which the next answer with one replaces.
ReceiveReport(r) ==
  /\ r \in ReportPoll /\ Answered(r)
  /\ data' = IF OtherStamp(request[r].read.stamp)
             THEN [stamp |-> request[r].read.stamp, total |-> request[r].read.total,
                   groups |-> request[r].read.groups,
                   counted |-> ~request[r].zero, drift |-> request[r].touched]
             ELSE data
  /\ request' = [request EXCEPT ![r] = Unread]
  /\ UNCHANGED <<status, stamp, failures, used>>

\* The answer of a poll is lost, or that of another request has been shown.
DropAnswer(r) ==
  /\ Answered(r)
  /\ request' = [request EXCEPT ![r] = Unread]
  /\ UNCHANGED <<status, stamp, data, failures, used>>

-----------------------------------------------------------------------------
(* Computations on the rows read.                                           *)

\* The k-th smallest of a bag of numbers, given as a function, from 0.
Ranked(f, k) ==
  CHOOSE v \in {f[x] : x \in DOMAIN f} :
    /\ Cardinality({x \in DOMAIN f : f[x] < v}) <= k
    /\ Cardinality({x \in DOMAIN f : f[x] <= v}) > k

\* Mutant: a band includes its upper edge.
UpToEdge(ms, e) == ms <= e

UnderEdge(ms, e) == ms < e

\* The band of a measurement: the first edge above it, or the open last one.
Band(ms) == Min({i \in DOMAIN Edges : UnderEdge(ms, Edges[i])} \cup {Len(Edges) + 1})

\* latency_histogram: the bands that are not empty, and the median.
Histogram(f) ==
  LET InBand(i) == {x \in DOMAIN f : Band(f[x]) = i}
  IN  [buckets |-> {[min_ms |-> IF i = 1 THEN 0 ELSE Edges[i - 1],
                     max_ms |-> IF i \in DOMAIN Edges THEN Edges[i] ELSE -1,
                     count |-> Cardinality(InBand(i))] :
                      i \in {i \in 1..(Len(Edges) + 1) : InBand(i) # {}}},
       median |-> IF DOMAIN f = {} THEN -1 ELSE Ranked(f, Cardinality(DOMAIN f) \div 2)]

\* read_nodes: the matching rows in the table's order, sorted (stably) by a
\* column, turned round for a descending order, and cut to a page.
Position(rows, n) ==
  Cardinality({m \in rows : \/ Depth[m] < Depth[n]
                            \/ Depth[m] = Depth[n] /\ RowOrder[m] < RowOrder[n]})

\* Mutant: pages overlap by a row.
SkipLess(i, offset) == i >= offset - 1 /\ i < offset + PageSize

\* skip(offset).take(limit).
OnPage(i, offset) == i >= offset /\ i < offset + PageSize

NodesPage(rows, desc, offset) ==
  LET At(n) == IF desc THEN Cardinality(rows) - 1 - Position(rows, n)
               ELSE Position(rows, n)
      page == {n \in rows : OnPage(At(n), offset)}
  IN  [i \in 1..Cardinality(page) |->
         CHOOSE n \in page : Cardinality({m \in page : At(m) < At(n)}) = i - 1]

-----------------------------------------------------------------------------
\* The dashboard's figures tell apart only how many rows are fresh.
FirstFresh(k) == [n \in Node |-> IF RowOrder[n] <= k THEN "fresh" ELSE "offline"]

DashboardNext ==
  \/ \E s \in Stamp \ used, k \in 0..Cardinality(Node) : Commit(s, FirstFresh(k))
  \/ \E r \in ReportPoll :
       SendRequest(r) \/ ReadStatement(r) \/ StatementFails(r) \/ ReceiveReport(r)
       \/ DropAnswer(r)

\* One request of either kind at a time: they have nothing in common.
CountersNext ==
  \/ \E s \in Stamp \ used, t \in [Node -> RowState] : Commit(s, t)
  \/ \E r \in {"stats", "ticker", "nodes"} :
       \/ SendRequest(r) /\ \A o \in Request : ~request[o].sent
       \/ ReadStatement(r) \/ StatementFails(r) \/ DropAnswer(r)

-----------------------------------------------------------------------------
(* Properties.                                                              *)

\* The figures of one response contradict each other by no more than the rows
\* that snapshots changed while it was read: without any, they add up.  So a share
\* above 100% or a negative count of aged-out nodes is possible, but only then
\* (or where a failed count is shown as 0).
FiguresDrift ==
  \A r \in Request : Answered(r) /\ ~request[r].zero =>
    LET v == request[r].read
        d == request[r].touched
    IN  /\ r \in ReportPoll => v.total - v.groups \in (-d)..d
        /\ r = "ticker" => v.onion <= v.fresh + d
        /\ r = "stats" =>
             /\ v.online + v.offline - v.all \in (-d)..d
             /\ v.fresh <= v.online + d
             /\ v.onion <= v.fresh + d /\ Cardinality(v.samples) <= v.fresh + d

\* The dashboard ignores an answer whose stamp it has already, so what it shows
\* under the stamp of the newest snapshot must be that snapshot: its groups are,
\* however polls overlap, fail, get lost or overtake each other and although
\* stamps may be committed out of order.  Its total is off by no more than the
\* rows that snapshots changed while the report was read (or the count failed and
\* it is 0), and then stays off until the next snapshot.
DashboardExact ==
  /\ stamp # 0 /\ data.stamp = stamp => data.groups = Cardinality(FreshRows)
  /\ data.counted => data.total - data.groups \in (-data.drift)..data.drift

\* "Keeps the counts exact" (read_nodes): while the table stands still, its
\* pages list every matching row once, in the order asked for.
PagesExact ==
  Answered("nodes") => \A desc \in BOOLEAN :
    LET rows == request["nodes"].read.rows
        Listed(k) == NodesPage(rows, desc, k * PageSize)
        places == {p \in (0..Cardinality(Node)) \X (1..PageSize) :
                     p[2] \in DOMAIN Listed(p[1])}
        RowAt(p) == Listed(p[1])[p[2]]
        Before(p, q) == p[1] < q[1] \/ (p[1] = q[1] /\ p[2] < q[2])
    IN  /\ {RowAt(p) : p \in places} = rows
        /\ Cardinality(places) = Cardinality(rows)
        /\ \A p, q \in places : Before(p, q) =>
             IF desc THEN Depth[RowAt(p)] >= Depth[RowAt(q)]
             ELSE Depth[RowAt(p)] <= Depth[RowAt(q)]

\* Every latency measured is counted in one band of the histogram, the one it
\* lies in, bands without any are left out, and no more than half of the
\* measurements lie on either side of the median.
HistogramExact ==
  Answered("stats") =>
  LET f == [n \in request["stats"].read.samples |-> Latency[n]]
      h == Histogram(f)
      Within(b) == {n \in DOMAIN f :
                      f[n] >= b.min_ms /\ (b.max_ms = -1 \/ f[n] < b.max_ms)}
      Side(T) == 2 * Cardinality(T) <= Cardinality(DOMAIN f)
  IN  /\ \A n \in DOMAIN f : \E b \in h.buckets : n \in Within(b)
      /\ \A b \in h.buckets : b.count > 0 /\ b.count = Cardinality(Within(b))
      /\ \A b, c \in h.buckets : b # c => Within(b) \cap Within(c) = {}
      /\ Side({n \in DOMAIN f : f[n] < h.median})
      /\ Side({n \in DOMAIN f : f[n] > h.median})

-----------------------------------------------------------------------------
(* Inductive strengthenings.                                                *)

Measured == {n \in Node : Latency[n] >= 0}
FigureType(f) ==
  IF f = "rows" THEN SUBSET Node ELSE IF f = "samples" THEN SUBSET Measured ELSE Nat

Shown == [stamp : used \cup {0}, total : Nat, groups : Nat, counted : BOOLEAN,
          drift : Nat]

ReadTypes ==
  /\ status \in [Node -> RowState] /\ used \subseteq Stamp /\ stamp \in used \cup {0}
  /\ DOMAIN request = Request
  /\ \A r \in Request :
       /\ DOMAIN request[r] = {"sent", "read", "touched", "zero"}
       /\ request[r].touched \in Nat
       /\ request[r].sent \in BOOLEAN /\ request[r].zero \in BOOLEAN
       /\ \A f \in DOMAIN request[r].read : request[r].read[f] \in FigureType(f)
  /\ data \in Shown

\* A response has read its first statements, in order.
ReadsInOrder ==
  \A r \in Request : \E k \in 0..Len(Program(r)) :
    DOMAIN request[r].read = {Program(r)[i] : i \in 1..k}

\* A figure of a response: the one read, or the one a statement would read now.
FigureOf(r, f) == IF f \in DOMAIN request[r].read THEN request[r].read[f] ELSE Query(f)

\* The figures drift apart as snapshots change rows, never by being read.
DriftInv ==
  \A r \in Request : ~request[r].zero =>
    LET v(f) == FigureOf(r, f)
        d == request[r].touched
    IN  /\ r \in ReportPoll => v("total") - v("groups") \in (-d)..d
        /\ r = "ticker" => v("onion") <= v("fresh") + d
        /\ r = "stats" =>
             /\ v("online") + v("offline") - v("all") \in (-d)..d
             /\ v("fresh") <= v("online") + d
             /\ v("onion") <= v("fresh") + d
             /\ Cardinality(v("samples")) <= v("fresh") + d

\* Under the newest stamp stands the newest snapshot, in the page and in every
\* report on its way to it.
ReportInv ==
  /\ DashboardExact
  /\ \A r \in ReportPoll :
       LET q == request[r]
           Has(f) == f \in DOMAIN q.read
       IN  /\ Has("stamp") => q.read.stamp \in used \cup {0}
           /\ Has("stamp") /\ q.read.stamp = stamp /\ stamp # 0 /\ Has("groups") =>
                q.read.groups = Cardinality(FreshRows)
=============================================================================
