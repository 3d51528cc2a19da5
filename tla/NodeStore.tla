------------------------------ MODULE NodeStore ------------------------------
(***************************************************************************)
(* The node table of the SQLite database (src/src/db.rs) that several      *)
(* crawlers write at the same time, with the two files that feed it: each  *)
(* crawler's state file (state.rs) and its optional history file           *)
(* (history.rs).  A crawl is reduced to the records its probes leave, which*)
(* module Crawler shows happens once per peer and run; here every peer not *)
(* yet taken may answer or fail at any time.                               *)
(*                                                                         *)
(* Timestamps are hours of one clock; 0 stands for the empty string, which *)
(* sorts before every timestamp just as '' does in the SQL comparisons.    *)
(***************************************************************************)
EXTENDS Integers, FiniteSets

CONSTANTS
  Peer,          \* addresses of the network
  Own,           \* the label of our own node's row
  Crawler,       \* processes sharing the database
  StateFile,     \* those run with --state-file
  HistoryFile,   \* those run with --history-file
  Geolocating,   \* those run with --geolocate
  RpcPeer,       \* peers our own node is connected to
  DepthZero,     \* peers given on the command line, which may have depth 0
  Links,         \* the edges a peer that answers reports
  MaxAge,        \* freshness window of the site; 0 = no aging
  HistoryWindow, \* HISTORY_WINDOW_SECS
  KeepAge,       \* --prune-days, the keep_days of prune_and_vacuum
  MaxClock,      \* bound on the clock
  MaxCycles      \* bound: crawls begun by all crawlers together

Addr == Peer \cup {Own}

ASSUME StoreAssumption ==
  /\ IsFiniteSet(Peer) /\ Own \notin Peer
  /\ StateFile \subseteq Crawler /\ HistoryFile \subseteq Crawler
  /\ Geolocating \subseteq Crawler
  /\ RpcPeer \subseteq Peer /\ DepthZero \subseteq Peer
  /\ Links \subseteq Addr \X Addr
  /\ MaxAge \in Nat /\ HistoryWindow \in Nat /\ KeepAge \in Nat \ {0}
  /\ MaxClock \in Nat \ {0} /\ MaxCycles \in Nat

Time == 0..MaxClock

\* What a NodeInfo says about reachability.  A failed probe and the record RPC
\* gives us before the crawl look the same to the database.
NodeInfo == [handshaked : BOOLEAN, online : BOOLEAN, first_seen : Time,
             last_seen : Time]
Stub == [handshaked |-> FALSE, online |-> FALSE, first_seen |-> 0, last_seen |-> 0]
\* Mutant: the stamp rounded up to the next hour.
ConfirmedRoundedUp(t) == [handshaked |-> TRUE, online |-> TRUE,
                          first_seen |-> t + 1, last_seen |-> t + 1]

Confirmed(t) == [handshaked |-> TRUE, online |-> TRUE, first_seen |-> t,
                 last_seen |-> t]
OwnRecord == [handshaked |-> TRUE, online |-> TRUE, first_seen |-> 0,
              last_seen |-> 0]

Row == [handshaked : BOOLEAN, online : BOOLEAN, first_seen : Time,
        last_seen : Time, geo : BOOLEAN]

Counted == [node : Addr, via : Crawler, at : Time, by : Crawler]

\* A set of records: a function on the addresses that have one.
Records == UNION {[A -> NodeInfo] : A \in SUBSET Addr}
Rows == UNION {[A -> Row] : A \in SUBSET Addr}
Nothing == [x \in {} |-> Stub]
Put(f, x, r) == [y \in DOMAIN f \cup {x} |-> IF y = x THEN r ELSE f[y]]

VARIABLES
  clock,
  cycles,    \* crawls begun so far
  mode,      \* per crawler: idle, crawl or finish (past the end of crawl())
  nodes,     \* per crawler: the node map of the running crawl
  taken,     \* per crawler: peers no worker will be handed (again) in this run
  saved,     \* per crawler: the records of its state file
  hist,      \* per crawler: its history file
  job,       \* per crawler: the snapshot about to be written, if any
  row,       \* the nodes table
  edges,     \* the edges table
  points,    \* the history table: per hour, the rows counted; a member also
             \* remembers who last wrote the row, and when and by whom it was
             \* counted (history: the table has the number only)
  via,       \* history: which crawler last wrote a row
  answered   \* history: when each peer completed a handshake

files == <<saved, hist>>
tables == <<row, edges, points, via>>
vars == <<clock, cycles, mode, nodes, taken, files, job, tables, answered>>

NoJob == [nodes |-> Nothing, generated_at |-> 0]

TypeOK ==
  /\ clock \in 1..MaxClock /\ cycles \in 0..MaxCycles
  /\ mode \in [Crawler -> {"idle", "crawl", "finish"}]
  /\ nodes \in [Crawler -> Records]
  /\ taken \in [Crawler -> SUBSET Peer]
  /\ saved \in [Crawler -> Records]
  /\ hist \in [Crawler -> Records]
  /\ job \in [Crawler -> [nodes : Records, generated_at : Time]]
  /\ row \in Rows
  /\ edges \subseteq Addr \X Addr
  /\ points \in [1..MaxClock -> SUBSET Counted]
  /\ via \in [DOMAIN row -> Crawler]
  /\ answered \in [Peer -> SUBSET (1..MaxClock)]

Init ==
  /\ clock = 1 /\ cycles = 0
  /\ mode = [c \in Crawler |-> "idle"]
  /\ nodes = [c \in Crawler |-> Nothing]
  /\ taken = [c \in Crawler |-> {}]
  /\ saved = [c \in Crawler |-> Nothing]
  /\ hist = [c \in Crawler |-> Nothing]
  /\ job = [c \in Crawler |-> NoJob]
  /\ row = Nothing /\ edges = {} /\ via = Nothing
  /\ points = [t \in 1..MaxClock |-> {}]
  /\ answered = [p \in Peer |-> {}]

Tick ==
  /\ clock < MaxClock
  /\ clock' = clock + 1
  /\ UNCHANGED <<cycles, mode, nodes, taken, files, job, tables, answered>>

-----------------------------------------------------------------------------
(* One crawl of crawler c.                                                  *)

\* crawl() restores the saved records and puts their peers in `seen`, so that
\* they are not probed again unless the file also lists them as queued (again).
\* A seed RPC knows is recorded only if it is new.
StartCycle(c) ==
  /\ mode[c] = "idle" /\ cycles < MaxCycles
  /\ cycles' = cycles + 1
  /\ mode' = [mode EXCEPT ![c] = "crawl"]
  /\ \E known \in {saved[c], Nothing}, again \in SUBSET DOMAIN saved[c] :
       /\ c \notin StateFile => known = Nothing
       /\ nodes' = [nodes EXCEPT ![c] =
                      [p \in DOMAIN known \cup RpcPeer |->
                         IF p \in DOMAIN known THEN known[p] ELSE Stub]]
       /\ taken' = [taken EXCEPT ![c] = DOMAIN known \ again]
  /\ UNCHANGED <<clock, files, job, tables, answered>>

\* Probe succeeded: stamped at probe time.
Answer(c, p) ==
  /\ mode[c] = "crawl" /\ p \notin taken[c]
  /\ nodes' = [nodes EXCEPT ![c] = Put(@, p, Confirmed(clock))]
  /\ taken' = [taken EXCEPT ![c] = @ \cup {p}]
  /\ answered' = [answered EXCEPT ![p] = @ \cup {clock}]
  /\ UNCHANGED <<clock, cycles, mode, files, job, tables>>

\* Probe failed: a stub, unless there is a record already.
Fail(c, p) ==
  /\ mode[c] = "crawl" /\ p \notin taken[c]
  /\ nodes' = [nodes EXCEPT ![c] = IF p \in DOMAIN @ THEN @ ELSE Put(@, p, Stub)]
  /\ taken' = [taken EXCEPT ![c] = @ \cup {p}]
  /\ UNCHANGED <<clock, cycles, mode, files, job, tables, answered>>

SaveState(c) ==
  /\ mode[c] = "crawl" /\ c \in StateFile
  /\ saved' = [saved EXCEPT ![c] = nodes[c]]
  /\ UNCHANGED <<clock, cycles, mode, nodes, taken, hist, job, tables, answered>>

\* The monitor clones the maps and calls main's snapshot callback, which adds
\* our own node and, after its RPC calls, writes the database.
TakeSnapshot(c) ==
  /\ mode[c] = "crawl" /\ job[c] = NoJob
  /\ job' = [job EXCEPT ![c] = [nodes |-> Put(nodes[c], Own, OwnRecord),
                                generated_at |-> 0]]
  /\ UNCHANGED <<clock, cycles, mode, nodes, taken, files, tables, answered>>

\* History::merge: an answer refreshes the record and stamps it with the end of
\* the crawl, everything else is kept and marked offline.
MergeRecord(h, current, x, now) ==
  LET old == IF x \in DOMAIN h THEN h[x] ELSE Stub
  IN  IF x \in DOMAIN current /\ current[x].handshaked
      THEN [current[x] EXCEPT !.first_seen = IF old.first_seen = 0 THEN now
                                             ELSE old.first_seen,
                              !.last_seen = now, !.online = TRUE]
      ELSE [old EXCEPT !.online = FALSE,
                       !.first_seen = IF x \in DOMAIN h THEN @ ELSE now]

Merge(h, current, now) ==
  [x \in DOMAIN h \cup DOMAIN current |-> MergeRecord(h, current, x, now)]

\* crawl() has returned, every queued peer taken or dropped at the node cap: the
\* final state save, then the history file, whose records replace the crawl's
\* own; the run's timestamp is taken before the database is written.  Failures
\* to save, or to load the history, are logged.
FinishCrawl(c) ==
  LET current == Put(nodes[c], Own, OwnRecord)
      merged == Merge(hist[c], current, clock)
  IN  /\ mode[c] = "crawl" /\ job[c] = NoJob
      /\ mode' = [mode EXCEPT ![c] = "finish"]
      /\ \/ c \in StateFile /\ saved' = [saved EXCEPT ![c] = nodes[c]]
         \/ UNCHANGED saved
      /\ \/ /\ c \in HistoryFile
            /\ job' = [job EXCEPT ![c] = [nodes |-> merged, generated_at |-> clock]]
            /\ \/ hist' = [hist EXCEPT ![c] = merged]
               \/ UNCHANGED hist
         \/ /\ job' = [job EXCEPT ![c] = [nodes |-> current, generated_at |-> clock]]
            /\ UNCHANGED hist
      /\ UNCHANGED <<clock, cycles, nodes, taken, tables, answered>>

\* The process dies; its transaction, if one was open, is rolled back.
Crash(c) ==
  /\ mode[c] # "idle"
  /\ mode' = [mode EXCEPT ![c] = "idle"]
  /\ nodes' = [nodes EXCEPT ![c] = Nothing]
  /\ taken' = [taken EXCEPT ![c] = {}]
  /\ job' = [job EXCEPT ![c] = NoJob]
  /\ UNCHANGED <<clock, cycles, files, tables, answered>>

-----------------------------------------------------------------------------
(* The database.                                                            *)

\* Mutant: any write wins.
AlwaysOverwrite(old, new) == TRUE

\* The WHERE of the upsert: a write without a handshake never replaces a row
\* with one.
MayOverwrite(old, new) == new.handshaked \/ ~old.handshaked

\* Mutants: first_seen refreshed by every write; last_seen stamped at the time
\* of the write.
FirstSeenExcluded(old, new) == new.first_seen
StampAtWrite(n, generated_at) == IF n.online THEN generated_at ELSE n.last_seen

\* first_seen is written once.
FirstSeen(old, new) == IF old.first_seen = 0 THEN new.first_seen ELSE old.first_seen

\* last_seen is the crawler's own stamp, but for an online record without one.
LastSeen(n, generated_at) ==
  IF n.last_seen = 0 /\ n.online THEN generated_at ELSE n.last_seen

\* The row INSERT ... ON CONFLICT(addr) DO UPDATE leaves for address x.
Upsert(rows, x, n, located, generated_at) ==
  LET new == [handshaked |-> n.handshaked, online |-> n.online,
              first_seen |-> n.first_seen, last_seen |-> LastSeen(n, generated_at),
              geo |-> located]
  IN  IF x \notin DOMAIN rows THEN new
      ELSE IF MayOverwrite(rows[x], new)
      THEN [new EXCEPT !.first_seen = FirstSeen(rows[x], new),
                       !.geo = located \/ rows[x].geo]
      ELSE rows[x]

\* fresh_clause: online and, unless aging is off, confirmed within the window.
Fresh(r, age) == r.online /\ (age = 0 \/ r.last_seen >= clock - age)

\* Mutant: the window reckoned from the hour the point is filed under.
CutoffOfHour(c, rows, writer, hour) ==
  points' = [points EXCEPT ![hour] =
               {[node |-> x, via |-> writer[x], at |-> clock, by |-> c] :
                  x \in {y \in DOMAIN rows :
                    rows[y].online /\ rows[y].last_seen >= hour - HistoryWindow}}]

\* record_history, called by crawler c, counts the rows that are fresh at the
\* clock of the write, under the hour of generated_at.
RecordHistory(c, rows, writer, hour) ==
  points' = [points EXCEPT ![hour] =
               {[node |-> x, via |-> writer[x], at |-> clock, by |-> c] :
                  x \in {y \in DOMAIN rows :
                    rows[y].online /\ rows[y].last_seen >= clock - HistoryWindow}}]

\* write_snapshot, one transaction: all of it or, on an error, nothing.  The
\* online nodes are located first, if at all.
WriteSnapshot(c) ==
  LET new == job[c].nodes
      generated_at == IF mode[c] = "finish" THEN job[c].generated_at ELSE clock
      Located(x) == c \in Geolocating /\ new[x].online
      Wins(x) == x \in DOMAIN new /\ (x \in DOMAIN row => MayOverwrite(row[x], new[x]))
      stored == DOMAIN row \cup DOMAIN new
  IN  /\ job[c] # NoJob
      /\ job' = [job EXCEPT ![c] = NoJob]
      /\ IF mode[c] = "finish"
         THEN /\ mode' = [mode EXCEPT ![c] = "idle"]
              /\ nodes' = [nodes EXCEPT ![c] = Nothing]
              /\ taken' = [taken EXCEPT ![c] = {}]
         ELSE UNCHANGED <<mode, nodes, taken>>
      /\ \/ /\ row' = [x \in stored |->
                         IF x \in DOMAIN new
                         THEN Upsert(row, x, new[x], Located(x), generated_at)
                         ELSE row[x]]
            /\ via' = [x \in stored |-> IF Wins(x) THEN c ELSE via[x]]
            /\ edges' = edges \cup
                 {e \in Links : e[1] \in DOMAIN new /\ new[e[1]].handshaked}
            /\ RecordHistory(c, row', via', generated_at)
         \/ UNCHANGED tables
      /\ UNCHANGED <<clock, cycles, files, answered>>

\* The rows prune_and_vacuum deletes: not depth 0 (our own node, and those
\* command-line seeds that no earlier seed had queued at depth 1), and never
\* confirmed or not within the keep window.
Pruned(x, seeds) ==
  /\ x # Own /\ x \notin seeds
  /\ row[x].last_seen = 0 \/ row[x].last_seen < clock - KeepAge

\* Run with the crawlers stopped, as its comment demands; one transaction.
Prune ==
  /\ \A c \in Crawler : mode[c] = "idle"
  /\ \E seeds \in SUBSET DepthZero :
       LET kept == {x \in DOMAIN row : ~Pruned(x, seeds)}
       IN  /\ row' = [x \in kept |-> row[x]]
           /\ via' = [x \in kept |-> via[x]]
           /\ edges' = {e \in edges : e[1] \in kept /\ e[2] \in kept}
  /\ UNCHANGED <<clock, cycles, mode, nodes, taken, files, job, points, answered>>

-----------------------------------------------------------------------------
CrawlStep(c) ==
  \/ StartCycle(c)
  \/ \E p \in Peer : Answer(c, p) \/ Fail(c, p)
  \/ SaveState(c) \/ TakeSnapshot(c) \/ FinishCrawl(c) \/ Crash(c)

Next == Tick \/ Prune \/ \E c \in Crawler : CrawlStep(c) \/ WriteSnapshot(c)

Spec == Init /\ [][Next]_vars

-----------------------------------------------------------------------------
(* Properties.                                                              *)

\* What the site shows as reachable was reachable: every row in the freshness
\* window belongs to a peer that completed a handshake with some crawler within
\* that window, however late its snapshot was written and whatever other
\* crawlers, restarts and resumed state files wrote since.  A crawler with a
\* history file stamps the end of its crawl on what it writes, so the rows it
\* wrote last are exempt.
ServedPeersAnswered ==
  \A p \in DOMAIN row \cap Peer :
    MaxAge # 0 /\ Fresh(row[p], MaxAge) /\ via[p] \notin HistoryFile =>
      \E t \in answered[p] : t >= clock - MaxAge

\* An hourly population point counts a peer for an answer within the window that
\* ends at the hour of its write, and no answer its own crawler got after the
\* hour it is filed under.  The two hours are one for a live snapshot.  The final
\* snapshot is filed under the hour at which its crawl ended and counted after
\* the geolocation: what other crawlers stored meanwhile is counted although it
\* is later than the hour, and nothing else is.
PopulationAnswered ==
  \A h \in 1..MaxClock : \A e \in points[h] :
    e.node \in Peer /\ e.via \notin HistoryFile =>
      \E t \in answered[e.node] :
        /\ t >= e.at - HistoryWindow
        /\ t <= (IF e.via = e.by THEN h ELSE e.at)

DemotedByHistory(x) ==
  row[x].handshaked /\ row[x].online =>
    \/ row'[x].handshaked /\ row'[x].online
    \/ via'[x] \in HistoryFile

\* Of the crawlers that share the database, only one with a history file can
\* take a handshaken row offline: a failed probe, a stub, or an RPC record of
\* any other never degrades what somebody else confirmed.
OnlyHistoryDemotes == [][\A x \in DOMAIN row \cap DOMAIN row' : DemotedByHistory(x)]_vars

Accumulates(x) ==
  IF x \notin DOMAIN row' THEN x # Own /\ ~Fresh(row[x], MaxAge)
  ELSE /\ row[x].first_seen # 0 => row'[x].first_seen = row[x].first_seen
       /\ row[x].geo => row'[x].geo

\* Nothing the site shows is ever lost: a row leaves the table only when it is
\* neither our own node nor inside the freshness window (prune_and_vacuum), and
\* while it stays, first_seen keeps its first value and a location is kept.
StoreAccumulates == [][\A x \in DOMAIN row : Accumulates(x)]_vars

\* The claim of write_snapshot's comment: a write that did not handshake the
\* peer "can never overwrite a row another crawler successfully handshook".
HandshakenRowsStayOnline ==
  [][\A x \in DOMAIN row \cap DOMAIN row' :
       row[x].handshaked /\ row[x].online /\ via'[x] # via[x] =>
         row'[x].handshaked /\ row'[x].online]_vars

-----------------------------------------------------------------------------
(* Inductive strengthenings.                                                *)

\* Handshaken records are online ones, and a peer's bears an hour at which it
\* answered.
Truthful(records) ==
  \A x \in DOMAIN records :
    /\ records[x].handshaked => records[x].online
    /\ x \in Peer /\ records[x].online => records[x].last_seen \in answered[x]

\* So are the records of every crawl and of its state file, which are peers',
\* and the snapshots of the crawlers that merge no history into them.
RecordsInv ==
  \A c \in Crawler :
    /\ DOMAIN nodes[c] \subseteq Peer /\ DOMAIN saved[c] \subseteq Peer
    /\ Truthful(nodes[c]) /\ Truthful(saved[c])
    /\ c \notin HistoryFile => Truthful(job[c].nodes)

\* No stamp and no answer is of an hour still to come; the final snapshot has a
\* stamp.
StampInv ==
  /\ \A p \in Peer : \A t \in answered[p] : t <= clock
  /\ \A c \in Crawler :
       /\ job[c].generated_at <= clock
       /\ mode[c] = "finish" => job[c].generated_at >= 1

\* Between the end of a crawl and its final snapshot, nothing the crawler holds
\* or has stored is of a later answer.
EndsBy(records, t) ==
  \A x \in DOMAIN records \cap Peer :
    records[x].online => records[x].last_seen <= t

FinalInv ==
  \A c \in Crawler \ HistoryFile : mode[c] = "finish" =>
    /\ EndsBy(job[c].nodes, job[c].generated_at)
    /\ \A x \in DOMAIN row \cap Peer : via[x] = c /\ row[x].online =>
         row[x].last_seen <= job[c].generated_at

\* Online rows are stamped, and those of a crawler without a history file with
\* an hour at which the peer answered.
RowInv ==
  \A x \in DOMAIN row :
    /\ row[x].online => row[x].last_seen >= 1
    /\ x \in Peer /\ row[x].online /\ via[x] \notin HistoryFile =>
         row[x].last_seen \in answered[x]

StoreInv == TypeOK /\ RecordsInv /\ StampInv /\ RowInv /\ FinalInv /\ PopulationAnswered
=============================================================================
