--------------------------- MODULE NodeStoreProofs ---------------------------
(***************************************************************************)
(* Proofs about module NodeStore: what any number of crawlers, with and    *)
(* without state and history files, leave in the tables they share.        *)
(***************************************************************************)
EXTENDS NodeStore, TLAPS

-----------------------------------------------------------------------------
(* Sets of records and rows.                                                *)

LEMMA RecordsAre ==
  ASSUME NEW f
  PROVE  f \in Records <=> f \in [DOMAIN f -> NodeInfo] /\ DOMAIN f \subseteq Addr
<1>1. ASSUME f \in Records
      PROVE  f \in [DOMAIN f -> NodeInfo] /\ DOMAIN f \subseteq Addr
  BY <1>1 DEF Records
<1>2. ASSUME f \in [DOMAIN f -> NodeInfo], DOMAIN f \in SUBSET Addr
      PROVE  f \in Records
  BY <1>2 DEF Records
<1> QED
  BY <1>1, <1>2

LEMMA RowsAre ==
  ASSUME NEW f
  PROVE  f \in Rows <=> f \in [DOMAIN f -> Row] /\ DOMAIN f \subseteq Addr
<1>1. ASSUME f \in Rows
      PROVE  f \in [DOMAIN f -> Row] /\ DOMAIN f \subseteq Addr
  BY <1>1 DEF Rows
<1>2. ASSUME f \in [DOMAIN f -> Row], DOMAIN f \in SUBSET Addr
      PROVE  f \in Rows
  BY <1>2 DEF Rows
<1> QED
  BY <1>1, <1>2

LEMMA Hours ==
  /\ MaxClock \in Nat /\ 0 \in Time /\ 1..MaxClock \subseteq Time /\ Time \subseteq Nat
  /\ MaxAge \in Nat /\ HistoryWindow \in Nat /\ KeepAge \in Nat /\ KeepAge > 0
  BY StoreAssumption DEF Time

LEMMA InfoTypes ==
  /\ Stub \in NodeInfo /\ OwnRecord \in NodeInfo
  /\ \A t \in 1..MaxClock : Confirmed(t) \in NodeInfo
  BY Hours DEF Stub, OwnRecord, Confirmed, NodeInfo

LEMMA EmptyTables == Nothing \in Records /\ Nothing \in Rows /\ DOMAIN Nothing = {}
<1>1. DOMAIN Nothing = {}
  BY DEF Nothing
<1>2. Nothing \in [{} -> NodeInfo] /\ Nothing \in [{} -> Row]
  BY DEF Nothing
<1> QED
  BY <1>1, <1>2, RecordsAre, RowsAre

\* What a table is once a record is put.
IsPut(g, f, x, r) ==
  /\ DOMAIN g = DOMAIN f \cup {x}
  /\ \A y \in DOMAIN f \cup {x} : g[y] = IF y = x THEN r ELSE f[y]

LEMMA PutRecords ==
  ASSUME NEW f \in Records, NEW x \in Addr, NEW r \in NodeInfo
  PROVE  Put(f, x, r) \in Records /\ IsPut(Put(f, x, r), f, x, r)
<1>1. f \in [DOMAIN f -> NodeInfo] /\ DOMAIN f \subseteq Addr
  BY RecordsAre
<1>2. /\ DOMAIN Put(f, x, r) = DOMAIN f \cup {x}
      /\ Put(f, x, r) \in [DOMAIN f \cup {x} -> NodeInfo]
      /\ \A y \in DOMAIN f \cup {x} : Put(f, x, r)[y] = IF y = x THEN r ELSE f[y]
  BY <1>1 DEF Put
<1> QED
  BY <1>1, <1>2, RecordsAre DEF IsPut

-----------------------------------------------------------------------------
(* Truthful records.                                                        *)

LEMMA NothingTruthful == Truthful(Nothing)
  BY EmptyTables DEF Truthful

\* Adding a record of the own node, a stub or a fresh confirmation.
LEMMA PutTruthful ==
  ASSUME NEW f \in Records, Truthful(f), NEW x \in Addr, NEW r \in NodeInfo,
         r.handshaked => r.online,
         x \in Peer /\ r.online => r.last_seen \in answered[x]
  PROVE  Truthful(Put(f, x, r))
<1> DEFINE g == Put(f, x, r)
<1>1. /\ DOMAIN g = DOMAIN f \cup {x}
      /\ \A y \in DOMAIN f \cup {x} : g[y] = IF y = x THEN r ELSE f[y]
  BY PutRecords DEF IsPut
<1> HIDE DEF g
<1> QED
  BY <1>1 DEF Truthful, g

\* The history merge of truthful or any records is a set of records.
LEMMA MergeRecords ==
  ASSUME NEW h \in Records, NEW current \in Records, NEW now \in 1..MaxClock
  PROVE  Merge(h, current, now) \in Records
<1>1. /\ h \in [DOMAIN h -> NodeInfo] /\ current \in [DOMAIN current -> NodeInfo]
      /\ DOMAIN h \subseteq Addr /\ DOMAIN current \subseteq Addr
  BY RecordsAre
<1>2. now \in Time
  BY Hours
<1>3. ASSUME NEW x \in DOMAIN h \cup DOMAIN current
      PROVE  MergeRecord(h, current, x, now) \in NodeInfo
  <2> DEFINE old == IF x \in DOMAIN h THEN h[x] ELSE Stub
  <2>1. old \in NodeInfo
    BY <1>1, InfoTypes
  <2> HIDE DEF old
  <2>2. CASE x \in DOMAIN current /\ current[x].handshaked
    <3>1. current[x] \in NodeInfo
      BY <1>1, <2>2
    <3>2. MergeRecord(h, current, x, now) =
            [current[x] EXCEPT !.first_seen = IF old.first_seen = 0 THEN now
                                              ELSE old.first_seen,
                               !.last_seen = now, !.online = TRUE]
      BY <2>2 DEF MergeRecord, old
    <3> QED
      BY <1>2, <2>1, <3>1, <3>2 DEF NodeInfo
  <2>3. CASE ~(x \in DOMAIN current /\ current[x].handshaked)
    <3>1. MergeRecord(h, current, x, now) =
            [old EXCEPT !.online = FALSE,
                        !.first_seen = IF x \in DOMAIN h THEN @ ELSE now]
      BY <2>3 DEF MergeRecord, old
    <3> QED
      BY <1>2, <2>1, <3>1 DEF NodeInfo
  <2> QED
    BY <2>2, <2>3
<1>4. Merge(h, current, now) \in [DOMAIN h \cup DOMAIN current -> NodeInfo]
  BY <1>3 DEF Merge
<1>5. DOMAIN Merge(h, current, now) = DOMAIN h \cup DOMAIN current
  BY DEF Merge
<1> QED
  BY <1>1, <1>4, <1>5, RecordsAre

-----------------------------------------------------------------------------
(* The invariant: the crawls.                                               *)

LEMMA InitStore == Init => StoreInv
<1> SUFFICES ASSUME Init
             PROVE  StoreInv
  OBVIOUS
<1> USE EmptyTables, NothingTruthful
<1>1. job = [c \in Crawler |-> NoJob] /\ NoJob.nodes = Nothing /\ NoJob.generated_at = 0
  BY DEF Init, NoJob
<1>2. NoJob \in [nodes : Records, generated_at : Time]
  BY Hours DEF NoJob
<1>3. TypeOK
  <2>1. clock \in 1..MaxClock /\ cycles \in 0..MaxCycles
    BY StoreAssumption DEF Init
  <2>2. via \in [DOMAIN row -> Crawler]
    BY DEF Init, Nothing
  <2> QED
    BY <1>1, <1>2, <2>1, <2>2 DEF Init, TypeOK
<1>4. RecordsInv
  BY <1>1 DEF Init, RecordsInv
<1>5. StampInv
  BY <1>1 DEF Init, StampInv
<1>6. RowInv /\ FinalInv /\ PopulationAnswered
  BY DEF Init, RowInv, FinalInv, PopulationAnswered
<1> QED
  BY <1>3, <1>4, <1>5, <1>6 DEF StoreInv

\* What changes no table and no answer keeps what the tables promise.
LEMMA QuietTables ==
  ASSUME RowInv, PopulationAnswered, UNCHANGED <<tables, answered>>
  PROVE  RowInv' /\ PopulationAnswered'
  BY DEF RowInv, PopulationAnswered, tables

\* A crawler whose crawl has ended keeps its snapshot until it is written.
LEMMA QuietFinals ==
  ASSUME FinalInv, UNCHANGED <<row, via>>,
         \A d \in Crawler : mode'[d] = "finish" => mode[d] = "finish" /\ job'[d] = job[d]
  PROVE  FinalInv'
  BY DEF FinalInv, EndsBy

LEMMA OneCrawler ==
  ASSUME RecordsInv, NEW c \in Crawler, UNCHANGED answered,
         \A d \in Crawler \ {c} :
           nodes'[d] = nodes[d] /\ saved'[d] = saved[d] /\ job'[d] = job[d],
         DOMAIN (nodes'[c]) \subseteq Peer, DOMAIN (saved'[c]) \subseteq Peer,
         Truthful(nodes'[c]), Truthful(saved'[c]),
         c \notin HistoryFile => Truthful(job'[c].nodes)
  PROVE  RecordsInv'
<1> SUFFICES ASSUME NEW d \in Crawler
             PROVE  /\ DOMAIN (nodes'[d]) \subseteq Peer
                    /\ DOMAIN (saved'[d]) \subseteq Peer
                    /\ Truthful(nodes[d])' /\ Truthful(saved[d])'
                    /\ d \notin HistoryFile => Truthful(job[d].nodes)'
  BY DEF RecordsInv
<1>1. CASE d = c
  BY <1>1 DEF Truthful
<1>2. CASE d # c
  BY <1>2 DEF Truthful, RecordsInv
<1> QED
  BY <1>1, <1>2

LEMMA TickStore == ASSUME StoreInv, Tick PROVE StoreInv'
<1>1. /\ clock < MaxClock /\ clock' = clock + 1
      /\ UNCHANGED <<cycles, mode, nodes, taken, saved, hist, job, row, edges,
                     points, via, answered>>
  BY DEF Tick, files, tables
<1>2. TypeOK'
  BY <1>1, Hours DEF StoreInv, TypeOK
<1>3. RecordsInv'
  BY <1>1 DEF StoreInv, RecordsInv, Truthful
<1>4. StampInv'
  <2>1. /\ clock \in Nat /\ \A c \in Crawler : job[c].generated_at \in Nat
        /\ \A p \in Peer : answered[p] \subseteq Nat
    BY Hours DEF StoreInv, TypeOK
  <2> QED
    BY <1>1, <2>1 DEF StoreInv, StampInv
<1>5. RowInv' /\ PopulationAnswered' /\ FinalInv'
  BY <1>1, QuietTables, QuietFinals DEF StoreInv, tables
<1> QED
  BY <1>2, <1>3, <1>4, <1>5 DEF StoreInv

LEMMA StartCycleStore ==
  ASSUME StoreInv, NEW c \in Crawler, StartCycle(c)
  PROVE  StoreInv'
<1> USE DEF StoreInv
<1> PICK known \in {saved[c], Nothing}, again \in SUBSET DOMAIN saved[c] :
      /\ nodes' = [nodes EXCEPT ![c] =
                      [p \in DOMAIN known \cup RpcPeer |->
                         IF p \in DOMAIN known THEN known[p] ELSE Stub]]
      /\ taken' = [taken EXCEPT ![c] = DOMAIN known \ again]
  BY DEF StartCycle
<1> DEFINE start == [p \in DOMAIN known \cup RpcPeer |->
                       IF p \in DOMAIN known THEN known[p] ELSE Stub]
<1>1. /\ cycles < MaxCycles /\ cycles' = cycles + 1
      /\ mode' = [mode EXCEPT ![c] = "crawl"]
      /\ UNCHANGED <<clock, saved, hist, job, row, edges, points, via, answered>>
  BY DEF StartCycle, files, tables
<1>2. known \in Records /\ DOMAIN known \subseteq Peer /\ Truthful(known)
  BY EmptyTables, NothingTruthful DEF TypeOK, RecordsInv
<1>3. known \in [DOMAIN known -> NodeInfo]
  BY <1>2, RecordsAre
<1>4. DOMAIN start \subseteq Peer /\ start \in Records
  <2>1. DOMAIN start = DOMAIN known \cup RpcPeer
    OBVIOUS
  <2>2. start \in [DOMAIN known \cup RpcPeer -> NodeInfo]
    BY <1>3, InfoTypes
  <2> HIDE DEF start
  <2>3. DOMAIN start \subseteq Peer
    BY <1>2, <2>1, StoreAssumption
  <2> QED
    BY <2>1, <2>2, <2>3, RecordsAre DEF Addr
<1>5. Truthful(start)
  BY <1>2 DEF Truthful, Stub
<1> HIDE DEF start
<1>6. nodes' = [nodes EXCEPT ![c] = start]
  BY DEF start
<1>7. TypeOK'
  <2>1. nodes' \in [Crawler -> Records]
    BY <1>4, <1>6 DEF TypeOK
  <2>2. taken' \in [Crawler -> SUBSET Peer]
    BY <1>2 DEF TypeOK
  <2>3. cycles' \in 0..MaxCycles
    BY <1>1, StoreAssumption DEF TypeOK
  <2> QED
    BY <1>1, <2>1, <2>2, <2>3 DEF TypeOK
<1>8. RecordsInv'
  <2>1. nodes'[c] = start /\ \A d \in Crawler \ {c} : nodes'[d] = nodes[d]
    BY <1>6 DEF TypeOK
  <2>2. /\ DOMAIN (saved'[c]) \subseteq Peer /\ Truthful(saved'[c])
        /\ c \notin HistoryFile => Truthful(job'[c].nodes)
    BY <1>1 DEF RecordsInv
  <2> QED
    BY <1>1, <1>4, <1>5, <2>1, <2>2, OneCrawler
<1>9. StampInv'
  BY <1>1 DEF StampInv, TypeOK
<1>10. RowInv' /\ PopulationAnswered' /\ FinalInv'
  <2>1. \A d \in Crawler : mode'[d] = "finish" => mode[d] = "finish"
    BY <1>1 DEF TypeOK
  <2> QED
    BY <1>1, <2>1, QuietTables, QuietFinals DEF tables
<1> QED
  BY <1>7, <1>8, <1>9, <1>10

\* A confirmation bears the hour at which the peer has just answered.
LEMMA AnswerStore ==
  ASSUME StoreInv, NEW c \in Crawler, NEW p \in Peer, Answer(c, p)
  PROVE  StoreInv'
<1> USE DEF StoreInv
<1>1. /\ nodes' = [nodes EXCEPT ![c] = Put(nodes[c], p, Confirmed(clock))]
      /\ taken' = [taken EXCEPT ![c] = @ \cup {p}]
      /\ answered' = [answered EXCEPT ![p] = @ \cup {clock}]
      /\ UNCHANGED <<clock, cycles, mode, saved, hist, job, row, edges, points, via>>
  BY DEF Answer, files, tables
<1> DEFINE g == Put(nodes[c], p, Confirmed(clock))
<1>2. /\ g \in Records /\ DOMAIN g = DOMAIN nodes[c] \cup {p}
      /\ \A y \in DOMAIN nodes[c] \cup {p} :
           g[y] = IF y = p THEN Confirmed(clock) ELSE nodes[c][y]
  <2>1. nodes[c] \in Records /\ p \in Addr /\ Confirmed(clock) \in NodeInfo
    BY InfoTypes DEF TypeOK, Addr
  <2>2. Put(nodes[c], p, Confirmed(clock)) \in Records
        /\ IsPut(Put(nodes[c], p, Confirmed(clock)), nodes[c], p, Confirmed(clock))
    BY ONLY <2>1, PutRecords
  <2> QED
    BY ONLY <2>2 DEF IsPut
<1> HIDE DEF g
<1>3. nodes'[c] = g /\ \A d \in Crawler \ {c} : nodes'[d] = nodes[d]
  BY <1>1 DEF TypeOK, g
<1>4. (\A q \in Peer : answered[q] \subseteq answered'[q]) /\ clock \in answered'[p]
  BY <1>1 DEF TypeOK
<1>5. TypeOK'
  <2>1. nodes' \in [Crawler -> Records]
    BY <1>1, <1>2 DEF TypeOK, g
  <2>2. taken' \in [Crawler -> SUBSET Peer]
    BY <1>1 DEF TypeOK
  <2>3. answered' \in [Peer -> SUBSET (1..MaxClock)]
    BY <1>1 DEF TypeOK
  <2> QED
    BY <1>1, <2>1, <2>2, <2>3 DEF TypeOK
<1>6. ASSUME NEW f, Truthful(f)
      PROVE  \A x \in DOMAIN f :
               /\ f[x].handshaked => f[x].online
               /\ x \in Peer /\ f[x].online => f[x].last_seen \in answered'[x]
  BY <1>4, <1>6 DEF Truthful
<1>7. RecordsInv'
  <2> SUFFICES ASSUME NEW d \in Crawler
               PROVE  /\ DOMAIN (nodes'[d]) \subseteq Peer
                      /\ DOMAIN (saved'[d]) \subseteq Peer
                      /\ Truthful(nodes[d])' /\ Truthful(saved[d])'
                      /\ d \notin HistoryFile => Truthful(job[d].nodes)'
    BY DEF RecordsInv
  <2>1. /\ DOMAIN (saved'[d]) \subseteq Peer /\ Truthful(saved[d])'
        /\ d \notin HistoryFile => Truthful(job[d].nodes)'
    BY <1>1, <1>6 DEF RecordsInv, Truthful
  <2>2. CASE d # c
    <3>1. nodes'[d] = nodes[d] /\ Truthful(nodes[d]) /\ DOMAIN nodes[d] \subseteq Peer
      BY <1>3, <2>2 DEF RecordsInv
    <3>2. Truthful(nodes[d])'
      BY <1>6, <3>1 DEF Truthful
    <3> QED
      BY <2>1, <3>1, <3>2
  <2>3. CASE d = c
    <3>1. Truthful(nodes[c]) /\ DOMAIN nodes[c] \subseteq Peer
      BY DEF RecordsInv
    <3>2. \A x \in DOMAIN g :
            /\ g[x].handshaked => g[x].online
            /\ x \in Peer /\ g[x].online => g[x].last_seen \in answered'[x]
      BY <1>2, <1>4, <1>6, <3>1 DEF Confirmed
    <3>3. Truthful(nodes[c])'
      BY <1>3, <3>2 DEF Truthful
    <3> QED
      BY <1>2, <1>3, <2>1, <2>3, <3>1, <3>3
  <2> QED
    BY <2>2, <2>3
<1>8. StampInv'
  <2>1. clock \in Nat /\ \A q \in Peer : answered'[q] \subseteq answered[q] \cup {clock}
    BY <1>1, Hours DEF TypeOK
  <2>2. \A q \in Peer : \A t \in answered'[q] : t <= clock
    BY <2>1 DEF StampInv
  <2> QED
    BY <1>1, <2>2 DEF StampInv
<1>9. RowInv' /\ FinalInv'
  BY <1>1, <1>4, QuietFinals DEF RowInv
<1>10. PopulationAnswered'
  <2> SUFFICES ASSUME NEW h \in 1..MaxClock, NEW e \in points[h],
                      e.node \in Peer, e.via \notin HistoryFile
               PROVE  \E t \in answered'[e.node] :
                        /\ t >= e.at - HistoryWindow
                        /\ t <= (IF e.via = e.by THEN h ELSE e.at)
    BY <1>1 DEF PopulationAnswered
  <2> QED
    BY <1>4 DEF PopulationAnswered
<1> QED
  BY <1>5, <1>7, <1>8, <1>9, <1>10

\* A failed probe adds a stub, or nothing.
LEMMA FailStore ==
  ASSUME StoreInv, NEW c \in Crawler, NEW p \in Peer, Fail(c, p)
  PROVE  StoreInv'
<1> USE DEF StoreInv
<1> DEFINE g == IF p \in DOMAIN nodes[c] THEN nodes[c] ELSE Put(nodes[c], p, Stub)
<1>1. /\ nodes' = [nodes EXCEPT ![c] = g]
      /\ taken' = [taken EXCEPT ![c] = @ \cup {p}]
      /\ UNCHANGED <<clock, cycles, mode, saved, hist, job, row, edges, points,
                     via, answered>>
  BY DEF Fail, files, tables
<1>2. /\ nodes[c] \in Records /\ DOMAIN nodes[c] \subseteq Peer /\ Truthful(nodes[c])
      /\ p \in Addr /\ Stub \in NodeInfo /\ ~Stub.handshaked /\ ~Stub.online
  BY InfoTypes DEF TypeOK, Addr, RecordsInv, Stub
<1>3. g \in Records /\ DOMAIN g \subseteq Peer /\ Truthful(g)
  <2>1. CASE p \in DOMAIN nodes[c]
    BY <1>2, <2>1
  <2>2. CASE p \notin DOMAIN nodes[c]
    <3>1. g = Put(nodes[c], p, Stub)
      BY <2>2
    <3>2. Truthful(g)
      BY <1>2, <3>1, PutTruthful
    <3>3. g \in Records /\ DOMAIN g = DOMAIN nodes[c] \cup {p}
      <4>1. Put(nodes[c], p, Stub) \in Records
            /\ IsPut(Put(nodes[c], p, Stub), nodes[c], p, Stub)
        BY ONLY <1>2, PutRecords
      <4> QED
        BY ONLY <3>1, <4>1 DEF IsPut
    <3> QED
      BY <1>2, <3>2, <3>3
  <2> QED
    BY <2>1, <2>2
<1> HIDE DEF g
<1>4. nodes'[c] = g /\ \A d \in Crawler \ {c} : nodes'[d] = nodes[d]
  BY <1>1 DEF TypeOK
<1>5. TypeOK'
  <2>1. nodes' \in [Crawler -> Records]
    BY <1>1, <1>3 DEF TypeOK
  <2>2. taken' \in [Crawler -> SUBSET Peer]
    BY <1>1 DEF TypeOK
  <2> QED
    BY <1>1, <2>1, <2>2 DEF TypeOK
<1>6. RecordsInv'
  <2>1. /\ DOMAIN (saved'[c]) \subseteq Peer /\ Truthful(saved'[c])
        /\ c \notin HistoryFile => Truthful(job'[c].nodes)
    BY <1>1 DEF RecordsInv
  <2> QED
    BY <1>1, <1>3, <1>4, <2>1, OneCrawler
<1>7. StampInv'
  BY <1>1 DEF StampInv
<1>8. RowInv' /\ PopulationAnswered' /\ FinalInv'
  BY <1>1, QuietTables, QuietFinals DEF tables
<1> QED
  BY <1>5, <1>6, <1>7, <1>8

LEMMA SaveStateStore ==
  ASSUME StoreInv, NEW c \in Crawler, SaveState(c)
  PROVE  StoreInv'
<1> USE DEF StoreInv
<1>1. /\ saved' = [saved EXCEPT ![c] = nodes[c]]
      /\ UNCHANGED <<clock, cycles, mode, nodes, taken, hist, job, row, edges,
                     points, via, answered>>
  BY DEF SaveState, tables
<1>2. TypeOK'
  BY <1>1 DEF TypeOK
<1>3. RecordsInv'
  <2>1. saved'[c] = nodes[c] /\ \A d \in Crawler \ {c} : saved'[d] = saved[d]
    BY <1>1 DEF TypeOK
  <2> QED
    BY <1>1, <2>1, OneCrawler DEF RecordsInv
<1>4. StampInv'
  BY <1>1 DEF StampInv
<1>5. RowInv' /\ PopulationAnswered' /\ FinalInv'
  BY <1>1, QuietTables, QuietFinals DEF tables
<1> QED
  BY <1>2, <1>3, <1>4, <1>5

\* The records of a crawl with the own node's added.
LEMMA WithOwnNode ==
  ASSUME StoreInv, NEW c \in Crawler
  PROVE  /\ Put(nodes[c], Own, OwnRecord) \in Records
         /\ Truthful(Put(nodes[c], Own, OwnRecord))
<1>1. /\ nodes[c] \in Records /\ Truthful(nodes[c]) /\ OwnRecord \in NodeInfo
      /\ Own \in Addr /\ Own \notin Peer /\ OwnRecord.online
  BY InfoTypes, StoreAssumption DEF StoreInv, TypeOK, RecordsInv, Addr, OwnRecord
<1> QED
  BY <1>1, PutRecords, PutTruthful

LEMMA TakeSnapshotStore ==
  ASSUME StoreInv, NEW c \in Crawler, TakeSnapshot(c)
  PROVE  StoreInv'
<1> USE DEF StoreInv
<1> DEFINE g == Put(nodes[c], Own, OwnRecord)
<1>1. /\ mode[c] = "crawl"
      /\ job' = [job EXCEPT ![c] = [nodes |-> g, generated_at |-> 0]]
      /\ UNCHANGED <<clock, cycles, mode, nodes, taken, saved, hist, row, edges,
                     points, via, answered>>
  BY DEF TakeSnapshot, files, tables
<1>2. g \in Records /\ Truthful(g)
  BY WithOwnNode
<1> HIDE DEF g
<1>3. /\ job'[c] = [nodes |-> g, generated_at |-> 0]
      /\ \A d \in Crawler \ {c} : job'[d] = job[d]
  BY <1>1 DEF TypeOK
<1>4. TypeOK'
  <2>1. [nodes |-> g, generated_at |-> 0] \in [nodes : Records, generated_at : Time]
    BY <1>2, Hours
  <2> QED
    BY <1>1, <2>1 DEF TypeOK
<1>5. RecordsInv'
  <2>1. job'[c].nodes = g
    BY <1>3
  <2> QED
    BY <1>1, <1>2, <1>3, <2>1, OneCrawler DEF RecordsInv
<1>6. StampInv'
  <2> SUFFICES ASSUME NEW d \in Crawler
               PROVE  /\ job'[d].generated_at <= clock
                      /\ mode[d] = "finish" => job'[d].generated_at >= 1
    BY <1>1 DEF StampInv
  <2>1. CASE d = c
    <3>1. job'[d].generated_at = 0 /\ clock \in Nat /\ mode[d] # "finish"
      BY <1>1, <1>3, <2>1, Hours DEF TypeOK
    <3> QED
      BY <3>1
  <2>2. CASE d # c
    BY <1>3, <2>2 DEF StampInv
  <2> QED
    BY <2>1, <2>2
<1>7. RowInv' /\ PopulationAnswered' /\ FinalInv'
  BY <1>1, <1>3, QuietTables, QuietFinals DEF tables
<1> QED
  BY <1>4, <1>5, <1>6, <1>7

\* The final snapshot is truthful unless the history file was merged into it.
LEMMA FinishCrawlStore ==
  ASSUME StoreInv, NEW c \in Crawler, FinishCrawl(c)
  PROVE  StoreInv'
<1> USE DEF StoreInv
<1> DEFINE current == Put(nodes[c], Own, OwnRecord)
           merged == Merge(hist[c], current, clock)
<1>1. /\ mode' = [mode EXCEPT ![c] = "finish"]
      /\ saved' = [saved EXCEPT ![c] = nodes[c]] \/ saved' = saved
      /\ hist' = [hist EXCEPT ![c] = merged] \/ hist' = hist
      /\ UNCHANGED <<clock, cycles, nodes, taken, row, edges, points, via, answered>>
  BY DEF FinishCrawl, tables
<1>2. PICK g \in {current, merged} :
         /\ g = merged => c \in HistoryFile \/ merged = current
         /\ job' = [job EXCEPT ![c] = [nodes |-> g, generated_at |-> clock]]
  BY DEF FinishCrawl
<1>3. current \in Records /\ Truthful(current)
  BY WithOwnNode
<1>4. clock \in 1..MaxClock /\ clock \in Time /\ clock \in Nat /\ clock >= 1
  BY Hours DEF TypeOK
<1>5. merged \in Records
  <2>1. hist[c] \in Records
    BY DEF TypeOK
  <2> HIDE DEF current
  <2> QED
    BY <1>3, <1>4, <2>1, MergeRecords
<1> HIDE DEF current, merged
<1>6. g \in Records /\ (c \notin HistoryFile => Truthful(g))
  BY <1>2, <1>3, <1>5
<1>7. /\ job'[c] = [nodes |-> g, generated_at |-> clock]
      /\ \A d \in Crawler \ {c} : job'[d] = job[d]
  BY <1>2 DEF TypeOK
<1>8. TypeOK'
  <2>1. [nodes |-> g, generated_at |-> clock] \in [nodes : Records, generated_at : Time]
    BY <1>4, <1>6
  <2>2. job' \in [Crawler -> [nodes : Records, generated_at : Time]]
    BY <1>2, <2>1 DEF TypeOK
  <2>3. saved' \in [Crawler -> Records]
    <3>1. nodes[c] \in Records /\ saved \in [Crawler -> Records]
      BY DEF TypeOK
    <3> QED
      BY <1>1, <3>1
  <2>4. hist' \in [Crawler -> Records]
    <3>1. hist \in [Crawler -> Records]
      BY DEF TypeOK
    <3> QED
      BY <1>1, <1>5, <3>1
  <2> QED
    BY <1>1, <2>2, <2>3, <2>4 DEF TypeOK
<1>9. RecordsInv'
  <2>1. /\ saved'[c] \in {nodes[c], saved[c]}
        /\ \A d \in Crawler \ {c} : saved'[d] = saved[d]
    BY <1>1 DEF TypeOK
  <2>2. job'[c].nodes = g
    BY <1>7
  <2>3. DOMAIN (saved'[c]) \subseteq Peer /\ Truthful(saved'[c])
    BY <2>1 DEF RecordsInv
  <2>4. DOMAIN (nodes'[c]) \subseteq Peer /\ Truthful(nodes'[c])
    BY <1>1 DEF RecordsInv
  <2> QED
    BY <1>1, <1>6, <1>7, <2>1, <2>2, <2>3, <2>4, OneCrawler
<1>10. StampInv'
  <2> SUFFICES ASSUME NEW d \in Crawler
               PROVE  /\ job'[d].generated_at <= clock
                      /\ mode'[d] = "finish" => job'[d].generated_at >= 1
    BY <1>1 DEF StampInv
  <2>1. CASE d = c
    BY <1>4, <1>7, <2>1
  <2>2. CASE d # c
    BY <1>1, <1>7, <2>2 DEF StampInv, TypeOK
  <2> QED
    BY <2>1, <2>2
<1>11. RowInv' /\ PopulationAnswered'
  BY <1>1, QuietTables DEF tables
<1>12. FinalInv'
  <2> SUFFICES ASSUME NEW d \in Crawler \ HistoryFile, mode'[d] = "finish"
               PROVE  /\ EndsBy(job[d].nodes, job[d].generated_at)'
                      /\ \A x \in DOMAIN row \cap Peer : via[x] = d /\ row[x].online =>
                           row[x].last_seen <= job'[d].generated_at
    BY <1>1 DEF FinalInv
  <2>1. CASE d # c
    <3>1. mode[d] = "finish" /\ job'[d] = job[d]
      BY <1>1, <1>7, <2>1 DEF TypeOK
    <3> QED
      BY <3>1 DEF FinalInv, EndsBy
  <2>2. CASE d = c
    <3>1. job'[c].nodes = g /\ job'[c].generated_at = clock
      BY <1>7
    <3>2. \A x \in DOMAIN g \cap Peer : g[x].online => g[x].last_seen <= clock
      BY <1>6, <2>2 DEF Truthful, StampInv
    <3>3. \A x \in DOMAIN row \cap Peer : via[x] = c /\ row[x].online =>
            row[x].last_seen <= clock
      BY <2>2 DEF RowInv, StampInv
    <3> QED
      BY <2>2, <3>1, <3>2, <3>3 DEF EndsBy
  <2> QED
    BY <2>1, <2>2
<1> QED
  BY <1>8, <1>9, <1>10, <1>11, <1>12

LEMMA NoJobTypes ==
  /\ NoJob \in [nodes : Records, generated_at : Time]
  /\ NoJob.nodes = Nothing /\ NoJob.generated_at = 0
  BY EmptyTables, Hours DEF NoJob

LEMMA CrashStore ==
  ASSUME StoreInv, NEW c \in Crawler, Crash(c)
  PROVE  StoreInv'
<1> USE DEF StoreInv
<1>1. /\ mode' = [mode EXCEPT ![c] = "idle"]
      /\ nodes' = [nodes EXCEPT ![c] = Nothing]
      /\ taken' = [taken EXCEPT ![c] = {}]
      /\ job' = [job EXCEPT ![c] = NoJob]
      /\ UNCHANGED <<clock, cycles, saved, hist, row, edges, points, via, answered>>
  BY DEF Crash, files, tables
<1>2. TypeOK'
  BY <1>1, NoJobTypes, EmptyTables DEF TypeOK
<1>3. /\ nodes'[c] = Nothing /\ job'[c] = NoJob /\ mode'[c] = "idle"
      /\ \A d \in Crawler \ {c} :
           nodes'[d] = nodes[d] /\ job'[d] = job[d] /\ mode'[d] = mode[d]
  BY <1>1 DEF TypeOK
<1>4. RecordsInv'
  <2>1. DOMAIN (nodes'[c]) \subseteq Peer /\ Truthful(nodes'[c])
    BY <1>3, EmptyTables, NothingTruthful
  <2>2. Truthful(job'[c].nodes)
    BY <1>3, NoJobTypes, NothingTruthful
  <2>3. DOMAIN (saved'[c]) \subseteq Peer /\ Truthful(saved'[c])
    BY <1>1 DEF RecordsInv
  <2> QED
    BY <1>1, <1>3, <2>1, <2>2, <2>3, OneCrawler
<1>5. StampInv'
  <2>1. clock \in Nat
    BY Hours DEF TypeOK
  <2> QED
    BY <1>1, <1>3, <2>1, NoJobTypes DEF StampInv
<1>6. RowInv' /\ PopulationAnswered' /\ FinalInv'
  <2>1. \A d \in Crawler : mode'[d] = "finish" => mode[d] = "finish" /\ job'[d] = job[d]
    BY <1>3
  <2> QED
    BY <1>1, <2>1, QuietTables, QuietFinals DEF tables
<1> QED
  BY <1>2, <1>4, <1>5, <1>6

-----------------------------------------------------------------------------
(* The invariant: the database.                                             *)

\* What an upsert leaves: the old row untouched, or the record's reachability
\* with the old row's first hour and location kept.
LEMMA UpsertLeaves ==
  ASSUME NEW rows \in Rows, NEW x \in Addr, NEW n \in NodeInfo,
         NEW located \in BOOLEAN, NEW t \in Time
  PROVE  LET r == Upsert(rows, x, n, located, t)
             wins == x \in DOMAIN rows => MayOverwrite(rows[x], n)
         IN  /\ r \in Row
             /\ ~wins => r = rows[x]
             /\ wins => /\ r.handshaked = n.handshaked /\ r.online = n.online
                        /\ r.last_seen = LastSeen(n, t)
             /\ x \in DOMAIN rows =>
                  /\ rows[x].first_seen # 0 => r.first_seen = rows[x].first_seen
                  /\ rows[x].geo => r.geo
<1> DEFINE new == [handshaked |-> n.handshaked, online |-> n.online,
                   first_seen |-> n.first_seen, last_seen |-> LastSeen(n, t),
                   geo |-> located]
           r == Upsert(rows, x, n, located, t)
<1>1. LastSeen(n, t) \in Time
  BY DEF LastSeen, NodeInfo
<1>2. new \in Row
  BY <1>1 DEF NodeInfo, Row
<1>3. x \in DOMAIN rows => rows[x] \in Row
  BY RowsAre
<1>4. CASE x \notin DOMAIN rows
  <2>1. r = new
    BY <1>4 DEF Upsert
  <2> QED
    BY <1>2, <1>4, <2>1
<1>5. CASE x \in DOMAIN rows /\ MayOverwrite(rows[x], n)
  <2>1. r = [new EXCEPT !.first_seen = FirstSeen(rows[x], new),
                        !.geo = located \/ rows[x].geo]
    BY <1>5 DEF Upsert, MayOverwrite
  <2>2. FirstSeen(rows[x], new) \in Time
    BY <1>2, <1>3, <1>5 DEF FirstSeen, Row
  <2>3. /\ r.handshaked = n.handshaked /\ r.online = n.online
        /\ r.last_seen = LastSeen(n, t) /\ r.first_seen = FirstSeen(rows[x], new)
        /\ r.geo = (located \/ rows[x].geo)
        /\ r = [handshaked |-> n.handshaked, online |-> n.online,
                first_seen |-> FirstSeen(rows[x], new), last_seen |-> LastSeen(n, t),
                geo |-> located \/ rows[x].geo]
    BY <2>1
  <2>4. r \in Row
    BY <1>1, <2>2, <2>3 DEF NodeInfo, Row
  <2> HIDE DEF r, new
  <2> QED
    BY <1>5, <2>3, <2>4 DEF FirstSeen, r
<1>6. CASE x \in DOMAIN rows /\ ~MayOverwrite(rows[x], n)
  <2>1. r = rows[x]
    BY <1>6 DEF Upsert, MayOverwrite
  <2> QED
    BY <1>3, <1>6, <2>1
<1> QED
  BY <1>4, <1>5, <1>6

\* What a write that succeeds does to a row, in the terms the properties use.
Written(c, x) ==
  LET new == job[c].nodes
      t == IF mode[c] = "finish" THEN job[c].generated_at ELSE clock
      wins == x \in DOMAIN row => MayOverwrite(row[x], new[x])
  IN  /\ row'[x] \in Row
      /\ x \in DOMAIN new /\ wins =>
           /\ via'[x] = c
           /\ row'[x].handshaked = new[x].handshaked /\ row'[x].online = new[x].online
           /\ row'[x].last_seen = LastSeen(new[x], t)
      /\ ~(x \in DOMAIN new /\ wins) =>
           x \in DOMAIN row /\ row'[x] = row[x] /\ via'[x] = via[x]
      /\ x \in DOMAIN row =>
           /\ row[x].first_seen # 0 => row'[x].first_seen = row[x].first_seen
           /\ row[x].geo => row'[x].geo

LEMMA WriteLeaves ==
  ASSUME StoreInv, NEW c \in Crawler, WriteSnapshot(c)
  PROVE  \/ UNCHANGED tables
         \/ /\ DOMAIN row' = DOMAIN row \cup DOMAIN job[c].nodes
            /\ DOMAIN row' \subseteq Addr
            /\ row' = [x \in DOMAIN row' |-> row'[x]]
            /\ via' = [x \in DOMAIN row' |-> via'[x]]
            /\ \A x \in DOMAIN row' : Written(c, x)
            /\ edges' \subseteq Addr \X Addr
            /\ RecordHistory(c, row', via',
                 IF mode[c] = "finish" THEN job[c].generated_at ELSE clock)
<1> DEFINE new == job[c].nodes
           t == IF mode[c] = "finish" THEN job[c].generated_at ELSE clock
           Located(x) == c \in Geolocating /\ new[x].online
           Wins(x) == x \in DOMAIN new /\ (x \in DOMAIN row => MayOverwrite(row[x], new[x]))
           stored == DOMAIN row \cup DOMAIN new
<1>1. CASE UNCHANGED tables
  BY <1>1
<1>2. CASE /\ row' = [x \in stored |->
                        IF x \in DOMAIN new THEN Upsert(row, x, new[x], Located(x), t)
                        ELSE row[x]]
           /\ via' = [x \in stored |-> IF Wins(x) THEN c ELSE via[x]]
           /\ edges' = edges \cup
                {e \in Links : e[1] \in DOMAIN new /\ new[e[1]].handshaked}
           /\ RecordHistory(c, row', via', t)
  <2>1. /\ row \in Rows /\ row \in [DOMAIN row -> Row] /\ DOMAIN row \subseteq Addr
        /\ new \in [DOMAIN new -> NodeInfo] /\ DOMAIN new \subseteq Addr
    <3>1. row \in Rows /\ new \in Records
      BY DEF StoreInv, TypeOK
    <3> QED
      BY <3>1, RowsAre, RecordsAre
  <2>2. t \in Time
    BY Hours DEF StoreInv, TypeOK
  <2>3. DOMAIN row' = stored /\ stored \subseteq Addr
    BY <1>2, <2>1
  <2>4. ASSUME NEW x \in stored
        PROVE  Written(c, x)
    <3>1. CASE x \in DOMAIN new
      <4>1. new[x] \in NodeInfo /\ Located(x) \in BOOLEAN /\ x \in Addr
        BY <2>1, <3>1 DEF NodeInfo
      <4>2. row'[x] = Upsert(row, x, new[x], Located(x), t)
        BY <1>2, <3>1
      <4>3. via'[x] = IF Wins(x) THEN c ELSE via[x]
        BY <1>2
      <4> HIDE DEF Located, t, new
      <4>4. /\ row'[x] \in Row
            /\ ~(x \in DOMAIN row => MayOverwrite(row[x], new[x])) => row'[x] = row[x]
            /\ (x \in DOMAIN row => MayOverwrite(row[x], new[x])) =>
                 /\ row'[x].handshaked = new[x].handshaked
                 /\ row'[x].online = new[x].online
                 /\ row'[x].last_seen = LastSeen(new[x], t)
            /\ x \in DOMAIN row =>
                 /\ row[x].first_seen # 0 => row'[x].first_seen = row[x].first_seen
                 /\ row[x].geo => row'[x].geo
        BY <2>1, <2>2, <4>1, <4>2, UpsertLeaves
      <4> QED
        BY <3>1, <4>3, <4>4 DEF Written, t, new
    <3>2. CASE x \notin DOMAIN new
      <4>1. row'[x] = row[x] /\ via'[x] = via[x] /\ x \in DOMAIN row
        BY <1>2, <3>2
      <4> QED
        BY <2>1, <3>2, <4>1 DEF Written
    <3> QED
      BY <3>1, <3>2
  <2>5. edges' \subseteq Addr \X Addr
    BY <1>2, StoreAssumption DEF StoreInv, TypeOK
  <2>6. row' = [x \in DOMAIN row' |-> row'[x]] /\ via' = [x \in DOMAIN row' |-> via'[x]]
    BY <1>2, <2>3
  <2> QED
    BY <1>2, <2>3, <2>4, <2>5, <2>6
<1> QED
  BY <1>1, <1>2 DEF WriteSnapshot

\* A write that succeeds keeps what the rows and the hourly points promise: a
\* row it wins shows what a truthful snapshot says, and it counts the rows as
\* they are then; what its own crawler found it found by the hour of the point.
LEMMA WriteKeepsPromises ==
  ASSUME StoreInv, NEW c \in Crawler, WriteSnapshot(c), ~UNCHANGED tables
  PROVE  RowInv' /\ PopulationAnswered' /\ FinalInv'
<1> USE DEF StoreInv
<1> DEFINE new == job[c].nodes
           t == IF mode[c] = "finish" THEN job[c].generated_at ELSE clock
<1>1. /\ DOMAIN row' = DOMAIN row \cup DOMAIN new
      /\ \A x \in DOMAIN row' : Written(c, x)
      /\ RecordHistory(c, row', via', t)
  BY WriteLeaves
<1>2. UNCHANGED <<clock, answered>>
  BY DEF WriteSnapshot
<1>3. t \in 1..MaxClock /\ t <= clock /\ clock \in Nat
  <2>1. job[c].generated_at \in Time /\ clock \in 1..MaxClock
    BY DEF TypeOK
  <2> QED
    BY <2>1, Hours DEF StampInv, Time
<1>4. new \in [DOMAIN new -> NodeInfo]
  <2>1. new \in Records
    BY DEF TypeOK
  <2> HIDE DEF new
  <2> QED
    BY <2>1, RecordsAre
<1>5. c \notin HistoryFile => Truthful(new)
  BY DEF RecordsInv
<1> HIDE DEF new, t
<1>6. ASSUME NEW x \in DOMAIN row'
      PROVE  /\ row'[x].online => row'[x].last_seen >= 1
             /\ x \in Peer /\ row'[x].online /\ via'[x] \notin HistoryFile =>
                  /\ row'[x].last_seen \in answered[x] /\ row'[x].last_seen <= clock
                  /\ via'[x] = c => row'[x].last_seen <= t
  <2>1. Written(c, x)
    BY <1>1
  <2>2. CASE x \in DOMAIN new /\ (x \in DOMAIN row => MayOverwrite(row[x], new[x]))
    <3>1. /\ via'[x] = c /\ row'[x].online = new[x].online
          /\ row'[x].last_seen = LastSeen(new[x], t)
      BY <2>1, <2>2 DEF Written, new, t
    <3>2. new[x].last_seen \in Nat
      BY <1>4, <2>2, Hours DEF NodeInfo
    <3>3. new[x].online => LastSeen(new[x], t) >= 1
      BY <1>3, <3>2 DEF LastSeen
    <3>4. ASSUME x \in Peer, new[x].online, c \notin HistoryFile
          PROVE  /\ LastSeen(new[x], t) \in answered[x]
                 /\ LastSeen(new[x], t) <= clock /\ LastSeen(new[x], t) <= t
      <4>1. new[x].last_seen \in answered[x]
        BY <1>5, <2>2, <3>4 DEF Truthful
      <4>2. LastSeen(new[x], t) = new[x].last_seen
        BY <3>4, <4>1 DEF TypeOK, LastSeen
      <4>3. new[x].last_seen <= clock
        BY <3>4, <4>1 DEF StampInv
      <4>4. CASE mode[c] = "finish"
        BY <2>2, <3>4, <4>1, <4>2, <4>3, <4>4 DEF FinalInv, EndsBy, new, t
      <4>5. CASE mode[c] # "finish"
        BY <4>1, <4>2, <4>3, <4>5 DEF t
      <4> QED
        BY <4>4, <4>5
    <3> QED
      BY <3>1, <3>3, <3>4
  <2>3. CASE ~(x \in DOMAIN new /\ (x \in DOMAIN row => MayOverwrite(row[x], new[x])))
    <3>1. x \in DOMAIN row /\ row'[x] = row[x] /\ via'[x] = via[x]
      BY <2>1, <2>3 DEF Written, new
    <3>2. ASSUME x \in Peer, row[x].online, via[x] \notin HistoryFile
          PROVE  /\ row[x].last_seen \in answered[x] /\ row[x].last_seen <= clock
                 /\ via[x] = c => row[x].last_seen <= t
      <4>1. row[x].last_seen \in answered[x] /\ row[x].last_seen <= clock
        BY <3>1, <3>2 DEF RowInv, StampInv
      <4>2. CASE mode[c] = "finish"
        BY <3>1, <3>2, <4>1, <4>2 DEF FinalInv, t
      <4>3. CASE mode[c] # "finish"
        BY <4>1, <4>3 DEF t
      <4> QED
        BY <4>1, <4>2, <4>3
    <3> QED
      BY <3>1, <3>2 DEF RowInv
  <2> QED
    BY <2>2, <2>3
<1>7. RowInv'
  BY <1>2, <1>6 DEF RowInv
<1>8. ASSUME NEW h \in 1..MaxClock, NEW e \in points'[h],
             e.node \in Peer, e.via \notin HistoryFile
      PROVE  \E s \in answered[e.node] :
               s >= e.at - HistoryWindow /\ s <= (IF e.via = e.by THEN h ELSE e.at)
  <2> DEFINE counted == {[node |-> x, via |-> via'[x], at |-> clock, by |-> c] :
                 x \in {y \in DOMAIN row' :
                 row'[y].online /\ row'[y].last_seen >= clock - HistoryWindow}}
  <2>1. points' = [points EXCEPT ![t] = counted]
    BY <1>1, <1>2 DEF RecordHistory
  <2>2. CASE e \in points[h]
    BY <1>8, <2>2 DEF PopulationAnswered
  <2>3. CASE e \notin points[h]
    <3>1. h = t /\ e \in counted
      <4> HIDE DEF counted
      <4> QED
        BY <1>3, <1>8, <2>1, <2>3 DEF TypeOK
    <3>2. PICK x \in DOMAIN row' :
             /\ e = [node |-> x, via |-> via'[x], at |-> clock, by |-> c]
             /\ row'[x].online /\ row'[x].last_seen >= clock - HistoryWindow
      BY <3>1
    <3>3. e.node = x /\ e.via = via'[x] /\ e.at = clock /\ e.by = c
      BY <3>2
    <3>4. x \in Peer /\ via'[x] \notin HistoryFile
      BY <1>8, <3>3
    <3>5. /\ row'[x].last_seen \in answered[x] /\ row'[x].last_seen <= clock
          /\ via'[x] = c => row'[x].last_seen <= h
      BY <1>6, <3>1, <3>2, <3>4
    <3> QED
      BY <3>2, <3>3, <3>5
  <2> QED
    BY <2>2, <2>3
<1>9. PopulationAnswered'
  BY <1>2, <1>8 DEF PopulationAnswered
<1>10. FinalInv'
  <2>1. /\ mode'[c] # "finish"
        /\ \A d \in Crawler \ {c} : mode'[d] = mode[d] /\ job'[d] = job[d]
    BY DEF WriteSnapshot, TypeOK
  <2> SUFFICES ASSUME NEW d \in Crawler \ HistoryFile, mode'[d] = "finish"
               PROVE  /\ EndsBy(job[d].nodes, job[d].generated_at)'
                      /\ \A x \in DOMAIN row' \cap Peer : via'[x] = d /\ row'[x].online =>
                           row'[x].last_seen <= job'[d].generated_at
    BY DEF FinalInv
  <2>2. d # c /\ mode[d] = "finish" /\ job'[d] = job[d]
    BY <2>1
  <2>3. ASSUME NEW x \in DOMAIN row' \cap Peer, via'[x] = d, row'[x].online
        PROVE  row'[x].last_seen <= job[d].generated_at
    <3>1. x \in DOMAIN row /\ row'[x] = row[x] /\ via'[x] = via[x]
      <4>1. Written(c, x)
        BY <1>1
      <4> QED
        BY <2>2, <2>3, <4>1 DEF Written
    <3> QED
      BY <2>2, <2>3, <3>1 DEF FinalInv
  <2> QED
    BY <2>2, <2>3 DEF FinalInv, EndsBy
<1> QED
  BY <1>7, <1>9, <1>10

LEMMA WriteSnapshotStore ==
  ASSUME StoreInv, NEW c \in Crawler, WriteSnapshot(c)
  PROVE  StoreInv'
<1> USE DEF StoreInv
<1>1. /\ job' = [job EXCEPT ![c] = NoJob]
      /\ \/ /\ mode' = [mode EXCEPT ![c] = "idle"]
            /\ nodes' = [nodes EXCEPT ![c] = Nothing]
            /\ taken' = [taken EXCEPT ![c] = {}]
         \/ mode[c] # "finish" /\ UNCHANGED <<mode, nodes, taken>>
      /\ UNCHANGED <<clock, cycles, saved, hist, answered>>
  BY DEF WriteSnapshot, files
<1>2. /\ job'[c] = NoJob /\ mode'[c] # "finish" /\ nodes'[c] \in {nodes[c], Nothing}
      /\ \A d \in Crawler \ {c} :
           nodes'[d] = nodes[d] /\ job'[d] = job[d] /\ mode'[d] = mode[d]
  BY <1>1 DEF TypeOK
<1>3. RecordsInv'
  <2>1. DOMAIN (nodes'[c]) \subseteq Peer /\ Truthful(nodes'[c])
    BY <1>2, EmptyTables, NothingTruthful DEF RecordsInv
  <2>2. Truthful(job'[c].nodes)
    BY <1>2, NoJobTypes, NothingTruthful
  <2>3. DOMAIN (saved'[c]) \subseteq Peer /\ Truthful(saved'[c])
    BY <1>1 DEF RecordsInv
  <2> QED
    BY <1>1, <1>2, <2>1, <2>2, <2>3, OneCrawler
<1>4. StampInv'
  <2>1. clock \in Nat
    BY Hours DEF TypeOK
  <2> QED
    BY <1>1, <1>2, <2>1, NoJobTypes DEF StampInv
<1>5. /\ clock' \in 1..MaxClock /\ cycles' \in 0..MaxCycles
      /\ mode' \in [Crawler -> {"idle", "crawl", "finish"}]
      /\ nodes' \in [Crawler -> Records]
      /\ taken' \in [Crawler -> SUBSET Peer]
      /\ saved' \in [Crawler -> Records] /\ hist' \in [Crawler -> Records]
      /\ job' \in [Crawler -> [nodes : Records, generated_at : Time]]
      /\ answered' \in [Peer -> SUBSET (1..MaxClock)]
  <2>1. /\ mode' \in [Crawler -> {"idle", "crawl", "finish"}]
        /\ taken' \in [Crawler -> SUBSET Peer]
    BY <1>1 DEF TypeOK
  <2>2. nodes' \in [Crawler -> Records]
    BY <1>1, EmptyTables DEF TypeOK
  <2>3. job' \in [Crawler -> [nodes : Records, generated_at : Time]]
    BY <1>1, NoJobTypes DEF TypeOK
  <2> QED
    BY <1>1, <2>1, <2>2, <2>3 DEF TypeOK
<1>6. CASE UNCHANGED tables
  <2>1. TypeOK'
    BY <1>5, <1>6 DEF TypeOK, tables
  <2>2. FinalInv'
    BY <1>2, <1>6, QuietFinals DEF tables
  <2> QED
    BY <1>1, <1>3, <1>4, <1>6, <2>1, <2>2, QuietTables
<1>7. CASE ~UNCHANGED tables
  <2> DEFINE t == IF mode[c] = "finish" THEN job[c].generated_at ELSE clock
  <2>1. /\ DOMAIN row' = DOMAIN row \cup DOMAIN job[c].nodes
        /\ DOMAIN row' \subseteq Addr
        /\ row' = [x \in DOMAIN row' |-> row'[x]]
        /\ via' = [x \in DOMAIN row' |-> via'[x]]
        /\ \A x \in DOMAIN row' : Written(c, x)
        /\ edges' \subseteq Addr \X Addr
        /\ RecordHistory(c, row', via', t)
    BY <1>7, WriteLeaves
  <2>2. row' \in Rows
    <3>1. \A x \in DOMAIN row' : row'[x] \in Row
      BY <2>1 DEF Written
    <3>2. row' \in [DOMAIN row' -> Row]
      BY <2>1, <3>1
    <3> QED
      BY <2>1, <3>2, RowsAre
  <2>3. via' \in [DOMAIN row' -> Crawler]
    <3>1. ASSUME NEW x \in DOMAIN row'
          PROVE  via'[x] \in Crawler
      <4>1. Written(c, x)
        BY <2>1
      <4>2. via'[x] = c \/ (x \in DOMAIN row /\ via'[x] = via[x])
        BY <4>1 DEF Written
      <4> QED
        BY <4>2 DEF TypeOK
    <3> QED
      BY <2>1, <3>1
  <2>4. points' \in [1..MaxClock -> SUBSET Counted]
    <3> DEFINE counted == {[node |-> x, via |-> via'[x], at |-> clock, by |-> c] :
                   x \in {y \in DOMAIN row' :
                   row'[y].online /\ row'[y].last_seen >= clock - HistoryWindow}}
    <3>1. points' = [points EXCEPT ![t] = counted]
      BY <1>1, <2>1 DEF RecordHistory
    <3>2. counted \subseteq Counted
      BY <2>1, <2>3, Hours DEF Counted, TypeOK
    <3> HIDE DEF counted, t
    <3> QED
      BY <3>1, <3>2 DEF TypeOK
  <2>5. TypeOK'
    BY <1>5, <2>1, <2>2, <2>3, <2>4 DEF TypeOK
  <2> QED
    BY <1>3, <1>4, <1>7, <2>5, WriteKeepsPromises
<1> QED
  BY <1>6, <1>7

LEMMA PruneStore == ASSUME StoreInv, Prune PROVE StoreInv'
<1> USE DEF StoreInv
<1> PICK seeds \in SUBSET DepthZero :
      LET kept == {x \in DOMAIN row : ~Pruned(x, seeds)}
      IN  /\ row' = [x \in kept |-> row[x]]
          /\ via' = [x \in kept |-> via[x]]
          /\ edges' = {e \in edges : e[1] \in kept /\ e[2] \in kept}
  BY DEF Prune
<1> DEFINE kept == {x \in DOMAIN row : ~Pruned(x, seeds)}
<1>1. /\ UNCHANGED <<clock, cycles, mode, nodes, taken, saved, hist, job, points,
                     answered>>
      /\ kept \subseteq DOMAIN row /\ DOMAIN row' = kept
      /\ \A x \in kept : row'[x] = row[x] /\ via'[x] = via[x]
      /\ row' = [x \in kept |-> row[x]] /\ via' = [x \in kept |-> via[x]]
      /\ edges' \subseteq edges
  BY DEF Prune, files
<1> HIDE DEF kept
<1>2. TypeOK'
  <2>1. row' \in Rows
    <3>1. row \in [DOMAIN row -> Row] /\ DOMAIN row \subseteq Addr
      BY RowsAre DEF TypeOK
    <3>2. row' \in [DOMAIN row' -> Row] /\ DOMAIN row' \subseteq Addr
      BY <1>1, <3>1
    <3> QED
      BY <3>2, RowsAre
  <2>2. via' \in [DOMAIN row' -> Crawler]
    BY <1>1 DEF TypeOK
  <2>3. edges' \subseteq Addr \X Addr
    BY <1>1 DEF TypeOK
  <2> QED
    BY <1>1, <2>1, <2>2, <2>3 DEF TypeOK
<1>3. RecordsInv'
  BY <1>1 DEF RecordsInv, Truthful
<1>4. StampInv'
  BY <1>1 DEF StampInv
<1>5. RowInv'
  BY <1>1 DEF RowInv
<1>6. PopulationAnswered' /\ FinalInv'
  BY <1>1 DEF PopulationAnswered, FinalInv, EndsBy
<1> QED
  BY <1>2, <1>3, <1>4, <1>5, <1>6

LEMMA StoreInvariant == Spec => []StoreInv
<1>1. StoreInv /\ [Next]_vars => StoreInv'
  <2> SUFFICES ASSUME StoreInv, [Next]_vars
               PROVE  StoreInv'
    OBVIOUS
  <2>1. ASSUME NEW c \in Crawler, CrawlStep(c)
        PROVE  StoreInv'
    BY <2>1, StartCycleStore, AnswerStore, FailStore, SaveStateStore,
       TakeSnapshotStore, FinishCrawlStore, CrashStore DEF CrawlStep
  <2>2. CASE UNCHANGED vars
    <3>1. UNCHANGED <<clock, cycles, mode, nodes, taken, saved, hist, job, row,
                      edges, points, via, answered>>
      BY <2>2 DEF vars, files, tables
    <3>2. TypeOK'
      BY <3>1 DEF StoreInv, TypeOK
    <3>3. RecordsInv' /\ StampInv' /\ FinalInv'
      BY <3>1, QuietFinals DEF StoreInv, RecordsInv, Truthful, StampInv
    <3> QED
      BY <3>1, <3>2, <3>3, QuietTables DEF StoreInv, tables
  <2> QED
    BY <2>1, <2>2, TickStore, PruneStore, WriteSnapshotStore DEF Next
<1> QED
  BY InitStore, <1>1, PTL DEF Spec

-----------------------------------------------------------------------------
(* The theorems.                                                            *)

\* Every variable keeps its type, for any peers, crawlers and bounds.
THEOREM StoreTypeCorrect == Spec => []TypeOK
<1>1. StoreInv => TypeOK
  BY DEF StoreInv
<1> QED
  BY StoreInvariant, <1>1, PTL

\* What the site shows as reachable completed a handshake within the freshness
\* window, for any number of crawlers, however late a snapshot was written and
\* whatever others wrote since.
THEOREM ServedReallyAnswered == Spec => []ServedPeersAnswered
<1>1. StoreInv => ServedPeersAnswered
  <2> SUFFICES ASSUME StoreInv, NEW p \in DOMAIN row \cap Peer,
                      MaxAge # 0, Fresh(row[p], MaxAge), via[p] \notin HistoryFile
               PROVE  \E t \in answered[p] : t >= clock - MaxAge
    BY DEF ServedPeersAnswered
  <2>1. row[p].online /\ row[p].last_seen >= clock - MaxAge
    BY DEF Fresh
  <2> QED
    BY <2>1 DEF StoreInv, RowInv
<1> QED
  BY StoreInvariant, <1>1, PTL

\* Every hourly population point counts a peer for an answer within the window
\* that ends at the hour of its write; what the writing crawler found itself, it
\* found no later than the hour the point is filed under.
THEOREM PopulationReallyAnswered == Spec => []PopulationAnswered
<1>1. StoreInv => PopulationAnswered
  BY DEF StoreInv
<1> QED
  BY StoreInvariant, <1>1, PTL

\* No failed probe, stub or RPC record of any crawler takes a handshaken row
\* offline: only a crawler with a history file can.
THEOREM OthersNeverDemote == Spec => OnlyHistoryDemotes
<1>1. StoreInv /\ [Next]_vars =>
        [\A x \in DOMAIN row \cap DOMAIN row' : DemotedByHistory(x)]_vars
  <2> SUFFICES ASSUME StoreInv, Next,
                      NEW x \in DOMAIN row \cap DOMAIN row',
                      row[x].handshaked, row[x].online
               PROVE  (row'[x].handshaked /\ row'[x].online) \/ via'[x] \in HistoryFile
    BY DEF DemotedByHistory
  <2>1. ASSUME UNCHANGED row
        PROVE  row'[x].handshaked /\ row'[x].online
    BY <2>1
  <2>2. CASE Tick \/ \E c \in Crawler : CrawlStep(c)
    BY <2>1, <2>2 DEF Tick, CrawlStep, StartCycle, Answer, Fail, SaveState,
       TakeSnapshot, FinishCrawl, Crash, tables
  <2>3. CASE Prune
    BY <2>3 DEF Prune
  <2>4. ASSUME NEW c \in Crawler, WriteSnapshot(c)
        PROVE  (row'[x].handshaked /\ row'[x].online) \/ via'[x] \in HistoryFile
    <3>1. CASE UNCHANGED tables
      BY <2>1, <3>1 DEF tables
    <3>2. CASE ~UNCHANGED tables
      <4> DEFINE new == job[c].nodes
      <4>1. Written(c, x)
        BY <2>4, <3>2, WriteLeaves
      <4>2. CASE x \in DOMAIN new /\ MayOverwrite(row[x], new[x])
        <5>1. /\ via'[x] = c /\ row'[x].handshaked = new[x].handshaked
              /\ row'[x].online = new[x].online
          BY <4>1, <4>2 DEF Written
        <5>2. new[x].handshaked
          BY <4>2 DEF MayOverwrite
        <5>3. c \notin HistoryFile => new[x].online
          BY <4>2, <5>2 DEF StoreInv, RecordsInv, Truthful
        <5> QED
          BY <5>1, <5>2, <5>3
      <4>3. CASE ~(x \in DOMAIN new /\ MayOverwrite(row[x], new[x]))
        BY <4>1, <4>3 DEF Written
      <4> QED
        BY <4>2, <4>3
    <3> QED
      BY <3>1, <3>2
  <2> QED
    BY <2>2, <2>3, <2>4 DEF Next
<1> QED
  BY StoreInvariant, <1>1, PTL DEF Spec, OnlyHistoryDemotes

\* Nothing the site shows is ever lost, and what a row has learnt it keeps, as
\* long as the keep window of a prune is no shorter than the site's freshness
\* window and that one is not unlimited, as the comment of prune_and_vacuum
\* asks ("keep_days should exceed the serve freshness window").
THEOREM ShownRowsKept ==
  ASSUME MaxAge # 0, MaxAge <= KeepAge
  PROVE  Spec => StoreAccumulates
<1>1. StoreInv /\ [Next]_vars => [\A x \in DOMAIN row : Accumulates(x)]_vars
  <2> SUFFICES ASSUME StoreInv, Next, NEW x \in DOMAIN row
               PROVE  Accumulates(x)
    OBVIOUS
  <2>1. ASSUME UNCHANGED row
        PROVE  Accumulates(x)
    BY <2>1 DEF Accumulates
  <2>2. CASE Tick \/ \E c \in Crawler : CrawlStep(c)
    BY <2>1, <2>2 DEF Tick, CrawlStep, StartCycle, Answer, Fail, SaveState,
       TakeSnapshot, FinishCrawl, Crash, tables
  <2>3. CASE Prune
    <3> PICK seeds \in SUBSET DepthZero :
          row' = [y \in {z \in DOMAIN row : ~Pruned(z, seeds)} |-> row[y]]
      BY <2>3 DEF Prune
    <3>1. CASE Pruned(x, seeds)
      <4>1. x \notin DOMAIN row' /\ x # Own
        BY <3>1 DEF Pruned
      <4>2. row[x].last_seen = 0 \/ row[x].last_seen < clock - KeepAge
        BY <3>1 DEF Pruned
      <4>3. clock \in Nat /\ row[x].last_seen \in Nat
        <5>1. row[x] \in Row
          BY RowsAre DEF StoreInv, TypeOK
        <5> QED
          BY <5>1, Hours DEF StoreInv, TypeOK, Row
      <4>4. ~Fresh(row[x], MaxAge)
        BY <4>2, <4>3, Hours DEF Fresh, StoreInv, RowInv
      <4> QED
        BY <4>1, <4>4 DEF Accumulates
    <3>2. CASE ~Pruned(x, seeds)
      BY <3>2 DEF Accumulates
    <3> QED
      BY <3>1, <3>2
  <2>4. ASSUME NEW c \in Crawler, WriteSnapshot(c)
        PROVE  Accumulates(x)
    <3>1. CASE UNCHANGED tables
      BY <2>1, <3>1 DEF tables
    <3>2. CASE ~UNCHANGED tables
      <4>1. x \in DOMAIN row' /\ Written(c, x)
        BY <2>4, <3>2, WriteLeaves
      <4> QED
        BY <4>1 DEF Written, Accumulates
    <3> QED
      BY <3>1, <3>2
  <2> QED
    BY <2>2, <2>3, <2>4 DEF Next
<1> QED
  BY StoreInvariant, <1>1, PTL DEF Spec, StoreAccumulates
=============================================================================
