---------------------------- MODULE BlockRefresh ----------------------------
(***************************************************************************)
(* How the crawler keeps the explorer's blocks table (src/src/db.rs) in    *)
(* step with its node: the new-block branch of the snapshot callback in    *)
(* src/src/main.rs, a chain of RPC calls and database writes while the     *)
(* chain grows and reorganises underneath.                                 *)
(*                                                                         *)
(* A block is a number standing for its hash; 0 stands for NULL.  The      *)
(* peer-cluster and chain-split records the same branch writes share no    *)
(* state with the blocks and are left out.                                 *)
(***************************************************************************)
EXTENDS Integers, Sequences, FiniteSets

CONSTANTS
  Window,      \* BLOCKS_PER_REFRESH
  Analyze,     \* ANALYZE_PER_REFRESH
  Backfill,    \* STORE_SIGNALLING_PER_REFRESH
  Period,      \* signal_window, the length of a difficulty period
  Signalling,  \* the blocks that signal
  FirstBlocks, \* length of the chain when the crawler first starts
  MaxBlocks,   \* bound: blocks ever mined
  MaxDepth,    \* bound: depth of a reorganisation
  MaxRestarts  \* bound

ASSUME RefreshAssumption ==
  /\ Window \in Nat \ {0} /\ Analyze \in Nat /\ Backfill \in Nat
  /\ Period \in Nat \ {0}
  /\ FirstBlocks \in Nat \ {0} /\ MaxBlocks \in Nat /\ FirstBlocks <= MaxBlocks
  /\ Signalling \subseteq 1..MaxBlocks
  /\ MaxDepth \in Nat /\ MaxRestarts \in Nat

Block == 1..MaxBlocks
Height == 0..(MaxBlocks - 1)
Row == [hash : Block, payload : Block \cup {0}, stats : Block \cup {0}]

VARIABLES
  chain,      \* the node's active chain: chain[h + 1] is the block at height h
  mined,      \* blocks mined so far, on any branch
  row,        \* the blocks table, by height
  cached,     \* tip_height of the signalling cache, -1 for None
  refreshed,  \* refreshed_once
  pc,         \* position in the callback
  tip,        \* the tip the signalling scan has read
  heights,    \* signalling_heights
  want,       \* heights still to be scanned or fetched, in order
  batch,      \* blocks fetched: a set of <<height, block>>
  pending,    \* blocks to analyse: a sequence of <<height, block>>
  restarts,
  failed,     \* history: has a call of the current refresh failed?
  backlog,    \* history: unstored signalling heights when the scan began
  replaced    \* history: heights whose block a reorganisation replaced

fetchVars == <<tip, heights, want, batch, pending>>
cacheVars == <<cached, refreshed>>
nodeVars == <<chain, mined, replaced>>
vars == <<nodeVars, row, cacheVars, pc, fetchVars, restarts, failed, backlog>>

Tip == Len(chain) - 1
At(h) == chain[h + 1]
PeriodStart(t) == (t \div Period) * Period

\* The scan of one period: from its first block to the tip read before.
SignallingHeights(t) == {h \in PeriodStart(t)..t : At(h) \in Signalling}
Unstored(H) == H \ DOMAIN row

TypeOK ==
  /\ chain \in Seq(Block) /\ Len(chain) \in 1..MaxBlocks
  /\ mined \in Block
  /\ DOMAIN row \subseteq Height /\ \A h \in DOMAIN row : row[h] \in Row
  /\ cached \in Height \cup {-1} /\ refreshed \in BOOLEAN
  /\ pc \in {"idle", "scan", "headers", "window", "recent", "store",
             "backfill", "fetchMissing", "storeMissing", "select", "analyse"}
  /\ tip \in Height /\ heights \subseteq Height
  /\ want \in Seq(Height) /\ batch \subseteq Height \X Block
  /\ pending \in Seq(Height \X Block) /\ Len(pending) <= Analyze
  /\ restarts \in 0..MaxRestarts
  /\ failed \in BOOLEAN /\ backlog \in Nat
  /\ replaced \subseteq Height

Init ==
  /\ chain = [i \in 1..FirstBlocks |-> i] /\ mined = FirstBlocks
  /\ row = [h \in {} |-> 0]
  /\ cached \in {-1, Tip}   \* the startup scan, or its failure
  /\ refreshed = FALSE /\ pc = "idle"
  /\ tip = 0 /\ heights = {} /\ want = <<>> /\ batch = {} /\ pending = <<>>
  /\ restarts = 0 /\ failed = FALSE /\ backlog = 0 /\ replaced = {}

-----------------------------------------------------------------------------
(* The node.                                                                *)

\* The d newest blocks give way to a longer branch; d = 0 is an ordinary block.
NewBlock(d) ==
  /\ d < Len(chain) /\ mined + d + 1 <= MaxBlocks
  /\ chain' = SubSeq(chain, 1, Len(chain) - d) \o [i \in 1..(d + 1) |-> mined + i]
  /\ mined' = mined + d + 1
  /\ replaced' = replaced \cup {h \in Height : h > Tip - d /\ h <= Tip}
  /\ UNCHANGED <<row, cacheVars, pc, fetchVars, restarts, failed, backlog>>

-----------------------------------------------------------------------------
(* The callback.                                                            *)

\* The crawler stops, or its crawl ends, and starts again: the cache holds the
\* startup scan, and the next tick is a first one.
Restart ==
  /\ restarts < MaxRestarts
  /\ restarts' = restarts + 1
  /\ cached' \in {-1, Tip}
  /\ refreshed' = FALSE /\ pc' = "idle" /\ failed' = FALSE
  /\ tip' = 0 /\ heights' = {} /\ want' = <<>> /\ batch' = {} /\ pending' = <<>>
  /\ UNCHANGED <<nodeVars, row, backlog>>

\* Mutant: no special first tick.
OnlyNewTip == cached # Tip

\* A new tip since the last scan, or the first tick of this process.
NeedsRefresh == cached # Tip \/ ~refreshed

\* getblockcount has answered; without an answer the tick does nothing.
RefreshTick ==
  /\ pc = "idle" /\ NeedsRefresh
  /\ refreshed' = TRUE /\ pc' = "scan" /\ failed' = FALSE
  /\ heights' = {}
  /\ UNCHANGED <<nodeVars, row, cached, tip, want, batch, pending, restarts,
                 backlog>>

QuietTick ==
  /\ pc = "idle" /\ ~NeedsRefresh
  /\ refreshed' = TRUE
  /\ UNCHANGED <<nodeVars, row, cached, pc, fetchVars, restarts, failed, backlog>>

\* The newest n of a set of heights, newest first.
Descending(H) ==
  [i \in 1..Cardinality(H) |->
     CHOOSE h \in H : Cardinality({k \in H : k > h}) = i - 1]
Newest(n, H) == Descending({h \in H : Cardinality({k \in H : k > h}) < n})

\* RpcClient::signalling reads the tip, then the period's headers one by one.
ScanTip ==
  /\ pc = "scan"
  /\ tip' = Tip
  /\ want' = [i \in 1..(Tip - PeriodStart(Tip) + 1) |-> PeriodStart(Tip) + i - 1]
  /\ backlog' = Cardinality(Unstored(SignallingHeights(Tip)))
  /\ pc' = "headers"
  /\ UNCHANGED <<nodeVars, row, cacheVars, heights, batch, pending, restarts,
                 failed>>

ScanHeader ==
  /\ pc = "headers" /\ want # <<>>
  /\ heights' = heights \cup {h \in {Head(want)} : At(h) \in Signalling}
  /\ want' = Tail(want)
  /\ UNCHANGED <<nodeVars, row, cacheVars, pc, tip, batch, pending, restarts,
                 failed, backlog>>

EndScan ==
  /\ pc = "headers" /\ want = <<>>
  /\ cached' = tip /\ pc' = "window"
  /\ UNCHANGED <<nodeVars, row, refreshed, fetchVars, restarts, failed, backlog>>

\* A failed scan leaves the cache as it is and no heights; the refresh goes on.
ScanFails ==
  /\ pc \in {"scan", "headers"}
  /\ heights' = {} /\ want' = <<>> /\ failed' = TRUE /\ pc' = "window"
  /\ UNCHANGED <<nodeVars, row, cacheVars, tip, batch, pending, restarts, backlog>>

\* recent_blocks: the newest Window heights, from a tip of its own.
Recent == [i \in 1..(IF Window > Tip THEN Tip + 1 ELSE Window) |-> Tip - i + 1]

RecentTip ==
  /\ pc = "window"
  /\ want' = Recent /\ pc' = "recent"
  /\ UNCHANGED <<nodeVars, row, cacheVars, tip, heights, batch, pending,
                 restarts, failed, backlog>>

\* One getblockhash and getblock after the other.
FetchBlock(from, to) ==
  /\ pc = from
  /\ IF want = <<>> THEN pc' = to /\ UNCHANGED <<want, batch>>
     ELSE /\ batch' = batch \cup {<<Head(want), At(Head(want))>>}
          /\ want' = Tail(want) /\ UNCHANGED pc
  /\ UNCHANGED <<nodeVars, row, cacheVars, tip, heights, pending, restarts,
                 failed, backlog>>

\* A fetch fails as a whole, or the database cannot be opened after it: nothing
\* of it is stored.
FetchFails(from, to) ==
  /\ pc = from
  /\ want' = <<>> /\ batch' = {} /\ pc' = to /\ failed' = TRUE
  /\ UNCHANGED <<nodeVars, row, cacheVars, tip, heights, pending, restarts, backlog>>

\* Mutant: INSERT OR REPLACE.
ReplaceRow(b, old) == [hash |-> b, payload |-> 0, stats |-> 0]

\* The upsert by height leaves payload and stats alone.
StoreRow(b, old) == [old EXCEPT !.hash = b]

NewRow(b) == [hash |-> b, payload |-> 0, stats |-> 0]

\* write_blocks, one transaction; a failure is logged and the refresh goes on.
StoreBatch(from, to) ==
  LET stored == {e[1] : e \in batch}
      BlockAt(h) == (CHOOSE e \in batch : e[1] = h)[2]
  IN  /\ pc = from
      /\ pc' = to /\ batch' = {}
      /\ \/ /\ row' = [h \in DOMAIN row \cup stored |->
                         IF h \notin stored THEN row[h]
                         ELSE IF h \in DOMAIN row THEN StoreRow(BlockAt(h), row[h])
                         ELSE NewRow(BlockAt(h))]
            /\ UNCHANGED failed
         \/ UNCHANGED row /\ failed' = TRUE
      /\ UNCHANGED <<nodeVars, cacheVars, tip, heights, want, pending, restarts,
                     backlog>>

\* Mutant: the batch is cut one short.
BackfillShort(H) == Newest(Backfill - 1, H)

\* The newest unstored signalling heights, at most Backfill of them.
BackfillBatch(H) == Newest(Backfill, H)

SelectMissing ==
  /\ pc = "backfill"
  /\ \/ want' = BackfillBatch(Unstored(heights)) /\ UNCHANGED failed
     \/ want' = <<>> /\ failed' = TRUE   \* the query failed
  /\ pc' = IF want' = <<>> THEN "select" ELSE "fetchMissing"
  /\ UNCHANGED <<nodeVars, row, cacheVars, tip, heights, batch, pending,
                 restarts, backlog>>

NeedingAnalysis == {h \in DOMAIN row : row[h].payload = 0}

\* Mutant: analyse everything at once.
EverythingPending == Descending(NeedingAnalysis)

\* blocks_needing_analysis, newest first.
PendingHeights == Newest(Analyze, NeedingAnalysis)

SelectPending ==
  /\ pc = "select"
  /\ \/ /\ pending' = [i \in DOMAIN PendingHeights |->
                         <<PendingHeights[i], row[PendingHeights[i]].hash>>]
        /\ UNCHANGED failed
     \/ pending' = <<>> /\ failed' = TRUE   \* the query failed
  /\ pc' = "analyse"
  /\ UNCHANGED <<nodeVars, row, cacheVars, tip, heights, want, batch, restarts,
                 backlog>>

\* Mutant: the statistics are asked for by position from the tip.
StatsBelow(h) == At(IF h > 0 THEN h - 1 ELSE h)

\* getblockstats takes a height: the block there at this moment.
BlockStats(h) == At(h)

\* analyze_block takes the stored hash, block_stats and the update the height.
AnalyseBlock ==
  /\ pc = "analyse" /\ pending # <<>>
  /\ LET h == Head(pending)[1]
         b == Head(pending)[2]
     IN  \/ /\ \E s \in {0, BlockStats(h)} :
                 row' = [row EXCEPT ![h].payload = b, ![h].stats = s]
            /\ pending' = Tail(pending) /\ UNCHANGED failed
         \/ UNCHANGED row /\ pending' = Tail(pending) /\ failed' = TRUE
         \/ UNCHANGED row /\ pending' = <<>> /\ failed' = TRUE
  /\ UNCHANGED <<nodeVars, cacheVars, pc, tip, heights, want, batch, restarts,
                 backlog>>

EndRefresh ==
  /\ pc = "analyse" /\ pending = <<>>
  /\ pc' = "idle" /\ heights' = {}
  /\ tip' = 0
  /\ UNCHANGED <<nodeVars, row, cacheVars, want, batch, pending, restarts,
                 failed, backlog>>

-----------------------------------------------------------------------------
FetchStep ==
  \/ ScanTip \/ ScanHeader \/ EndScan \/ ScanFails \/ RecentTip
  \/ FetchBlock("recent", "store") \/ FetchFails("recent", "idle")
  \/ StoreBatch("store", "backfill")
  \/ SelectMissing
  \/ FetchBlock("fetchMissing", "storeMissing")
  \/ FetchFails("fetchMissing", "select")
  \/ StoreBatch("storeMissing", "select")

AnalyseStep == SelectPending \/ AnalyseBlock \/ EndRefresh

Next ==
  \/ \E d \in 0..MaxDepth : NewBlock(d)
  \/ Restart \/ RefreshTick \/ QuietTick \/ FetchStep \/ AnalyseStep

Spec == Init /\ [][Next]_vars

-----------------------------------------------------------------------------
(* Properties.                                                              *)

\* A refresh of the current chain has ended and none of its calls failed.
Settled == pc = "idle" /\ refreshed /\ ~failed /\ cached = Tip

\* After a refresh without failures the newest blocks are in the table under
\* the hashes of the active chain, on the first tick after a start as on every
\* other, although the chain grew or reorganised between the calls.
WindowMirrorsChain ==
  Settled => \A h \in 0..Tip : h > Tip - Window =>
               h \in DOMAIN row /\ row[h].hash = At(h)

\* A refresh without failures stores the period's signalling blocks, or as many
\* of them as one batch holds: the backlog shrinks until none is missing.
BacklogShrinks ==
  Settled => Cardinality(Unstored(SignallingHeights(Tip))) <=
               IF backlog > Backfill THEN backlog - Backfill ELSE 0

\* The analysis of a stored block is that of another block only at a height
\* where a reorganisation has replaced the block.
AnalysisBelongs ==
  \A h \in DOMAIN row \ replaced :
    row[h].payload \in {0, row[h].hash} /\ row[h].stats \in {0, row[h].hash}

AnalysisStays(h) ==
  h \in DOMAIN row' /\ (row[h].payload # 0 => row'[h].payload # 0)

\* A block scanned once is never put back among those to be scanned, whatever
\* refresh stores it again.
AnalysisKept == [][\A h \in DOMAIN row : AnalysisStays(h)]_vars

\* The documentation's claim (db.rs: "Blocks are immutable, so height is the
\* key"): once a refresh has settled, a row's payload describes the block whose
\* hash the row shows.
SettledPayloadMatches ==
  Settled => \A h \in DOMAIN row : row[h].payload \in {0, row[h].hash}

-----------------------------------------------------------------------------
(* Inductive strengthenings.                                                *)

Wanted == {want[i] : i \in DOMAIN want}
Fetched == {e[1] : e \in batch}

\* The chain never gets shorter, so every height at hand is on it.
InRange ==
  /\ Len(chain) <= mined
  /\ tip <= Tip /\ cached <= Tip
  /\ \A h \in DOMAIN row \cup heights \cup Wanted \cup Fetched : h <= Tip
  /\ \A i \in DOMAIN pending : pending[i][1] <= Tip

\* At a height that no reorganisation has touched there has been one block.
Sole(h, b) == h \in replaced \/ b = At(h)

SoleInv ==
  /\ \A h \in DOMAIN row : Sole(h, row[h].hash)
  /\ \A e \in batch : Sole(e[1], e[2])
  /\ \A i \in DOMAIN pending : Sole(pending[i][1], pending[i][2])
  /\ AnalysisBelongs

\* The scan of a chain that has not grown since finds the period's signalling
\* blocks and no others.
ScanInv ==
  /\ pc = "scan" => heights = {}
  /\ pc = "headers" /\ tip = Tip =>
       /\ Wanted \subseteq PeriodStart(Tip)..Tip
       /\ heights \subseteq SignallingHeights(Tip)
       /\ SignallingHeights(Tip) \subseteq heights \cup Wanted
       /\ Cardinality(Unstored(SignallingHeights(Tip))) <= backlog

InWindow == {h \in 0..Tip : h > Tip - Window}
Mirrored == \A h \in InWindow : h \in DOMAIN row /\ row[h].hash = At(h)
Shrunk(coming) ==
  Cardinality(Unstored(SignallingHeights(Tip)) \ coming) <=
    IF backlog > Backfill THEN backlog - Backfill ELSE 0

\* The rest of a refresh without failures, as long as the tip is the one
\* scanned: no block has come, so all that is fetched is on the chain.
RefreshInv ==
  /\ pc \notin {"recent", "store", "fetchMissing", "storeMissing"} => batch = {}
  /\ ~failed /\ cached = Tip =>
       /\ pc \in {"recent", "store", "fetchMissing", "storeMissing"} =>
            \A e \in batch : e[2] = At(e[1])
       /\ pc \in {"window", "recent", "store", "backfill"} =>
            /\ heights = SignallingHeights(Tip)
            /\ Cardinality(Unstored(SignallingHeights(Tip))) <= backlog
       /\ pc = "recent" => InWindow \subseteq Wanted \cup Fetched
       /\ pc = "store" => InWindow \subseteq Fetched
       /\ pc \in {"backfill", "fetchMissing", "storeMissing", "select", "analyse"} =>
            Mirrored
       /\ pc = "fetchMissing" => Shrunk(Wanted \cup Fetched)
       /\ pc = "storeMissing" => Shrunk(Fetched)
       /\ pc \in {"select", "analyse"} => Shrunk({})
       /\ pc = "idle" /\ refreshed => Mirrored /\ Shrunk({})
=============================================================================
