----------------------------- MODULE ChainSurvey -----------------------------
(***************************************************************************)
(* The chain survey: which block each crawled peer reports at one          *)
(* reference height (module Probe shows how a probe obtains it), the       *)
(* clusters of equal hashes, and the chain-split verdict of                *)
(* assess_chain_split in src/src/node.rs.  Both are written to the meta    *)
(* table by the new-block branch of the snapshot callback in               *)
(* src/src/main.rs, while workers go on probing and while the chain grows, *)
(* reorganises and, at most once, splits for good.                         *)
(*                                                                         *)
(* A block is a number standing for its hash; 0 stands for no hash.        *)
(***************************************************************************)
EXTENDS Integers, Sequences, FiniteSetsExt

CONSTANTS
  Peer,
  Stray,        \* misconfigured peers, which report a block of their own
  StartLag,     \* LOCATOR_START_LAG
  RefLag,       \* CHAIN_REF_LAG
  MinCluster,   \* MIN_SPLIT_CLUSTER
  Recency,      \* REJECT_RECENCY
  Resume,       \* is the crawler run with a state file?
  FirstBlocks,  \* length of the chain at first
  MaxReorg,     \* depth of an ordinary reorganisation, at most RefLag
  MaxBlocks,    \* bound: blocks ever mined
  MaxCycles,    \* bound: crawls
  MaxFailures   \* bound: failed calls to the node or the database

ASSUME SurveyAssumption ==
  /\ IsFiniteSet(Peer) /\ Stray \subseteq Peer
  /\ MinCluster \in Nat \ {0} /\ Cardinality(Stray) < MinCluster
  /\ StartLag \in Nat /\ RefLag \in Nat /\ RefLag <= StartLag
  /\ Recency \in Nat /\ Resume \in BOOLEAN
  /\ FirstBlocks \in Nat /\ MaxBlocks \in Nat /\ FirstBlocks <= MaxBlocks
  /\ Recency + 1 < FirstBlocks         \* the chain has outgrown the window
  /\ MaxReorg \in 0..RefLag /\ MaxCycles \in Nat /\ MaxFailures \in Nat

Block == 1..MaxBlocks
OddBlock == MaxBlocks + 1          \* what a stray peer reports
Hash == 1..OddBlock

\* A peer's record: none, or a handshake with the hash it reported, 0 when it
\* reported none.  A failed probe leaves a record without handshake and hash,
\* which the survey passes over like no record at all.
Unseen == -1
NoRecords == [p \in Peer |-> Unseen]

VARIABLES
  chain,      \* our node's active chain: chain[h + 1] is the block at height h
  rival,      \* the other chain after a split, <<>> before it
  followers,  \* the peers on it
  tips,       \* getchaintips without the active chain and the rival's tip
  verdict,    \* what our node thinks of the rival's tip
  mined,      \* blocks mined so far
  cycle,      \* crawls begun
  ref,        \* chain_ref_height, 0 when there is no locator
  cached,     \* tip_height of the signalling cache, -1 for None
  refreshed,  \* refreshed_once
  nodes,      \* the node records of the running crawl
  pc,         \* position in the callback
  snap,       \* the records the callback was given
  clusters,   \* meta row chain_clusters
  split,      \* meta row chain_split
  failures,   \* failed calls so far
  clean,      \* history: every call of this cycle's latest refresh succeeded
  owed        \* history: that refresh met a real split, see RealSplitReported

chainVars == <<chain, rival, followers, tips, verdict, mined>>
crawlVars == <<cycle, ref, nodes>>
cacheVars == <<cached, refreshed>>
vars == <<chainVars, crawlVars, cacheVars, pc, snap, clusters, split, failures, clean, owed>>

Tip == Len(chain) - 1
HashAt(c, h) == IF h < Len(c) THEN c[h + 1] ELSE 0

\* The first height at which the rival differs from our chain.
ForkHeight == Min({h \in 0..Len(rival) : HashAt(rival, h) # HashAt(chain, h)}
                  \cup {Len(rival)})

\* An old invalid branch, which getchaintips lists for ever.
OldInvalid == [height |-> 0, branchlen |-> 1, status |-> "invalid"]

Init ==
  /\ chain = [i \in 1..FirstBlocks |-> i] /\ mined = FirstBlocks
  /\ rival = <<>> /\ followers = {} /\ tips = {OldInvalid} /\ verdict = "none"
  /\ cycle = 0 /\ ref = 0 /\ nodes = NoRecords
  /\ cached = -1 /\ refreshed = FALSE
  /\ pc = "stopped" /\ snap = NoRecords
  /\ clusters = <<>> /\ split = <<>> 
  /\ failures = 0 /\ clean = FALSE /\ owed = FALSE

-----------------------------------------------------------------------------
(* The node and the network.                                                *)

\* The d newest blocks give way to a longer branch and remain as a stale tip;
\* d = 0 is an ordinary block.
NewBlock(d) ==
  /\ d < Len(chain) /\ mined + d + 1 <= MaxBlocks
  /\ chain' = SubSeq(chain, 1, Len(chain) - d) \o [i \in 1..(d + 1) |-> mined + i]
  /\ mined' = mined + d + 1
  /\ tips' = IF d = 0 THEN tips
             ELSE tips \cup {[height |-> Tip, branchlen |-> d, status |-> "valid-fork"]}
  /\ UNCHANGED <<rival, followers, verdict, crawlVars, cacheVars, pc, snap,
                 clusters, split, failures, clean, owed>>

\* A consensus split at the tip: some peers follow a block ours do not.  Our
\* node rejects it, or merely does not follow it.
SplitOff ==
  /\ rival = <<>> /\ mined < MaxBlocks
  /\ rival' = Append(chain, mined + 1) /\ mined' = mined + 1
  /\ followers' \in SUBSET (Peer \ Stray) \ {{}}
  /\ verdict' \in {"invalid", "headers-only"}
  /\ UNCHANGED <<chain, tips, crawlVars, cacheVars, pc, snap, clusters, split,
                 failures, clean, owed>>

RivalBlock ==
  /\ rival # <<>> /\ mined < MaxBlocks
  /\ rival' = Append(rival, mined + 1) /\ mined' = mined + 1
  /\ UNCHANGED <<chain, followers, tips, verdict, crawlVars, cacheVars, pc, snap,
                 clusters, split, failures, clean, owed>>

\* Any RPC call or database write may fail; the bound caps how many do.
CallFails == failures < MaxFailures /\ failures' = failures + 1

-----------------------------------------------------------------------------
(* A crawl.                                                                 *)

\* Mutant: compare at the tip itself.
RefAtTip(t) == IF t > StartLag THEN t ELSE 0

\* Far enough below the tip that peers differ only if their chains do.
RefHeight(t) == IF t > StartLag THEN t - RefLag ELSE 0

\* The crawl has ended, or the process has died, and the next one starts.  The
\* startup scan succeeds, or leaves neither a tip nor a locator.  With a state
\* file the records just saved are restored, and crawl() counts their peers as
\* seen.
StartCycle ==
  /\ cycle < MaxCycles
  /\ cycle' = cycle + 1
  /\ \/ cached' = Tip /\ ref' = RefHeight(Tip) /\ UNCHANGED failures
     \/ cached' = -1 /\ ref' = 0 /\ CallFails
  /\ nodes' = IF Resume THEN nodes ELSE NoRecords
  /\ refreshed' = FALSE /\ pc' = "idle" /\ clean' = FALSE /\ owed' = FALSE
  /\ snap' = NoRecords
  /\ UNCHANGED <<chainVars, clusters, split>>

\* What a peer may report at the reference height: its own chain's block there,
\* or nothing (it is behind, or sent no headers, or was not asked).
Reports(p) ==
  IF ref = 0 THEN {0}
  ELSE IF p \in Stray THEN {OddBlock}
  ELSE {0, HashAt(IF p \in followers THEN rival ELSE chain, ref)}

\* A worker probes a peer the crawl has not seen.
ProbePeer(p) ==
  /\ pc # "stopped" /\ nodes[p] = Unseen
  /\ \E r \in Reports(p) : nodes' = [nodes EXCEPT ![p] = r]
  /\ UNCHANGED <<chainVars, cycle, ref, cacheVars, pc, snap, clusters, split,
                 failures, clean, owed>>

-----------------------------------------------------------------------------
(* The survey in the snapshot callback.                                     *)

\* A new tip since the last scan, or the first tick of this crawl.
NeedsRefresh == cached # Tip \/ ~refreshed

\* history: the two chains differ at the reference height, and enough peers on
\* either have reported a block.
RealSplit ==
  LET reporting == {p \in Peer : nodes[p] > 0}
  IN  /\ rival # <<>> /\ ref > 0 /\ ref < Len(rival) /\ ForkHeight <= ref
      /\ Cardinality(reporting \cap followers) >= MinCluster
      /\ Cardinality(reporting \ (followers \cup Stray)) >= MinCluster

\* The monitor clones the records and getblockcount answers; a tick without
\* news writes nothing of the survey.  signalling() moves the cached tip or
\* fails, and the survey goes on either way (module BlockRefresh has the scan
\* call by call); the clusters come next if this crawl has a reference height.
RefreshTick ==
  /\ pc = "idle" /\ NeedsRefresh
  /\ refreshed' = TRUE /\ snap' = nodes /\ owed' = RealSplit
  /\ \/ cached' = Tip /\ clean' = TRUE /\ UNCHANGED failures
     \/ CallFails /\ clean' = FALSE /\ UNCHANGED cached
  /\ pc' = IF ref > 0 THEN "clusters" ELSE "split"
  /\ UNCHANGED <<chainVars, crawlVars, clusters, split>>

\* The clusters: the number of peers per reported hash.
ClusterSizes(records) ==
  [h \in Hash |-> Cardinality({p \in Peer : records[p] = h})]

\* A failed write is logged.  Which cluster holds our own block, from a
\* block_hash_at that may fail, is a label of the page and left out.
WriteClusters ==
  /\ pc = "clusters" /\ pc' = "split"
  /\ \/ /\ clusters' = [ref |-> ref, counts |-> ClusterSizes(snap)]
        /\ UNCHANGED <<failures, clean>>
     \/ CallFails /\ clean' = FALSE /\ UNCHANGED clusters
  /\ UNCHANGED <<chainVars, crawlVars, cacheVars, snap, split, owed>>

\* getchaintips: the stale and old branches, and the rival's tip.
ChainTips ==
  tips \cup (IF rival = <<>> THEN {}
             ELSE {[height |-> Len(rival) - 1, status |-> verdict,
                    branchlen |-> Len(rival) - ForkHeight]})

\* A branch our node rejected (MIN_REJECTED_FORK_LEN is 1), near the tip; Tip
\* is 0 also when there is no active entry.
RecentlyRejected(t) ==
  /\ t.status = "invalid" /\ t.branchlen >= 1
  /\ Tip = 0 \/ (Tip - t.height <= Recency /\ t.height - Tip <= Recency)

\* Mutant: peers that reported no hash form a cluster.
EveryHandshake(r, h) == r = h \/ (h = OddBlock /\ r = 0)

\* Of the peers, assess_chain_split counts the handshakes with a hash.
InCluster(r, h) == r = h

\* The sizes of the two largest clusters.
Largest(counts) == Max({counts[h] : h \in Hash})
Second(counts) ==
  LET top == CHOOSE h \in Hash : counts[h] = Largest(counts)
  IN  Max({counts[h] : h \in Hash \ {top}})

\* Mutant: one more peer than the threshold.
MoreThanCluster(n) == n > MinCluster

HasSupport(n) == n >= MinCluster

\* assess_chain_split.
Assess(records) ==
  LET counts == [h \in Hash |-> Cardinality({p \in Peer : InCluster(records[p], h)})]
      rejected == Cardinality({t \in ChainTips : RecentlyRejected(t)})
  IN  [split |-> rejected > 0 \/ HasSupport(Second(counts)),
       rejected |-> rejected,
       responded |-> SumFunction(counts),
       distinct |-> Cardinality({h \in Hash : counts[h] > 0}),
       largest |-> Largest(counts), second |-> Second(counts)]

\* getchaintips or the write may fail; then the row stays as it was.
WriteSplit ==
  /\ pc = "split" /\ pc' = "idle" /\ snap' = NoRecords
  /\ \/ split' = Assess(snap) /\ UNCHANGED <<failures, clean>>
     \/ CallFails /\ clean' = FALSE /\ UNCHANGED split
  /\ UNCHANGED <<chainVars, crawlVars, cacheVars, clusters, owed>>

-----------------------------------------------------------------------------
Next ==
  \/ \E d \in 0..MaxReorg : NewBlock(d)
  \/ SplitOff \/ RivalBlock
  \/ StartCycle \/ \E p \in Peer : ProbePeer(p)
  \/ RefreshTick \/ WriteClusters \/ WriteSplit

Spec == Init /\ [][Next]_vars

-----------------------------------------------------------------------------
(* Properties.                                                              *)

\* "Grounded in identity, not inference, which is what keeps this from crying
\* wolf" (ChainSplit in node.rs): the stored verdict never says split unless
\* the network has split, whatever reorganisations, stray peers, stale
\* branches and probes spread over the crawl have contributed.
NoFalseAlarm == split # <<>> /\ split.split => rival # <<>>

\* "So the two views can no longer disagree" (assess_chain_split): after a
\* refresh whose calls all succeeded, in a crawl with a reference height, the
\* clusters of /chains and the verdict of the report describe the same peers.
ViewsAgree ==
  pc = "idle" /\ clean /\ ref > 0 =>
    /\ clusters.ref = ref
    /\ split.responded = SumFunction(clusters.counts)
    /\ split.largest = Largest(clusters.counts)
    /\ split.second = Second(clusters.counts)

\* A real split with enough peers surveyed on both sides is reported by the
\* next refresh without failures, although the survey of a peer may be hours
\* older than the refresh.
RealSplitReported ==
  pc = "idle" /\ clean /\ owed => split.split

-----------------------------------------------------------------------------
(* Inductive strengthenings.                                                *)

Records == [Peer -> {Unseen} \cup 0..OddBlock]

SurveyTypes ==
  /\ chain \in Seq(Block) /\ rival \in Seq(Block)
  /\ mined \in 0..MaxBlocks /\ ref \in Nat
  /\ followers \in SUBSET (Peer \ Stray)
  /\ rival = <<>> => followers = {}
  /\ nodes \in Records /\ snap \in Records
  /\ pc \in {"stopped", "idle", "clusters", "split"}
  /\ clean \in BOOLEAN /\ owed \in BOOLEAN

\* The chain never gets shorter, blocks are new when they are mined, chains
\* that have parted never meet again, no ordinary reorganisation reaches the
\* reference height, and our node rejected nothing of late but the rival.
ChainInv ==
  /\ Len(chain) >= FirstBlocks
  /\ \A n \in 1..Len(chain) : chain[n] <= mined
  /\ \A n \in 1..Len(rival) : rival[n] <= mined
  /\ \A n \in 1..Len(chain) : n <= Len(rival) /\ chain[n] = rival[n] =>
       \A m \in 1..n : chain[m] = rival[m]
  /\ ref = 0 \/ ref + RefLag <= Tip
  /\ \A t \in tips : t = OldInvalid \/ t.status = "valid-fork"

\* Every hash in the records is the reporting peer's own block at this crawl's
\* reference height, however long ago the peer was probed.
Told(records) ==
  \A p \in Peer :
    \/ records[p] \in {Unseen, 0}
    \/ p \in Stray /\ records[p] = OddBlock
    \/ /\ p \notin Stray
       /\ records[p] = HashAt(IF p \in followers THEN rival ELSE chain, ref)

TwoSides(records) ==
  \E a, b \in Hash :
    /\ a # b
    /\ ClusterSizes(records)[a] >= MinCluster
    /\ ClusterSizes(records)[b] >= MinCluster

OwedInv ==
  /\ pc \in {"clusters", "split"} /\ owed => TwoSides(snap)
  /\ RealSplitReported

SurveyInv ==
  SurveyTypes /\ ChainInv /\ Told(nodes) /\ Told(snap) /\ OwedInv /\ NoFalseAlarm

\* Between the two writes the clusters stored are those of the records at hand.
ViewInv ==
  /\ pc = "split" /\ clean /\ ref > 0 =>
       clusters = [ref |-> ref, counts |-> ClusterSizes(snap)]
  /\ ViewsAgree
=============================================================================
