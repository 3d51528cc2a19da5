# A TLA+ model of bip110-crawler

bip110-crawler walks the Bitcoin peer-to-peer network with two pools of threads,
stores what it finds in files and in an SQLite database that several crawlers may
share, follows its own node's chain for a block explorer, and serves the database
over HTTP. This directory models the parts of it in which threads, processes,
crashes and a moving chain meet, checks them with TLC on small instances, and
proves every safety property, every action property and both refinements with
TLAPS for every instance.

Source paths below are relative to the repository root (`src/crawler.rs`).

## Inventory

| Part | State it keeps | Operations | What is hard about it |
|------|----------------|------------|-----------------------|
| Crawl (`crawler.rs`) | two stacks and a busy counter under one mutex, two condition variables; `seen`, `nodes`, `edges` under a mutex each | `next_task`, `finish_task`, the cap test, probe, record, expand | lost wake-ups between the pools, ending too early or never, a peer probed twice or dropped, check-then-act on the node cap |
| Resumable state (`state.rs`, `save_state`, start of `crawl`) | one JSON file: stacks, nodes, edges | save, atomic write, load, restore | copies taken under three locks while workers run; a crash at any moment; peers that are both queued and recorded |
| Monitor thread (`crawler.rs`, callback in `main.rs`) | timers | periodic save, snapshot | runs concurrently with everything above |
| Node table (`db.rs`) | rows by address, edges, hourly points | upsert of a snapshot, population point, prune, freshness filter | several crawlers, late and repeated snapshots, stale records from resumed files |
| History file (`history.rs`) | best record by address | load, merge, save | stamps and demotes records that the database then takes for fresh ones |
| Block explorer (`main.rs`, `rpc.rs`, `db.rs`) | rows by height, cached tip, first-tick flag | scan, fetch, store, backfill, analyse | some ten separate RPC calls while the chain grows and reorganises; each may fail |
| HTTP server (`serve.rs`) | one atomic counter, handler threads | receive, admit, refuse, answer | slots leaking or overshooting, slow requests starving others |
| Probe (`p2p.rs`, retry loop of `worker`) | one connection | dial, handshake, collect, retry | messages in any order, a deadline, failures that are and are not worth a retry |
| Chain check (`build_locator`, `peer_hash_at`) | locator built once per crawl | ask for headers, place the reply | heights inferred from positions, spacing against reply length |
| Chain survey (`node.rs`, `main.rs`) | reference height, hash per record, two meta rows | cluster, assess, store | probes spread over hours against one height, records restored from another crawl, two rows written apart |
| Geolocation (`geo.rs`) | one cache file and a temporary file, shared by crawlers | load, look up, save | whole-file read, extend, replace by several processes; crashes and failing writes |
| API and pages (`serve.rs`, reads of `db.rs`, `web/*.js`) | none on the server; the browser keeps a list of blocks and a report | multi-statement reads, paging, polling | a snapshot per statement, answers late, lost or overtaken |
| Classification and histograms (`node.rs`) | none | aggregate | band edges |
| RPC client, wire format, time, static report | caches and text only | conversions and I/O | formats |

They interact as follows. `main.rs` collects seeds (RPC peers, known-good rows of
the database, the command line), loads the state file and calls `crawl`. Workers
call the probe and share the four maps. The monitor clones the maps and calls
back into `main.rs`, which refreshes the explorer and writes the node table, and
saves the state file. When the crawl has ended, `main.rs` merges the result into
the history file and writes the merged records to the database. `--watch` repeats
this; the server is another process that only reads, and the pages it serves poll
it.

## Modules

| Module | Models | Lines it stands for |
|--------|--------|---------------------|
| `CrawlSpec` | what a crawl promises, without threads | `crawler.rs` |
| `Crawler` (`MCCrawler`) | crawl, pools, save, crash and resume | `crawler.rs`, `state.rs`, resume code of `main.rs` |
| `CrawlerProofs` | theorems about `Crawler`, last that it implements `CrawlSpec` | |
| `NodeStore` (`MCNodeStore`) | node table, history file, several crawlers | `db.rs`, `history.rs`, end of `run_cycle` |
| `BlockRefresh` | explorer refresh against a moving chain | new-block branch in `main.rs`, `rpc.rs`, `db.rs` |
| `ChainSurvey` (`MCChainSurvey`) | clusters and chain-split verdict | new-block branch in `main.rs`, `node.rs`, `crawler.rs` |
| `GeoCache` (`MCGeoCache`) | geolocation cache shared by crawlers | `geo.rs`, its callers in `main.rs` |
| `Admission` | what the server promises a request | `serve.rs` |
| `ServeLoop` | dispatchers, slots and handlers | `serve.rs` |
| `BlockReads` | block strip and period figures as the browser sees them | `db.rs`, `serve.rs`, `web/blocks.js` |
| `NodeReads` | report, counters, node table and latency bands | `db.rs`, `node.rs`, `serve.rs`, `web/dashboard.js` |
| `Site` (`MCSite`) | the two together, one open view at a time | |
| `Probe` | one probe with retries and the chain check | `p2p.rs`, `build_locator`, retry loop |
| `NodeStoreProofs`, `BlockRefreshProofs`, `ChainSurveyProofs`, `GeoCacheProofs`, `ServeLoopProofs`, `SiteProofs`, `ProbeProofs` | theorems about the module of that name | |

`PROJECT.json` maps every definition to its lines.

**Crawler.** One action per critical section: a thread switch can happen in the
model exactly where the code holds no lock. `PopTask`, `ExitLoop` and
`WaitForWork` are the three ways through `next_task`; `FinishTask` is
`finish_task`; between them a worker passes `CheckCap`, `RetryProbe`, `RecordUp`
or `RecordStub`, and `Expand`, which holds the locks of `seen` and `edges`
together as the code does. A probe touches no shared state, so its outcome is
chosen when it is recorded. `save_state` is four steps: the three clones in the
code's order and the atomic write, which may fail. `Restart` kills the process in
any state, or starts the next `--watch` cycle, and resumes from the file. A node
record is one of four values (absent, known from RPC, stub, up), because these
are what the code tells apart. Left out: the placeholder `127.0.0.1:0` of our own
node, and heartbeat output; the proxy setting is the same in every run.

**NodeStore.** A crawl is reduced to what its probes record, in any order, and a
row to the columns the rules depend on. Timestamps are hours of one clock with 0
for the empty string, which sorts first in SQL too. `Links` stands for the edges
a peer reports. Snapshots are taken and written in two steps, with anything in
between, and written with the clock of the write (live) or with the end of the
crawl (final). `via` and `answered` are history variables: who wrote a row last,
and when a peer really completed a handshake. A population point is a number in the
database; here it remembers whose rows it counted, and who counted them and when.
`--prune-days` is the model's `KeepAge`.

**BlockRefresh.** Every RPC call that reads the chain is a step and every call may
fail. A block is a number that stands for its hash; a payload or a statistic is
the block it was computed from. The set of signalling heights is the callback's
own and starts empty in every refresh; what the backfill owes is counted when the
scan reads its tip, which is the chain it then works on. `NewBlock(d)` is the node: an ordinary block for
`d = 0`, otherwise a reorganisation that replaces `d` blocks by `d + 1`.

**ChainSurvey.** The node may reorganise up to the reference lag, and the network
may split once for good; from then on some peers follow the rival chain. A probe
records the block its peer's own chain has at the crawl's reference height at that
moment, or nothing; `Probe` shows how. `RefreshTick`, `WriteClusters` and
`WriteSplit` are the parts of the callback between which other threads, other
blocks and failures can come; both parts work on the records the monitor cloned.
A stray peer (a misconfigured one) reports a block of nobody else's, and there are
fewer of those than `MIN_SPLIT_CLUSTER`. Old invalid branches stay in
`getchaintips` for ever. Left out: which cluster is our own, a label.

**GeoCache.** A file holds nothing, a torn text or a whole cache. Names and open
files are kept apart, as the operating system does: a rename moves a file under
the hands of a process that is still writing it. A batch resolves any subset of
what it asks for, an empty one standing for a failed request. A crash or a failed
write leaves the file that is open torn.

**ServeLoop.** `fetch_add` and `fetch_sub` are separate steps, and a refused
dispatcher undoes its increment before it answers. `Slow` requests may never end.

**BlockReads, NodeReads, Site.** Every SQL statement is a step with the table of
its own moment, because the server opens no transaction; a crawler may commit
between any two. In the browser every request has three steps (sent, answered,
applied or lost), and several polls may be under way.

For the period view each crawler goes through its refresh: the scan of the
period's headers, which replaces the cached tally; the newest window; the backfill
block by block; and the snapshot, which stores the cached tally. The scan and the
fetch of one commit are one step each, because `BlockRefresh` has them call by
call. Crawlers take turns in any order, fail, and restart with a scan that may
fail too; the node's chain reorganises, which may change whether a height signals,
and the upsert of a row sets its `signals` column anew. `stale`, `moved` and
`progress` are history: stored rows and scanned heights that have been replaced
since, and how far each crawler has come in the period. `--signal-window` is the
period (its default, 2016). The strip does not look at the tally, so there a window
or a missing signalling block is stored at any time, which is what any number of
crawlers can do. A backfilled block may lie above all stored ones, when the window
that held it could not be written; the history variable `torn` remembers that. A
poll's answer is filtered by the heights the strip has (`Fresh`), as the page does,
and put in front of the strip whatever they are; after a reorganisation it keeps
the block it saw first at a height, since heights are all it compares.

In `NodeReads` crawlers appear only with their snapshots, which leave the rows in
any state. A row is absent, offline, online but aged, or fresh, which is all the
queries tell apart; its latency and the column the table is sorted by are
constants. Two snapshots never have the same `generated_at` second here. A report
whose stamp could not be read has an empty one (`meta_get`), here 0, and is shown
like any other.

**Probe.** The handshake is one step per message with the code's bound of 20, the
collection window, with any number of messages, ends by deadline, by a failed read
or early; the deadline passes at any moment and the loop looks at it between two
messages. The chain is real
arithmetic with the code's constants: locator heights, the 2000-header reply, the
reference height six below the tip. Peers follow the protocol in what they answer
to `getheaders` (external), and may be silent, slow or ahead.

## Abstract specifications

`CrawlSpec` has six variables and no threads: an address becomes known once,
waits, is taken in hand once, is recorded, may bring unknown addresses, and is let
go; the crawl is over when nothing waits and nothing is in hand. `Crawler`
implements it (`ImplementsCrawlSpec`) with a mapping that takes for *waiting* the
stacks and the children a worker has already claimed in `seen`, for *in hand* the
tasks of the workers between `next_task` and `finish_task`, and for *over* the
first worker that leaves its loop. So no child is visible to the abstract crawl in
halves although `seen` is updated long before the stacks, and the end of the crawl
is the moment the abstract one may end.

`Admission` admits a request when fewer than `MaxInFlight` slots are taken and
refuses it otherwise, atomically. `ServeLoop` implements it
(`ImplementsAdmission`): a request is admitted or refused at the `fetch_add` of
its dispatcher, and its slot is given back at the matching `fetch_sub`, where the
code answers afterwards. That a refusal holds a slot for an instant is part of the
abstract promise, because the code does that: a burst can be refused one early.

## Runs

| Run | Instance | Shows |
|-----|----------|-------|
| `crawler_live` | 3 workers, 4 peers, a repeated seed, depth limit 3, one retry, a restart, an unreadable state file | `NoLostWakeup`, `ExitOnlyWhenFinished`, `EverySeenPeerRecorded`, `HandedOutOnce`, `ImplementsCrawlSpec`, `CrawlTerminates`, `QueuedPeerRecorded` |
| `crawler_resume` | 2 workers, 4 peers, node cap 2, one edge per reply, two process lives, one periodic save in each and the final ones | `NodeCapOvershoot`, `QueuedPeersSaved`, `SavedRecordsKept` |
| `store_shared` | 2 crawlers, one peer and our own node, 3 hours, 2 crawls | `ServedPeersAnswered`, `PopulationAnswered`, `OnlyHistoryDemotes`, `StoreAccumulates` |
| `blocks_reorg` | 4 to 7 blocks, reorganisations of depth 1, a restart, window 2, one analysis and one backfill per refresh, period 4 | `WindowMirrorsChain`, `BacklogShrinks`, `AnalysisBelongs`, `AnalysisKept` |
| `serve_burst` | 2 dispatchers, 2 slots, 4 requests of which 2 may hang | `SlotsAccounted`, `ImplementsAdmission`, `OthersAnswered` |
| `probe_chain` | the code's constants; 12 forks, 4 peer heights, any one locator entry missing, up to 2000 addresses in a window | `ChainHashIsPeers`, `RecentForkPlaced`, `ProbeEnds` |
| `survey` | 4 honest peers and a stray one, 4 to 7 blocks, reorganisations as deep as the reference lag, a split at any moment, one failing call | `NoFalseAlarm`, `ViewsAgree`, `RealSplitReported` |
| `geo_cache` | 2 crawlers, 2 addresses, one address per request, any lookups and writes failing, one crash | `NeverAskedAgain`, `CacheIntact`, `EveryoneLocated` |
| `site_reads` | strip: window and polls of 2, pages of 3, up to 4 blocks between refreshes, heights to 8, 2 overlapping polls; period view: 2 crawlers, periods of 3, chain from 4 to 6, reorganisations of depth 1, one failure or restart; dashboard: 3 nodes, 2 snapshots, 2 overlapping report polls, one failing statement | `StripExact`, `PeriodFigures`, `TallyKeepsUp`, `FiguresDrift`, `DashboardExact`, `PagesExact`, `HistogramExact` |

Three more runs state what a comment of the repository says and are refuted by
what the code does:

* `store_handshake`: a failed probe can overwrite another crawler's handshake
  (`db.rs:296` says it "can never"), through the history file, which keeps the
  `handshaked` flag of a record it marks offline.
* `blocks_immutable`: blocks are not "immutable" under their height (`db.rs:34`).
  After a reorganisation a row keeps the payload and fees of the replaced block.
* `survey_resume`: with a state file the chain-split verdict does cry wolf
  (`node.rs:323`). Records restored from the file keep the hash of an earlier
  crawl's reference height (`node.rs:23` says it is "not persisted") and are never
  probed again, so they form a cluster of their own on a network with one chain.

Other disagreements between comments and code were met and have no run:

* the option table in the repository's `README.md:100` says `--max-depth 0` means
  "seeds only", while `crawler.rs:447` takes it as unlimited;
* `main.rs:277` promises that a fork "thousands of blocks ago" is placed, while
  `RecentForkPlaced` holds only up to 1044 blocks: the next locator entry is 2068
  blocks back and a reply of 2000 headers ends below the reference height;
* a stopped crawl does not continue "exactly where it left off" (`state.rs:2`):
  tasks in the hands of workers, and addresses in `seen` but not yet pushed, are
  in no saved file (`crawler.rs:271`). `QueuedPeersSaved` is what does hold;
* known-good peers are not served from "the FRONT of the queue" (`db.rs:950`): the
  queue is a stack (`crawler.rs:313`), so the gossip of the first peer that
  answers is probed before the rest of them;
* with a history file `last_seen` is not "last CONFIRMED reachable" (`db.rs:335`)
  but the end of the crawl (`history.rs:56`), also for peers that were restored
  and not probed again; `ServedPeersAnswered` exempts such rows;
* the figures of `/api/blocks` do not always share "one denominator" (`db.rs:844`),
  nor is the stored tally always the "N of M" of the list beside it
  (`serve.rs:279-281`, `db.rs:724-726`). When a difficulty period begins, the list
  is of the new period as soon as a crawler has stored its window (`main.rs:672`),
  and the tally of the old one until a snapshot has stored the new one
  (`main.rs:773`), after the backfill, the analysis of blocks and the geolocation.
  Every response of that time pairs them, and the page shows the old numbers with
  the new heights (`web/blocks.js:524-559`); when one of these steps fails, also
  with several crawlers when one of them is slow, it lasts longer, at most until
  every crawler has got through a refresh (`TallyKeepsUp`). `PeriodFigures` speaks
  of the responses in which the two periods agree;
* an hourly point does not count only peers confirmed within the window "of that
  hour" (`db.rs:204-206`): the last snapshot of a crawl is filed under the hour
  at which the crawl ended (`main.rs:826`) and counted, by the clock, after the
  history merge and the geolocation. Rows that other crawlers stored in between are
  counted although their answers are later than the hour. `PopulationAnswered` is
  what holds.

What the properties of the site leave open, because the code does:

* the strip has a gap when more than 20 blocks arrive between two polls
  (`web/blocks.js:418` calls the limit enough), or when a block above all stored
  ones was backfilled because the write of its window had failed. `StripExact`
  names both;
* if the strip's first page fails, no poll asks for it again (`STRIP` is empty);
* the dashboard's total can be of the previous snapshot under the newest stamp, and
  stays so until the next snapshot. `DashboardExact` bounds how far off it is by
  the rows changed while the report was read, unless its count failed;
* a report whose stamp could not be read is shown without one, and replaced by the
  next that has one; of two such answers in a row the page ignores the second;
* a share above 100% or a negative number of aged-out nodes can be shown for the
  length of one response (`FiguresDrift` bounds it);
* answers to the node table's queries are applied in the order they arrive, and an
  open tab does not age nodes between snapshots.

**Why the bounds are enough.** The races of the crawl are between two workers of
one pool, between the pools, and between a worker and the saver; three workers,
and two with a saver, have them all, and the gossip graphs give every race its
shared child. Two lives of the process are the least in which a resume can go
wrong, and the second resumes from any file the first can leave. In the store a
row's rules speak of one address, so one peer suffices; two crawlers give every
order of two writers, and three hours with windows of one put every stamp on both
sides of every window. (With three crawls the store run also passes; it takes too
long to repeat each time.) In the explorer, windows of one and two leave a
backlog that must drain, and seven blocks allow a reorganisation in the middle of
any refresh and a refresh after it. In the server the interesting states are those
at the limit with both dispatchers past it. The probe run has no scaled constant;
a window brings at most `MaxAddrs` addresses, two messages of the largest size, and
any number of other messages, the headers among them, before, between and after
those. The survey's thresholds are scaled
to clusters of two and lags of one and two, and its peers are interchangeable, so
TLC may identify them; four honest peers are two clusters at the threshold, and
three blocks beyond the first four are a split, a reorganisation on top and the
refresh that sees them. In the cache, one crawler wants two
addresses in two requests and the other one of them for its own node, so either
can replace a larger, a smaller or a half-written cache of the other's, and a crash
falls into any state of both. In the strip, jumps of four blocks
exceed both a poll and a page and leave two blocks between the stored ones and the
next window, one of which the backfill can store alone. In the period view the
chain begins in the middle of one period of three blocks and goes on to the first
block of the next (`PeriodTip`), so that a period begins while either crawler is
anywhere in its refresh, also with a reorganisation that replaces the last block
of the one before;
`MaxFaults` is one failed scan, write or snapshot, or one restart. Three nodes with a tie in the sorted column, a latency on a
band's edge and one not measured, over two pages, have each boundary once.

**Fairness.** Weak fairness of each worker: the operating system runs every
thread, and a probe ends because connect, reads and writes carry timeouts and
messages are bounded in size. Of the start-up code, the joins and a save that has
begun: one thread runs them straight through. In `Probe`, of what the crawler's own
side does whatever the peer does: a connect and each read of the handshake return,
at worst with a timeout, and the clock reaches the deadline; nothing obliges a peer
to fall silent, to stop sending, or to send what is waited for. In `GeoCache`, weak fairness of each
crawler, and strong fairness of a lookup that resolves an address: the service,
asked for a public address again and again, answers sometimes (external; a run
without it would only show that a service that never answers locates nobody).
Nothing obliges a crash, a spurious wake-up, a due periodic save, a request to
arrive, a save of the cache to succeed, or a slow handler to finish.

## Proofs

Every invariant, action property and refinement the passing runs check is a
theorem of its specification, for all values of the constants. Each follows the
same three steps: an inductive invariant that `Init` implies, that every action
keeps, and that implies the property. The invariants stand at the end of the
component's module under *Inductive strengthenings*, where TLC has checked them
too; the proof modules hold one lemma per action or group of actions. What each
of them adds to the property, and why it must:

**`CrawlerProofs`.** From `ConstantsAssumption`: finite sets of peers and workers,
the clearnet pool not empty, the pools disjoint.

* `TypeCorrect`: `Spec => []TypeOK`, one lemma per group of actions.
* `WakeupsNeverLost` and `ExitIsFinal`: from `PoolInv`, which adds that no thread
  runs before `SpawnWorkers` (`QuietStart`) and that the counter equals the number
  of busy workers (`ActiveCount`). Without the last the test `active == 0` says
  nothing about who is busy, and neither property is inductive. The cardinality
  lemmas `CountEnter` and `CountLeave` carry it.
* `SavesKeepQueuedPeers`: from `SaveInv`. While a save has cloned the frontier and
  not yet the nodes, what it owes is in the cloned frontier or in `nodes`; records
  are never removed in a run (`RecordedGrows`), so the clone of the nodes, taken
  last, still has them. The order of the clones is what the proof turns on.
* `EachPeerHandedOutOnce`: from `OnceInv`. A peer is in at most one place from
  which it can be handed out (an entry of one stack, one worker's list of new
  children), it is then in `seen` and not yet handed out, and the file a run
  resumes from repeats no peer either.
* `NothingSeenIsDropped`: from `HandInv` and `SeenInv`. Whatever is in `seen` is
  recorded, waits or is in hand; a worker lets go of a peer only when it is
  recorded or the cap is reached. When all workers have left, `PoolInv` says that
  nothing waits and nobody holds anything.
* `CapHardlyOvershot`: from `CapInv`, which counts a worker that has passed the
  cap test as a record to come; the last one to pass it saw fewer than the cap.
* `SavedRecordsStay`: from `KeptInv`, a chain of extensions from the file to the
  copy of the save under way to the crawl. Its hypothesis is `~LoadMayFail`: the
  code starts afresh and overwrites a file that it cannot read.
* `CrawlImplemented`: `Spec => ImplementsCrawlSpec`, one lemma per action that
  says which abstract step it is or that it changes nothing abstract. It needs all
  of the above: `HandInv` that the peer being recorded is in hand once, `OnceInv`
  that a child becomes known once, `PoolInv` that the crawl ends with nothing left.

**`ServeLoopProofs`.** `SlotsNeverLeak` from `AdmissionInv`: the counter is the
number of handlers and of dispatchers with an increment to take back. The
refinement `AdmissionImplemented` uses it at the `fetch_add`, where the value read
decides and the abstract state must decide the same.

**`GeoCacheProofs`.** `SavedNeverAskedAgain` and `CacheStaysWhole` from `SoloSave`:
while no two saving calls have overlapped, the one under way has the temporary
file for itself, writes all it knows there, and knows all that the cache file
holds. A crash leaves a torn temporary file, and the next open truncates it.

**`ChainSurveyProofs`.** `ViewsNeverDisagree` holds for any crawl. `NeverCriesWolf`
and `SurveyedSplitReported` have the hypothesis `~Resume`, since `survey_resume`
refutes the first with a state file. They rest on `Told` (each hash recorded is
the reporting peer's own block at the reference height, however long ago it was
probed) and on `ChainInv`, whose part about the two chains (equal at a height only
if equal below it) makes the difference between one cluster and two. The
assumption `Recency + 1 < FirstBlocks` says that the chain has more blocks than
`REJECT_RECENCY` (2016, of some 900 000), without which the old invalid branch
that every node remembers would count as news.

**`NodeStoreProofs`.** `ServedReallyAnswered`, `PopulationReallyAnswered`,
`OthersNeverDemote` and `ShownRowsKept` from `StoreInv`: a handshaken record is
online and bears an hour at which its peer answered, in memory, in the state file
and in every snapshot on its way, except those of a crawler with a history file.
So a late or repeated snapshot may move `last_seen` back, and never to an hour
that is not true. `FinalInv` bounds the population points from above: between the
end of a crawl and its final snapshot the crawler neither holds nor has stored an
answer later than the hour its point will be filed under. `ShownRowsKept` assumes `MaxAge # 0 /\ MaxAge <= KeepAge`: the
comment of `prune_and_vacuum` asks that the keep window exceed the freshness
window (`db.rs:97`), and nothing in the code enforces it.

**`BlockRefreshProofs`.** `RefreshTypeCorrect` states `TypeOK` and `InRange`: no
height stored or at hand lies above the tip, because the chain never gets shorter. `AnalysisOfItsBlock` and
`AnalysisNeverUndone` follow with `SoleInv`: a height that no reorganisation has
touched has had one block. `TableMirrorsChain` and `BacklogAlwaysShrinks` follow
from `RefreshInv`, which says at each of the callback's positions what is already
stored and what is at hand, as long as the tip is still the one scanned. Then no
block has come since, for a reorganisation makes the chain longer: that is why a
window fetched call by call can mirror the chain at all.

**`SiteProofs`.** The seven invariants of the pages, for any number of polls, rows,
commits and failures. The figures of one response are compared with what the
statements still to come would read now (`FigureOf`), so that `DriftInv` speaks of
a response at every moment and each commit moves it by the rows it changes.
`ReportInv` follows a stamp through the polls on their way. The pages and the
histogram are sorted and counted here from their definitions. `PeriodFiguresAgree`
and `TallyOfTheListsPeriod` follow from one invariant. `TableInv` and `TalliesInv`
say that rows and tallies are those of the chain but for the heights replaced since;
`ProgressInv` that a crawler which has got through a refresh of the period caches a
tally of it, or none, so that no later snapshot brings the old one back; and
`PeriodInv` has one part per statement of `/api/blocks`, each with a highest block
of its own moment.
For the strip, `FetchInv` says what an answer on its way holds and `StripInv` that
above the blocks it began with the strip has no gap. The proof of
`StripHasEveryBlockOnce` found a case outside the earlier bounds of `site_reads`, a
block backfilled above all stored ones: the property now exempts it, and the bounds
reach it.

**`ProbeProofs`.** From `ProbeInv`: headers are none or the peer's reply, come only
in the window, and nothing is left of an attempt that failed, which is what a
retry could get wrong. `ChainHashAlwaysPeers` holds for any locator. `ForksWithinReachPlaced` uses
`LocatorAssumption`: all entries lie below the reference height, and one of them
below every fork within reach is covered by one reply up to there. These are facts
about constants of the code; the locator is defined by recursion, which the provers
cannot evaluate, so TLC evaluates the assumption in `probe_chain`.

Every assumption on a constant is an `ASSUME` of the module that declares it, which
TLC evaluates in each run of that module.

Only model-checked: liveness (`CrawlTerminates`, `QueuedPeerRecorded`,
`OthersAnswered`, `ProbeEnds`, `EveryoneLocated`), which is out of the prover's
reach, and the spacing of the locator. The theorems say nothing of the three
properties that the violation runs refute.


## What is not modelled

* Byte and text formats (wire messages, JSON, timestamps, user agents and stance
  rules, miner tags, payload classification, HTML): pure conversions without state,
  for which the repository has unit tests on concrete inputs.
* The mempool snapshot and the static report, which the monitor writes and nothing
  reads back; the miner backfill, which rewrites one text column.
* Of the API, text filters, counts per client and version, the map's edges, the
  hourly history and single meta rows: one statement each, whose answer is the
  table of one moment. Of the browser, drawing.
* The lookup service, the node and the network, which are modelled from how the
  code uses them (marked external in the map).
* Panics. The code expects none in a probe or a handler; one would leave the
  busy counter or the slot counter too high for ever, and `PROJECT.json` lists
  both as hazards.

## Plan

Done: `Crawler` with its first proofs, because everything else consumes what it
records; then the store, the explorer, the server and the probe; then the chain
survey, the geolocation cache, what the pages read, and the two abstract
specifications with their refinements; then the proofs of every safety property
the runs check.

Left, in this order:

1. Lemmas that weaken hypotheses: what `NoFalseAlarm` promises a crawl that resumes
   a state file of its own reference height; what a crawl keeps of an unreadable
   state file.
2. An abstract specification of the node table (an answer is shown for as long as
   it is fresh) that `NodeStore` implements, with its refinement proved.
3. The composition of resume, re-seeding and the store over several `--watch`
   cycles: restored peers never get a fresh `last_seen`.
