------------------------------ MODULE BlockReads ------------------------------
(***************************************************************************)
(* What a browser on the /blocks page gets to see of the blocks table      *)
(* while a crawler goes on filling it: the "all blocks" strip, which pages *)
(* backwards through /api/blocks/page and polls it for new blocks          *)
(* (src/src/web/blocks.js), and the period figures of /api/blocks, read by *)
(* one statement after another (src/src/serve.rs, src/src/db.rs).          *)
(*                                                                         *)
(* A block is its height, and whether it signals.  Module BlockRefresh has *)
(* the crawler's side call by call; here a scan of headers and the fetch   *)
(* of the blocks of one commit are a step each.                            *)
(***************************************************************************)
EXTENDS Integers, Sequences, FiniteSetsExt

CONSTANTS
  Window,      \* BLOCKS_PER_REFRESH
  TipLimit,    \* rows a poll of the strip asks for
  PageLimit,   \* rows an older page, and the first, asks for
  Poll,        \* polls of the strip that may be under way at once
  Period,      \* RETARGET_PERIOD
  SigLimit,    \* signalling blocks /api/blocks lists at most
  Crawler,     \* the crawlers that have an RPC connection and share the table
  Signalling,  \* the heights whose block signals at first
  FirstTip,    \* height of the chain at first
  MaxHeight,   \* bound on it
  PeriodTip,   \* bound on it where the crawlers go step by step
  MaxDepth,    \* bound: depth of a reorganisation
  MaxFaults    \* bound: failures and restarts of crawlers

ASSUME ReadsAssumption ==
  /\ TipLimit \in Nat \ {0} /\ Window \in Nat /\ PageLimit \in Nat
  /\ TipLimit <= Window /\ Window <= PageLimit
  /\ IsFiniteSet(Poll) /\ Poll \cap {"first", "older"} = {}
  /\ Crawler # {} /\ Period \in Nat \ {0} /\ SigLimit \in Nat \ {0}
  /\ FirstTip \in Nat /\ MaxHeight \in Nat /\ FirstTip <= MaxHeight
  /\ Signalling \subseteq 0..MaxHeight /\ MaxDepth \in Nat
  /\ MaxFaults \in Nat /\ PeriodTip \in Nat

Height == 0..MaxHeight
Fetch == {"first", "older"} \cup Poll

VARIABLES
  top,        \* height of the node's chain
  chain,      \* the heights whose block signals, those still to come included
  stored,     \* the heights in the blocks table
  signals,    \* those whose row has signals=1
  tally,      \* meta row signalling: the scanned range and its signalling heights
  cache,      \* per crawler: signal_cache, what its next snapshot stores there
  phase,      \* per crawler: where the snapshot callback is
  found,      \* per crawler: heights still to backfill, at first those scanned
  faults,     \* failures and restarts so far
  strip,      \* STRIP, newest first
  hasMore,    \* stripHasMore
  loading,    \* stripLoading
  fetch,      \* per request of the strip: its phase and its answer
  figures,    \* the /api/blocks response so far, one field per statement
  base,       \* history: the heights stored when the first page was read
  missed,     \* history: has a poll's answer left a gap above the strip?
  torn,       \* history: did the backfill ever store a block above all others?
  stale,      \* history: stored heights replaced since their row was
  progress    \* history, per crawler: its refreshes since the period began

tableVars == <<stored, signals, stale, torn>>
chainVars == <<top, chain>>
crawlVars == <<cache, phase, found, faults, progress>>
blocksVars == <<chainVars, tableVars, tally, crawlVars>>
stripVars == <<strip, hasMore, loading, fetch, base, missed>>
blockVars == <<blocksVars, stripVars, figures>>

NewestWindow(t) == {h \in Height : h <= t /\ h > t - Window}
PeriodStart(t) == (t \div Period) * Period

\* ORDER BY height DESC LIMIT n.
Newest(n, H) ==
  LET Above(h) == Cardinality({k \in H : k > h})
      kept == {h \in H : Above(h) < n}
  IN  [i \in 1..Cardinality(kept) |-> CHOOSE h \in kept : Above(h) = i - 1]

Heights(s) == {s[i] : i \in DOMAIN s}

\* RpcClient::signalling: the headers from the first of the period to the tip.
\* blocks_signalling is the number of `heights`; `moved` is history, the heights
\* replaced since the scan.
ScanStart(t) == PeriodStart(t)
Scanned == [start |-> ScanStart(top), tip |-> top,
            heights |-> chain \cap (ScanStart(top)..top), moved |-> {}]

NoTally == [start |-> 0, tip |-> -1, heights |-> {}, moved |-> {}]
Known(y) == y.tip >= 0
Idle == [phase |-> "none", before |-> 0, rows |-> <<>>, more |-> FALSE]
NoFigures == [next |-> "period"]

BlocksInit ==
  /\ top = FirstTip /\ chain = Signalling
  /\ tally = NoTally /\ torn = FALSE /\ stale = {}
  /\ \E older \in SUBSET (0..FirstTip) : stored = older \cup NewestWindow(FirstTip)
  /\ signals = chain \cap stored
  /\ cache \in [Crawler -> {Scanned, NoTally}]   \* the startup scan, or its failure
  /\ phase = [c \in Crawler |-> "new"] /\ found = [c \in Crawler |-> {}]
  /\ faults = 0
  /\ progress = [c \in Crawler |-> "behind"]
  /\ strip = <<>> /\ hasMore = TRUE /\ loading = FALSE
  /\ fetch = [f \in Fetch |-> IF f = "first" THEN [Idle EXCEPT !.phase = "sent"] ELSE Idle]
  /\ figures = NoFigures
  /\ base = {} /\ missed = FALSE

-----------------------------------------------------------------------------
(* The node.                                                                *)

\* A scan of the past, after the blocks at R were replaced.
Moved(y, R) == [y EXCEPT !.moved = @ \cup (R \cap (y.start..y.tip))]

\* A block is mined, on top of others in the place of the d newest when d > 0.
NewBlock(d) ==
  LET R == {h \in Height : h > top - d /\ h <= top}
  IN  /\ top < MaxHeight /\ top' = top + 1
      /\ \E S \in SUBSET R : chain' = (chain \ R) \cup S
      /\ stale' = stale \cup (R \cap stored)
      /\ tally' = Moved(tally, R) /\ cache' = [c \in Crawler |-> Moved(cache[c], R)]
      /\ figures' = IF figures.next = "tally" THEN [figures EXCEPT !.doubt = @ \cup {h \in R : h >= figures.start}]
                    ELSE figures
      /\ progress' = IF PeriodStart(top') = PeriodStart(top) THEN progress
                     ELSE [c \in Crawler |-> "behind"]
      /\ UNCHANGED <<stored, signals, torn, phase, found, faults, stripVars>>

-----------------------------------------------------------------------------
(* The crawler.                                                             *)

\* Mutant: the signals column of a block already stored is left alone.
InsertOnly(H) == signals \cup (chain \cap (H \ stored))

\* What write_blocks leaves in the signals column: the upsert sets it anew.
UpsertedSignals(H) == (signals \ H) \cup (chain \cap H)

\* write_blocks with the blocks at heights H.
UpsertBlocks(H) ==
  /\ stored' = stored \cup H
  /\ signals' = UpsertedSignals(H)
  /\ stale' = stale \ H

UpsertWindow == UpsertBlocks(NewestWindow(top)) /\ UNCHANGED torn

\* The backfill's batch, one block of it here.
UpsertMissing(h) == UpsertBlocks({h}) /\ torn' = (torn \/ h > Max(stored))

\* For the strip any refresh of any crawler may store its window at any time, and
\* any signalling block that is missing.
StoreWindow ==
  /\ UpsertWindow
  /\ UNCHANGED <<chainVars, tally, crawlVars, stripVars, figures>>

StoreMissing(h) ==
  /\ h \in chain \ stored /\ h <= top
  /\ UpsertMissing(h)
  /\ UNCHANGED <<chainVars, tally, crawlVars, stripVars, figures>>

\* Mutant: a tally once cached stays.
FirstCached(old, new) == IF Known(old) THEN old ELSE new

\* A scan replaces the cached tally.
Cached(old, new) == new

\* Something fails; a refresh of c that is under way does not count as history.
Fault(c) ==
  /\ faults < MaxFaults /\ faults' = faults + 1
  /\ progress' = [progress EXCEPT ![c] = IF @ = "scanned" THEN "behind" ELSE @]

\* A tick with a new tip, or the first of this process, scans the period; a
\* failed scan leaves the cache as it is and finds nothing.
ScanPeriod(c) ==
  /\ phase[c] \in {"new", "idle"} /\ (phase[c] = "idle" => cache[c].tip # top)
  /\ phase' = [phase EXCEPT ![c] = "scanned"]
  /\ \/ /\ cache' = [cache EXCEPT ![c] = Cached(@, Scanned)]
        /\ found' = [found EXCEPT ![c] = Scanned.heights]
        /\ progress' = [progress EXCEPT ![c] = IF @ = "behind" THEN "scanned" ELSE @]
        /\ UNCHANGED faults
     \/ Fault(c) /\ UNCHANGED cache /\ found' = [found EXCEPT ![c] = {}]
  /\ UNCHANGED <<chainVars, tableVars, tally, stripVars, figures>>

\* The newest blocks are fetched, by a tip read anew, and stored; the backfill of
\* those unstored then goes on after a failed write, and not after a failed fetch.
RefreshWindow(c) ==
  /\ phase[c] = "scanned" /\ phase' = [phase EXCEPT ![c] = "stored"]
  /\ \/ UpsertWindow /\ UNCHANGED <<faults, progress>>
     \/ Fault(c) /\ UNCHANGED tableVars
  /\ found' \in {[found EXCEPT ![c] = {}], [found EXCEPT ![c] = @ \ stored']}
  /\ UNCHANGED <<chainVars, tally, cache, stripVars, figures>>

BackfillBlock(c, h) ==
  /\ phase[c] = "stored" /\ h \in found[c]
  /\ UpsertMissing(h)
  /\ found' = [found EXCEPT ![c] = @ \ {h}]
  /\ UNCHANGED <<chainVars, tally, cache, phase, faults, progress, stripVars, figures>>

\* The snapshot, which may fail, stores the cached tally; also in a tick without a
\* refresh, because there was no new tip or the node did not answer.
WriteSnapshot(c) ==
  /\ phase[c] # "scanned"
  /\ phase' = [phase EXCEPT ![c] = IF @ = "stored" THEN "idle" ELSE @]
  /\ found' = [found EXCEPT ![c] = {}]
  /\ \/ /\ tally' = cache[c]
        /\ progress' = [progress EXCEPT ![c] = IF @ = "scanned" THEN "current" ELSE @]
        /\ UNCHANGED faults
     \/ Fault(c) /\ UNCHANGED tally
  /\ UNCHANGED <<chainVars, tableVars, cache, stripVars, figures>>

\* The crawler stops at any point and starts again with a scan, which may fail.
Restart(c) ==
  /\ phase' = [phase EXCEPT ![c] = "new"] /\ found' = [found EXCEPT ![c] = {}]
  /\ cache' \in {[cache EXCEPT ![c] = y] : y \in {Scanned, NoTally}}
  /\ Fault(c)
  /\ UNCHANGED <<chainVars, tableVars, tally, stripVars, figures>>

-----------------------------------------------------------------------------
(* /api/blocks/page.                                                        *)

\* Mutant: the page starts with the last block of the one before.
BelowOrAt(h) == {k \in stored : k <= h}

\* WHERE height < ?1.
Below(h) == {k \in stored : k < h}

\* read_blocks_page: one statement, one row more than asked for.
Page(H, limit) ==
  LET rows == Newest(limit + 1, H)
      more == Len(rows) > limit
  IN  [rows |-> IF more THEN SubSeq(rows, 1, limit) ELSE rows, more |-> more]

\* The server answers a request of the strip.
AnswerFetch(f) ==
  LET page == IF f = "older" THEN Page(Below(fetch[f].before), PageLimit)
              ELSE Page(stored, IF f = "first" THEN PageLimit ELSE TipLimit)
  IN  /\ fetch[f].phase = "sent"
      /\ fetch' = [fetch EXCEPT ![f] = [phase |-> "answered", before |-> @.before,
                                        rows |-> page.rows, more |-> page.more]]
      /\ base' = IF f = "first" THEN stored ELSE base
      /\ UNCHANGED <<blocksVars, strip, hasMore, loading, missed, figures>>

-----------------------------------------------------------------------------
(* The strip.                                                               *)

\* initStrip, run once when the page loads.
ReceiveFirst ==
  /\ fetch["first"].phase = "answered"
  /\ strip' = fetch["first"].rows /\ hasMore' = fetch["first"].more
  /\ fetch' = [fetch EXCEPT !["first"] = Idle]
  /\ UNCHANGED <<blocksVars, loading, base, missed, figures>>

\* refreshStripTip, every 30 seconds, whether or not the last one has ended.
SendPoll(p) ==
  /\ p \in Poll /\ fetch[p] = Idle
  /\ strip # <<>> /\ ~loading
  /\ fetch' = [fetch EXCEPT ![p].phase = "sent"]
  /\ UNCHANGED <<blocksVars, strip, hasMore, loading, base, missed, figures>>

\* What the answer adds, by what the strip holds when it arrives: the blocks not
\* known yet, in the order of the answer.
Fresh(rows) ==
  LET new == {i \in DOMAIN rows : rows[i] \notin Heights(strip)}
  IN  [j \in 1..Cardinality(new) |->
         rows[CHOOSE i \in new : Cardinality({k \in new : k < i}) = j - 1]]

ReceivePoll(p) ==
  /\ p \in Poll /\ fetch[p].phase = "answered"
  /\ strip' = Fresh(fetch[p].rows) \o strip
  /\ missed' = (missed \/ \A h \in Heights(fetch[p].rows) : h > strip[1] + 1)
  /\ fetch' = [fetch EXCEPT ![p] = Idle]
  /\ UNCHANGED <<blocksVars, hasMore, loading, base, figures>>

\* loadOlderStripPage, on scrolling to the end.
Scroll ==
  /\ ~loading /\ hasMore /\ strip # <<>>
  /\ loading' = TRUE
  /\ fetch' = [fetch EXCEPT !["older"].phase = "sent",
                            !["older"].before = strip[Len(strip)]]
  /\ UNCHANGED <<blocksVars, strip, hasMore, base, missed, figures>>

ReceiveOlder ==
  /\ fetch["older"].phase = "answered"
  /\ strip' = strip \o fetch["older"].rows /\ hasMore' = fetch["older"].more
  /\ loading' = FALSE
  /\ fetch' = [fetch EXCEPT !["older"] = Idle]
  /\ UNCHANGED <<blocksVars, base, missed, figures>>

\* The `finally` of loadOlderStripPage; the other requests leave the flag alone.
LoadingAfter(f) == loading /\ f # "older"

\* The request or its answer is lost, or the answer is an error, all the same
\* to the browser: the strip stays as it is.
LoseFetch(f) ==
  /\ fetch[f].phase = "answered"
  /\ loading' = LoadingAfter(f)
  /\ fetch' = [fetch EXCEPT ![f] = Idle]
  /\ UNCHANGED <<blocksVars, strip, hasMore, base, missed, figures>>

-----------------------------------------------------------------------------
(* /api/blocks, statement by statement, each with a snapshot of its own.    *)

\* A field of the response is read and the next statement follows.
Figure(now, then, fields) ==
  /\ figures.next = now
  /\ figures' = [x \in DOMAIN figures \cup DOMAIN fields |->
                   IF x = "next" THEN then
                   ELSE IF x \in DOMAIN fields THEN fields[x] ELSE figures[x]]
  /\ UNCHANGED <<blocksVars, stripVars>>

MaxStored == Max(stored)

\* read_period_signalling_blocks takes the highest stored block for the tip.  The
\* fields `due` and `settled` are history: the period the chain is in, and whether
\* every crawler has got through a refresh since it began.
ReadPeriod ==
  Figure("period", "list",
         [start |-> PeriodStart(MaxStored), due |-> PeriodStart(top),
          settled |-> \A c \in Crawler : progress[c] = "current"])

\* WHERE signals=1 AND height>=?1.
SignallingFrom(s) == {h \in signals : h >= s}

\* The field `doubt` is history: from the period on, the signalling blocks not
\* stored and the heights whose row is of a replaced block, to which NewBlock adds
\* those replaced until the tally is read.
ReadList ==
  Figure("list", "tally",
         [list |-> Heights(Newest(SigLimit, SignallingFrom(figures.start))),
          doubt |-> {h \in (chain \ stored) \cup stale : h >= figures.start}])

\* read_signalling; a failure reads as no tally.
ReadTally == \E y \in {tally, NoTally} : Figure("tally", "stats", [tally |-> y])

\* read_period_block_stats looks up the tip once more; the rows it then sums over
\* are those of the period that have been analysed.
ReadStatsPeriod ==
  Figure("stats", "done", [statsStart |-> PeriodStart(MaxStored)])

\* The page polls again: the request is answered, or a statement has failed and
\* with it the request.
NextFigures ==
  /\ figures # NoFigures /\ figures' = NoFigures
  /\ UNCHANGED <<blocksVars, stripVars>>

-----------------------------------------------------------------------------
StoreStep == StoreWindow \/ \E h \in Height : StoreMissing(h)

RefreshStep ==
  \E c \in Crawler :
    \/ ScanPeriod(c) \/ RefreshWindow(c) \/ WriteSnapshot(c) \/ Restart(c)
    \/ \E h \in Height : BackfillBlock(c, h)

ReceiveStep == ReceiveFirst \/ ReceiveOlder \/ \E p \in Poll : ReceivePoll(p)

StripNext ==
  \/ NewBlock(0) \/ StoreStep \/ ReceiveStep \/ Scroll
  \/ \E f \in Fetch : AnswerFetch(f) \/ LoseFetch(f)
  \/ \E p \in Poll : SendPoll(p)

PeriodNext ==
  \/ RefreshStep
  \/ top < PeriodTip /\ \E d \in 0..MaxDepth : NewBlock(d)
  \/ ReadPeriod \/ ReadList \/ ReadTally
  \/ ReadStatsPeriod \/ NextFigures

-----------------------------------------------------------------------------
(* Properties.                                                              *)

\* "Without ever re-fetching a block" (read_blocks_page): however polls, older
\* pages and the crawler's commits interleave, the strip is strictly
\* descending, holds every block stored when the page was opened down to its
\* own last one, all of them once it says it has reached the oldest, and every
\* newer one up to its first; and a lost answer never leaves it waiting for a
\* page nobody will send.  Two things break the order and are left out here:
\* more blocks between two polls than a poll asks for, and a block that the
\* backfill stores above all others because the writes of its window, and of
\* those since, failed.
StripExact ==
  /\ loading => fetch["older"] # Idle
  /\ ~missed /\ ~torn /\ strip # <<>> =>
    /\ \A i \in 1..(Len(strip) - 1) : strip[i] > strip[i + 1]
    /\ \A h \in base : h >= strip[Len(strip)] \/ ~hasMore => h \in Heights(strip)
    /\ \A h \in stored : h > Max(base) /\ h <= strip[1] => h \in Heights(strip)

\* "The page can show the true N of M instead of only the fetched subset"
\* (/api/blocks): in one response whose list and tally are of the same period,
\* the list never has more of the blocks the tally covers than the tally counts,
\* and has all of them unless one was not yet stored or the list is cut; the
\* payload figures are of the same period or of one that began meanwhile; all this
\* although every figure is read by a statement of its own and reorganisations
\* change what signals.  A height is in doubt, and may be counted by one and not
\* by the other, only while its row is of a replaced block, or if it was replaced
\* between the scan and the reading.  What holds of responses that pair the list
\* of one period with the tally of another: TallyKeepsUp.
PeriodFigures ==
  figures.next = "done" =>
    LET y == figures.tally
        Covered(H) == {h \in H : h >= y.start /\ h <= y.tip}
        doubtful == figures.doubt \cup y.moved
    IN  /\ y.start = figures.start =>
             /\ Cardinality(Covered(figures.list \ doubtful)) <= Cardinality(y.heights)
             /\ Cardinality(figures.list) < SigLimit =>
                  Cardinality(y.heights) <= Cardinality(Covered(figures.list \cup doubtful))
        /\ \/ figures.statsStart = figures.start
           \/ figures.statsStart > figures.start /\ top >= figures.start + Period

\* Once every crawler has got through one refresh since a period began, whatever
\* fails or restarts afterwards, the list of a response is of that period and the
\* tally, if there is one, too, or of a period that began while the response was
\* read.  Before that the list is of the new period as soon as a crawler has
\* stored its window (write_blocks), and the tally of the old one until the
\* snapshots at the end of the same refreshes (write_db): for as long as the
\* backfill, the analysis of blocks and the geolocation take, and until the next
\* block if one of them fails.
TallyKeepsUp ==
  figures.next = "done" /\ figures.settled =>
    /\ figures.start = figures.due
    /\ Known(figures.tally) => figures.tally.start >= figures.due

-----------------------------------------------------------------------------
(* Inductive strengthenings.                                                *)

Tally == [start : Nat, tip : Nat \cup {-1}, heights : SUBSET Height,
          moved : SUBSET Height]

TallyTypes(y) ==
  /\ y \in Tally
  /\ y.heights \subseteq y.start..y.tip /\ y.moved \subseteq y.start..y.tip

\* A tally is of a period up to some block and, but for heights replaced since the
\* scan, as the chain of signalling heights S up to t.
TallyFits(y, t, S) ==
  /\ TallyTypes(y) /\ y.tip <= t
  /\ Known(y) => y.start = PeriodStart(y.tip)
  /\ \A h \in y.start..y.tip : h \notin y.moved => (h \in y.heights <=> h \in S)

TableInv ==
  /\ top \in Height /\ chain \subseteq Height
  /\ stored \subseteq 0..top /\ stored # {} /\ torn \in BOOLEAN
  /\ stale \subseteq Height /\ signals \subseteq stored
  /\ \A h \in stored : h \notin stale => (h \in signals <=> h \in chain)

TalliesInv ==
  /\ TallyFits(tally, top, chain)
  /\ DOMAIN cache = Crawler /\ \A c \in Crawler : TallyFits(cache[c], top, chain)
  /\ DOMAIN found = Crawler /\ \A c \in Crawler : found[c] \subseteq 0..top

OfPeriod(y, t) == Known(y) => y.start = PeriodStart(t)

\* A crawler that has got through a refresh since the period began holds a tally
\* of it, or none, and the table has a block of it; so has one about to.
ProgressInv ==
  /\ DOMAIN phase = Crawler /\ DOMAIN progress = Crawler
  /\ \A c \in Crawler :
       /\ progress[c] \in {"behind", "scanned", "current"}
       /\ progress[c] = "scanned" => phase[c] \in {"scanned", "stored"}
       /\ progress[c] # "behind" => OfPeriod(cache[c], top)
       /\ \/ progress[c] = "current"
          \/ progress[c] = "scanned" /\ phase[c] = "stored"
          => MaxStored >= PeriodStart(top)
  /\ (\A c \in Crawler : progress[c] = "current") => OfPeriod(tally, top)

\* What each statement has read, while the table goes on growing.
PeriodRead(g) ==
  /\ {"start", "due", "settled"} \subseteq DOMAIN g
  /\ g.start \in 0..MaxStored /\ g.start = PeriodStart(g.start)
  /\ g.settled => g.start = g.due

\* A tally of the period the list is of, or of a later one.
KeptUp(g, y) == g.settled /\ Known(y) => y.start >= g.start

ListRead(g) ==
  /\ {"list", "doubt"} \subseteq DOMAIN g
  /\ g.list \subseteq {h \in stored : h >= g.start}
  /\ g.doubt \subseteq Height

\* The list and the chain, as long as the tally is not read.
ListFits(g) ==
  /\ \A h \in g.list : h \in chain \cup g.doubt
  /\ Cardinality(g.list) < SigLimit =>
       \A h \in chain : h >= g.start => h \in g.list \cup g.doubt

\* The list and the tally.
ListTallied(g) ==
  g.tally.start = g.start =>
    /\ \A h \in g.list :
         h <= g.tally.tip => h \in g.tally.heights \cup g.doubt \cup g.tally.moved
    /\ Cardinality(g.list) < SigLimit =>
         \A h \in g.tally.heights :
           h \in g.list \cup g.doubt \cup g.tally.moved

TallyRead(g) ==
  "tally" \in DOMAIN g /\ TallyTypes(g.tally) /\ KeptUp(g, g.tally) /\ ListTallied(g)

StatsRead(g) ==
  /\ "statsStart" \in DOMAIN g
  /\ \E m \in g.start..MaxStored : g.statsStart = PeriodStart(m)

PeriodInv ==
  LET Past(S) == figures.next \notin S
  IN  /\ "next" \in DOMAIN figures
      /\ figures.next \in {"period", "list", "tally", "stats", "done"}
      /\ Past({"period"}) => PeriodRead(figures)
      /\ figures.next \in {"list", "tally"} =>
           \A y \in {tally} \cup {cache[c] : c \in Crawler} : KeptUp(figures, y)
      /\ Past({"period", "list"}) => ListRead(figures)
      /\ figures.next = "tally" => ListFits(figures)
      /\ Past({"period", "list", "tally"}) => TallyRead(figures)
      /\ figures.next = "done" => StatsRead(figures)

\* As long as the backfill has stored none above all others, the newest window
\* is whole.
WindowInv == ~torn => NewestWindow(MaxStored) \subseteq stored

Descends(s) == \A i, j \in DOMAIN s : i < j => s[i] > s[j]
Last(s) == s[Len(s)]

PageRequest == [phase : {"none", "sent", "answered"}, before : Height,
                rows : Seq(Height), more : BOOLEAN]

StripTypes ==
  /\ strip \in Seq(Height) /\ hasMore \in BOOLEAN /\ base \subseteq stored
  /\ fetch \in [Fetch -> PageRequest]
  /\ loading \in BOOLEAN /\ (loading <=> fetch["older"].phase # "none")
  /\ strip # <<>> => fetch["first"].phase = "none" /\ base # {}
  /\ fetch["first"].phase = "answered" => base # {}
  /\ \A f \in Fetch \ {"first"} : fetch[f].phase # "none" => strip # <<>>

\* Rows of the blocks H down to some depth, or all of them unless there are more.
DownTo(rows, more, H) ==
  \A h \in H : rows = <<>> \/ h >= Last(rows) \/ ~more => h \in Heights(rows)

\* The answers on their way.
FirstFits(q) ==
  q.phase = "answered" =>
    /\ q.rows # <<>> /\ Descends(q.rows) /\ q.rows[1] = Max(base)
    /\ DownTo(q.rows, q.more, base)
    /\ ~torn => NewestWindow(Max(base)) \subseteq Heights(q.rows)

OlderFits(q) ==
  q.phase # "none" =>
    /\ q.before = Last(strip)
    /\ q.phase = "answered" =>
         /\ Descends(q.rows) /\ \A h \in Heights(q.rows) : h < q.before
         /\ DownTo(q.rows, q.more, {h \in base : h < q.before})

PollFits(q) ==
  q.phase = "answered" /\ ~torn =>
    /\ q.rows # <<>> /\ Descends(q.rows) /\ q.rows[1] >= Max(base)
    /\ Heights(q.rows) = {h \in Height : h <= q.rows[1] /\ h > q.rows[1] - TipLimit}

FetchInv ==
  /\ FirstFits(fetch["first"]) /\ OlderFits(fetch["older"])
  /\ \A p \in Poll : PollFits(fetch[p])

\* Above the blocks it began with, the strip has no gap.
StripInv ==
  ~missed /\ ~torn /\ strip # <<>> =>
    /\ Descends(strip) /\ strip[1] >= Max(base)
    /\ DownTo(strip, hasMore, base)
    /\ NewestWindow(Max(base)) \subseteq Heights(strip)
    /\ {h \in Height : h > Max(base) /\ h <= strip[1]} \subseteq Heights(strip)
=============================================================================
