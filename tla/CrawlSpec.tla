------------------------------ MODULE CrawlSpec ------------------------------
(***************************************************************************)
(* What a crawl promises, without its threads: every address is learned    *)
(* once, waits, is taken in hand once, and is recorded; only what is in    *)
(* hand and recorded can bring new addresses; the crawl is over only when  *)
(* nothing waits and nothing is in hand.  A node cap lets an address go    *)
(* unrecorded, but only once enough are recorded.  A process that is       *)
(* started again knows what the saved file says and nothing else.          *)
(***************************************************************************)
EXTENDS Integers, FiniteSets

CONSTANTS
  Peer,       \* the addresses of the network
  MaxNodes    \* the node cap, 0 = unlimited

VARIABLES
  stage,      \* loading, crawling, over
  known,      \* every address the crawl has heard of
  pending,    \* those that wait to be visited
  inHand,     \* those being visited
  recorded,   \* those with a node record
  saved       \* those with a record in the state file

crawlVars == <<stage, known, pending, inHand, recorded, saved>>

Init ==
  /\ stage = "loading"
  /\ known = {} /\ pending = {} /\ inHand = {}
  /\ recorded = {} /\ saved = {}

\* An entry of the state file, or a seed; a seed may come with its record, and
\* an entry of the file may have been recorded by the time the file was written.
Queue(p) ==
  /\ stage = "loading" /\ p \notin pending
  /\ p \in known => p \in recorded
  /\ known' = known \cup {p}
  /\ pending' = pending \cup {p}
  /\ recorded' \in {recorded, recorded \cup {p}}
  /\ UNCHANGED <<stage, inHand, saved>>

Begin ==
  /\ stage = "loading" /\ stage' = "crawling"
  /\ UNCHANGED <<known, pending, inHand, recorded, saved>>

Take(p) ==
  /\ stage = "crawling" /\ p \in pending
  /\ pending' = pending \ {p}
  /\ inHand' = inHand \cup {p}
  /\ UNCHANGED <<stage, known, recorded, saved>>

Record(p) ==
  /\ p \in inHand
  /\ recorded' = recorded \cup {p}
  /\ UNCHANGED <<stage, known, pending, inHand, saved>>

Discover(p, new) ==
  /\ p \in inHand \cap recorded /\ new \cap known = {}
  /\ known' = known \cup new
  /\ pending' = pending \cup new
  /\ UNCHANGED <<stage, inHand, recorded, saved>>

CapReached == MaxNodes # 0 /\ Cardinality(recorded) >= MaxNodes

Release(p) ==
  /\ p \in inHand /\ (p \in recorded \/ CapReached)
  /\ inHand' = inHand \ {p}
  /\ UNCHANGED <<stage, known, pending, recorded, saved>>

End ==
  /\ stage = "crawling" /\ stage' = "over"
  /\ pending = {} /\ inHand = {}
  /\ UNCHANGED <<known, pending, inHand, recorded, saved>>

Save ==
  /\ saved' \in SUBSET recorded
  /\ UNCHANGED <<stage, known, pending, inHand, recorded>>

\* Also with a state file that cannot be read.
Restart ==
  /\ stage' = "loading"
  /\ recorded' \in {saved, {}} /\ known' = recorded'
  /\ pending' = {} /\ inHand' = {}
  /\ UNCHANGED saved

Next ==
  \/ \E p \in Peer : Queue(p) \/ Take(p) \/ Record(p) \/ Release(p)
  \/ \E p \in Peer, new \in SUBSET Peer : Discover(p, new)
  \/ Begin \/ End \/ Save \/ Restart

Spec == Init /\ [][Next]_crawlVars
=============================================================================
