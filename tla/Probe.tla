-------------------------------- MODULE Probe --------------------------------
(***************************************************************************)
(* One worker's conversation with one peer: the retry loop of worker() in  *)
(* src/src/crawler.rs, probe_peer in src/src/p2p.rs with its handshake and *)
(* its bounded collection window, and the chain check: the block locator   *)
(* main.rs builds from our own chain and peer_hash_at, which places the    *)
(* peer's headers reply on it.                                             *)
(*                                                                         *)
(* Blocks are pairs <<branch, height>>: the peer shares our chain up to    *)
(* height `fork` and is on a branch of its own above it.                   *)
(***************************************************************************)
EXTENDS Integers, Sequences, FiniteSets, FiniteSetsExt

CONSTANTS
  OurTip,            \* tip of our chain when the crawl starts
  Forks,             \* where a peer's chain may leave ours
  PeerTips,          \* heights a peer may have reached
  Retries,           \* cfg.retries
  HandshakeMessages, \* messages read for the handshake
  AddrEnough,        \* addresses after which the window may close early
  AddrSizes,         \* addresses in one addr message
  MaxAddrs,          \* bound: addresses discovered in one collection window
  HeadersPerReply,   \* headers in one reply, at most
  LocatorLength,     \* entries in the locator, at most
  LocatorStartLag,   \* LOCATOR_START_LAG
  ChainRefLag,       \* CHAIN_REF_LAG
  Reach              \* how far back a fork is certain to be placed

ASSUME ProbeAssumption ==
  /\ OurTip \in Nat /\ Forks \subseteq Nat /\ PeerTips \subseteq Nat
  /\ Retries \in Nat /\ HandshakeMessages \in Nat \ {0}
  /\ AddrEnough \in Nat \ {0} /\ AddrSizes \subseteq Nat /\ MaxAddrs \in Nat
  /\ HeadersPerReply \in Nat \ {0} /\ LocatorLength \in Nat \ {0}
  /\ LocatorStartLag \in Nat /\ ChainRefLag \in Nat /\ Reach \in Nat

None == <<"none", 0>>
target == OurTip - ChainRefLag

VARIABLES
  fork, peerTip,  \* the peer's chain
  locator,        \* heights of the entries sent, built once per crawl
  phase,          \* dial, shake, collect, ok, err, done
  attempt,        \* retries made
  read,           \* messages read for the handshake
  version, verack,       \* what the handshake has brought so far
  addrs,          \* number of addresses discovered
  headers,        \* the headers reply: [base, count], base = -1 for none
  late,           \* has the collection deadline passed?
  error,          \* of the last attempt: timeout, io, protocol
  chainHash       \* the hash recorded for the peer

chainVars == <<fork, peerTip, locator>>
shakeVars == <<version, verack>>
windowVars == <<addrs, headers, late>>
vars == <<chainVars, phase, attempt, read, shakeVars, windowVars, error, chainHash>>

NoHeaders == [base |-> -1, count |-> 0]

-----------------------------------------------------------------------------
(* The chain check.                                                         *)

\* Ten entries one block apart, then steps that double.
LocatorStep(i) == IF i <= 10 THEN 1 ELSE 2^(i - 10)

LocatorHeight[i \in 1..LocatorLength] ==
  IF i = 1 THEN OurTip - LocatorStartLag
  ELSE LocatorHeight[i - 1] - LocatorStep(i - 1)

\* build_locator stops at the genesis block, and leaves out the heights whose
\* hash RPC does not give (gaps).
Locator(gaps) ==
  {LocatorHeight[i] : i \in (1..LocatorLength) \ gaps} \cap (Nat \ {0})

\* The locator starts below the reference height and has an entry below every
\* fork of the last Reach blocks that one reply covers up to there.
ASSUME LocatorAssumption ==
  /\ \A h \in Locator({}) : h < target
  /\ \E h \in Locator({}) : h <= OurTip - Reach /\ target - h <= HeadersPerReply

\* A peer answers getheaders from the newest locator block on its own chain,
\* or from genesis, forward along that chain (external).
Known == {h \in locator : h <= fork /\ h <= peerTip}
ReplyBase == IF Known = {} THEN 0 ELSE Max(Known)
Reply == [base |-> ReplyBase,
          count |-> IF peerTip - ReplyBase > HeadersPerReply THEN HeadersPerReply
                    ELSE IF peerTip > ReplyBase THEN peerTip - ReplyBase ELSE 0]

BlockAt(h) == IF h <= fork THEN <<"ours", h>> ELSE <<"theirs", h>>

\* Mutant: the first header taken for the locator block itself.
IndexFromBase(base) == target - base

\* headers[0] sits one above the locator block it extends.
HeaderIndex(base) == target - base - 1

\* Empty without a reply, without a common locator block, or when the reply
\* does not cover the reference height.
PeerHashAt(r) ==
  LET i == HeaderIndex(r.base)
  IN  IF r.count > 0 /\ r.base \in locator /\ i >= 0 /\ i < r.count
      THEN BlockAt(r.base + 1 + i) ELSE None

-----------------------------------------------------------------------------
(* The conversation.                                                        *)

\* Each attempt starts with an empty connection.
Fresh ==
  /\ read' = 0 /\ version' = FALSE /\ verack' = FALSE
  /\ addrs' = 0 /\ headers' = NoHeaders /\ late' = FALSE

Init ==
  /\ fork \in Forks /\ peerTip \in PeerTips
  /\ locator \in {Locator(gaps) : gaps \in {{}} \cup {{i} : i \in 1..LocatorLength}}
                 \cup {{}}  \* no chain check
  /\ phase = "dial" /\ attempt = 0 /\ read = 0
  /\ version = FALSE /\ verack = FALSE
  /\ addrs = 0 /\ headers = NoHeaders /\ late = FALSE
  /\ error = "none" /\ chainHash = None

\* Connected, directly or through the proxy, and our version sent.
Dial ==
  /\ phase = "dial"
  /\ phase' = "shake"
  /\ UNCHANGED <<chainVars, attempt, read, shakeVars, windowVars, error, chainHash>>

\* Connecting, reading, parsing or writing fails, up to the getaddr and
\* getheaders that open the collection window.
Abort(kind) ==
  /\ \/ phase = "dial"
     \/ phase = "shake" /\ (version \/ read < HandshakeMessages)
  /\ phase' = "err" /\ error' = kind
  /\ UNCHANGED <<chainVars, attempt, read, shakeVars, windowVars, chainHash>>

\* One message of the handshake loop; any other message is only counted.
ShakeMessage(msg) ==
  /\ phase = "shake" /\ ~(version /\ verack) /\ read < HandshakeMessages
  /\ read' = read + 1
  /\ version' = (version \/ msg = "version")
  /\ verack' = (verack \/ msg = "verack")
  /\ UNCHANGED <<chainVars, phase, attempt, windowVars, error, chainHash>>

\* The loop ends when both have come, or after its last message; without a
\* version the probe fails, without a verack it goes on.
EndShake ==
  /\ phase = "shake" /\ ((version /\ verack) \/ read = HandshakeMessages)
  /\ IF version THEN phase' = "collect" /\ UNCHANGED error
     ELSE phase' = "err" /\ error' = "protocol"
  /\ read' = 0
  /\ UNCHANGED <<chainVars, attempt, shakeVars, windowVars, chainHash>>

GotHeaders == locator = {} \/ headers # NoHeaders

\* Mutant: the addresses alone close the window.
EnoughAddrs == addrs >= AddrEnough

\* The early exit: enough addresses, and the headers if we asked for them.
MayStopEarly == addrs >= AddrEnough /\ GotHeaders

\* Mutant: the deadline is not looked at; a silent peer still ends the window.
UntilEnough == MayStopEarly

\* The window is closed after the message that brought enough, or at the deadline.
WindowOver == late \/ MayStopEarly

\* One message of the collection window, read before the deadline: addresses, the
\* headers reply, or anything else, of which a peer may send any number.
Collect(n, reply) ==
  /\ phase = "collect" /\ ~WindowOver /\ addrs + n <= MaxAddrs
  /\ addrs' = addrs + n
  /\ headers' = IF reply THEN Reply ELSE headers
  /\ UNCHANGED <<chainVars, phase, attempt, read, shakeVars, late, error, chainHash>>

\* The deadline, which the loop looks at between two messages.
DeadlinePasses ==
  /\ phase = "collect" /\ ~late
  /\ late' = TRUE
  /\ UNCHANGED <<chainVars, phase, attempt, read, shakeVars, addrs, headers, error, chainHash>>

\* The window is over, or a read failed or timed out (silent), which costs the
\* rest of it: the handshake counts in any case.
EndCollect(silent) ==
  /\ phase = "collect" /\ (WindowOver \/ silent)
  /\ phase' = "ok"
  /\ late' = (late \/ silent)
  /\ UNCHANGED <<chainVars, attempt, read, shakeVars, addrs, headers, error, chainHash>>

\* A refused or reset connection is an answer; a timeout, or a peer that spoke
\* but broke the protocol, may do better next time.
WorthRetrying(kind) == kind \in {"timeout", "protocol"}

Retry ==
  /\ phase = "err" /\ attempt < Retries /\ WorthRetrying(error)
  /\ attempt' = attempt + 1 /\ phase' = "dial"
  /\ Fresh
  /\ UNCHANGED <<chainVars, error, chainHash>>

GiveUp ==
  /\ phase = "err" /\ (attempt = Retries \/ ~WorthRetrying(error))
  /\ phase' = "done"
  /\ UNCHANGED <<chainVars, attempt, read, shakeVars, windowVars, error, chainHash>>

\* The record of the peer, with its chain.
RecordPeer ==
  /\ phase = "ok"
  /\ phase' = "done"
  /\ chainHash' = PeerHashAt(headers)
  /\ UNCHANGED <<chainVars, attempt, read, shakeVars, windowVars, error>>

-----------------------------------------------------------------------------
Shake == Dial \/ EndShake \/ \E msg \in {"version", "verack", "other"} : ShakeMessage(msg)
Abandon == \E kind \in {"timeout", "io", "protocol"} : Abort(kind)
Gather ==
  \/ \E n \in AddrSizes : Collect(n, FALSE)
  \/ Collect(0, TRUE)
  \/ DeadlinePasses
  \/ \E silent \in BOOLEAN : EndCollect(silent)
Settle == Retry \/ GiveUp \/ RecordPeer
Done == phase = "done" /\ UNCHANGED vars

Next == Shake \/ Abandon \/ Gather \/ Settle \/ Done

Spec == Init /\ [][Next]_vars

\* Every connect and every read of the handshake returns, at worst with a timeout,
\* and the clock goes on.  In the collection window nothing obliges a peer to fall
\* silent, to stop sending or to send what is waited for.
Progress == Shake \/ Abandon \/ DeadlinePasses \/ EndCollect(FALSE) \/ Settle

FairSpec == Spec /\ WF_vars(Progress)

-----------------------------------------------------------------------------
(* Properties.                                                              *)

\* The hash recorded for a peer is that of its own block at the reference
\* height, or none: a peer is never taken to agree with us when it does not, or
\* to disagree when it does, whatever locator entries are missing.
ChainHashIsPeers == chainHash # None => peerTip >= target /\ chainHash = BlockAt(target)

\* A peer that has reached the reference height is placed on its chain if it
\* left ours at most Reach blocks ago, on a locator without gaps, when its
\* headers reply came in time or the window was closed before its time: the
\* spacing of the locator and the length of a reply cover every such fork, and
\* enough addresses alone never cost us the peer's view of the chain.
RecentForkPlaced ==
  (/\ phase = "done"
   /\ headers # NoHeaders \/ (addrs >= AddrEnough /\ ~late)
   /\ locator = Locator({})
   /\ peerTip >= target /\ fork >= OurTip - Reach)
  => chainHash # None

\* Every probe comes to an end, so no worker is lost to a peer that answers
\* nothing or never what we wait for, however long it goes on sending messages of
\* any kind: the handshake and the attempts are counted, and the collection window
\* has a deadline.
ProbeEnds == <>(phase = "done")

-----------------------------------------------------------------------------
(* Inductive strengthenings.                                                *)

\* The chains and the locator of a conversation.
ChainTypes ==
  /\ fork \in Nat /\ peerTip \in Nat
  /\ locator \in SUBSET (Nat \ {0})

\* Headers come only in the window, and then they are the peer's reply; nothing
\* is kept of an attempt that failed.
WindowInv ==
  /\ headers \in {NoHeaders, Reply} /\ addrs \in Nat /\ late \in BOOLEAN
  /\ attempt \in Nat
  /\ phase \in {"dial", "shake", "err"} => headers = NoHeaders /\ addrs = 0

\* A probe that ended gave up or recorded what a window that was over brought.
OutcomeInv ==
  /\ phase = "ok" => WindowOver
  /\ IF phase = "done"
     THEN \/ headers = NoHeaders /\ addrs = 0 /\ chainHash = None
          \/ WindowOver /\ chainHash = PeerHashAt(headers)
     ELSE chainHash = None

ProbeInv == ChainTypes /\ WindowInv /\ OutcomeInv
=============================================================================
