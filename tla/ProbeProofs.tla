------------------------------ MODULE ProbeProofs ------------------------------
(* Theorems about Probe for every pair of chains, every locator with or        *)
(* without gaps and every order of the peer's messages.                        *)
EXTENDS Probe, WellFoundedInduction, TLAPS

\* A set of naturals that is not empty has a smallest element.
LEMMA LeastNatural ==
  ASSUME NEW T \in SUBSET Nat, T # {}
  PROVE  \E x \in T : \A y \in T : x <= y
<1> DEFINE Smaller == OpToRel(<, Nat)
<1>1. IsWellFoundedOn(Smaller, Nat)
  BY NatLessThanWellFounded
<1>2. \A x, y \in Nat : <<y, x>> \in Smaller <=> y < x
  BY DEF OpToRel
<1> HIDE DEF Smaller
<1>3. PICK x \in T : \A y \in T : ~ (<<y, x>> \in Smaller)
  BY <1>1, WFMin
<1>4. \A y \in T : x \in Nat /\ y \in Nat /\ ~ (y < x)
  BY <1>2, <1>3
<1>5. \A y \in T : x <= y
  BY <1>4
<1> QED
  BY <1>5

\* A set of heights with a bound has a highest one.
LEMMA HighestBelow ==
  ASSUME NEW b \in Nat, NEW H \in SUBSET (0..b), H # {}
  PROVE  Max(H) \in H /\ \A h \in H : h <= Max(H)
<1> DEFINE T == {b - h : h \in H}
<1>1. T \in SUBSET Nat /\ T # {}
  OBVIOUS
<1> HIDE DEF T
<1>2. PICK t \in T : \A y \in T : t <= y
  BY <1>1, LeastNatural
<1>3. PICK x \in H : t = b - x
  BY DEF T
<1>4. \A h \in H : b - x <= b - h
  BY <1>2, <1>3 DEF T
<1>5. \A h \in H : x >= h
  BY <1>4
<1>6. Max(H) \in H /\ \A h \in H : Max(H) >= h
  BY <1>5 DEF Max
<1> QED
  BY <1>6

-----------------------------------------------------------------------------
(* The reply and where it is placed.                                        *)

LEMMA BaseKnown ==
  ASSUME ChainTypes
  PROVE  /\ Reply.base = ReplyBase /\ ReplyBase \in Nat
         /\ IF Known = {} THEN ReplyBase = 0
            ELSE ReplyBase \in Known /\ \A h \in Known : h <= ReplyBase
<1>0. Reply.base = ReplyBase
  BY DEF Reply
<1>1. CASE Known = {}
  <2>1. ReplyBase = 0
    BY <1>1 DEF ReplyBase
  <2> QED
    BY <1>0, <1>1, <2>1
<1>2. CASE Known # {}
  <2>0. fork \in Nat /\ \A h \in Known : h \in Nat /\ h <= fork
    BY DEF Known, ChainTypes
  <2>1. Known \in SUBSET (0..fork)
    BY <2>0
  <2>2. ReplyBase = Max(Known)
    BY <1>2 DEF ReplyBase
  <2>3. Max(Known) \in Known /\ \A h \in Known : h <= Max(Known)
    <3> HIDE DEF Known
    <3> QED  BY <1>2, <2>0, <2>1, HighestBelow
  <2> QED
    BY <1>0, <1>2, <2>0, <2>2, <2>3
<1> QED
  BY <1>1, <1>2

\* A reply that covers the reference height ends above it on the peer's chain.
LEMMA ReplyPlacesPeer ==
  ASSUME ChainTypes, NEW r \in {NoHeaders, Reply}, PeerHashAt(r) # None
  PROVE  peerTip >= target /\ PeerHashAt(r) = BlockAt(target)
<1> DEFINE i == HeaderIndex(r.base)
<1>1. r.count > 0 /\ r.base \in locator /\ i >= 0 /\ i < r.count
  BY DEF PeerHashAt
<1>2. r = Reply /\ ReplyBase \in Nat /\ r.base = ReplyBase
  <2>1. NoHeaders.base = -1 /\ -1 \notin locator
    BY DEF NoHeaders, ChainTypes
  <2> QED
    BY <1>1, <2>1, BaseKnown
<1>3. target \in Int /\ peerTip \in Nat /\ HeadersPerReply \in Nat
  BY ProbeAssumption DEF target, ChainTypes
<1>4. i = target - ReplyBase - 1
  BY <1>2 DEF HeaderIndex
<1>5. r.count <= peerTip - ReplyBase
  <2>1. r.count = IF peerTip - ReplyBase > HeadersPerReply THEN HeadersPerReply
                  ELSE IF peerTip > ReplyBase THEN peerTip - ReplyBase ELSE 0
    BY <1>2 DEF Reply
  <2>2. r.count > 0
    BY <1>1
  <2> HIDE DEF i
  <2> QED
    BY <1>2, <1>3, <2>1, <2>2
<1>6. r.base + 1 + i = target
  BY <1>2, <1>3, <1>4
<1>7. PeerHashAt(r) = BlockAt(r.base + 1 + i)
  BY <1>1 DEF PeerHashAt
<1>8. target - ReplyBase - 1 < r.count /\ r.count \in Int
  BY <1>1, <1>2, <1>3, <1>4 DEF Reply
<1>9. peerTip >= target
  BY <1>2, <1>3, <1>5, <1>8
<1> QED
  BY <1>6, <1>7, <1>9

\* On a whole locator a fork within reach is placed by the reply.
LEMMA ReachPlaced ==
  ASSUME ChainTypes, locator = Locator({}), peerTip >= target, fork >= OurTip - Reach
  PROVE  PeerHashAt(Reply) # None
<1> DEFINE i == HeaderIndex(ReplyBase)
<1>1. PICK l \in locator : l <= OurTip - Reach /\ target - l <= HeadersPerReply
  BY LocatorAssumption
<1>2. \A h \in locator : h \in Nat /\ h < target
  BY LocatorAssumption DEF ChainTypes
<1>3. /\ target \in Int /\ peerTip \in Nat /\ fork \in Nat
      /\ HeadersPerReply \in Nat /\ OurTip \in Nat /\ Reach \in Nat
  BY ProbeAssumption DEF target, ChainTypes
<1>4. l <= fork /\ l <= peerTip
  <2>1. l \in Nat /\ l < target
    BY <1>2
  <2> QED
    BY <1>1, <1>3, <2>1
<1>5. l \in Known
  BY <1>4 DEF Known
<1>6. /\ ReplyBase \in locator /\ l <= ReplyBase
      /\ Reply.base = ReplyBase /\ ReplyBase \in Nat
  BY <1>5, BaseKnown DEF Known
<1>7. i = target - ReplyBase - 1
  BY DEF HeaderIndex
<1>8. /\ i >= 0 /\ i < HeadersPerReply /\ i < peerTip - ReplyBase
      /\ peerTip > ReplyBase
  BY <1>1, <1>2, <1>3, <1>6, <1>7
<1>9. Reply.count = IF peerTip - ReplyBase > HeadersPerReply THEN HeadersPerReply
                    ELSE IF peerTip > ReplyBase THEN peerTip - ReplyBase ELSE 0
  BY DEF Reply
<1>10. Reply.count > 0 /\ i < Reply.count
  <2> HIDE DEF i
  <2>1. i \in Int
    BY <1>3, <1>6, <1>7
  <2> QED
    BY <1>3, <1>6, <1>8, <1>9, <2>1
<1>11. PeerHashAt(Reply) = BlockAt(ReplyBase + 1 + i)
  BY <1>6, <1>8, <1>10 DEF PeerHashAt
<1> QED
  BY <1>11 DEF BlockAt, None

-----------------------------------------------------------------------------
(* The inductive invariant.                                                 *)

LEMMA ProbeStarts == Init => ProbeInv
<1> SUFFICES ASSUME Init PROVE ProbeInv
  OBVIOUS
<1>1. ChainTypes
  <2>1. fork \in Nat /\ peerTip \in Nat
    BY ProbeAssumption DEF Init
  <2>2. \A gaps : Locator(gaps) \in SUBSET (Nat \ {0})
    BY DEF Locator
  <2>3. locator = {} \/ \E gaps : locator = Locator(gaps)
    BY DEF Init
  <2> QED
    BY <2>1, <2>2, <2>3 DEF ChainTypes
<1>2. WindowInv /\ OutcomeInv
  BY DEF Init, WindowInv, OutcomeInv
<1> QED
  BY <1>1, <1>2 DEF ProbeInv

\* The chains stay, and with them what the reply and its place would be.
LEMMA ChainsStay == [Next]_vars => UNCHANGED chainVars
  BY DEF Next, Shake, Abandon, Gather, Settle, Done, Dial, EndShake, ShakeMessage,
         Collect, DeadlinePasses, EndCollect, Retry, GiveUp, RecordPeer, Abort, vars

LEMMA ReplyStays ==
  ASSUME UNCHANGED chainVars
  PROVE  /\ ChainTypes => ChainTypes'
         /\ Reply' = Reply
         /\ headers' = headers /\ addrs' = addrs
            => MayStopEarly' = MayStopEarly /\ PeerHashAt(headers)' = PeerHashAt(headers)
  BY DEF chainVars, ChainTypes, Reply, ReplyBase, Known, MayStopEarly, GotHeaders, PeerHashAt,
         HeaderIndex, BlockAt

LEMMA ProbeContinues == ProbeInv /\ [Next]_vars => ProbeInv'
<1> SUFFICES ASSUME ProbeInv, [Next]_vars PROVE ProbeInv'
  OBVIOUS
<1> USE DEF ProbeInv, WindowOver
<1>1. UNCHANGED chainVars
  BY ChainsStay
<1>2. ChainTypes' /\ Reply' = Reply
  BY <1>1, ReplyStays
<1>3. headers' = headers /\ addrs' = addrs
      => MayStopEarly' = MayStopEarly /\ PeerHashAt(headers)' = PeerHashAt(headers)
  BY <1>1, ReplyStays
<1>4. CASE Shake
  BY <1>2, <1>3, <1>4 DEF Shake, Dial, EndShake, ShakeMessage, WindowInv, OutcomeInv, windowVars
<1>5. CASE Abandon
  BY <1>2, <1>3, <1>5 DEF Abandon, Abort, WindowInv, OutcomeInv, windowVars
<1>6. ASSUME NEW n \in Nat, NEW reply \in BOOLEAN, Collect(n, reply)
      PROVE  ProbeInv'
  BY <1>2, <1>6 DEF Collect, WindowInv, OutcomeInv
<1>6a. CASE DeadlinePasses
  BY <1>2, <1>6a DEF DeadlinePasses, WindowInv, OutcomeInv
<1>7. ASSUME NEW silent \in BOOLEAN, EndCollect(silent)
      PROVE  ProbeInv'
  <2>1. WindowInv'
    BY <1>2, <1>7 DEF EndCollect, WindowInv
  <2>2. late' \/ MayStopEarly'
    <3>1. late' = (late \/ silent) /\ (late \/ MayStopEarly \/ silent)
          /\ headers' = headers /\ addrs' = addrs
      BY <1>7 DEF EndCollect
    <3>2. MayStopEarly' = MayStopEarly
      BY <1>3, <3>1
    <3> QED
      BY <3>1, <3>2
  <2>3. phase' = "ok" /\ chainHash' = None
    BY <1>7 DEF EndCollect, OutcomeInv
  <2> QED
    BY <1>2, <2>1, <2>2, <2>3 DEF OutcomeInv
<1>8. CASE Retry
  <2>1. /\ headers' = NoHeaders /\ addrs' = 0 /\ late' = FALSE
        /\ attempt' \in Nat /\ phase' = "dial"
    BY <1>8 DEF Retry, Fresh, WindowInv
  <2>2. chainHash' = None
    BY <1>8 DEF Retry, OutcomeInv
  <2> QED
    BY <1>2, <2>1, <2>2 DEF WindowInv, OutcomeInv
<1>9. CASE GiveUp
  BY <1>2, <1>3, <1>9 DEF GiveUp, WindowInv, OutcomeInv, windowVars
<1>10. CASE RecordPeer
  <2>1. UNCHANGED windowVars /\ phase = "ok" /\ chainHash' = PeerHashAt(headers)
        /\ phase' = "done" /\ UNCHANGED attempt
    BY <1>10 DEF RecordPeer
  <2>2. late' \/ MayStopEarly'
    BY <1>3, <2>1 DEF OutcomeInv, windowVars
  <2>3. chainHash' = PeerHashAt(headers)'
    BY <1>3, <2>1 DEF windowVars
  <2> QED
    BY <1>2, <2>1, <2>2, <2>3 DEF WindowInv, OutcomeInv, windowVars
<1>11. CASE UNCHANGED vars
  BY <1>2, <1>3, <1>11 DEF WindowInv, OutcomeInv, vars, windowVars
<1> QED
  <2>1. AddrSizes \subseteq Nat /\ 0 \in Nat
    BY ProbeAssumption
  <2> QED
    BY <1>4, <1>5, <1>6, <1>6a, <1>7, <1>8, <1>9, <1>10, <1>11, <2>1
       DEF Next, Gather, Settle, Done

LEMMA ProbeInvariant == Spec => []ProbeInv
  BY ProbeStarts, ProbeContinues, PTL DEF Spec

-----------------------------------------------------------------------------
(* The theorems.                                                            *)

\* The hash recorded for a peer is that of its own block at the reference
\* height, or none (peer_hash_at, p2p.rs), whatever the forks, the heights and
\* the gaps of the locator.
THEOREM ChainHashAlwaysPeers == Spec => []ChainHashIsPeers
<1>1. ProbeInv => ChainHashIsPeers
  <2> SUFFICES ASSUME ProbeInv, chainHash # None
               PROVE  peerTip >= target /\ chainHash = BlockAt(target)
    BY DEF ChainHashIsPeers
  <2>1. chainHash = PeerHashAt(headers)
    BY DEF ProbeInv, OutcomeInv
  <2>2. ChainTypes /\ headers \in {NoHeaders, Reply}
    BY DEF ProbeInv, WindowInv
  <2> QED
    BY <2>1, <2>2, ReplyPlacesPeer
<1> QED
  BY <1>1, ProbeInvariant, PTL

\* A peer that left our chain within reach is placed on its own when its reply
\* came in time or its addresses closed the window (probe_peer's early exit,
\* build_locator): the locator being spaced as LocatorAssumption says, no order
\* of messages, deadline or retry loses the peer's view of the chain.
THEOREM ForksWithinReachPlaced == Spec => []RecentForkPlaced
<1>1. ProbeInv => RecentForkPlaced
  <2> SUFFICES ASSUME ProbeInv, phase = "done",
                      headers # NoHeaders \/ (addrs >= AddrEnough /\ ~late),
                      locator = Locator({}), peerTip >= target, fork >= OurTip - Reach
               PROVE  chainHash # None
    BY DEF RecentForkPlaced
  <2> USE DEF ProbeInv, WindowOver
  <2>1. ~(headers = NoHeaders /\ addrs = 0)
    BY ProbeAssumption
  <2>2. (late \/ MayStopEarly) /\ chainHash = PeerHashAt(headers)
    BY <2>1 DEF OutcomeInv
  <2>3. locator # {}
    BY LocatorAssumption
  <2>4. headers # NoHeaders
    BY <2>2, <2>3 DEF MayStopEarly, GotHeaders
  <2>5. headers = Reply
    BY <2>4 DEF WindowInv
  <2> QED
    BY <2>2, <2>5, ReachPlaced
<1> QED
  BY <1>1, ProbeInvariant, PTL
=============================================================================
