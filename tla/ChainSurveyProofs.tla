------------------------- MODULE ChainSurveyProofs -------------------------
(***************************************************************************)
(* Proofs about module ChainSurvey: the two views of the survey agree, the *)
(* verdict never cries wolf and never misses a surveyed split, for any     *)
(* peers, thresholds, lags, reorganisations no deeper than the reference   *)
(* lag, and failures.                                                      *)
(***************************************************************************)
EXTENDS ChainSurvey, FiniteSetTheorems, SequenceTheorems, WellFoundedInduction, TLAPS

-----------------------------------------------------------------------------
(* Least and greatest elements.                                             *)

\* A set of naturals that is not empty has a smallest element.
LEMMA MinExists ==
  ASSUME NEW T \in SUBSET Nat, T # {}
  PROVE  \E x \in T : \A y \in T : x <= y
<1> DEFINE R == OpToRel(<, Nat)
<1>1. IsWellFoundedOn(R, Nat)
  BY NatLessThanWellFounded
<1>2. \A x, y \in Nat : <<y, x>> \in R <=> y < x
  BY DEF OpToRel
<1> HIDE DEF R
<1>3. PICK x \in T : \A y \in T : ~ (<<y, x>> \in R)
  BY <1>1, WFMin
<1>4. ASSUME NEW y \in T
      PROVE  x <= y
  <2>1. x \in Nat /\ y \in Nat
    OBVIOUS
  <2>2. ~ (y < x)
    BY <1>2, <1>3, <2>1
  <2> QED
    BY <2>1, <2>2
<1> QED
  BY <1>3, <1>4

LEMMA MinOfSet ==
  ASSUME NEW T \in SUBSET Nat, T # {}
  PROVE  Min(T) \in T /\ \A y \in T : Min(T) <= y
  BY MinExists DEF Min

LEMMA MaxOfSet ==
  ASSUME NEW N \in Nat, NEW T \in SUBSET (0..N), T # {}
  PROVE  Max(T) \in T /\ \A y \in T : y <= Max(T)
<1> DEFINE D == {n \in 0..N : N - n \in T}
<1>1. D \in SUBSET Nat /\ D # {}
  <2>1. PICK t \in T : TRUE
    OBVIOUS
  <2>2. N - (N - t) = t /\ N - t \in 0..N
    OBVIOUS
  <2> QED
    BY <2>2
<1>2. PICK d \in D : \A e \in D : d <= e
  BY <1>1, MinExists
<1>3. N - d \in T /\ \A y \in T : y <= N - d
  <2>1. ASSUME NEW y \in T
        PROVE  y <= N - d
    <3>1. N - y \in 0..N /\ N - (N - y) = y
      OBVIOUS
    <3>2. N - y \in D
      BY <3>1
    <3>3. d <= N - y /\ d \in 0..N /\ y \in 0..N
      BY <1>2, <3>2
    <3> QED
      BY <3>3
  <2> QED
    BY <2>1
<1>4. \E x \in T : \A y \in T : x >= y
  BY <1>3
<1> QED
  BY <1>4 DEF Max

-----------------------------------------------------------------------------
(* The two views.                                                           *)

\* The verdict counts the same peers as the clusters do.
LEMMA AssessCounts ==
  ASSUME NEW records
  PROVE  /\ Assess(records).responded = SumFunction(ClusterSizes(records))
         /\ Assess(records).largest = Largest(ClusterSizes(records))
         /\ Assess(records).second = Second(ClusterSizes(records))
         /\ Assess(records).split =
              (\/ Cardinality({t \in ChainTips : RecentlyRejected(t)}) > 0
               \/ HasSupport(Second(ClusterSizes(records))))
  BY DEF Assess, ClusterSizes, InCluster

LEMMA ViewInvariant == Spec => []ViewInv
<1>1. Init => ViewInv
  BY DEF Init, ViewInv, ViewsAgree
<1>2. ViewInv /\ [Next]_vars => ViewInv'
  <2> SUFFICES ASSUME ViewInv, [Next]_vars
               PROVE  ViewInv'
    OBVIOUS
  <2> USE DEF ViewInv
  <2>1. CASE UNCHANGED <<ref, pc, snap, clusters, split, clean>>
    BY <2>1 DEF ViewsAgree
  <2>2. CASE StartCycle
    BY <2>2 DEF StartCycle, ViewsAgree
  <2>3. CASE RefreshTick
    BY <2>3 DEF RefreshTick, ViewsAgree, crawlVars
  <2>4. CASE WriteClusters
    BY <2>4 DEF WriteClusters, ViewsAgree, crawlVars
  <2>5. CASE WriteSplit
    <3>1. pc = "split" /\ pc' = "idle" /\ UNCHANGED <<ref, clusters>>
      BY <2>5 DEF WriteSplit, crawlVars
    <3>2. CASE split' = Assess(snap) /\ UNCHANGED clean
      <4>1. clean /\ ref > 0 => clusters = [ref |-> ref, counts |-> ClusterSizes(snap)]
        BY <3>1
      <4>2. clean /\ ref > 0 =>
              clusters.ref = ref /\ clusters.counts = ClusterSizes(snap)
        BY <4>1
      <4> QED
        BY <3>1, <3>2, <4>2, AssessCounts DEF ViewsAgree
    <3>3. CASE clean' = FALSE
      BY <3>1, <3>3 DEF ViewsAgree
    <3> QED
      BY <2>5, <3>2, <3>3 DEF WriteSplit
  <2>6. CASE \E d \in 0..MaxReorg : NewBlock(d)
    BY <2>1, <2>6 DEF NewBlock, crawlVars
  <2>7. CASE SplitOff \/ RivalBlock \/ \E p \in Peer : ProbePeer(p)
    BY <2>1, <2>7 DEF SplitOff, RivalBlock, ProbePeer, crawlVars
  <2>8. CASE UNCHANGED vars
    BY <2>1, <2>8 DEF vars, crawlVars
  <2> QED
    BY <2>2, <2>3, <2>4, <2>5, <2>6, <2>7, <2>8 DEF Next
<1> QED
  BY <1>1, <1>2, PTL DEF Spec

\* After a refresh whose calls all succeeded the clusters of /chains and the
\* verdict of the report describe the same peers, for any peers and with or
\* without a state file.
THEOREM ViewsNeverDisagree == Spec => []ViewsAgree
<1>1. ViewInv => ViewsAgree
  BY DEF ViewInv
<1> QED
  BY ViewInvariant, <1>1, PTL

-----------------------------------------------------------------------------
(* Clusters.                                                                *)

LEMMA Parameters ==
  /\ Cardinality(Peer) \in Nat /\ MinCluster \in Nat /\ MinCluster > 0
  /\ MaxBlocks \in Nat /\ MaxBlocks > 1 /\ Hash = 1..(MaxBlocks + 1)
  /\ FirstBlocks \in Nat /\ StartLag \in Nat /\ RefLag \in Nat /\ RefLag <= StartLag
  /\ Recency \in Nat /\ MaxReorg \in Nat /\ MaxReorg <= RefLag
<1>1. Cardinality(Peer) \in Nat
  BY SurveyAssumption, FS_CardinalityType
<1> QED
  BY <1>1, SurveyAssumption DEF Hash, OddBlock

LEMMA Sizes ==
  ASSUME NEW records
  PROVE  ClusterSizes(records) \in [Hash -> 0..Cardinality(Peer)]
<1> SUFFICES ASSUME NEW h \in Hash
             PROVE  Cardinality({p \in Peer : records[p] = h}) \in 0..Cardinality(Peer)
  BY DEF ClusterSizes
<1> DEFINE S == {p \in Peer : records[p] = h}
<1>1. IsFiniteSet(S) /\ Cardinality(S) <= Cardinality(Peer)
  <2>1. S \subseteq Peer
    OBVIOUS
  <2> HIDE DEF S
  <2> QED
    BY <2>1, SurveyAssumption, FS_Subset
<1>2. Cardinality(S) \in Nat
  BY <1>1, FS_CardinalityType
<1> HIDE DEF S
<1>3. Cardinality(S) \in 0..Cardinality(Peer)
  BY <1>1, <1>2, Parameters
<1> QED
  BY <1>3 DEF S

\* The second largest cluster has the threshold's size just when two clusters
\* have.
LEMMA SecondLargest ==
  ASSUME NEW records
  PROVE  HasSupport(Second(ClusterSizes(records))) <=> TwoSides(records)
<1> DEFINE counts == ClusterSizes(records)
           N == Cardinality(Peer)
           All == {counts[h] : h \in Hash}
           top == CHOOSE h \in Hash : counts[h] = Largest(counts)
           Rest == {counts[h] : h \in Hash \ {top}}
<1>1. counts \in [Hash -> 0..N] /\ N \in Nat
  BY Sizes, Parameters
<1> HIDE DEF counts, N
<1>2. 1 \in Hash /\ 2 \in Hash
  BY Parameters
<1>3. Largest(counts) \in All /\ \A y \in All : y <= Largest(counts)
  <2>1. All \in SUBSET (0..N) /\ All # {}
    BY <1>1, <1>2
  <2>2. Largest(counts) = Max(All)
    BY DEF Largest
  <2> HIDE DEF All
  <2> QED
    BY <1>1, <2>1, <2>2, MaxOfSet
<1>4. top \in Hash /\ counts[top] = Largest(counts)
  <2>1. \E h \in Hash : counts[h] = Largest(counts)
    BY <1>3
  <2> QED
    BY <2>1
<1>5. \A h \in Hash : counts[h] <= counts[top]
  BY <1>3, <1>4
<1>6. Second(counts) = Max(Rest)
  BY DEF Second
<1> HIDE DEF top
<1>7. Second(counts) \in Rest /\ \A y \in Rest : y <= Second(counts)
  <2>1. Rest \in SUBSET (0..N) /\ Rest # {}
    BY <1>1, <1>2
  <2> HIDE DEF Rest
  <2> QED
    BY <1>1, <1>6, <2>1, MaxOfSet
<1>8. Second(counts) \in Int /\ MinCluster \in Int
  <2>1. Rest \subseteq Int
    BY <1>1
  <2> QED
    BY <1>7, <2>1, Parameters
<1>9. ASSUME TwoSides(records)
      PROVE  HasSupport(Second(counts))
  <2>1. PICK a \in Hash, b \in Hash :
           a # b /\ counts[a] >= MinCluster /\ counts[b] >= MinCluster
    BY <1>9 DEF TwoSides, counts
  <2>2. PICK h \in {a, b} : h # top
    BY <2>1
  <2>3. counts[h] \in Rest /\ counts[h] >= MinCluster
    BY <2>1, <2>2
  <2>4. counts[h] <= Second(counts) /\ counts[h] \in Int
    BY <1>1, <1>7, <2>1, <2>2, <2>3
  <2> QED
    BY <1>8, <2>3, <2>4 DEF HasSupport
<1>10. ASSUME HasSupport(Second(counts))
       PROVE  TwoSides(records)
  <2>1. PICK h \in Hash \ {top} : Second(counts) = counts[h]
    BY <1>7
  <2>2. counts[h] >= MinCluster
    BY <1>10, <2>1 DEF HasSupport
  <2>3. counts[top] >= MinCluster
    <3>1. counts[h] <= counts[top] /\ counts[h] \in Int /\ counts[top] \in Int
      BY <1>1, <1>4, <1>5, <2>1
    <3> QED
      BY <1>8, <2>2, <3>1
  <2> QED
    BY <1>4, <2>1, <2>2, <2>3 DEF TwoSides, counts
<1> QED
  BY <1>9, <1>10 DEF counts

\* A cluster of the threshold's size has a member that is not stray: its own
\* chain's block is what the cluster reports.
LEMMA HonestMember ==
  ASSUME NEW records, Told(records), NEW a \in Hash,
         ClusterSizes(records)[a] >= MinCluster
  PROVE  \E p \in Peer \ Stray :
           a = HashAt(IF p \in followers THEN rival ELSE chain, ref)
<1> DEFINE S == {p \in Peer : records[p] = a}
<1>1. ClusterSizes(records)[a] = Cardinality(S)
  BY DEF ClusterSizes
<1>2. IsFiniteSet(Stray) /\ Cardinality(Stray) \in Nat
  BY SurveyAssumption, FS_Subset, FS_CardinalityType
<1>3. S \subseteq Stray => Cardinality(S) <= Cardinality(Stray)
  BY <1>2, FS_Subset
<1>4. Cardinality(Stray) < MinCluster
  BY SurveyAssumption
<1>5. Cardinality(S) \in Nat
  <2>1. IsFiniteSet(S)
    BY SurveyAssumption, FS_Subset
  <2> QED
    BY <2>1, FS_CardinalityType
<1>6. ~ (S \subseteq Stray)
  <2> HIDE DEF S
  <2> QED
    BY <1>1, <1>2, <1>3, <1>4, <1>5, Parameters
<1>7. PICK p \in Peer : p \notin Stray /\ records[p] = a
  BY <1>6
<1>8. a \notin {Unseen, 0}
  BY Parameters DEF Unseen
<1> QED
  BY <1>7, <1>8 DEF Told

\* On one chain there are no two such clusters.
LEMMA OneChainOneSide ==
  ASSUME NEW records, Told(records), followers = {}
  PROVE  ~TwoSides(records)
<1> SUFFICES ASSUME NEW a \in Hash, NEW b \in Hash, a # b,
                    ClusterSizes(records)[a] >= MinCluster,
                    ClusterSizes(records)[b] >= MinCluster
             PROVE  FALSE
  BY DEF TwoSides
<1>1. a = HashAt(chain, ref) /\ b = HashAt(chain, ref)
  BY HonestMember
<1> QED
  BY <1>1

-----------------------------------------------------------------------------
(* The chains.                                                              *)

\* What a new block, with or without a reorganisation, does to the chain.
LEMMA NewChain ==
  ASSUME SurveyTypes, NEW d \in 0..MaxReorg, NewBlock(d)
  PROVE  /\ chain' \in Seq(Block) /\ Len(chain') = Len(chain) + 1
         /\ Len(chain) \in Nat /\ d \in Nat /\ d < Len(chain) /\ d <= RefLag
         /\ mined' \in 0..MaxBlocks /\ mined < mined'
         /\ \A n \in 1..(Len(chain) - d) : chain'[n] = chain[n]
         /\ \A n \in (Len(chain) - d + 1)..Len(chain') :
              mined < chain'[n] /\ chain'[n] <= mined'
<1> DEFINE kept == SubSeq(chain, 1, Len(chain) - d)
           new == [i \in 1..(d + 1) |-> mined + i]
<1>1. /\ d < Len(chain) /\ mined + d + 1 <= MaxBlocks
      /\ chain' = kept \o new /\ mined' = mined + d + 1
  BY DEF NewBlock
<1>2. /\ chain \in Seq(Block) /\ Len(chain) \in Nat /\ mined \in Nat /\ d \in Nat
      /\ MaxBlocks \in Nat /\ d <= RefLag
  BY Parameters, LenProperties DEF SurveyTypes
<1>3. \A n \in 1..(Len(chain) - d) : chain[n] \in Block
  BY <1>2, ElementOfSeq
<1>4. /\ kept \in Seq(Block) /\ Len(kept) = Len(chain) - d
      /\ \A n \in 1..(Len(chain) - d) : kept[n] = chain[n]
  <2>1. /\ kept \in Seq(Block)
        /\ Len(kept) = IF 1 <= Len(chain) - d THEN Len(chain) - d - 1 + 1 ELSE 0
        /\ \A n \in 1..(Len(chain) - d - 1 + 1) : kept[n] = chain[1 + n - 1]
    BY <1>2, <1>3, SubSeqProperties
  <2> QED
    BY <1>1, <1>2, <2>1
<1>5. /\ new \in Seq(Block) /\ Len(new) = d + 1
      /\ \A n \in 1..(d + 1) : new[n] = mined + n
  <2>1. \A n \in 1..(d + 1) : mined + n \in Block
    BY <1>1, <1>2 DEF Block
  <2>2. new \in [1..(d + 1) -> Block] /\ d + 1 \in Nat
    BY <1>2, <2>1
  <2> QED
    BY <2>2
<1> HIDE DEF kept, new
<1>6. /\ chain' \in Seq(Block) /\ Len(chain') = Len(kept) + Len(new)
      /\ \A n \in 1..(Len(kept) + Len(new)) :
           chain'[n] = IF n <= Len(kept) THEN kept[n] ELSE new[n - Len(kept)]
  BY <1>1, <1>4, <1>5, ConcatProperties
<1>7. Len(chain') = Len(chain) + 1
  BY <1>2, <1>4, <1>5, <1>6
<1>8. \A n \in 1..(Len(chain) - d) : chain'[n] = chain[n]
  BY <1>1, <1>2, <1>4, <1>5, <1>6
<1>9. ASSUME NEW n \in (Len(chain) - d + 1)..Len(chain')
      PROVE  mined < chain'[n] /\ chain'[n] <= mined'
  <2> DEFINE i == n - (Len(chain) - d)
  <2>1. i \in 1..(d + 1) /\ i \in Nat /\ 1 <= i /\ i <= d + 1
    BY <1>1, <1>2, <1>7
  <2>2. n \in 1..(Len(kept) + Len(new)) /\ ~(n <= Len(kept)) /\ n - Len(kept) = i
    BY <1>1, <1>2, <1>4, <1>5, <1>7
  <2> HIDE DEF i
  <2>3. chain'[n] = new[i]
    BY <1>6, <2>2
  <2>4. new[i] = mined + i
    BY <1>5, <2>1
  <2> QED
    BY <1>1, <1>2, <2>1, <2>3, <2>4
<1> QED
  BY <1>1, <1>2, <1>6, <1>7, <1>8, <1>9

\* Mining on the other chain, from its first block on.
LEMMA NewRival ==
  ASSUME SurveyTypes, NEW base \in Seq(Block), mined < MaxBlocks,
         rival' = Append(base, mined + 1), mined' = mined + 1
  PROVE  /\ rival' \in Seq(Block) /\ rival' # <<>> /\ Len(rival') = Len(base) + 1
         /\ Len(base) \in Nat /\ mined' \in 0..MaxBlocks
         /\ \A n \in 1..Len(base) : rival'[n] = base[n]
         /\ rival'[Len(base) + 1] = mined'
<1>1. mined + 1 \in Block /\ mined' \in 0..MaxBlocks
  BY Parameters DEF SurveyTypes, Block
<1>2. Len(base) \in Nat
  BY LenProperties
<1> QED
  BY <1>1, <1>2, AppendProperties

\* The reference height lies on the chain, below any reorganisation.
LEMMA RefOnChain ==
  ASSUME SurveyTypes, ChainInv
  PROVE  /\ Len(chain) \in Nat /\ Len(chain) > 0 /\ ref \in Nat
         /\ ref + 1 \in 1..Len(chain) /\ HashAt(chain, ref) = chain[ref + 1]
         /\ ref # 0 => ref + RefLag + 1 <= Len(chain)
<1>1. Len(chain) \in Nat /\ ref \in Nat /\ RefLag \in Nat
  BY LenProperties, Parameters DEF SurveyTypes
<1>2. Len(chain) > 0
  BY <1>1, Parameters, SurveyAssumption DEF ChainInv
<1>3. ref # 0 => ref + RefLag + 1 <= Len(chain)
  BY <1>1 DEF ChainInv, Tip
<1>4. ref < Len(chain)
  BY <1>1, <1>2, <1>3
<1> QED
  BY <1>1, <1>2, <1>3, <1>4 DEF HashAt

-----------------------------------------------------------------------------
(* The invariant, action by action.                                         *)

LEMMA InitSurvey == Init => SurveyInv
<1> SUFFICES ASSUME Init
             PROVE  SurveyInv
  OBVIOUS
<1>1. chain = [i \in 1..FirstBlocks |-> i] /\ FirstBlocks <= MaxBlocks /\ mined = FirstBlocks
  BY SurveyAssumption DEF Init
<1>2. chain \in Seq(Block) /\ Len(chain) = FirstBlocks
  <2>1. chain \in [1..FirstBlocks -> Block]
    BY <1>1, Parameters DEF Block
  <2> QED
    BY <1>1, <2>1, Parameters
<1>3. rival = <<>> /\ rival \in Seq(Block) /\ Len(rival) = 0
  BY EmptySeq DEF Init
<1>4. nodes \in Records /\ snap \in Records
  BY DEF Init, NoRecords, Records
<1>5. SurveyTypes
  <2>1. mined \in 0..MaxBlocks
    BY <1>1, Parameters
  <2>2. followers = {} /\ ref = 0 /\ pc = "stopped" /\ clean = FALSE /\ owed = FALSE
    BY DEF Init
  <2> QED
    BY <1>2, <1>3, <1>4, <2>1, <2>2 DEF SurveyTypes
<1>6. ChainInv
  BY <1>1, <1>2, <1>3, Parameters DEF Init, ChainInv
<1>7. Told(nodes) /\ Told(snap)
  BY DEF Init, NoRecords, Told
<1>8. OwedInv /\ NoFalseAlarm
  BY DEF Init, OwedInv, RealSplitReported, NoFalseAlarm
<1> QED
  BY <1>5, <1>6, <1>7, <1>8 DEF SurveyInv

\* What only the network does leaves the survey's promises as they were.
LEMMA NetworkKeepsPromises ==
  ASSUME OwedInv, NoFalseAlarm, UNCHANGED <<pc, snap, split, clean, owed>>,
         rival' = <<>> => rival = <<>>
  PROVE  OwedInv' /\ NoFalseAlarm'
  BY DEF OwedInv, RealSplitReported, NoFalseAlarm, TwoSides, ClusterSizes

LEMMA NewBlockKeepsSurvey ==
  ASSUME SurveyInv, NEW d \in 0..MaxReorg, NewBlock(d)
  PROVE  SurveyInv'
<1> USE DEF SurveyInv
<1>0. UNCHANGED <<rival, followers, ref, nodes, pc, snap, split, clean, owed>>
  BY DEF NewBlock, crawlVars
<1>1. /\ chain' \in Seq(Block) /\ Len(chain') = Len(chain) + 1
      /\ Len(chain) \in Nat /\ d \in Nat /\ d < Len(chain) /\ d <= RefLag
      /\ mined' \in 0..MaxBlocks /\ mined < mined'
      /\ \A n \in 1..(Len(chain) - d) : chain'[n] = chain[n]
      /\ \A n \in (Len(chain) - d + 1)..Len(chain') :
           mined < chain'[n] /\ chain'[n] <= mined'
  BY NewChain
<1>2. /\ \A n \in 1..Len(chain) : chain[n] \in Int
      /\ \A n \in 1..Len(rival) : rival[n] \in Int
      /\ \A n \in 1..Len(chain') : chain'[n] \in Int
      /\ Len(rival) \in Nat /\ mined \in Int /\ mined' \in Int
  <2>1. Block \subseteq Int /\ chain \in Seq(Block) /\ rival \in Seq(Block)
    BY DEF SurveyTypes, Block
  <2>2. \A n \in 1..Len(chain) : chain[n] \in Int
    BY <2>1, ElementOfSeq
  <2>3. \A n \in 1..Len(rival) : rival[n] \in Int
    BY <2>1, ElementOfSeq
  <2>4. \A n \in 1..Len(chain') : chain'[n] \in Int
    BY <1>1, <2>1, ElementOfSeq
  <2> QED
    BY <1>1, <2>1, <2>2, <2>3, <2>4, LenProperties, Parameters DEF SurveyTypes
<1>3. SurveyTypes'
  BY <1>0, <1>1 DEF SurveyTypes
<1>4. ChainInv'
  <2>1. Len(chain') >= FirstBlocks
    BY <1>1, Parameters DEF ChainInv
  <2>2. ASSUME NEW n \in 1..Len(chain')
        PROVE  chain'[n] <= mined'
    <3>1. CASE n <= Len(chain) - d
      <4>1. chain'[n] = chain[n] /\ chain[n] <= mined
        BY <1>1, <3>1 DEF ChainInv
      <4> QED
        BY <1>1, <1>2, <4>1
    <3>2. CASE n > Len(chain) - d
      BY <1>1, <3>2
    <3> QED
      BY <1>1, <3>1, <3>2
  <2>3. \A n \in 1..Len(rival') : rival'[n] <= mined'
    <3>1. ASSUME NEW n \in 1..Len(rival)
          PROVE  rival[n] <= mined'
      <4>1. rival[n] <= mined
        BY DEF ChainInv
      <4> QED
        BY <1>1, <1>2, <4>1
    <3> QED
      BY <1>0, <3>1
  <2>4. ASSUME NEW n \in 1..Len(chain'), n <= Len(rival), chain'[n] = rival[n],
               NEW m \in 1..n
        PROVE  chain'[m] = rival[m]
    <3>1. n <= Len(chain) - d
      <4> SUFFICES ASSUME n > Len(chain) - d
                   PROVE  FALSE
        BY <1>1
      <4>1. mined < chain'[n]
        BY <1>1
      <4>2. rival[n] <= mined /\ rival[n] \in Int
        BY <1>2, <2>4 DEF ChainInv
      <4> QED
        BY <1>2, <2>4, <4>1, <4>2
    <3>2. chain[n] = rival[n] /\ n \in 1..Len(chain)
      BY <1>1, <2>4, <3>1
    <3>3. chain[m] = rival[m]
      BY <2>4, <3>2 DEF ChainInv
    <3>4. m \in 1..(Len(chain) - d)
      BY <1>1, <3>1
    <3> QED
      BY <1>1, <3>3, <3>4
  <2>5. ref' = 0 \/ ref' + RefLag <= Tip'
    BY <1>0, <1>1, Parameters DEF ChainInv, Tip, SurveyTypes
  <2>6. \A t \in tips' : t = OldInvalid \/ t.status = "valid-fork"
    BY DEF NewBlock, ChainInv
  <2> QED
    BY <1>0, <2>1, <2>2, <2>3, <2>4, <2>5, <2>6 DEF ChainInv
<1>5. HashAt(chain', ref) = HashAt(chain, ref)
  <2>1. ref + 1 \in 1..(Len(chain) - d)
    BY <1>1, RefOnChain, Parameters
  <2>2. ref < Len(chain')
    BY <1>1, <2>1, RefOnChain
  <2> QED
    BY <1>1, <2>1, <2>2, RefOnChain DEF HashAt
<1>6. Told(nodes)' /\ Told(snap)'
  BY <1>0, <1>5 DEF Told
<1>7. OwedInv' /\ NoFalseAlarm'
  BY <1>0, NetworkKeepsPromises
<1> QED
  BY <1>3, <1>4, <1>6, <1>7

\* The other chain starts as a copy of ours with one block more, so what its
\* peers said before is still their own block.
LEMMA SplitOffKeepsSurvey ==
  ASSUME SurveyInv, SplitOff
  PROVE  SurveyInv'
<1> USE DEF SurveyInv
<1>0. /\ rival = <<>> /\ mined < MaxBlocks
      /\ rival' = Append(chain, mined + 1) /\ mined' = mined + 1
      /\ followers' \in SUBSET (Peer \ Stray)
      /\ UNCHANGED <<chain, tips, ref, nodes, pc, snap, split, clean, owed>>
  BY DEF SplitOff, crawlVars
<1>1. /\ rival' \in Seq(Block) /\ rival' # <<>> /\ Len(rival') = Len(chain) + 1
      /\ Len(chain) \in Nat /\ mined' \in 0..MaxBlocks
      /\ \A n \in 1..Len(chain) : rival'[n] = chain[n]
      /\ rival'[Len(chain) + 1] = mined'
  BY <1>0, NewRival DEF SurveyTypes
<1>2. mined \in Int /\ \A n \in 1..Len(chain) : chain[n] \in Int /\ chain[n] <= mined
  BY ElementOfSeq, Parameters DEF SurveyTypes, Block, ChainInv
<1>3. SurveyTypes'
  BY <1>0, <1>1 DEF SurveyTypes
<1>4. ChainInv'
  <2>1. \A n \in 1..Len(chain) : chain[n] <= mined'
    BY <1>0, <1>2
  <2>2. ASSUME NEW n \in 1..Len(rival')
        PROVE  rival'[n] <= mined'
    <3>1. CASE n \in 1..Len(chain)
      BY <1>1, <2>1, <3>1
    <3>2. CASE n = Len(chain) + 1
      BY <1>0, <1>1, <1>2, <3>2
    <3> QED
      BY <1>1, <3>1, <3>2
  <2>3. ASSUME NEW n \in 1..Len(chain), NEW m \in 1..n
        PROVE  chain[m] = rival'[m]
    BY <1>1
  <2> QED
    BY <1>0, <2>1, <2>2, <2>3 DEF ChainInv, Tip
<1>5. HashAt(rival', ref) = HashAt(chain, ref)
  BY <1>1, RefOnChain DEF HashAt
<1>6. followers = {}
  BY <1>0 DEF SurveyTypes
<1>7. Told(nodes)' /\ Told(snap)'
  BY <1>0, <1>5, <1>6 DEF Told
<1>8. OwedInv' /\ NoFalseAlarm'
  BY <1>0, <1>1, NetworkKeepsPromises
<1> QED
  BY <1>3, <1>4, <1>7, <1>8

LEMMA RivalBlockKeepsSurvey ==
  ASSUME SurveyInv, RivalBlock
  PROVE  SurveyInv'
<1> USE DEF SurveyInv
<1>0. /\ rival # <<>> /\ mined < MaxBlocks
      /\ rival' = Append(rival, mined + 1) /\ mined' = mined + 1
      /\ UNCHANGED <<chain, followers, tips, ref, nodes, pc, snap, split, clean, owed>>
  BY DEF RivalBlock, crawlVars
<1>1. /\ rival' \in Seq(Block) /\ rival' # <<>> /\ Len(rival') = Len(rival) + 1
      /\ Len(rival) \in Nat /\ mined' \in 0..MaxBlocks
      /\ \A n \in 1..Len(rival) : rival'[n] = rival[n]
      /\ rival'[Len(rival) + 1] = mined'
  BY <1>0, NewRival DEF SurveyTypes
<1>2. /\ mined \in Int /\ Len(chain) \in Nat
      /\ \A n \in 1..Len(chain) : chain[n] \in Int /\ chain[n] <= mined
      /\ \A n \in 1..Len(rival) : rival[n] \in Int /\ rival[n] <= mined
  BY ElementOfSeq, LenProperties, Parameters DEF SurveyTypes, Block, ChainInv
<1>3. SurveyTypes'
  BY <1>0, <1>1 DEF SurveyTypes
<1>4. ChainInv'
  <2>1. \A n \in 1..Len(chain) : chain[n] <= mined'
    BY <1>0, <1>2
  <2>2. ASSUME NEW n \in 1..Len(rival')
        PROVE  rival'[n] <= mined'
    <3>1. CASE n \in 1..Len(rival)
      BY <1>0, <1>1, <1>2, <3>1
    <3>2. CASE n = Len(rival) + 1
      BY <1>0, <1>1, <1>2, <3>2
    <3> QED
      BY <1>1, <3>1, <3>2
  <2>3. ASSUME NEW n \in 1..Len(chain), n <= Len(rival'), chain[n] = rival'[n],
               NEW m \in 1..n
        PROVE  chain[m] = rival'[m]
    <3>1. n <= Len(rival)
      <4> SUFFICES ASSUME n = Len(rival) + 1
                   PROVE  FALSE
        BY <1>1, <2>3
      <4> QED
        BY <1>0, <1>1, <1>2, <2>3
    <3>2. chain[n] = rival[n]
      BY <1>1, <2>3, <3>1
    <3>3. chain[m] = rival[m] /\ m \in 1..Len(rival)
      BY <1>1, <2>3, <3>1, <3>2 DEF ChainInv
    <3> QED
      BY <1>1, <3>3
  <2> QED
    BY <1>0, <2>1, <2>2, <2>3 DEF ChainInv, Tip
<1>5. HashAt(rival, ref) = 0 \/ HashAt(rival', ref) = HashAt(rival, ref)
  <2>1. ref \in Nat
    BY RefOnChain
  <2> QED
    BY <1>1, <2>1 DEF HashAt
<1>6. Told(nodes)' /\ Told(snap)'
  BY <1>0, <1>5 DEF Told
<1>7. OwedInv' /\ NoFalseAlarm'
  BY <1>0, NetworkKeepsPromises
<1> QED
  BY <1>3, <1>4, <1>6, <1>7

\* A crawl without a state file starts with no records.
LEMMA StartCycleKeepsSurvey ==
  ASSUME ~Resume, SurveyInv, StartCycle
  PROVE  SurveyInv'
<1> USE DEF SurveyInv
<1>0. /\ nodes' = NoRecords /\ snap' = NoRecords
      /\ pc' = "idle" /\ clean' = FALSE /\ owed' = FALSE
      /\ UNCHANGED <<chain, rival, followers, tips, mined, split>>
      /\ ref' = 0 \/ ref' = RefHeight(Tip)
  BY DEF StartCycle, chainVars
<1>1. Tip \in Nat /\ Len(chain) \in Nat
  BY RefOnChain DEF Tip
<1>2. ref' \in Nat /\ (ref' = 0 \/ ref' + RefLag <= Tip)
  BY <1>0, <1>1, Parameters DEF RefHeight
<1>3. NoRecords \in Records
  BY DEF NoRecords, Records
<1>4. SurveyTypes'
  BY <1>0, <1>2, <1>3 DEF SurveyTypes
<1>5. ChainInv'
  BY <1>0, <1>2 DEF ChainInv, Tip
<1>6. Told(nodes)' /\ Told(snap)'
  BY <1>0 DEF Told, NoRecords
<1>7. OwedInv' /\ NoFalseAlarm'
  BY <1>0 DEF OwedInv, RealSplitReported, NoFalseAlarm
<1> QED
  BY <1>4, <1>5, <1>6, <1>7

LEMMA ProbePeerKeepsSurvey ==
  ASSUME SurveyInv, NEW p \in Peer, ProbePeer(p)
  PROVE  SurveyInv'
<1> USE DEF SurveyInv
<1> PICK r \in Reports(p) : nodes' = [nodes EXCEPT ![p] = r]
  BY DEF ProbePeer
<1>0. UNCHANGED <<chain, rival, followers, tips, mined, ref, pc, snap, split,
                  clean, owed>>
  BY DEF ProbePeer, chainVars
<1>1. \/ r = 0
      \/ p \in Stray /\ r = OddBlock
      \/ p \notin Stray /\ r = HashAt(IF p \in followers THEN rival ELSE chain, ref)
  BY DEF Reports
<1>2. r \in {Unseen} \cup 0..OddBlock
  <2>1. ASSUME NEW c \in Seq(Block)
        PROVE  HashAt(c, ref) \in 0..OddBlock
    <3>1. Len(c) \in Nat /\ ref \in Nat
      BY RefOnChain, LenProperties
    <3>2. CASE ref < Len(c)
      <4>1. c[ref + 1] \in Block
        BY <3>1, <3>2, ElementOfSeq
      <4> QED
        BY <3>2, <4>1, Parameters DEF HashAt, Block, OddBlock
    <3>3. CASE ~(ref < Len(c))
      BY <3>3, Parameters DEF HashAt, OddBlock
    <3> QED
      BY <3>2, <3>3
  <2>2. OddBlock \in 0..OddBlock /\ 0 \in 0..OddBlock
    BY Parameters DEF OddBlock
  <2> QED
    BY <1>1, <2>1, <2>2 DEF SurveyTypes
<1>3. SurveyTypes'
  BY <1>0, <1>2 DEF SurveyTypes, Records
<1>4. ChainInv'
  BY <1>0 DEF ChainInv, Tip
<1>5. Told(nodes)'
  BY <1>0, <1>1 DEF Told, SurveyTypes, Records
<1>6. Told(snap)'
  BY <1>0 DEF Told
<1>7. OwedInv' /\ NoFalseAlarm'
  BY <1>0, NetworkKeepsPromises
<1> QED
  BY <1>3, <1>4, <1>5, <1>6, <1>7

\* A real split at the reference height shows as two clusters in the records.
LEMMA RealSplitShows ==
  ASSUME SurveyInv, RealSplit
  PROVE  TwoSides(nodes)
<1> USE DEF SurveyInv
<1> DEFINE reporting == {p \in Peer : nodes[p] > 0}
           D == {h \in 0..Len(rival) : HashAt(rival, h) # HashAt(chain, h)}
           a == rival[ref + 1]
           b == chain[ref + 1]
<1>1. /\ ref > 0 /\ ref < Len(rival) /\ ForkHeight <= ref
      /\ Cardinality(reporting \cap followers) >= MinCluster
      /\ Cardinality(reporting \ (followers \cup Stray)) >= MinCluster
  BY DEF RealSplit
<1>2. /\ chain \in Seq(Block) /\ rival \in Seq(Block) /\ Len(rival) \in Nat
      /\ Len(chain) \in Nat /\ ref \in Nat /\ ref + 1 \in 1..Len(chain)
      /\ ref + 1 \in 1..Len(rival)
  BY <1>1, RefOnChain, LenProperties DEF SurveyTypes
<1>3. ForkHeight \in D /\ ForkHeight \in Nat
  <2>1. D \cup {Len(rival)} \in SUBSET Nat
    BY <1>2
  <2>2. ForkHeight = Min(D \cup {Len(rival)})
    BY DEF ForkHeight
  <2> HIDE DEF D
  <2>3. ForkHeight \in D \cup {Len(rival)}
    BY <2>1, <2>2, MinOfSet
  <2> QED
    BY <1>1, <1>2, <2>1, <2>3
<1>4. a # b
  <2>1. chain[ForkHeight + 1] # rival[ForkHeight + 1]
    BY <1>1, <1>2, <1>3 DEF HashAt
  <2>2. ForkHeight + 1 \in 1..(ref + 1)
    BY <1>1, <1>2, <1>3
  <2> QED
    BY <1>2, <2>1, <2>2 DEF ChainInv
<1>5. a \in Hash /\ b \in Hash
  <2>1. a \in Block /\ b \in Block
    BY <1>2, ElementOfSeq
  <2> QED
    BY <2>1, Parameters DEF Block
<1>6. HashAt(rival, ref) = a /\ HashAt(chain, ref) = b
  BY <1>1, <1>2 DEF HashAt
<1>7. \A p \in reporting : p \in Peer /\ nodes[p] \notin {Unseen, 0}
  BY DEF Unseen
<1> HIDE DEF a, b
<1>8. reporting \cap followers \subseteq {p \in Peer : nodes[p] = a}
  BY <1>6, <1>7 DEF Told, SurveyTypes
<1>9. reporting \ (followers \cup Stray) \subseteq {p \in Peer : nodes[p] = b}
  BY <1>6, <1>7 DEF Told, SurveyTypes
<1>10. ASSUME NEW S, NEW h \in Hash, S \subseteq {p \in Peer : nodes[p] = h},
              Cardinality(S) >= MinCluster
       PROVE  ClusterSizes(nodes)[h] >= MinCluster
  <2> DEFINE T == {p \in Peer : nodes[p] = h}
  <2>1. IsFiniteSet(T)
    BY SurveyAssumption, FS_Subset
  <2>2. ClusterSizes(nodes)[h] = Cardinality(T)
    BY DEF ClusterSizes
  <2>3. S \subseteq T
    BY <1>10
  <2> HIDE DEF T
  <2>4. /\ Cardinality(S) <= Cardinality(T)
        /\ Cardinality(S) \in Nat /\ Cardinality(T) \in Nat
    BY <2>1, <2>3, FS_Subset, FS_CardinalityType
  <2> QED
    BY <1>10, <2>2, <2>4, Parameters
<1>11. ClusterSizes(nodes)[a] >= MinCluster
  BY <1>1, <1>5, <1>8, <1>10
<1>12. ClusterSizes(nodes)[b] >= MinCluster
  BY <1>1, <1>5, <1>9, <1>10
<1> QED
  BY <1>4, <1>5, <1>11, <1>12 DEF TwoSides

LEMMA RefreshTickKeepsSurvey ==
  ASSUME SurveyInv, RefreshTick
  PROVE  SurveyInv'
<1> USE DEF SurveyInv
<1>0. /\ snap' = nodes /\ owed' = RealSplit /\ clean' \in BOOLEAN
      /\ pc' \in {"clusters", "split"}
      /\ UNCHANGED <<chain, rival, followers, tips, mined, ref, nodes, split>>
  BY DEF RefreshTick, chainVars, crawlVars
<1>1. RealSplit \in BOOLEAN
  BY DEF RealSplit
<1>2. SurveyTypes'
  BY <1>0, <1>1 DEF SurveyTypes
<1>3. ChainInv'
  BY <1>0 DEF ChainInv, Tip
<1>4. Told(nodes)' /\ Told(snap)'
  BY <1>0 DEF Told
<1>5. OwedInv'
  <2>1. owed' => TwoSides(nodes)
    BY <1>0, RealSplitShows
  <2>2. TwoSides(nodes) => TwoSides(snap)'
    BY <1>0 DEF TwoSides, ClusterSizes
  <2>3. RealSplitReported'
    BY <1>0 DEF RealSplitReported
  <2> QED
    BY <2>1, <2>2, <2>3 DEF OwedInv
<1>6. NoFalseAlarm'
  BY <1>0 DEF NoFalseAlarm
<1> QED
  BY <1>2, <1>3, <1>4, <1>5, <1>6

LEMMA WriteClustersKeepsSurvey ==
  ASSUME SurveyInv, WriteClusters
  PROVE  SurveyInv'
<1> USE DEF SurveyInv
<1>0. /\ pc = "clusters" /\ pc' = "split" /\ clean' \in BOOLEAN
      /\ UNCHANGED <<chain, rival, followers, tips, mined, ref, nodes, snap, split, owed>>
  BY DEF WriteClusters, chainVars, crawlVars, SurveyTypes
<1>1. SurveyTypes'
  BY <1>0 DEF SurveyTypes
<1>2. ChainInv'
  BY <1>0 DEF ChainInv, Tip
<1>3. Told(nodes)' /\ Told(snap)'
  BY <1>0 DEF Told
<1>4. OwedInv'
  BY <1>0 DEF OwedInv, TwoSides, ClusterSizes, RealSplitReported
<1>5. NoFalseAlarm'
  BY <1>0 DEF NoFalseAlarm
<1> QED
  BY <1>1, <1>2, <1>3, <1>4, <1>5

\* Before a split our node has rejected nothing of late.
LEMMA NothingRejected ==
  ASSUME SurveyInv, rival = <<>>
  PROVE  Cardinality({t \in ChainTips : RecentlyRejected(t)}) = 0
<1> USE DEF SurveyInv
<1>1. Tip \in Nat /\ Tip > Recency
  BY RefOnChain, SurveyAssumption, Parameters DEF Tip, ChainInv
<1>2. ChainTips = tips
  BY DEF ChainTips
<1>3. ASSUME NEW t \in tips, RecentlyRejected(t)
      PROVE  FALSE
  <2>1. t.status = "invalid" /\ (Tip = 0 \/ Tip - t.height <= Recency)
    BY <1>3 DEF RecentlyRejected
  <2>2. t = OldInvalid
    BY <2>1 DEF ChainInv
  <2>3. t.height = 0
    BY <2>2 DEF OldInvalid
  <2> QED
    BY <1>1, <2>1, <2>3, Parameters
<1>4. {t \in ChainTips : RecentlyRejected(t)} = {}
  BY <1>2, <1>3
<1> QED
  BY <1>4, FS_EmptySet

LEMMA WriteSplitKeepsSurvey ==
  ASSUME SurveyInv, WriteSplit
  PROVE  SurveyInv'
<1> USE DEF SurveyInv
<1>0. /\ pc = "split" /\ pc' = "idle" /\ snap' = NoRecords
      /\ \/ split' = Assess(snap) /\ clean' = clean
         \/ split' = split /\ clean' = FALSE
      /\ UNCHANGED <<chain, rival, followers, tips, mined, ref, nodes, owed>>
  BY DEF WriteSplit, chainVars, crawlVars
<1>1. SurveyTypes'
  BY <1>0 DEF SurveyTypes, Records, NoRecords
<1>2. ChainInv'
  BY <1>0 DEF ChainInv, Tip
<1>3. Told(nodes)' /\ Told(snap)'
  BY <1>0 DEF Told, NoRecords
<1>4. Assess(snap).split <=>
        \/ Cardinality({t \in ChainTips : RecentlyRejected(t)}) > 0
        \/ TwoSides(snap)
  BY AssessCounts, SecondLargest
<1>5. OwedInv'
  <2>1. owed => Assess(snap).split
    BY <1>0, <1>4 DEF OwedInv
  <2> QED
    BY <1>0, <2>1 DEF OwedInv, RealSplitReported
<1>6. NoFalseAlarm'
  <2>1. ASSUME rival = <<>>
        PROVE  ~Assess(snap).split
    <3>1. followers = {}
      BY <2>1 DEF SurveyTypes
    <3> QED
      BY <1>4, <2>1, <3>1, NothingRejected, OneChainOneSide
  <2> QED
    BY <1>0, <2>1 DEF NoFalseAlarm
<1> QED
  BY <1>1, <1>2, <1>3, <1>5, <1>6

LEMMA SurveyInvariant == ASSUME ~Resume PROVE Spec => []SurveyInv
<1>1. SurveyInv /\ [Next]_vars => SurveyInv'
  <2> SUFFICES ASSUME SurveyInv, [Next]_vars
               PROVE  SurveyInv'
    OBVIOUS
  <2>1. CASE UNCHANGED vars
    BY <2>1 DEF vars, chainVars, crawlVars, SurveyInv, SurveyTypes, ChainInv, Tip,
       Told, OwedInv, TwoSides, ClusterSizes, RealSplitReported, NoFalseAlarm
  <2> QED
    BY <2>1, NewBlockKeepsSurvey, SplitOffKeepsSurvey, RivalBlockKeepsSurvey,
       StartCycleKeepsSurvey, ProbePeerKeepsSurvey, RefreshTickKeepsSurvey,
       WriteClustersKeepsSurvey, WriteSplitKeepsSurvey DEF Next
<1> QED
  BY InitSurvey, <1>1, PTL DEF Spec

-----------------------------------------------------------------------------
(* The theorems.                                                            *)

\* In crawls without a state file the stored verdict never says split unless
\* the network has split, for any number of peers and any thresholds, as long
\* as the stray peers are fewer than a cluster and ordinary reorganisations
\* are no deeper than the reference lag.
THEOREM NeverCriesWolf == ASSUME ~Resume PROVE Spec => []NoFalseAlarm
<1>1. SurveyInv => NoFalseAlarm
  BY DEF SurveyInv
<1> QED
  BY SurveyInvariant, <1>1, PTL

\* In crawls without a state file a real split with enough peers surveyed on
\* both sides is reported by the next refresh without failures, however much
\* the chains have grown or reorganised since the peers were probed.
THEOREM SurveyedSplitReported == ASSUME ~Resume PROVE Spec => []RealSplitReported
<1>1. SurveyInv => RealSplitReported
  BY DEF SurveyInv, OwedInv
<1> QED
  BY SurveyInvariant, <1>1, PTL
=============================================================================
