-------------------------- MODULE BlockRefreshProofs --------------------------
(***************************************************************************)
(* Proofs about module BlockRefresh: for any windows, batches, periods and *)
(* reorganisations, what a refresh leaves in the blocks table.             *)
(***************************************************************************)
EXTENDS BlockRefresh, SequenceTheorems, FiniteSetTheorems, TLAPS

-----------------------------------------------------------------------------
(* Lists of the newest heights.                                             *)

Listed(s) == {s[i] : i \in DOMAIN s}
Rank(h, H) == Cardinality({k \in H : k > h})

\* Ranks count down from the newest height, without ties.
LEMMA RankOrder ==
  ASSUME NEW m \in Nat, NEW H \in SUBSET (0..m)
  PROVE  /\ IsFiniteSet(H) /\ Cardinality(H) \in Nat
         /\ \A h \in H : Rank(h, H) \in 0..(Cardinality(H) - 1)
         /\ \A g, h \in H : g < h => Rank(h, H) < Rank(g, H)
         /\ \A g, h \in H : Rank(h, H) = Rank(g, H) => g = h
<1>1. IsFiniteSet(H) /\ Cardinality(H) \in Nat
  <2>1. IsFiniteSet(0..m)
    <3>1. 0 \in Int /\ m \in Int
      OBVIOUS
    <3> QED
      BY <3>1, FS_Interval
  <2>2. IsFiniteSet(H)
    BY <2>1, FS_Subset
  <2> QED
    BY <2>2, FS_CardinalityType
<1>2. ASSUME NEW h \in H
      PROVE  Rank(h, H) \in 0..(Cardinality(H) - 1)
  <2> DEFINE K == {k \in H : k > h}
  <2>1. K \subseteq H \ {h}
    OBVIOUS
  <2>2. IsFiniteSet(H \ {h}) /\ Cardinality(H \ {h}) = Cardinality(H) - 1
    BY <1>1, FS_RemoveElement
  <2> HIDE DEF K
  <2>3. Cardinality(K) <= Cardinality(H) - 1 /\ Cardinality(K) \in Nat
    <3>1. K \in SUBSET (H \ {h})
      BY <2>1
    <3>2. IsFiniteSet(K) /\ Cardinality(K) <= Cardinality(H \ {h})
      BY ONLY <2>2, <3>1, FS_Subset
    <3>3. Cardinality(K) \in Nat
      BY ONLY <3>2, FS_CardinalityType
    <3> QED
      BY <2>2, <3>2, <3>3
  <2>4. Rank(h, H) = Cardinality(K)
    BY DEF Rank, K
  <2> QED
    BY <1>1, <2>3, <2>4
<1>3. ASSUME NEW g \in H, NEW h \in H, g < h
      PROVE  Rank(h, H) < Rank(g, H)
  <2> DEFINE K == {k \in H : k > h}
             L == {k \in H : k > g}
  <2>1. K \subseteq L /\ h \in L /\ h \notin K /\ L \subseteq H
    <3>1. ASSUME NEW k \in K
          PROVE  k \in L
      <4>1. k \in H /\ k > h /\ k \in 0..m /\ g \in 0..m /\ h \in 0..m
        OBVIOUS
      <4>2. k > g
        BY <1>3, <4>1
      <4> QED
        BY <4>1, <4>2
    <3>2. g \in 0..m /\ h \in 0..m
      OBVIOUS
    <3>3. h \in L /\ h \notin K /\ L \subseteq H
      BY <1>3, <3>2
    <3> HIDE DEF K, L
    <3> QED
      BY <3>1, <3>3
  <2> HIDE DEF K, L
  <2>2. IsFiniteSet(L)
    BY <1>1, <2>1, FS_Subset
  <2>3. /\ IsFiniteSet(K) /\ Cardinality(K) <= Cardinality(L)
        /\ Cardinality(K) # Cardinality(L)
    BY <2>1, <2>2, FS_Subset
  <2>4. Cardinality(K) \in Nat /\ Cardinality(L) \in Nat
    BY <2>2, <2>3, FS_CardinalityType
  <2> QED
    BY <2>3, <2>4 DEF Rank, K, L
<1>4. ASSUME NEW g \in H, NEW h \in H, Rank(h, H) = Rank(g, H)
      PROVE  g = h
  <2>1. ~(g < h) /\ ~(h < g)
    BY <1>2, <1>3, <1>4
  <2> QED
    BY <2>1
<1> QED
  BY <1>1, <1>2, <1>3, <1>4

\* Every rank is some height's.
LEMMA RankOnto ==
  ASSUME NEW m \in Nat, NEW H \in SUBSET (0..m), NEW i \in 1..Cardinality(H)
  PROVE  \E h \in H : Rank(h, H) = i - 1
<1> DEFINE n == Cardinality(H)
           T == 0..(n - 1)
           f == [h \in H |-> Rank(h, H)]
<1>1. /\ IsFiniteSet(H) /\ n \in Nat /\ \A h \in H : Rank(h, H) \in T
      /\ \A g, h \in H : Rank(h, H) = Rank(g, H) => g = h
  BY RankOrder
<1>2. IsFiniteSet(T) /\ Cardinality(T) = n
  <2>1. n - 1 \in Int /\ 0 \in Int
    BY <1>1
  <2> QED
    BY <1>1, <2>1, FS_Interval
<1> HIDE DEF T, n
<1>3. f \in Injection(H, T)
  BY <1>1 DEF Injection, IsInjective
<1> HIDE DEF f
<1>4. f \in Surjection(H, T)
  BY <1>1, <1>2, <1>3, FS_Injection DEF n
<1>5. i - 1 \in T
  BY <1>1 DEF T, n
<1>6. \E h \in H : f[h] = i - 1
  BY <1>4, <1>5 DEF Surjection
<1> QED
  BY <1>6 DEF f

\* Descending lists exactly the set.
LEMMA DescendingLists ==
  ASSUME NEW m \in Nat, NEW H \in SUBSET (0..m)
  PROVE  /\ Descending(H) \in Seq(H) /\ Len(Descending(H)) = Cardinality(H)
         /\ DOMAIN Descending(H) = 1..Cardinality(H)
         /\ {Descending(H)[i] : i \in DOMAIN Descending(H)} = H
<1> DEFINE n == Cardinality(H)
           pick(i) == CHOOSE h \in H : Cardinality({k \in H : k > h}) = i - 1
           D == Descending(H)
<1>1. /\ n \in Nat /\ \A h \in H : Rank(h, H) \in 0..(n - 1)
      /\ \A g, h \in H : Rank(h, H) = Rank(g, H) => g = h
  BY RankOrder
<1>2. ASSUME NEW i \in 1..n
      PROVE  pick(i) \in H /\ Rank(pick(i), H) = i - 1
  <2>1. \E h \in H : Cardinality({k \in H : k > h}) = i - 1
    BY RankOnto DEF Rank
  <2> QED
    BY <2>1 DEF Rank
<1>3. DOMAIN D = 1..n /\ \A i \in 1..n : D[i] = pick(i)
  BY DEF Descending
<1>4. D \in [1..n -> H]
  BY <1>2 DEF Descending
<1>5. D \in Seq(H) /\ Len(D) = n
  BY <1>1, <1>4
<1> HIDE DEF D, pick, n
<1>6. ASSUME NEW h \in H
      PROVE  \E i \in 1..n : D[i] = h
  <2>1. Rank(h, H) \in 0..(n - 1) /\ Rank(h, H) + 1 \in 1..n
    BY <1>1
  <2>2. Rank(pick(Rank(h, H) + 1), H) = Rank(h, H) /\ pick(Rank(h, H) + 1) \in H
    BY <1>2, <2>1
  <2>3. pick(Rank(h, H) + 1) = h
    BY <1>1, <2>2
  <2> QED
    BY <1>3, <2>1, <2>3
<1>7. {D[i] : i \in 1..n} = H
  BY <1>2, <1>3, <1>6
<1> QED
  BY <1>3, <1>5, <1>7 DEF D, n

\* The newest n of a set: at most n, and all of the set or n of it.
LEMMA NewestLists ==
  ASSUME NEW m \in Nat, NEW H \in SUBSET (0..m), NEW n \in Nat
  PROVE  /\ Newest(n, H) \in Seq(H) /\ Len(Newest(n, H)) <= n
         /\ DOMAIN Newest(n, H) = 1..Len(Newest(n, H))
         /\ Listed(Newest(n, H)) \subseteq H
         /\ Cardinality(H \ Listed(Newest(n, H))) <=
              IF Cardinality(H) > n THEN Cardinality(H) - n ELSE 0
<1> DEFINE c == Cardinality(H)
           T == {h \in H : Rank(h, H) < n}
           R == H \ T
           N == Newest(n, H)
<1>1. /\ IsFiniteSet(H) /\ c \in Nat /\ \A h \in H : Rank(h, H) \in 0..(c - 1)
      /\ \A g, h \in H : Rank(h, H) = Rank(g, H) => g = h
  BY RankOrder
<1>2. N = Descending(T)
  BY DEF Newest, Rank
<1>3. /\ N \in Seq(T) /\ Len(N) = Cardinality(T) /\ DOMAIN N = 1..Len(N)
      /\ {N[i] : i \in DOMAIN N} = T
  <2>1. T \in SUBSET (0..m)
    OBVIOUS
  <2> HIDE DEF T
  <2>2. /\ Descending(T) \in Seq(T) /\ Len(Descending(T)) = Cardinality(T)
        /\ DOMAIN Descending(T) = 1..Cardinality(T)
        /\ {Descending(T)[i] : i \in DOMAIN Descending(T)} = T
    BY <2>1, DescendingLists
  <2> QED
    BY <1>2, <2>2
<1>4. Cardinality(T) <= n
  <2> DEFINE f == [h \in T |-> Rank(h, H)]
             I == 0..(n - 1)
  <2>1. IsFiniteSet(I) /\ Cardinality(I) = n
    <3>1. n - 1 \in Int /\ 0 \in Int
      OBVIOUS
    <3> QED
      BY <3>1, FS_Interval
  <2>2. f \in Injection(T, I)
    <3>1. \A h \in T : Rank(h, H) \in I
      BY <1>1
    <3> HIDE DEF I
    <3> QED
      BY <1>1, <3>1 DEF Injection, IsInjective
  <2> HIDE DEF f, I, T
  <2> QED
    BY <2>1, <2>2, FS_Injection
<1>5. Cardinality(R) <= IF c > n THEN c - n ELSE 0
  <2> DEFINE f == [h \in R |-> Rank(h, H)]
             I == n..(c - 1)
  <2>1. IsFiniteSet(I) /\ Cardinality(I) = IF c > n THEN c - n ELSE 0
    <3>1. n \in Int /\ c - 1 \in Int
      BY <1>1
    <3> HIDE DEF c
    <3>2. /\ IsFiniteSet(n..(c - 1))
          /\ Cardinality(n..(c - 1)) = IF n > c - 1 THEN 0 ELSE c - 1 - n + 1
      BY <3>1, FS_Interval
    <3> QED
      BY <1>1, <3>2
  <2>2. f \in Injection(R, I)
    <3>1. \A h \in R : Rank(h, H) \in I
      BY <1>1
    <3> HIDE DEF I
    <3> QED
      BY <1>1, <3>1 DEF Injection, IsInjective
  <2> HIDE DEF f, I, R
  <2> QED
    BY <2>1, <2>2, FS_Injection
<1>6. T \subseteq H
  OBVIOUS
<1>7. N \in Seq(H)
  <2> HIDE DEF T, N
  <2> QED
    BY <1>3, <1>6, SeqMonotonic
<1> DEFINE L == {N[i] : i \in DOMAIN N}
<1>8. L = T
  BY <1>3
<1> HIDE DEF T, N, L
<1>9. /\ N \in Seq(H) /\ Len(N) <= n /\ DOMAIN N = 1..Len(N)
      /\ L \subseteq H
      /\ Cardinality(H \ L) <= IF Cardinality(H) > n THEN Cardinality(H) - n ELSE 0
  BY <1>3, <1>4, <1>5, <1>6, <1>7, <1>8
<1> QED
  BY <1>9 DEF L, N, Listed

-----------------------------------------------------------------------------
(* Types and ranges.                                                        *)

LEMMA Parameters ==
  /\ Window \in Nat \ {0} /\ Analyze \in Nat /\ Backfill \in Nat
  /\ Period \in Nat \ {0}
  /\ FirstBlocks \in Nat \ {0} /\ MaxBlocks \in Nat /\ FirstBlocks <= MaxBlocks
  /\ MaxDepth \in Nat /\ MaxRestarts \in Nat
BY RefreshAssumption

\* A period starts at or below its blocks.
LEMMA PeriodStarts ==
  ASSUME NEW t \in Nat
  PROVE  PeriodStart(t) \in 0..t
<1>1. t \div Period \in Nat /\ Period \in Nat \ {0}
  BY Parameters
<1>2. (t \div Period) * Period <= t
  BY Parameters
<1>3. (t \div Period) * Period \in Nat
  BY <1>1
<1> QED
  BY <1>2, <1>3 DEF PeriodStart

\* What the types and ranges say of the state at hand.
LEMMA AtHand ==
  ASSUME TypeOK, InRange
  PROVE  /\ Len(chain) \in Nat \ {0} /\ Tip \in Nat /\ Tip \in Height
         /\ Len(chain) = Tip + 1 /\ 0..Tip \subseteq Height
         /\ \A h \in 0..Tip : At(h) \in Block
         /\ DOMAIN row \subseteq 0..Tip /\ heights \subseteq 0..Tip
         /\ Wanted \subseteq 0..Tip
         /\ \A e \in batch : e[1] \in 0..Tip /\ e[1] \in Fetched /\ e[2] \in Block
         /\ DOMAIN pending = 1..Len(pending) /\ Len(pending) \in Nat
         /\ \A i \in DOMAIN pending :
              pending[i][1] \in 0..Tip /\ pending[i][2] \in Block
         /\ DOMAIN want = 1..Len(want) /\ Len(want) \in Nat
<1>1. /\ Len(chain) \in Nat \ {0} /\ Tip \in Nat /\ Tip \in Height
      /\ Len(chain) = Tip + 1 /\ 0..Tip \subseteq Height /\ Len(chain) <= MaxBlocks
  BY Parameters DEF TypeOK, Tip, Height
<1>2. ASSUME NEW h \in 0..Tip
      PROVE  At(h) \in Block
  <2>1. h + 1 \in 1..Len(chain) /\ chain \in Seq(Block)
    BY <1>1 DEF TypeOK
  <2> QED
    BY <2>1, ElementOfSeq DEF At
<1>3. DOMAIN want = 1..Len(want) /\ Len(want) \in Nat
  BY LenProperties DEF TypeOK
<1>4. \A i \in 1..Len(want) : want[i] \in Height
  BY ElementOfSeq DEF TypeOK
<1>5. Wanted \subseteq Height
  BY <1>3, <1>4 DEF Wanted
<1>6. /\ DOMAIN row \subseteq Height /\ heights \subseteq Height
      /\ \A e \in batch : e[1] \in Height /\ e[1] \in Fetched /\ e[2] \in Block
  BY DEF TypeOK, Fetched
<1>7. \A h \in Height : h <= Tip => h \in 0..Tip
  BY <1>1 DEF Height
<1>8. /\ DOMAIN row \subseteq 0..Tip /\ heights \subseteq 0..Tip
      /\ Wanted \subseteq 0..Tip
      /\ \A e \in batch : e[1] \in 0..Tip
  BY <1>5, <1>6, <1>7 DEF InRange
<1>9. DOMAIN pending = 1..Len(pending) /\ Len(pending) \in Nat
  BY LenProperties DEF TypeOK
<1>10. \A i \in 1..Len(pending) : pending[i] \in Height \X Block
  BY ElementOfSeq DEF TypeOK
<1>11. \A i \in DOMAIN pending :
         pending[i][1] \in 0..Tip /\ pending[i][2] \in Block
  BY <1>7, <1>9, <1>10 DEF InRange
<1> QED
  BY <1>1, <1>2, <1>3, <1>6, <1>8, <1>9, <1>11

\* One more block, or a longer branch: the chain grows by one, and its blocks
\* change only at the heights that were replaced.
LEMMA NewChain ==
  ASSUME TypeOK, InRange, NEW d \in Nat, NewBlock(d)
  PROVE  /\ chain' \in Seq(Block) /\ Len(chain') = Len(chain) + 1
         /\ Len(chain') \in 1..MaxBlocks
         /\ mined' \in Block /\ Len(chain') <= mined'
         /\ replaced \subseteq replaced' /\ replaced' \subseteq Height
         /\ \A h \in 0..Tip : h \in replaced' \/ chain'[h + 1] = chain[h + 1]
<1> DEFINE kept == SubSeq(chain, 1, Len(chain) - d)
           new == [i \in 1..(d + 1) |-> mined + i]
<1>1. /\ d < Len(chain) /\ mined + d + 1 <= MaxBlocks
      /\ chain' = kept \o new /\ mined' = mined + d + 1
      /\ replaced' = replaced \cup {h \in Height : h > Tip - d /\ h <= Tip}
  BY DEF NewBlock
<1>2. /\ chain \in Seq(Block) /\ Len(chain) \in Nat /\ mined \in Nat
      /\ mined \in Block
      /\ MaxBlocks \in Nat /\ Len(chain) <= mined /\ Tip \in Nat
      /\ Len(chain) = Tip + 1 /\ 0..Tip \subseteq Height
  BY Parameters, AtHand DEF TypeOK, InRange, Block
<1>3. \A n \in 1..(Len(chain) - d) : chain[n] \in Block
  BY <1>2, ElementOfSeq
<1>4. /\ kept \in Seq(Block) /\ Len(kept) = Len(chain) - d
      /\ \A n \in 1..(Len(chain) - d) : kept[n] = chain[n]
  <2>1. /\ kept \in Seq(Block)
        /\ Len(kept) = IF 1 <= Len(chain) - d THEN Len(chain) - d - 1 + 1 ELSE 0
        /\ \A n \in 1..(Len(chain) - d - 1 + 1) : kept[n] = chain[1 + n - 1]
    BY <1>2, <1>3, SubSeqProperties
  <2> QED
    BY <1>1, <1>2, <2>1
<1>5. new \in Seq(Block) /\ Len(new) = d + 1
  <2>1. \A n \in 1..(d + 1) : mined + n \in Block
    BY <1>1, <1>2 DEF Block
  <2>2. new \in [1..(d + 1) -> Block] /\ d + 1 \in Nat
    BY <2>1
  <2> QED
    BY <2>2
<1> HIDE DEF kept, new
<1>6. /\ chain' \in Seq(Block) /\ Len(chain') = Len(kept) + Len(new)
      /\ \A n \in 1..(Len(kept) + Len(new)) :
           chain'[n] = IF n <= Len(kept) THEN kept[n] ELSE new[n - Len(kept)]
  BY <1>1, <1>4, <1>5, ConcatProperties
<1>7. Len(chain') = Len(chain) + 1
  BY <1>2, <1>4, <1>5, <1>6
<1>8. \A n \in 1..(Len(chain) - d) : chain'[n] = chain[n]
  BY <1>1, <1>2, <1>4, <1>5, <1>6
<1>9. ASSUME NEW h \in 0..Tip
      PROVE  h \in replaced' \/ chain'[h + 1] = chain[h + 1]
  <2>1. CASE h > Tip - d
    BY <1>1, <1>2, <2>1
  <2>2. CASE h <= Tip - d
    BY <1>2, <1>8, <2>2
  <2> QED
    BY <1>2, <2>1, <2>2
<1>10. mined' \in Block /\ Len(chain') <= mined' /\ Len(chain') \in 1..MaxBlocks
  BY <1>1, <1>2, <1>7 DEF Block
<1> QED
  BY <1>1, <1>2, <1>6, <1>7, <1>9, <1>10 DEF TypeOK

\* One step along the list of wanted heights.
LEMMA NextWanted ==
  ASSUME TypeOK, InRange, want # <<>>, NEW w, w = Tail(want)
  PROVE  /\ Head(want) \in 0..Tip /\ w \in Seq(Height)
         /\ Wanted = {Head(want)} \cup {w[i] : i \in DOMAIN w}
<1>1. /\ want \in Seq(Height) /\ Len(want) \in Nat /\ DOMAIN want = 1..Len(want)
      /\ Len(want) # 0
  BY EmptySeq, LenProperties DEF TypeOK
<1>2. /\ Head(want) = want[1] /\ w \in Seq(Height)
      /\ Len(w) = Len(want) - 1
      /\ \A i \in 1..Len(w) : w[i] = want[i + 1]
  BY <1>1, HeadTailProperties
<1>3. DOMAIN w = 1..Len(w)
  BY <1>2, LenProperties
<1>4. ASSUME NEW h \in Wanted
      PROVE  h = Head(want) \/ \E i \in DOMAIN w : h = w[i]
  <2>1. PICK i \in 1..Len(want) : h = want[i]
    BY <1>1 DEF Wanted
  <2>2. CASE i = 1
    BY <1>2, <2>1, <2>2
  <2>3. CASE i # 1
    <3>1. i - 1 \in DOMAIN w /\ w[i - 1] = want[i]
      BY <1>1, <1>2, <1>3, <2>3
    <3> QED
      BY <2>1, <3>1
  <2> QED
    BY <2>2, <2>3
<1>5. ASSUME NEW i \in DOMAIN w
      PROVE  w[i] \in Wanted
  <2>1. i + 1 \in DOMAIN want /\ w[i] = want[i + 1]
    BY <1>1, <1>2, <1>3
  <2> QED
    BY <2>1 DEF Wanted
<1>6. Head(want) \in Wanted
  BY <1>1, <1>2 DEF Wanted
<1>7. Wanted \subseteq 0..Tip
  BY AtHand
<1> QED
  BY <1>2, <1>4, <1>5, <1>6, <1>7

\* A fetch moves the next wanted height's block into the batch.
LEMMA FetchEffect ==
  ASSUME TypeOK, InRange, NEW from, NEW to, FetchBlock(from, to)
  PROVE  /\ pc = from /\ UNCHANGED <<nodeVars, row, cacheVars, tip, heights, pending,
                                  restarts, failed, backlog>>
         /\ \/ /\ want # <<>> /\ pc' = from /\ want' \in Seq(Height)
               /\ Head(want) \in 0..Tip
               /\ batch' = batch \cup {<<Head(want), At(Head(want))>>}
               /\ Fetched' = Fetched \cup {Head(want)}
               /\ Wanted = {Head(want)} \cup Wanted'
            \/ /\ want = <<>> /\ pc' = to /\ UNCHANGED <<want, batch>>
               /\ Wanted = {} /\ Wanted' = {} /\ Fetched' = Fetched
<1>1. /\ pc = from
      /\ UNCHANGED <<nodeVars, row, cacheVars, tip, heights, pending, restarts,
                     failed, backlog>>
  BY DEF FetchBlock
<1>2. CASE want # <<>>
  <2>1. /\ batch' = batch \cup {<<Head(want), At(Head(want))>>}
        /\ want' = Tail(want) /\ pc' = from
    BY <1>1, <1>2 DEF FetchBlock
  <2>2. /\ Head(want) \in 0..Tip /\ want' \in Seq(Height)
        /\ Wanted = {Head(want)} \cup {want'[i] : i \in DOMAIN want'}
    BY <1>2, <2>1, NextWanted
  <2>3. Fetched' = Fetched \cup {Head(want)}
    <3> DEFINE new == <<Head(want), At(Head(want))>>
    <3>1. new[1] = Head(want) /\ batch' = batch \cup {new}
      BY <2>1
    <3> HIDE DEF new
    <3>2. {e[1] : e \in batch'} = {e[1] : e \in batch} \cup {Head(want)}
      BY <3>1
    <3> QED
      BY <3>2 DEF Fetched
  <2> QED
    BY <1>1, <1>2, <2>1, <2>2, <2>3 DEF Wanted
<1>3. CASE want = <<>>
  <2>1. pc' = to /\ UNCHANGED <<want, batch>>
    BY <1>3 DEF FetchBlock
  <2>2. Wanted = {} /\ Wanted' = {} /\ Fetched' = Fetched
    BY <1>3, <2>1 DEF Wanted, Fetched
  <2> QED
    BY <1>1, <1>3, <2>1, <2>2
<1> QED
  BY <1>2, <1>3

\* A batch stored, or a failed write: rows of the batch take its hash and keep
\* what else they hold, the others stay.
LEMMA StoreEffect ==
  ASSUME TypeOK, InRange, NEW from, NEW to, StoreBatch(from, to)
  PROVE  /\ pc = from /\ pc' = to /\ batch' = {}
         /\ UNCHANGED <<nodeVars, cacheVars, tip, heights, want, pending, restarts,
                        backlog>>
         /\ \/ UNCHANGED row /\ failed' = TRUE
            \/ /\ failed' = failed /\ DOMAIN row' = DOMAIN row \cup Fetched
               /\ \A h \in DOMAIN row \ Fetched : row'[h] = row[h]
               /\ \A h \in Fetched : /\ row'[h] \in Row
                                     /\ <<h, row'[h].hash>> \in batch
               /\ \A h \in DOMAIN row \cap Fetched :
                    /\ row'[h].payload = row[h].payload
                    /\ row'[h].stats = row[h].stats
               /\ \A h \in Fetched \ DOMAIN row :
                    row'[h].payload = 0 /\ row'[h].stats = 0
<1> DEFINE BlockAt(h) == (CHOOSE e \in batch : e[1] = h)[2]
<1>1. /\ pc = from /\ pc' = to /\ batch' = {}
      /\ UNCHANGED <<nodeVars, cacheVars, tip, heights, want, pending, restarts,
                     backlog>>
  BY DEF StoreBatch
<1>2. CASE UNCHANGED row /\ failed' = TRUE
  BY <1>1, <1>2
<1>3. CASE ~(UNCHANGED row /\ failed' = TRUE)
  <2>1. /\ row' = [h \in DOMAIN row \cup Fetched |->
                     IF h \notin Fetched THEN row[h]
                     ELSE IF h \in DOMAIN row THEN StoreRow(BlockAt(h), row[h])
                     ELSE NewRow(BlockAt(h))]
        /\ failed' = failed
    BY <1>3 DEF StoreBatch, Fetched
  <2>2. ASSUME NEW h \in Fetched
        PROVE  BlockAt(h) \in Block /\ <<h, BlockAt(h)>> \in batch
    <3>1. \E e \in batch : e[1] = h
      BY DEF Fetched
    <3>2. PICK e \in batch : e[1] = h /\ e[2] = BlockAt(h)
      BY <3>1
    <3>3. e \in Height \X Block
      BY <3>2 DEF TypeOK
    <3> HIDE DEF BlockAt
    <3>4. e = <<h, BlockAt(h)>> /\ BlockAt(h) \in Block
      BY <3>2, <3>3
    <3> QED
      BY <3>2, <3>4
  <2> HIDE DEF BlockAt
  <2>3. DOMAIN row' = DOMAIN row \cup Fetched
    BY <2>1
  <2>4. \A h \in DOMAIN row \ Fetched : row'[h] = row[h]
    BY <2>1
  <2>5. ASSUME NEW h \in DOMAIN row \cap Fetched
        PROVE  /\ row'[h] \in Row /\ row'[h].hash = BlockAt(h)
               /\ row'[h].payload = row[h].payload /\ row'[h].stats = row[h].stats
    <3>1. row'[h] = [row[h] EXCEPT !.hash = BlockAt(h)]
      BY <2>1 DEF StoreRow
    <3>2. row[h] \in Row
      BY DEF TypeOK
    <3> QED
      BY <2>2, <3>1, <3>2 DEF Row
  <2>6. ASSUME NEW h \in Fetched \ DOMAIN row
        PROVE  /\ row'[h] \in Row /\ row'[h].hash = BlockAt(h)
               /\ row'[h].payload = 0 /\ row'[h].stats = 0
    <3>1. row'[h] = [hash |-> BlockAt(h), payload |-> 0, stats |-> 0]
      BY <2>1 DEF NewRow
    <3>2. BlockAt(h) \in Block
      BY <2>2
    <3> QED
      BY <3>1, <3>2 DEF Row
  <2> QED
    BY <1>1, <2>1, <2>2, <2>3, <2>4, <2>5, <2>6
<1> QED
  BY <1>2, <1>3

\* An analysis, or one that failed: the row of the block analysed takes its
\* payload and, if they were answered, the statistics of the height.
LEMMA AnalyseEffect ==
  ASSUME TypeOK, InRange, AnalyseBlock
  PROVE  /\ pc = "analyse" /\ pc' = pc /\ pending # <<>>
         /\ UNCHANGED <<nodeVars, cacheVars, tip, heights, want, batch, restarts,
                        backlog>>
         /\ pending' \in Seq(Height \X Block) /\ Len(pending') <= Len(pending)
         /\ \A i \in DOMAIN pending' : \E j \in DOMAIN pending : pending'[i] = pending[j]
         /\ \/ UNCHANGED row /\ failed' = TRUE
            \/ /\ failed' = failed /\ DOMAIN row' = DOMAIN row
               /\ \A h \in DOMAIN row :
                    \/ row'[h] = row[h]
                    \/ /\ row'[h] \in Row /\ row'[h].hash = row[h].hash
                       /\ row'[h].payload # 0
                       /\ \E j \in DOMAIN pending :
                            /\ pending[j][1] = h /\ row'[h].payload = pending[j][2]
                            /\ row'[h].stats \in {0, At(h)}
<1>1. /\ pc = "analyse" /\ pc' = pc /\ pending # <<>>
      /\ UNCHANGED <<nodeVars, cacheVars, tip, heights, want, batch, restarts,
                     backlog>>
  BY DEF AnalyseBlock
<1>2. /\ pending \in Seq(Height \X Block) /\ DOMAIN pending = 1..Len(pending)
      /\ Len(pending) \in Nat \ {0} /\ Head(pending) = pending[1]
  BY <1>1, EmptySeq, LenProperties DEF TypeOK
<1>3. /\ Tail(pending) \in Seq(Height \X Block)
      /\ Len(Tail(pending)) = Len(pending) - 1
      /\ \A i \in 1..Len(Tail(pending)) : Tail(pending)[i] = pending[i + 1]
  BY <1>1, <1>2, HeadTailProperties
<1>4. /\ pending' \in Seq(Height \X Block) /\ Len(pending') <= Len(pending)
      /\ \A i \in DOMAIN pending' : \E j \in DOMAIN pending : pending'[i] = pending[j]
  <2>1. CASE pending' = <<>>
    <3>1. /\ <<>> \in Seq(Height \X Block) /\ Len(<<>>) = 0 /\ DOMAIN <<>> = {}
      BY EmptySeq
    <3> QED
      BY <1>2, <2>1, <3>1
  <2>2. CASE pending' = Tail(pending)
    <3>1. DOMAIN pending' = 1..Len(pending')
      BY <1>3, <2>2, LenProperties
    <3>2. ASSUME NEW i \in DOMAIN pending'
          PROVE  i + 1 \in DOMAIN pending /\ pending'[i] = pending[i + 1]
      BY <1>2, <1>3, <2>2, <3>1
    <3> QED
      BY <1>2, <1>3, <2>2, <3>2
  <2> QED
    BY <2>1, <2>2 DEF AnalyseBlock
<1>5. CASE UNCHANGED row /\ failed' = TRUE
  BY <1>1, <1>4, <1>5
<1>6. CASE ~(UNCHANGED row /\ failed' = TRUE)
  <2> DEFINE g == Head(pending)[1]
             b == Head(pending)[2]
  <2>1. PICK s \in {0, At(g)} :
          row' = [row EXCEPT ![g].payload = b, ![g].stats = s] /\ failed' = failed
    BY <1>6 DEF AnalyseBlock, BlockStats
  <2>2. g \in 0..Tip /\ b \in Block /\ At(g) \in Block /\ s \in Block \cup {0}
    <3>1. 1 \in DOMAIN pending
      BY <1>2
    <3>2. pending[1][1] \in 0..Tip /\ pending[1][2] \in Block
      BY <3>1, AtHand
    <3>3. g \in 0..Tip /\ b \in Block
      BY <1>2, <3>2
    <3>4. At(g) \in Block
      BY <3>3, AtHand
    <3> QED
      BY <2>1, <3>3, <3>4
  <2>3. pending[1][1] = g /\ pending[1][2] = b /\ 1 \in DOMAIN pending
    BY <1>2
  <2> HIDE DEF g, b
  <2>4. DOMAIN row' = DOMAIN row
    BY <2>1
  <2>5. ASSUME NEW h \in DOMAIN row, h # g
        PROVE  row'[h] = row[h]
    BY <2>1, <2>5
  <2>6. ASSUME g \in DOMAIN row
        PROVE  /\ row'[g] \in Row /\ row'[g].hash = row[g].hash
               /\ row'[g].payload = b /\ row'[g].stats = s
    <3>1. row[g] \in Row
      BY <2>6 DEF TypeOK
    <3>2. row'[g] = [[row[g] EXCEPT !.payload = b] EXCEPT !.stats = s]
      BY <2>1, <2>6
    <3> QED
      BY <2>2, <3>1, <3>2 DEF Row
  <2>7. b # 0
    BY <2>2 DEF Block
  <2> QED
    BY <1>1, <1>4, <2>1, <2>3, <2>4, <2>5, <2>6, <2>7
<1> QED
  BY <1>5, <1>6

\* A list of some of the heights of a set: the newest of them.
LEMMA NewestInRange ==
  ASSUME TypeOK, InRange, NEW H \in SUBSET (0..Tip), NEW n \in Nat
  PROVE  /\ Newest(n, H) \in Seq(Height) /\ Len(Newest(n, H)) <= n
         /\ Len(Newest(n, H)) \in Nat /\ DOMAIN Newest(n, H) = 1..Len(Newest(n, H))
         /\ Listed(Newest(n, H)) \subseteq H
         /\ \A i \in DOMAIN Newest(n, H) : Newest(n, H)[i] \in H
         /\ Cardinality(H \ Listed(Newest(n, H))) <=
              IF Cardinality(H) > n THEN Cardinality(H) - n ELSE 0
<1>1. Tip \in Nat /\ H \subseteq Height
  BY AtHand
<1>2. /\ Newest(n, H) \in Seq(H) /\ Len(Newest(n, H)) <= n
      /\ DOMAIN Newest(n, H) = 1..Len(Newest(n, H))
      /\ Listed(Newest(n, H)) \subseteq H
      /\ Cardinality(H \ Listed(Newest(n, H))) <=
           IF Cardinality(H) > n THEN Cardinality(H) - n ELSE 0
  BY <1>1, NewestLists
<1>3. Newest(n, H) \in Seq(Height)
  BY <1>1, <1>2, SeqMonotonic
<1> QED
  BY <1>2, <1>3, LenProperties

LEMMA RangeInit ==
  ASSUME Init
  PROVE  TypeOK /\ InRange
<1>1. /\ chain = [i \in 1..FirstBlocks |-> i] /\ mined = FirstBlocks
      /\ row = [h \in {} |-> 0] /\ cached \in {-1, Tip} /\ tip = 0 /\ heights = {}
      /\ want = <<>> /\ batch = {} /\ pending = <<>> /\ replaced = {}
  BY DEF Init
<1>2. chain \in [1..FirstBlocks -> Block]
  BY <1>1, Parameters DEF Block
<1>3. chain \in Seq(Block) /\ Len(chain) = FirstBlocks
  BY <1>2, Parameters
<1>4. Tip = FirstBlocks - 1 /\ Tip \in Height /\ mined \in Block
  BY <1>1, <1>3, Parameters DEF Tip, Height, Block
<1>5. <<>> \in Seq(Height) /\ <<>> \in Seq(Height \X Block) /\ Len(<<>>) = 0
  BY EmptySeq
<1>6. DOMAIN row = {} /\ Wanted = {} /\ Fetched = {} /\ DOMAIN pending = {}
  BY <1>1 DEF Wanted, Fetched
<1>7. TypeOK
  <2>1. Len(chain) \in 1..MaxBlocks /\ tip \in Height /\ cached \in Height \cup {-1}
    BY <1>1, <1>3, <1>4, Parameters DEF Height
  <2>2. \A h \in DOMAIN row : h \in Height /\ row[h] \in Row
    BY <1>6
  <2>3. Len(pending) <= Analyze /\ pending \in Seq(Height \X Block) /\ want \in Seq(Height)
    BY <1>1, <1>5, Parameters
  <2>4. pc = "idle" /\ backlog \in Nat /\ restarts \in 0..MaxRestarts
    BY Parameters DEF Init
  <2>5. refreshed \in BOOLEAN /\ failed \in BOOLEAN
    BY DEF Init
  <2> QED
    BY <1>1, <1>3, <1>4, <2>1, <2>2, <2>3, <2>4, <2>5 DEF TypeOK
<1>8. InRange
  BY <1>1, <1>3, <1>4, <1>6, Parameters DEF InRange, Height
<1> QED
  BY <1>7, <1>8

\* Types and ranges, for the steps that neither mine nor fetch nor store.
LEMMA RangeQuiet ==
  ASSUME TypeOK, InRange, UNCHANGED <<nodeVars, row>>,
         cached' \in Height \cup {-1}, cached' <= Tip, refreshed' \in BOOLEAN,
         pc' \in {"idle", "scan", "headers", "window", "recent", "store",
                 "backfill", "fetchMissing", "storeMissing", "select", "analyse"},
         tip' \in 0..Tip, heights' \subseteq 0..Tip,
         want' \in Seq(Height), Wanted' \subseteq 0..Tip,
         batch' \subseteq batch, pending' = pending \/ pending' = <<>>,
         restarts' \in 0..MaxRestarts, failed' \in BOOLEAN, backlog' \in Nat
  PROVE  TypeOK' /\ InRange'
<1>1. UNCHANGED <<chain, mined, replaced, row>> /\ Tip' = Tip
  BY DEF nodeVars, Tip
<1>2. /\ <<>> \in Seq(Height \X Block) /\ Len(<<>>) = 0
      /\ DOMAIN <<>> = {} /\ Analyze \in Nat
  BY EmptySeq, Parameters
<1>3. pending' \in Seq(Height \X Block) /\ Len(pending') <= Analyze
  <2>1. pending \in Seq(Height \X Block) /\ Len(pending) <= Analyze
    BY DEF TypeOK
  <2>2. CASE pending' = pending
    BY <2>1, <2>2
  <2>3. CASE pending' = <<>>
    BY <1>2, <2>3
  <2> QED
    BY <2>2, <2>3
<1>4. \A i \in DOMAIN pending' : pending'[i][1] <= Tip
  BY <1>2 DEF InRange
<1>5. 0..Tip \subseteq Height
  BY AtHand
<1>6. batch' \subseteq Height \X Block /\ Fetched' \subseteq Fetched
  BY DEF TypeOK, Fetched
<1>7. TypeOK'
  <2>1. /\ chain' \in Seq(Block) /\ Len(chain') \in 1..MaxBlocks /\ mined' \in Block
        /\ replaced' \subseteq Height
        /\ DOMAIN row' \subseteq Height /\ \A h \in DOMAIN row' : row'[h] \in Row
    BY <1>1 DEF TypeOK
  <2>2. tip' \in Height /\ heights' \subseteq Height
    BY <1>5
  <2> QED
    BY <1>3, <1>6, <2>1, <2>2 DEF TypeOK
<1>8. \A h \in DOMAIN row' \cup heights' \cup Wanted' \cup Fetched' : h <= Tip
  <2>1. Tip \in Nat /\ \A h \in 0..Tip : h <= Tip
    BY AtHand
  <2>2. DOMAIN row' = DOMAIN row /\ DOMAIN row \subseteq 0..Tip
    BY <1>1, AtHand
  <2>3. \A h \in Fetched' : h <= Tip
    BY <1>6 DEF InRange
  <2> QED
    BY <2>1, <2>2, <2>3
<1>9. InRange'
  BY <1>1, <1>4, <1>8, AtHand DEF InRange
<1> QED
  BY <1>7, <1>9

LEMMA RangeNewBlock ==
  ASSUME TypeOK, InRange, NEW d \in Nat, NewBlock(d)
  PROVE  TypeOK' /\ InRange' /\ Tip' = Tip + 1
<1>1. /\ chain' \in Seq(Block) /\ Len(chain') = Len(chain) + 1
      /\ Len(chain') \in 1..MaxBlocks /\ mined' \in Block /\ Len(chain') <= mined'
      /\ replaced' \subseteq Height
  BY NewChain
<1>2. UNCHANGED <<row, cacheVars, pc, fetchVars, restarts, failed, backlog>>
  BY DEF NewBlock
<1>3. UNCHANGED <<row, cached, refreshed, pc, tip, heights, want, batch, pending,
                  restarts, failed, backlog>>
  BY <1>2 DEF cacheVars, fetchVars
<1>4. Tip' = Tip + 1 /\ Tip \in Nat
  BY <1>1, AtHand DEF Tip
<1>5. TypeOK'
  BY <1>1, <1>3 DEF TypeOK
<1>6. tip \in Int /\ cached \in Int
  BY DEF TypeOK, Height
<1>7. DOMAIN row \cup heights \cup Wanted \cup Fetched \subseteq 0..Tip
  <2>1. /\ DOMAIN row \subseteq 0..Tip /\ heights \subseteq 0..Tip
        /\ Wanted \subseteq 0..Tip /\ \A e \in batch : e[1] \in 0..Tip
    BY AtHand
  <2> QED
    BY <2>1 DEF Fetched
<1>8. Wanted' = Wanted /\ Fetched' = Fetched
  BY <1>3 DEF Wanted, Fetched
<1>9. \A i \in DOMAIN pending : pending[i][1] \in 0..Tip
  BY AtHand
<1>10. \A h \in 0..Tip : h <= Tip + 1
  BY <1>4
<1>11. tip <= Tip + 1 /\ cached <= Tip + 1
  BY <1>4, <1>6 DEF InRange
<1>12. InRange'
  BY <1>1, <1>3, <1>4, <1>7, <1>8, <1>9, <1>10, <1>11 DEF InRange
<1> QED
  BY <1>4, <1>5, <1>12

\* The positions of a refresh.
Position == {"idle", "scan", "headers", "window", "recent", "store", "backfill",
             "fetchMissing", "storeMissing", "select", "analyse"}

LEMMA RangeFetch ==
  ASSUME TypeOK, InRange, NEW from, NEW to \in Position, FetchBlock(from, to)
  PROVE  TypeOK' /\ InRange'
<1>1. /\ pc = from
      /\ UNCHANGED <<nodeVars, row, cacheVars, tip, heights, pending, restarts,
                     failed, backlog>>
  BY DEF FetchBlock
<1>2. UNCHANGED <<chain, mined, replaced, row, cached, refreshed, tip, heights,
                  pending, restarts, failed, backlog>>
  BY <1>1 DEF nodeVars, cacheVars
<1>3. Tip' = Tip /\ Tip \in Nat /\ 0..Tip \subseteq Height
  BY <1>2, AtHand DEF Tip
<1>4. CASE want = <<>>
  <2>1. pc' = to /\ UNCHANGED <<want, batch>>
    BY <1>4 DEF FetchBlock
  <2>2. TypeOK'
    BY <1>2, <2>1 DEF TypeOK, Position
  <2>3. Wanted' = Wanted /\ Fetched' = Fetched
    BY <2>1 DEF Wanted, Fetched
  <2>4. InRange'
    BY <1>2, <1>3, <2>3 DEF InRange
  <2> QED
    BY <2>2, <2>4
<1>5. CASE want # <<>>
  <2>1. /\ pc' = from /\ want' \in Seq(Height) /\ Head(want) \in 0..Tip
        /\ batch' = batch \cup {<<Head(want), At(Head(want))>>}
        /\ Fetched' = Fetched \cup {Head(want)}
        /\ Wanted = {Head(want)} \cup Wanted'
    BY <1>5, FetchEffect
  <2>2. At(Head(want)) \in Block
    BY <2>1, AtHand
  <2>3. batch' \subseteq Height \X Block
    BY <1>3, <2>1, <2>2 DEF TypeOK
  <2>4. TypeOK'
    BY <1>1, <1>2, <2>1, <2>3 DEF TypeOK
  <2>5. Head(want) <= Tip
    BY <1>3, <2>1
  <2>6. InRange'
    BY <1>2, <1>3, <2>1, <2>5 DEF InRange
  <2> QED
    BY <2>4, <2>6
<1> QED
  BY <1>4, <1>5

LEMMA RangeStore ==
  ASSUME TypeOK, InRange, NEW from, NEW to \in Position, StoreBatch(from, to)
  PROVE  TypeOK' /\ InRange'
<1>1. /\ pc' = to /\ batch' = {}
      /\ UNCHANGED <<nodeVars, cacheVars, tip, heights, want, pending, restarts,
                     backlog>>
  BY StoreEffect
<1>2. UNCHANGED <<chain, mined, replaced, cached, refreshed, tip, heights, want,
                  pending, restarts, backlog>>
  BY <1>1 DEF nodeVars, cacheVars
<1>3. /\ DOMAIN row' \subseteq DOMAIN row \cup Fetched
      /\ \A h \in DOMAIN row' : row'[h] \in Row
      /\ failed' \in BOOLEAN
  <2>1. CASE UNCHANGED row /\ failed' = TRUE
    BY <2>1 DEF TypeOK
  <2>2. CASE ~(UNCHANGED row /\ failed' = TRUE)
    <3>1. /\ failed' = failed /\ DOMAIN row' = DOMAIN row \cup Fetched
          /\ \A h \in DOMAIN row \ Fetched : row'[h] = row[h]
          /\ \A h \in Fetched : row'[h] \in Row
      BY <2>2, StoreEffect
    <3>2. failed' \in BOOLEAN
      BY <3>1 DEF TypeOK
    <3>3. ASSUME NEW h \in DOMAIN row'
          PROVE  row'[h] \in Row
      BY <3>1 DEF TypeOK
    <3> QED
      BY <3>1, <3>2, <3>3
  <2> QED
    BY <2>1, <2>2
<1>4. Tip' = Tip /\ Wanted' = Wanted /\ Fetched' = {}
  BY <1>1, <1>2 DEF Tip, Wanted, Fetched
<1>5. DOMAIN row' \subseteq Height
  BY <1>3 DEF TypeOK, Fetched
<1>6. TypeOK'
  BY <1>1, <1>2, <1>3, <1>5 DEF TypeOK, Position
<1>7. InRange'
  BY <1>2, <1>3, <1>4 DEF InRange
<1> QED
  BY <1>6, <1>7

LEMMA RangeAnalyse ==
  ASSUME TypeOK, InRange, AnalyseBlock
  PROVE  TypeOK' /\ InRange'
<1>1. /\ pc' = pc
      /\ UNCHANGED <<nodeVars, cacheVars, tip, heights, want, batch, restarts,
                     backlog>>
      /\ pending' \in Seq(Height \X Block) /\ Len(pending') <= Len(pending)
      /\ \A i \in DOMAIN pending' : \E j \in DOMAIN pending : pending'[i] = pending[j]
  BY AnalyseEffect
<1>2. UNCHANGED <<chain, mined, replaced, cached, refreshed, tip, heights, want,
                  batch, restarts, backlog>>
  BY <1>1 DEF nodeVars, cacheVars
<1>3. /\ DOMAIN row' = DOMAIN row
      /\ \A h \in DOMAIN row' : row'[h] \in Row
      /\ failed' \in BOOLEAN
  <2>1. CASE UNCHANGED row /\ failed' = TRUE
    BY <2>1 DEF TypeOK
  <2>2. CASE ~(UNCHANGED row /\ failed' = TRUE)
    <3>1. /\ failed' = failed /\ DOMAIN row' = DOMAIN row
          /\ \A h \in DOMAIN row : row'[h] = row[h] \/ row'[h] \in Row
      BY <2>2, AnalyseEffect
    <3>2. failed' \in BOOLEAN
      BY <3>1 DEF TypeOK
    <3>3. \A h \in DOMAIN row : row[h] \in Row
      BY DEF TypeOK
    <3> QED
      BY <3>1, <3>2, <3>3
  <2> QED
    BY <2>1, <2>2
<1>4. Tip' = Tip /\ Wanted' = Wanted /\ Fetched' = Fetched
  BY <1>2 DEF Tip, Wanted, Fetched
<1>5. Len(pending') <= Analyze
  <2>1. /\ Len(pending') \in Nat /\ Len(pending) \in Nat /\ Analyze \in Nat
        /\ Len(pending) <= Analyze
    <3>1. Len(pending') \in Nat
      BY <1>1, LenProperties
    <3> QED
      BY <3>1, AtHand, Parameters DEF TypeOK
  <2> QED
    BY <1>1, <2>1
<1>6. TypeOK'
  BY <1>1, <1>2, <1>3, <1>5 DEF TypeOK
<1>7. InRange'
  BY <1>1, <1>2, <1>3, <1>4 DEF InRange
<1> QED
  BY <1>6, <1>7

\* What SelectPending lists: at most Analyze stored rows, each with its hash.
LEMMA SelectEffect ==
  ASSUME TypeOK, InRange, SelectPending
  PROVE  /\ pc = "select" /\ pc' = "analyse"
         /\ UNCHANGED <<nodeVars, row, cacheVars, tip, heights, want, batch,
                        restarts, backlog>>
         /\ failed' = failed \/ failed' = TRUE
         /\ pending' \in Seq(Height \X Block) /\ Len(pending') <= Analyze
         /\ \A i \in DOMAIN pending' :
              /\ pending'[i][1] \in DOMAIN row
              /\ pending'[i][2] = row[pending'[i][1]].hash
<1>1. /\ pc = "select" /\ pc' = "analyse"
      /\ UNCHANGED <<nodeVars, row, cacheVars, tip, heights, want, batch, restarts,
                     backlog>>
      /\ failed' = failed \/ failed' = TRUE
  BY DEF SelectPending
<1>2. CASE pending' = <<>>
  <2>1. <<>> \in Seq(Height \X Block) /\ Len(<<>>) = 0 /\ DOMAIN <<>> = {}
    BY EmptySeq
  <2> QED
    BY <1>1, <1>2, <2>1, Parameters
<1>3. CASE pending' # <<>>
  <2> DEFINE P == PendingHeights
  <2>1. pending' = [i \in DOMAIN P |-> <<P[i], row[P[i]].hash>>]
    BY <1>3 DEF SelectPending
  <2>2. NeedingAnalysis \in SUBSET (0..Tip) /\ NeedingAnalysis \subseteq DOMAIN row
    BY AtHand DEF NeedingAnalysis
  <2>3. /\ Len(P) \in Nat /\ Len(P) <= Analyze /\ DOMAIN P = 1..Len(P)
        /\ \A i \in DOMAIN P : P[i] \in NeedingAnalysis
    BY <2>2, NewestInRange, Parameters DEF PendingHeights
  <2> HIDE DEF P
  <2>4. ASSUME NEW i \in DOMAIN P
        PROVE  /\ P[i] \in Height /\ P[i] \in DOMAIN row
               /\ row[P[i]].hash \in Block
    <3>1. P[i] \in DOMAIN row
      BY <2>2, <2>3
    <3>2. row[P[i]] \in Row /\ P[i] \in Height
      BY <3>1 DEF TypeOK
    <3> QED
      BY <3>1, <3>2 DEF Row
  <2>5. pending' \in [1..Len(P) -> Height \X Block]
    BY <2>1, <2>3, <2>4
  <2>6. pending' \in Seq(Height \X Block) /\ Len(pending') = Len(P)
    BY <2>3, <2>5
  <2>7. ASSUME NEW i \in DOMAIN pending'
        PROVE  /\ pending'[i][1] \in DOMAIN row
               /\ pending'[i][2] = row[pending'[i][1]].hash
    BY <2>1, <2>4
  <2> QED
    BY <1>1, <2>3, <2>6, <2>7
<1> QED
  BY <1>2, <1>3

LEMMA RangeSelect ==
  ASSUME TypeOK, InRange, SelectPending
  PROVE  TypeOK' /\ InRange'
<1>1. /\ pc' = "analyse"
      /\ UNCHANGED <<nodeVars, row, cacheVars, tip, heights, want, batch, restarts,
                     backlog>>
      /\ failed' = failed \/ failed' = TRUE
      /\ pending' \in Seq(Height \X Block) /\ Len(pending') <= Analyze
      /\ \A i \in DOMAIN pending' : pending'[i][1] \in DOMAIN row
  BY SelectEffect
<1>2. UNCHANGED <<chain, mined, replaced, row, cached, refreshed, tip, heights,
                  want, batch, restarts, backlog>>
  BY <1>1 DEF nodeVars, cacheVars
<1>3. Tip' = Tip /\ Wanted' = Wanted /\ Fetched' = Fetched
  BY <1>2 DEF Tip, Wanted, Fetched
<1>4. failed' \in BOOLEAN
  BY <1>1 DEF TypeOK
<1>5. TypeOK'
  BY <1>1, <1>2, <1>4 DEF TypeOK
<1>6. InRange'
  BY <1>1, <1>2, <1>3 DEF InRange
<1> QED
  BY <1>5, <1>6

\* The heights of the scan and of the newest blocks.
LEMMA ScanList ==
  ASSUME TypeOK, InRange, ScanTip
  PROVE  want' \in Seq(Height) /\ Wanted' = PeriodStart(Tip)..Tip
<1> DEFINE n == Tip - PeriodStart(Tip) + 1
           at == PeriodStart(Tip)
           top == Tip
<1>1. Tip \in Nat /\ at \in 0..Tip /\ 0..Tip \subseteq Height
  BY AtHand, PeriodStarts
<1>2. want' = [i \in 1..n |-> at + i - 1]
  BY DEF ScanTip
<1>3. n = top - at + 1 /\ top \in Nat /\ at \in 0..top /\ 0..top \subseteq Height
  BY <1>1
<1> HIDE DEF n, at, top
<1>4. n \in Nat /\ \A i \in 1..n : at + i - 1 \in at..top /\ at + i - 1 \in Height
  BY <1>3
<1>5. want' \in [1..n -> Height]
  BY <1>2, <1>4
<1>6. want' \in Seq(Height) /\ DOMAIN want' = 1..n
  BY <1>4, <1>5
<1>7. ASSUME NEW h \in at..top
      PROVE  h - at + 1 \in DOMAIN want' /\ want'[h - at + 1] = h
  <2>1. h - at + 1 \in 1..n /\ at + (h - at + 1) - 1 = h
    BY <1>3
  <2> QED
    BY <1>2, <1>6, <2>1
<1>8. \A i \in DOMAIN want' : want'[i] \in at..top
  BY <1>2, <1>4
<1>9. {want'[i] : i \in DOMAIN want'} = at..top
  BY <1>7, <1>8
<1> QED
  BY <1>6, <1>9 DEF Wanted, at, top

LEMMA RecentList ==
  ASSUME TypeOK, InRange
  PROVE  /\ Recent \in Seq(Height)
         /\ Listed(Recent) \subseteq 0..Tip
         /\ InWindow \subseteq Listed(Recent)
<1> DEFINE n == IF Window > Tip THEN Tip + 1 ELSE Window
           top == Tip
<1>1. top \in Nat /\ 0..top \subseteq Height /\ Window \in Nat /\ n \in Nat
      /\ n <= top + 1
  BY AtHand, Parameters
<1>2. Recent = [i \in 1..n |-> top - i + 1]
  BY DEF Recent
<1>3. n = IF Window > top THEN top + 1 ELSE Window
  OBVIOUS
<1> HIDE DEF n, top
<1>4. \A i \in 1..n : top - i + 1 \in 0..top /\ top - i + 1 \in Height
  BY <1>1
<1>5. Recent \in [1..n -> Height]
  BY <1>2, <1>4
<1>6. Recent \in Seq(Height) /\ DOMAIN Recent = 1..n
  BY <1>1, <1>5
<1>7. ASSUME NEW i \in DOMAIN Recent
      PROVE  Recent[i] \in 0..top
  BY <1>2, <1>4, <1>6
<1>8. ASSUME NEW h \in 0..top, h > top - Window
      PROVE  top - h + 1 \in DOMAIN Recent /\ Recent[top - h + 1] = h
  <2>1. top - h + 1 \in 1..n /\ top - (top - h + 1) + 1 = h
    BY <1>1, <1>3, <1>8
  <2> QED
    BY <1>2, <1>6, <2>1
<1>9. Listed(Recent) \subseteq 0..top
  BY <1>7 DEF Listed
<1>10. \A h \in 0..top : h > top - Window => h \in Listed(Recent)
  BY <1>8 DEF Listed
<1>11. InWindow \subseteq Listed(Recent)
  BY <1>10 DEF InWindow, top
<1> QED
  BY <1>6, <1>9, <1>11 DEF top

\* What SelectMissing lists: the newest unstored signalling heights.
LEMMA MissingList ==
  ASSUME TypeOK, InRange
  PROVE  LET B == BackfillBatch(Unstored(heights))
             U == Unstored(heights)
         IN  /\ B \in Seq(Height) /\ Listed(B) \subseteq U /\ U \subseteq 0..Tip
             /\ Cardinality(U \ Listed(B)) <=
                  IF Cardinality(U) > Backfill THEN Cardinality(U) - Backfill ELSE 0
<1>1. Unstored(heights) \in SUBSET (0..Tip) /\ Backfill \in Nat
  BY AtHand, Parameters DEF Unstored
<1> QED
  BY <1>1, NewestInRange DEF BackfillBatch

LEMMA RangeStep ==
  ASSUME TypeOK, InRange, [Next]_vars
  PROVE  TypeOK' /\ InRange'
<1>1. /\ 0..Tip \subseteq Height /\ Tip \in Nat /\ heights \subseteq 0..Tip
      /\ Wanted \subseteq 0..Tip /\ tip \in Height /\ tip \in 0..Tip /\ 0 \in 0..Tip
      /\ -1 <= Tip /\ want \in Seq(Height) /\ cached \in Height \cup {-1} /\ cached <= Tip
      /\ restarts \in 0..MaxRestarts /\ failed \in BOOLEAN /\ refreshed \in BOOLEAN
      /\ backlog \in Nat /\ pc \in Position
  <2>1. tip \in 0..Tip
    BY AtHand DEF TypeOK, InRange, Height
  <2>2. -1 <= Tip /\ 0 \in 0..Tip
    BY AtHand
  <2> QED
    BY <2>1, <2>2, AtHand DEF TypeOK, InRange, Position
<1>2. /\ <<>> \in Seq(Height) /\ Listed(<<>>) = {}
  BY EmptySeq DEF Listed
<1>3. Wanted' = Listed(want') /\ Wanted = Listed(want)
  BY DEF Wanted, Listed
<1>4. ASSUME NEW d \in 0..MaxDepth, NewBlock(d)
      PROVE  TypeOK' /\ InRange'
  BY <1>4, RangeNewBlock, Parameters
<1>5. CASE Restart
  <2>1. /\ UNCHANGED <<nodeVars, row>> /\ cached' \in {-1, Tip} /\ refreshed' = FALSE
        /\ pc' = "idle" /\ failed' = FALSE /\ tip' = 0 /\ heights' = {} /\ want' = <<>>
        /\ batch' = {} /\ pending' = <<>> /\ backlog' = backlog
        /\ restarts < MaxRestarts /\ restarts' = restarts + 1
    BY <1>5 DEF Restart
  <2>2. /\ restarts' \in 0..MaxRestarts
        /\ refreshed' \in BOOLEAN /\ failed' \in BOOLEAN
    <3>1. restarts' \in 0..MaxRestarts
      BY <1>1, <2>1, Parameters
    <3>2. refreshed' \in BOOLEAN /\ failed' \in BOOLEAN
      BY <2>1
    <3> QED
      BY <3>1, <3>2
  <2>3. cached' \in Height \cup {-1} /\ cached' <= Tip
    BY <1>1, <2>1, AtHand
  <2> QED
    BY <1>1, <1>2, <1>3, <2>1, <2>2, <2>3, RangeQuiet
<1>6. CASE RefreshTick
  <2>1. /\ UNCHANGED <<nodeVars, row, cached, tip, want, batch, pending, restarts,
                       backlog>>
        /\ pc' = "scan" /\ refreshed' \in BOOLEAN /\ failed' \in BOOLEAN /\ heights' = {}
    BY <1>6 DEF RefreshTick
  <2> QED
    BY <1>1, <1>3, <2>1, RangeQuiet
<1>7. CASE QuietTick
  <2>1. /\ UNCHANGED <<nodeVars, row, cached, pc, tip, heights, want, batch, pending,
                       restarts, failed, backlog>>
        /\ refreshed' \in BOOLEAN
    BY <1>7 DEF QuietTick, fetchVars
  <2> QED
    BY <1>1, <1>3, <2>1, RangeQuiet DEF Position
<1>8. CASE ScanTip
  <2>1. /\ UNCHANGED <<nodeVars, row, cached, refreshed, heights, batch, pending,
                       restarts, failed>>
        /\ pc' = "headers" /\ tip' = Tip
        /\ backlog' = Cardinality(Unstored(SignallingHeights(Tip)))
    BY <1>8 DEF ScanTip, cacheVars
  <2>2. want' \in Seq(Height) /\ Wanted' = PeriodStart(Tip)..Tip
    BY <1>8, ScanList
  <2>3. PeriodStart(Tip) \in 0..Tip
    BY <1>1, PeriodStarts
  <2>4. Wanted' \subseteq 0..Tip /\ Unstored(SignallingHeights(Tip)) \subseteq 0..Tip
    BY <1>1, <2>2, <2>3 DEF Unstored, SignallingHeights
  <2>5. backlog' \in Nat
    <3>1. IsFiniteSet(0..Tip)
      <4>1. 0 \in Int /\ Tip \in Int
        BY <1>1
      <4> QED
        BY <4>1, FS_Interval
    <3>2. IsFiniteSet(Unstored(SignallingHeights(Tip)))
      BY <2>4, <3>1, FS_Subset
    <3> QED
      BY <2>1, <3>2, FS_CardinalityType
  <2>6. tip' \in 0..Tip
    BY <1>1, <2>1
  <2> QED
    BY <1>1, <2>1, <2>2, <2>4, <2>5, <2>6, RangeQuiet
<1>9. CASE ScanHeader
  <2>1. /\ UNCHANGED <<nodeVars, row, cached, refreshed, pc, tip, batch, pending,
                       restarts, failed, backlog>>
        /\ want # <<>> /\ want' = Tail(want)
        /\ heights' \subseteq heights \cup {Head(want)}
    BY <1>9 DEF ScanHeader, cacheVars
  <2>2. /\ Head(want) \in 0..Tip /\ want' \in Seq(Height)
        /\ Wanted = {Head(want)} \cup Listed(want')
    BY <2>1, NextWanted DEF Listed
  <2>3. heights' \subseteq 0..Tip /\ Wanted' \subseteq 0..Tip
    BY <1>1, <1>3, <2>1, <2>2
  <2> QED
    BY <1>1, <2>1, <2>2, <2>3, RangeQuiet DEF Position
<1>10. CASE EndScan
  <2>1. /\ UNCHANGED <<nodeVars, row, refreshed, tip, heights, want, batch, pending,
                       restarts, failed, backlog>>
        /\ cached' = tip /\ pc' = "window"
    BY <1>10 DEF EndScan, fetchVars
  <2>2. cached' \in Height \cup {-1} /\ cached' <= Tip
    BY <1>1, <2>1
  <2> QED
    BY <1>1, <1>3, <2>1, <2>2, RangeQuiet
<1>11. CASE ScanFails
  <2>1. /\ UNCHANGED <<nodeVars, row, cached, refreshed, tip, batch, pending, restarts,
                       backlog>>
        /\ heights' = {} /\ want' = <<>> /\ failed' \in BOOLEAN /\ pc' = "window"
    BY <1>11 DEF ScanFails, cacheVars
  <2> QED
    BY <1>1, <1>2, <1>3, <2>1, RangeQuiet
<1>12. CASE RecentTip
  <2>1. /\ UNCHANGED <<nodeVars, row, cached, refreshed, tip, heights, batch, pending,
                       restarts, failed, backlog>>
        /\ want' = Recent /\ pc' = "recent"
    BY <1>12 DEF RecentTip, cacheVars
  <2>2. want' \in Seq(Height) /\ Wanted' \subseteq 0..Tip
    BY <1>3, <2>1, RecentList
  <2> QED
    BY <1>1, <2>1, <2>2, RangeQuiet
<1>13. CASE FetchBlock("recent", "store") \/ FetchBlock("fetchMissing", "storeMissing")
  BY <1>13, RangeFetch DEF Position
<1>14. CASE FetchFails("recent", "idle") \/ FetchFails("fetchMissing", "select")
  <2>1. /\ UNCHANGED <<nodeVars, row, cached, refreshed, tip, heights, pending,
                       restarts, backlog>>
        /\ want' = <<>> /\ batch' = {} /\ failed' \in BOOLEAN /\ pc' \in {"idle", "select"}
    BY <1>14 DEF FetchFails, cacheVars
  <2> QED
    BY <1>1, <1>2, <1>3, <2>1, RangeQuiet
<1>15. CASE StoreBatch("store", "backfill") \/ StoreBatch("storeMissing", "select")
  BY <1>15, RangeStore DEF Position
<1>16. CASE SelectMissing
  <2>1. /\ UNCHANGED <<nodeVars, row, cached, refreshed, tip, heights, batch, pending,
                       restarts, backlog>>
        /\ want' = BackfillBatch(Unstored(heights)) \/ want' = <<>>
        /\ failed' = failed \/ failed' = TRUE
        /\ pc' \in {"select", "fetchMissing"}
    BY <1>16 DEF SelectMissing, cacheVars
  <2>2. want' \in Seq(Height) /\ Wanted' \subseteq 0..Tip
    BY <1>2, <1>3, <2>1, MissingList
  <2>3. failed' \in BOOLEAN
    BY <1>1, <2>1
  <2> QED
    BY <1>1, <2>1, <2>2, <2>3, RangeQuiet
<1>17. CASE SelectPending
  BY <1>17, RangeSelect
<1>18. CASE AnalyseBlock
  BY <1>18, RangeAnalyse
<1>19. CASE EndRefresh
  <2>1. /\ UNCHANGED <<nodeVars, row, cached, refreshed, want, batch, pending, restarts,
                       failed, backlog>>
        /\ pc' = "idle" /\ heights' = {} /\ tip' = 0
    BY <1>19 DEF EndRefresh, cacheVars
  <2> QED
    BY <1>1, <1>3, <2>1, RangeQuiet
<1>20. CASE UNCHANGED vars
  <2>1. /\ UNCHANGED <<nodeVars, row, cached, refreshed, pc, tip, heights, want, batch,
                       pending, restarts, failed, backlog>>
    BY <1>20 DEF vars, cacheVars, fetchVars
  <2> QED
    BY <1>1, <1>3, <2>1, RangeQuiet DEF Position
<1> QED
  BY <1>4, <1>5, <1>6, <1>7, <1>8, <1>9, <1>10, <1>11, <1>12, <1>13, <1>14, <1>15,
     <1>16, <1>17, <1>18, <1>19, <1>20 DEF Next, FetchStep, AnalyseStep

\* The blocks table, the scan's lists and the callback's position stay well
\* typed (TypeOK), and no height that is stored or at hand lies above the node's
\* tip (InRange), so that a block is there whenever the callback asks for one by
\* its height.
THEOREM RefreshTypeCorrect == Spec => [](TypeOK /\ InRange)
<1>1. Init => TypeOK /\ InRange
  BY RangeInit
<1>2. (TypeOK /\ InRange) /\ [Next]_vars => (TypeOK /\ InRange)'
  BY RangeStep
<1> QED
  BY <1>1, <1>2, PTL DEF Spec

-----------------------------------------------------------------------------
(* One block per height, but where a reorganisation replaced it.            *)

LEMMA SoleStep ==
  ASSUME TypeOK, InRange, SoleInv, [Next]_vars
  PROVE  SoleInv'
<1>1. CASE \E d \in 0..MaxDepth : NewBlock(d)
  <2>1. PICK d \in 0..MaxDepth : NewBlock(d)
    BY <1>1
  <2>2. /\ replaced \subseteq replaced'
        /\ \A h \in 0..Tip : h \in replaced' \/ chain'[h + 1] = chain[h + 1]
    BY <2>1, NewChain, Parameters
  <2>3. UNCHANGED <<row, batch, pending>>
    BY <2>1 DEF NewBlock, fetchVars
  <2>4. ASSUME NEW h \in 0..Tip, NEW b, Sole(h, b)
        PROVE  h \in replaced' \/ b = chain'[h + 1]
    BY <2>2, <2>4 DEF Sole, At
  <2>5. /\ DOMAIN row \subseteq 0..Tip
        /\ \A e \in batch : e[1] \in 0..Tip
        /\ \A i \in DOMAIN pending : pending[i][1] \in 0..Tip
    BY AtHand
  <2>6. \A h \in DOMAIN row : h \in replaced' \/ row[h].hash = chain'[h + 1]
    BY <2>4, <2>5 DEF SoleInv
  <2>7. \A e \in batch : e[1] \in replaced' \/ e[2] = chain'[e[1] + 1]
    BY <2>4, <2>5 DEF SoleInv
  <2>8. \A i \in DOMAIN pending :
          pending[i][1] \in replaced' \/ pending[i][2] = chain'[pending[i][1] + 1]
    BY <2>4, <2>5 DEF SoleInv
  <2>9. AnalysisBelongs'
    BY <2>2, <2>3 DEF SoleInv, AnalysisBelongs
  <2> QED
    BY <2>3, <2>6, <2>7, <2>8, <2>9 DEF SoleInv, Sole, At
<1>2. ASSUME UNCHANGED <<nodeVars, row>>, batch' = batch \/ batch' = {},
             pending' = pending \/ pending' = <<>>
      PROVE  SoleInv'
  <2>1. UNCHANGED <<chain, replaced, row>>
    BY <1>2 DEF nodeVars
  <2>2. \A e \in batch' : e[1] \in replaced \/ e[2] = chain[e[1] + 1]
    BY <1>2 DEF SoleInv, Sole, At
  <2>3. \A i \in DOMAIN pending' :
          pending'[i][1] \in replaced \/ pending'[i][2] = chain[pending'[i][1] + 1]
    <3>1. DOMAIN <<>> = {}
      BY EmptySeq
    <3> QED
      BY <1>2, <3>1 DEF SoleInv, Sole, At
  <2>4. \A h \in DOMAIN row : h \in replaced \/ row[h].hash = chain[h + 1]
    BY DEF SoleInv, Sole, At
  <2>5. AnalysisBelongs'
    BY <2>1 DEF SoleInv, AnalysisBelongs
  <2> QED
    BY <2>1, <2>2, <2>3, <2>4, <2>5 DEF SoleInv, Sole, At
<1>3. ASSUME NEW from, NEW to, FetchBlock(from, to)
      PROVE  SoleInv'
  <2>1. UNCHANGED <<nodeVars, row, pending>>
    BY <1>3 DEF FetchBlock
  <2>2. UNCHANGED <<chain, replaced, row, pending>>
    BY <2>1 DEF nodeVars
  <2>3. CASE batch' = batch
    BY <1>2, <2>1, <2>3
  <2>4. CASE batch' # batch
    <3> DEFINE new == <<Head(want), At(Head(want))>>
    <3>1. batch' = batch \cup {new}
      BY <1>3, <2>4 DEF FetchBlock
    <3>2. new[2] = chain[new[1] + 1]
      BY DEF At
    <3> HIDE DEF new
    <3>3. \A e \in batch' : e[1] \in replaced \/ e[2] = chain[e[1] + 1]
      BY <3>1, <3>2 DEF SoleInv, Sole, At
    <3>4. AnalysisBelongs'
      BY <2>2 DEF SoleInv, AnalysisBelongs
    <3> QED
      BY <2>2, <3>3, <3>4 DEF SoleInv, Sole, At
  <2> QED
    BY <2>3, <2>4
<1>4. ASSUME NEW from, NEW to, StoreBatch(from, to)
      PROVE  SoleInv'
  <2>1. UNCHANGED <<nodeVars, pending>> /\ batch' = {}
    BY <1>4, StoreEffect
  <2>2. UNCHANGED <<chain, replaced, pending>>
    BY <2>1 DEF nodeVars
  <2>3. CASE UNCHANGED row
    BY <1>2, <2>1, <2>3
  <2>4. CASE ~UNCHANGED row
    <3>1. /\ DOMAIN row' = DOMAIN row \cup Fetched
          /\ \A h \in DOMAIN row \ Fetched : row'[h] = row[h]
          /\ \A h \in Fetched : <<h, row'[h].hash>> \in batch
          /\ \A h \in DOMAIN row \cap Fetched :
               /\ row'[h].payload = row[h].payload
               /\ row'[h].stats = row[h].stats
          /\ \A h \in Fetched \ DOMAIN row :
               row'[h].payload = 0 /\ row'[h].stats = 0
      BY <1>4, <2>4, StoreEffect
    <3>2. ASSUME NEW h \in DOMAIN row'
          PROVE  h \in replaced \/ row'[h].hash = chain[h + 1]
      <4>1. CASE h \in Fetched
        <5>1. <<h, row'[h].hash>> \in batch
          BY <3>1, <4>1
        <5>2. Sole(<<h, row'[h].hash>>[1], <<h, row'[h].hash>>[2])
          BY <5>1 DEF SoleInv
        <5> QED
          BY <5>2 DEF Sole, At
      <4>2. CASE h \notin Fetched
        BY <3>1, <4>2 DEF SoleInv, Sole, At
      <4> QED
        BY <4>1, <4>2
    <3>3. ASSUME NEW h \in DOMAIN row' \ replaced
          PROVE  /\ row'[h].payload \in {0, row'[h].hash}
                 /\ row'[h].stats \in {0, row'[h].hash}
      <4>1. CASE h \in DOMAIN row /\ h \in Fetched
        <5>1. /\ row[h].payload \in {0, row[h].hash} /\ row[h].stats \in {0, row[h].hash}
              /\ row[h].hash = chain[h + 1]
          BY <4>1 DEF SoleInv, Sole, At, AnalysisBelongs
        <5>2. row'[h].hash = chain[h + 1]
          BY <3>2
        <5> QED
          BY <3>1, <4>1, <5>1, <5>2
      <4>2. CASE h \in DOMAIN row /\ h \notin Fetched
        BY <3>1, <4>2 DEF SoleInv, AnalysisBelongs
      <4>3. CASE h \notin DOMAIN row
        BY <3>1, <4>3
      <4> QED
        BY <4>1, <4>2, <4>3
    <3>4. AnalysisBelongs'
      BY <2>2, <3>3 DEF AnalysisBelongs
    <3>5. \A i \in DOMAIN pending :
            pending[i][1] \in replaced \/ pending[i][2] = chain[pending[i][1] + 1]
      BY DEF SoleInv, Sole, At
    <3> QED
      BY <2>1, <2>2, <3>2, <3>4, <3>5 DEF SoleInv, Sole, At
  <2> QED
    BY <2>3, <2>4
<1>5. CASE SelectPending
  <2>1. /\ UNCHANGED <<nodeVars, row, batch>>
        /\ \A i \in DOMAIN pending' :
             /\ pending'[i][1] \in DOMAIN row
             /\ pending'[i][2] = row[pending'[i][1]].hash
    BY <1>5, SelectEffect
  <2>2. UNCHANGED <<chain, replaced, row, batch>>
    BY <2>1 DEF nodeVars
  <2>3. \A i \in DOMAIN pending' :
          pending'[i][1] \in replaced \/ pending'[i][2] = chain[pending'[i][1] + 1]
    BY <2>1 DEF SoleInv, Sole, At
  <2>4. AnalysisBelongs'
    BY <2>2 DEF SoleInv, AnalysisBelongs
  <2> QED
    BY <2>2, <2>3, <2>4 DEF SoleInv, Sole, At
<1>6. CASE AnalyseBlock
  <2>1. /\ UNCHANGED <<nodeVars, batch>>
        /\ \A i \in DOMAIN pending' : \E j \in DOMAIN pending : pending'[i] = pending[j]
    BY <1>6, AnalyseEffect
  <2>2. UNCHANGED <<chain, replaced, batch>>
    BY <2>1 DEF nodeVars
  <2>3. \A i \in DOMAIN pending' :
          pending'[i][1] \in replaced \/ pending'[i][2] = chain[pending'[i][1] + 1]
    BY <2>1 DEF SoleInv, Sole, At
  <2>4. \A e \in batch : e[1] \in replaced \/ e[2] = chain[e[1] + 1]
    BY DEF SoleInv, Sole, At
  <2>5. /\ DOMAIN row' = DOMAIN row
        /\ \A h \in DOMAIN row :
             \/ row'[h] = row[h]
             \/ /\ row'[h].hash = row[h].hash
                /\ \E j \in DOMAIN pending :
                     /\ pending[j][1] = h /\ row'[h].payload = pending[j][2]
                     /\ row'[h].stats \in {0, At(h)}
    <3>1. CASE UNCHANGED row
      BY <3>1
    <3>2. CASE ~UNCHANGED row
      BY <1>6, <3>2, AnalyseEffect
    <3> QED
      BY <3>1, <3>2
  <2>6. \A h \in DOMAIN row' : h \in replaced \/ row'[h].hash = chain[h + 1]
    BY <2>5 DEF SoleInv, Sole, At
  <2>7. ASSUME NEW h \in DOMAIN row' \ replaced
        PROVE  /\ row'[h].payload \in {0, row'[h].hash}
               /\ row'[h].stats \in {0, row'[h].hash}
    <3>1. CASE row'[h] = row[h]
      BY <2>5, <3>1 DEF SoleInv, AnalysisBelongs
    <3>2. CASE row'[h] # row[h]
      <4>1. PICK j \in DOMAIN pending :
              /\ pending[j][1] = h /\ row'[h].payload = pending[j][2]
              /\ row'[h].stats \in {0, At(h)}
        BY <2>5, <3>2
      <4>2. pending[j][2] = At(h)
        BY <4>1 DEF SoleInv, Sole
      <4>3. row'[h].hash = At(h)
        BY <2>6 DEF At
      <4> QED
        BY <4>1, <4>2, <4>3
    <3> QED
      BY <3>1, <3>2
  <2>8. AnalysisBelongs'
    BY <2>2, <2>7 DEF AnalysisBelongs
  <2> QED
    BY <2>2, <2>3, <2>4, <2>6, <2>8 DEF SoleInv, Sole, At
<1>7. CASE Restart \/ RefreshTick \/ QuietTick
  BY <1>2, <1>7 DEF Restart, RefreshTick, QuietTick, fetchVars
<1>8. CASE ScanTip \/ ScanHeader \/ EndScan \/ ScanFails \/ RecentTip \/ SelectMissing
  BY <1>2, <1>8 DEF ScanTip, ScanHeader, EndScan, ScanFails, RecentTip, SelectMissing,
     fetchVars
<1>9. CASE FetchFails("recent", "idle") \/ FetchFails("fetchMissing", "select")
  BY <1>2, <1>9 DEF FetchFails
<1>10. CASE EndRefresh \/ UNCHANGED vars
  BY <1>2, <1>10 DEF EndRefresh, vars, fetchVars
<1> QED
  BY <1>1, <1>3, <1>4, <1>5, <1>6, <1>7, <1>8, <1>9, <1>10
     DEF Next, FetchStep, AnalyseStep

\* The analysis of a stored block is that of another block only where a
\* reorganisation replaced the block (AnalysisBelongs): hashes and statistics
\* are fetched by height at different moments, and all of them are the height's
\* one block (SoleInv) unless the height is among the replaced.
THEOREM AnalysisOfItsBlock == Spec => []AnalysisBelongs
<1> DEFINE IInv == TypeOK /\ InRange /\ SoleInv
<1>1. Init => IInv
  <2> SUFFICES ASSUME Init
               PROVE  IInv
    OBVIOUS
  <2>1. DOMAIN row = {} /\ batch = {} /\ pending = <<>> /\ DOMAIN <<>> = {}
    BY EmptySeq DEF Init
  <2>2. SoleInv
    BY <2>1 DEF SoleInv, AnalysisBelongs
  <2> QED
    BY <2>2, RangeInit
<1>2. IInv /\ [Next]_vars => IInv'
  BY RangeStep, SoleStep
<1>3. IInv => AnalysisBelongs
  BY DEF SoleInv
<1> QED
  BY <1>1, <1>2, <1>3, PTL DEF Spec

\* A block scanned once is never put back among those to be scanned, whichever
\* step comes (AnalysisKept): the upsert of StoreBatch and the update of
\* AnalyseBlock are the only writes to a row.
THEOREM AnalysisNeverUndone == Spec => AnalysisKept
<1>1. TypeOK /\ InRange /\ [Next]_vars => [\A h \in DOMAIN row : AnalysisStays(h)]_vars
  <2> SUFFICES ASSUME TypeOK, InRange, [Next]_vars, NEW h \in DOMAIN row
               PROVE  AnalysisStays(h)
    OBVIOUS
  <2>1. CASE UNCHANGED row
    BY <2>1 DEF AnalysisStays
  <2>2. ASSUME NEW from, NEW to, StoreBatch(from, to), ~UNCHANGED row
        PROVE  AnalysisStays(h)
    <3>1. /\ DOMAIN row' = DOMAIN row \cup Fetched
          /\ \A g \in DOMAIN row \ Fetched : row'[g] = row[g]
          /\ \A g \in DOMAIN row \cap Fetched : row'[g].payload = row[g].payload
      BY <2>2, StoreEffect
    <3> QED
      BY <3>1 DEF AnalysisStays
  <2>3. CASE AnalyseBlock /\ ~UNCHANGED row
    <3>1. /\ DOMAIN row' = DOMAIN row
          /\ row'[h] = row[h] \/ row'[h].payload # 0
      BY <2>3, AnalyseEffect
    <3> QED
      BY <3>1 DEF AnalysisStays
  <2>4. CASE \/ \E d \in 0..MaxDepth : NewBlock(d)
             \/ Restart \/ RefreshTick \/ QuietTick \/ ScanTip \/ ScanHeader \/ EndScan
    BY <2>1, <2>4 DEF NewBlock, Restart, RefreshTick, QuietTick, ScanTip, ScanHeader,
       EndScan
  <2>5. CASE \/ ScanFails \/ RecentTip \/ SelectMissing \/ SelectPending \/ EndRefresh
             \/ UNCHANGED vars
    BY <2>1, <2>5 DEF ScanFails, RecentTip, SelectMissing, SelectPending, EndRefresh, vars
  <2>6. CASE \/ FetchBlock("recent", "store") \/ FetchBlock("fetchMissing", "storeMissing")
             \/ FetchFails("recent", "idle") \/ FetchFails("fetchMissing", "select")
    BY <2>1, <2>6 DEF FetchBlock, FetchFails
  <2> QED
    BY <2>1, <2>2, <2>3, <2>4, <2>5, <2>6 DEF Next, FetchStep, AnalyseStep
<1>2. Init => TypeOK /\ InRange
  BY RangeInit
<1>3. (TypeOK /\ InRange) /\ [Next]_vars => (TypeOK /\ InRange)'
  BY RangeStep
<1> QED
  BY <1>1, <1>2, <1>3, PTL DEF Spec, AnalysisKept

-----------------------------------------------------------------------------
(* A refresh without failures.                                              *)

\* As long as chain and table stay, so do the heights a refresh is after.
LEMMA SameHeights ==
  ASSUME UNCHANGED <<nodeVars, row>>
  PROVE  /\ Tip' = Tip /\ chain' = chain /\ row' = row
         /\ SignallingHeights(Tip)' = SignallingHeights(Tip)
         /\ Unstored(SignallingHeights(Tip))' = Unstored(SignallingHeights(Tip))
         /\ InWindow' = InWindow /\ Mirrored' = Mirrored
         /\ (PeriodStart(Tip)..Tip)' = PeriodStart(Tip)..Tip
<1>1. chain' = chain /\ row' = row /\ Tip' = Tip
  BY DEF nodeVars, Tip
<1>2. SignallingHeights(Tip)' = SignallingHeights(Tip)
  BY <1>1 DEF SignallingHeights, At, PeriodStart
<1>3. Unstored(SignallingHeights(Tip))' = Unstored(SignallingHeights(Tip))
  BY <1>1, <1>2 DEF Unstored
<1>4. InWindow' = InWindow
  BY <1>1 DEF InWindow
<1>5. Mirrored' = Mirrored
  BY <1>1, <1>4 DEF Mirrored, At
<1>6. (PeriodStart(Tip)..Tip)' = PeriodStart(Tip)..Tip
  BY <1>1 DEF PeriodStart
<1> QED
  BY <1>1, <1>2, <1>3, <1>4, <1>5, <1>6

LEMMA SignallingOnChain ==
  ASSUME TypeOK, InRange
  PROVE  /\ SignallingHeights(Tip) \subseteq PeriodStart(Tip)..Tip
         /\ Unstored(SignallingHeights(Tip)) \subseteq 0..Tip
         /\ IsFiniteSet(Unstored(SignallingHeights(Tip)))
         /\ Cardinality(Unstored(SignallingHeights(Tip))) \in Nat
         /\ PeriodStart(Tip) \in 0..Tip
<1>1. Tip \in Nat /\ PeriodStart(Tip) \in 0..Tip
  BY AtHand, PeriodStarts
<1>2. /\ SignallingHeights(Tip) \subseteq PeriodStart(Tip)..Tip
      /\ Unstored(SignallingHeights(Tip)) \subseteq 0..Tip
  BY <1>1 DEF SignallingHeights, Unstored
<1>3. IsFiniteSet(0..Tip)
  <2>1. 0 \in Int /\ Tip \in Int
    BY <1>1
  <2> QED
    BY <2>1, FS_Interval
<1>4. IsFiniteSet(Unstored(SignallingHeights(Tip)))
  BY <1>2, <1>3, FS_Subset
<1> QED
  BY <1>1, <1>2, <1>4, FS_CardinalityType

\* A new block ends what a scan or a refresh has promised of the tip.
LEMMA RefreshNewBlock ==
  ASSUME TypeOK, InRange, ScanInv, RefreshInv, NEW d \in Nat, NewBlock(d)
  PROVE  ScanInv' /\ RefreshInv'
<1>1. Tip' = Tip + 1 /\ Tip \in Nat
  BY RangeNewBlock, AtHand
<1>2. UNCHANGED <<cached, refreshed, pc, tip, heights, batch, failed>>
  BY DEF NewBlock, cacheVars, fetchVars
<1>3. tip \in Int /\ cached \in Int /\ tip <= Tip /\ cached <= Tip
  BY DEF TypeOK, InRange, Height
<1>4. tip' # Tip' /\ cached' # Tip'
  BY <1>1, <1>2, <1>3
<1>5. ScanInv'
  BY <1>2, <1>4 DEF ScanInv
<1>6. RefreshInv'
  BY <1>2, <1>4 DEF RefreshInv
<1> QED
  BY <1>5, <1>6

\* A failed call promises nothing; neither does a callback at these positions.
LEMMA RefreshPromisesNothing ==
  ASSUME batch' = {}, failed' = TRUE \/ cached' # Tip' \/ pc' \in {"scan", "headers"}
                     \/ (pc' = "idle" /\ refreshed' = FALSE)
  PROVE  RefreshInv'
<1>1. CASE failed' = TRUE \/ cached' # Tip'
  BY <1>1 DEF RefreshInv
<1>2. CASE pc' \in {"scan", "headers"}
  BY <1>2 DEF RefreshInv
<1>3. CASE pc' = "idle" /\ refreshed' = FALSE
  <2>1. pc' = "idle" /\ ~refreshed'
    BY <1>3
  <2> QED
    BY <2>1 DEF RefreshInv
<1> QED
  BY <1>1, <1>2, <1>3

LEMMA ScanStep ==
  ASSUME TypeOK, InRange, ScanInv, RefreshInv, [Next]_vars
  PROVE  ScanInv'
<1>1. ASSUME NEW d \in 0..MaxDepth, NewBlock(d)
      PROVE  ScanInv'
  BY <1>1, RefreshNewBlock, Parameters
<1>2. CASE pc' \notin {"scan", "headers"}
  BY <1>2 DEF ScanInv
<1>3. CASE RefreshTick
  BY <1>3 DEF RefreshTick, ScanInv
<1>4. CASE ScanTip
  <2>1. /\ UNCHANGED <<nodeVars, row>> /\ pc = "scan" /\ pc' = "headers"
        /\ heights' = heights
        /\ backlog' = Cardinality(Unstored(SignallingHeights(Tip)))
    BY <1>4 DEF ScanTip
  <2>2. heights' = {} /\ Wanted' = PeriodStart(Tip)..Tip
    BY <1>4, <2>1, ScanList DEF ScanInv
  <2>3. /\ SignallingHeights(Tip) \subseteq PeriodStart(Tip)..Tip
        /\ Cardinality(Unstored(SignallingHeights(Tip))) <= backlog'
    BY <2>1, SignallingOnChain
  <2>4. /\ Wanted' \subseteq (PeriodStart(Tip)..Tip)'
        /\ heights' \subseteq SignallingHeights(Tip)'
        /\ SignallingHeights(Tip)' \subseteq heights' \cup Wanted'
        /\ Cardinality(Unstored(SignallingHeights(Tip))') <= backlog'
    BY <2>1, <2>2, <2>3, SameHeights
  <2> QED
    BY <2>1, <2>4 DEF ScanInv
<1>5. CASE ScanHeader
  <2>1. /\ UNCHANGED <<nodeVars, row, pc, tip, backlog>> /\ pc = "headers"
        /\ want # <<>> /\ want' = Tail(want)
        /\ heights' = heights \cup {h \in {Head(want)} : At(h) \in Signalling}
    BY <1>5 DEF ScanHeader
  <2>2. Wanted = {Head(want)} \cup Wanted'
    <3>1. Wanted = {Head(want)} \cup {want'[i] : i \in DOMAIN want'}
      BY <2>1, NextWanted
    <3> QED
      BY <3>1 DEF Wanted
  <2>3. ASSUME tip' = Tip'
        PROVE  /\ Wanted' \subseteq (PeriodStart(Tip)..Tip)'
               /\ heights' \subseteq SignallingHeights(Tip)'
               /\ SignallingHeights(Tip)' \subseteq heights' \cup Wanted'
               /\ Cardinality(Unstored(SignallingHeights(Tip))') <= backlog'
    <3>1. tip = Tip
      BY <2>1, <2>3, SameHeights
    <3>2. /\ Wanted \subseteq PeriodStart(Tip)..Tip
          /\ heights \subseteq SignallingHeights(Tip)
          /\ SignallingHeights(Tip) \subseteq heights \cup Wanted
          /\ Cardinality(Unstored(SignallingHeights(Tip))) <= backlog
      BY <2>1, <3>1 DEF ScanInv
    <3>3. Head(want) \in PeriodStart(Tip)..Tip
      BY <2>2, <3>2
    <3>4. /\ At(Head(want)) \in Signalling => Head(want) \in SignallingHeights(Tip)
          /\ At(Head(want)) \notin Signalling => Head(want) \notin SignallingHeights(Tip)
      BY <3>3 DEF SignallingHeights
    <3>5. heights' \subseteq SignallingHeights(Tip)
      BY <2>1, <3>2, <3>4
    <3>6. SignallingHeights(Tip) \subseteq heights' \cup Wanted'
      BY <2>1, <2>2, <3>2, <3>4
    <3> QED
      BY <2>1, <2>2, <3>2, <3>5, <3>6, SameHeights
  <2> QED
    BY <2>1, <2>3 DEF ScanInv
<1>6. CASE UNCHANGED vars
  <2>1. UNCHANGED <<nodeVars, row, pc, tip, heights, want, backlog>>
    BY <1>6 DEF vars, fetchVars
  <2>2. Wanted' = Wanted
    BY <2>1 DEF Wanted
  <2>3. pc' = "scan" => heights' = {}
    BY <2>1 DEF ScanInv
  <2>4. ASSUME pc' = "headers", tip' = Tip'
        PROVE  /\ Wanted' \subseteq (PeriodStart(Tip)..Tip)'
               /\ heights' \subseteq SignallingHeights(Tip)'
               /\ SignallingHeights(Tip)' \subseteq heights' \cup Wanted'
               /\ Cardinality(Unstored(SignallingHeights(Tip))') <= backlog'
    <3>1. tip = Tip /\ pc = "headers"
      BY <2>1, <2>4, SameHeights
    <3> QED
      BY <2>1, <2>2, <3>1, SameHeights DEF ScanInv
  <2> QED
    BY <2>3, <2>4 DEF ScanInv
<1>7. CASE \/ Restart \/ QuietTick \/ EndScan \/ ScanFails \/ RecentTip
           \/ SelectMissing \/ SelectPending \/ AnalyseBlock \/ EndRefresh
  BY <1>2, <1>7 DEF Restart, QuietTick, EndScan, ScanFails, RecentTip, SelectMissing,
     SelectPending, AnalyseBlock, EndRefresh
<1>8. CASE \/ FetchBlock("recent", "store") \/ FetchBlock("fetchMissing", "storeMissing")
           \/ FetchFails("recent", "idle") \/ FetchFails("fetchMissing", "select")
           \/ StoreBatch("store", "backfill") \/ StoreBatch("storeMissing", "select")
  <2>1. pc' \in {"recent", "store", "fetchMissing", "storeMissing", "idle", "select",
                 "backfill"}
    BY <1>8 DEF FetchBlock, FetchFails, StoreBatch
  <2> QED
    BY <1>2, <2>1
<1> QED
  BY <1>1, <1>3, <1>4, <1>5, <1>6, <1>7, <1>8 DEF Next, FetchStep, AnalyseStep

\* What RefreshInv says at each position of a refresh that has not failed.
LEMMA RefreshHolds ==
  ASSUME RefreshInv, ~failed, cached = Tip
  PROVE  /\ pc \in {"recent", "store", "fetchMissing", "storeMissing"} =>
              \A e \in batch : e[2] = At(e[1])
         /\ pc \in {"window", "recent", "store", "backfill"} =>
              /\ heights = SignallingHeights(Tip)
              /\ Cardinality(Unstored(SignallingHeights(Tip))) <= backlog
         /\ pc = "recent" => InWindow \subseteq Wanted \cup Fetched
         /\ pc = "store" => InWindow \subseteq Fetched
         /\ pc \in {"backfill", "fetchMissing", "storeMissing", "select", "analyse"} =>
              Mirrored
         /\ pc = "fetchMissing" => Shrunk(Wanted \cup Fetched)
         /\ pc = "storeMissing" => Shrunk(Fetched)
         /\ pc \in {"select", "analyse"} => Shrunk({})
         /\ pc = "idle" /\ refreshed => Mirrored /\ Shrunk({})
BY DEF RefreshInv

\* The fetch of the newest blocks, and that of the missing ones.
LEMMA RefreshFetch ==
  ASSUME TypeOK, InRange, RefreshInv, NEW from, NEW to, FetchBlock(from, to),
         <<from, to>> \in {<<"recent", "store">>, <<"fetchMissing", "storeMissing">>}
  PROVE  RefreshInv'
<1>1. /\ pc = from /\ UNCHANGED <<nodeVars, row, cached, refreshed, heights, failed,
                                 backlog>>
      /\ pc' = from \/ (pc' = to /\ Wanted = {})
      /\ \/ /\ Fetched' = Fetched \cup {Head(want)} /\ Wanted = {Head(want)} \cup Wanted'
            /\ batch' = batch \cup {<<Head(want), At(Head(want))>>}
         \/ /\ batch' = batch /\ Fetched' = Fetched /\ Wanted' = Wanted
  <2>1. UNCHANGED <<cached, refreshed>>
    BY DEF FetchBlock, cacheVars
  <2> QED
    BY <2>1, FetchEffect
<1>2. Wanted' \cup Fetched' = Wanted \cup Fetched
  BY <1>1
<1>3. ASSUME ~failed', cached' = Tip'
      PROVE  /\ ~failed /\ cached = Tip /\ \A e \in batch' : e[2] = chain'[e[1] + 1]
             /\ from = "recent" =>
                  /\ heights = SignallingHeights(Tip)
                  /\ Cardinality(Unstored(SignallingHeights(Tip))) <= backlog
                  /\ InWindow \subseteq Wanted \cup Fetched
             /\ from = "fetchMissing" => Mirrored /\ Shrunk(Wanted \cup Fetched)
  <2>1. ~failed /\ cached = Tip
    BY <1>1, <1>3, SameHeights
  <2>2. \A e \in batch : e[2] = chain[e[1] + 1]
    BY <1>1, <2>1, RefreshHolds DEF At
  <2>3. \A e \in batch' : e[2] = chain[e[1] + 1]
    <3> DEFINE new == <<Head(want), At(Head(want))>>
    <3>1. new[2] = chain[new[1] + 1]
      BY DEF At
    <3>2. batch' = batch \cup {new} \/ batch' = batch
      BY <1>1
    <3> HIDE DEF new
    <3> QED
      BY <2>2, <3>1, <3>2
  <2> QED
    BY <1>1, <2>1, <2>3, RefreshHolds, SameHeights
<1>4. CASE from = "recent"
  <2>1. to = "store" /\ pc' \in {"recent", "store"}
    BY <1>1, <1>4
  <2>2. ASSUME ~failed', cached' = Tip'
        PROVE  /\ \A e \in batch' : e[2] = At(e[1])'
               /\ heights' = SignallingHeights(Tip)'
               /\ Cardinality(Unstored(SignallingHeights(Tip))') <= backlog'
               /\ pc' = "recent" => InWindow' \subseteq Wanted' \cup Fetched'
               /\ pc' = "store" => InWindow' \subseteq Fetched'
    <3>1. InWindow' \subseteq Wanted' \cup Fetched'
      BY <1>1, <1>2, <1>3, <1>4, <2>2, SameHeights
    <3>2. pc' = "store" => Wanted' = {}
      BY <1>1, <1>4
    <3>3. /\ heights' = SignallingHeights(Tip)'
          /\ Cardinality(Unstored(SignallingHeights(Tip))') <= backlog'
      BY <1>1, <1>3, <1>4, <2>2, SameHeights
    <3>4. \A e \in batch' : e[2] = At(e[1])'
      BY <1>3, <2>2 DEF At
    <3> QED
      BY <3>1, <3>2, <3>3, <3>4
  <2> QED
    BY <2>1, <2>2 DEF RefreshInv
<1>5. CASE from = "fetchMissing"
  <2>1. to = "storeMissing" /\ pc' \in {"fetchMissing", "storeMissing"}
    BY <1>1, <1>5
  <2>2. ASSUME ~failed', cached' = Tip'
        PROVE  /\ \A e \in batch' : e[2] = At(e[1])'
               /\ Mirrored'
               /\ pc' = "fetchMissing" => Shrunk(Wanted \cup Fetched)'
               /\ pc' = "storeMissing" => Shrunk(Fetched)'
    <3>1. Mirrored' /\ Shrunk(Wanted \cup Fetched)
      BY <1>1, <1>3, <1>5, <2>2, SameHeights
    <3>2. Cardinality(Unstored(SignallingHeights(Tip))' \ (Wanted' \cup Fetched')) <=
            IF backlog' > Backfill THEN backlog' - Backfill ELSE 0
      BY <1>1, <1>2, <3>1, SameHeights DEF Shrunk
    <3>3. pc' = "storeMissing" => Wanted' \cup Fetched' = Fetched'
      BY <1>1, <1>5
    <3>4. \A e \in batch' : e[2] = At(e[1])'
      BY <1>3, <2>2 DEF At
    <3> QED
      BY <3>1, <3>2, <3>3, <3>4 DEF Shrunk
  <2> QED
    BY <2>1, <2>2 DEF RefreshInv
<1> QED
  BY <1>4, <1>5

\* The newest blocks are stored.
LEMMA RefreshStoreRecent ==
  ASSUME TypeOK, InRange, RefreshInv, StoreBatch("store", "backfill")
  PROVE  RefreshInv'
<1>1. /\ pc = "store" /\ pc' = "backfill" /\ batch' = {}
      /\ UNCHANGED <<nodeVars, cacheVars, tip, heights, want, pending, restarts, backlog>>
  BY StoreEffect
<1>2. UNCHANGED <<chain, cached, heights>> /\ Tip' = Tip /\ InWindow' = InWindow
  BY <1>1 DEF nodeVars, cacheVars, Tip, InWindow
<1>3. SUFFICES ASSUME ~failed', cached' = Tip'
               PROVE  /\ heights' = SignallingHeights(Tip)'
                      /\ Cardinality(Unstored(SignallingHeights(Tip))') <= backlog'
                      /\ Mirrored'
  BY <1>1 DEF RefreshInv
<1>4. /\ failed' = failed /\ DOMAIN row' = DOMAIN row \cup Fetched
      /\ \A h \in Fetched : <<h, row'[h].hash>> \in batch
  BY <1>3, StoreEffect
<1>5. ~failed /\ cached = Tip
  BY <1>2, <1>3, <1>4
<1>6. /\ \A e \in batch : e[2] = At(e[1])
      /\ heights = SignallingHeights(Tip)
      /\ Cardinality(Unstored(SignallingHeights(Tip))) <= backlog
      /\ InWindow \subseteq Fetched
  BY <1>1, <1>5, RefreshHolds
<1>7. SignallingHeights(Tip)' = SignallingHeights(Tip)
  BY <1>2 DEF SignallingHeights, At, PeriodStart
<1>8. Cardinality(Unstored(SignallingHeights(Tip))') <= backlog'
  <2> DEFINE U == Unstored(SignallingHeights(Tip))
             V == Unstored(SignallingHeights(Tip))'
  <2>1. V \subseteq U
    BY <1>4, <1>7 DEF Unstored
  <2>2. IsFiniteSet(U) /\ Cardinality(U) \in Nat
    BY SignallingOnChain
  <2>3. Cardinality(U) <= backlog /\ backlog' = backlog /\ backlog \in Nat
    BY <1>1, <1>6 DEF TypeOK
  <2> HIDE DEF U, V
  <2>4. IsFiniteSet(V) /\ Cardinality(V) <= Cardinality(U)
    BY <2>1, <2>2, FS_Subset
  <2>5. Cardinality(V) \in Nat
    BY <2>4, FS_CardinalityType
  <2>6. Cardinality(V) <= backlog'
    BY <2>2, <2>3, <2>4, <2>5
  <2> QED
    BY <2>6 DEF V
<1>9. ASSUME NEW h \in InWindow
      PROVE  h \in DOMAIN row' /\ row'[h].hash = chain'[h + 1]
  <2>1. <<h, row'[h].hash>> \in batch
    BY <1>4, <1>6
  <2>2. <<h, row'[h].hash>>[2] = At(<<h, row'[h].hash>>[1])
    BY <1>6, <2>1
  <2> QED
    BY <1>2, <1>4, <1>6, <2>2 DEF At
<1>10. Mirrored'
  BY <1>2, <1>9 DEF Mirrored, At
<1> QED
  BY <1>2, <1>6, <1>7, <1>8, <1>10

\* The missing signalling blocks are stored.
LEMMA RefreshStoreMissing ==
  ASSUME TypeOK, InRange, RefreshInv, StoreBatch("storeMissing", "select")
  PROVE  RefreshInv'
<1>1. /\ pc = "storeMissing" /\ pc' = "select" /\ batch' = {}
      /\ UNCHANGED <<nodeVars, cacheVars, tip, heights, want, pending, restarts, backlog>>
  BY StoreEffect
<1>2. UNCHANGED <<chain, cached, backlog>> /\ Tip' = Tip /\ InWindow' = InWindow
  BY <1>1 DEF nodeVars, cacheVars, Tip, InWindow
<1>3. SUFFICES ASSUME ~failed', cached' = Tip'
               PROVE  Mirrored' /\ Shrunk({})'
  BY <1>1 DEF RefreshInv
<1>4. /\ failed' = failed /\ DOMAIN row' = DOMAIN row \cup Fetched
      /\ \A h \in DOMAIN row \ Fetched : row'[h] = row[h]
      /\ \A h \in Fetched : <<h, row'[h].hash>> \in batch
  BY <1>3, StoreEffect
<1>5. ~failed /\ cached = Tip
  BY <1>2, <1>3, <1>4
<1>6. Mirrored /\ Shrunk(Fetched) /\ \A e \in batch : e[2] = At(e[1])
  BY <1>1, <1>5, RefreshHolds
<1>7. ASSUME NEW h \in InWindow
      PROVE  h \in DOMAIN row' /\ row'[h].hash = chain'[h + 1]
  <2>1. h \in DOMAIN row /\ row[h].hash = chain[h + 1]
    BY <1>6 DEF Mirrored, At
  <2>2. CASE h \in Fetched
    <3>1. <<h, row'[h].hash>> \in batch
      BY <1>4, <2>2
    <3>2. <<h, row'[h].hash>>[2] = At(<<h, row'[h].hash>>[1])
      BY <1>6, <3>1
    <3> QED
      BY <1>2, <1>4, <2>2, <3>2 DEF At
  <2>3. CASE h \notin Fetched
    BY <1>2, <1>4, <2>1, <2>3
  <2> QED
    BY <2>2, <2>3
<1>8. Mirrored'
  BY <1>2, <1>7 DEF Mirrored, At
<1>9. SignallingHeights(Tip)' = SignallingHeights(Tip)
  BY <1>2 DEF SignallingHeights, At, PeriodStart
<1>10. Unstored(SignallingHeights(Tip))' \ {} = Unstored(SignallingHeights(Tip)) \ Fetched
  BY <1>4, <1>9 DEF Unstored
<1>11. Shrunk({})'
  BY <1>2, <1>6, <1>10 DEF Shrunk
<1> QED
  BY <1>8, <1>11

\* The missing signalling blocks are chosen.
LEMMA RefreshSelectMissing ==
  ASSUME TypeOK, InRange, RefreshInv, SelectMissing
  PROVE  RefreshInv'
<1>1. /\ pc = "backfill" /\ pc' \in {"select", "fetchMissing"}
      /\ UNCHANGED <<nodeVars, row, cached, heights, batch, backlog>>
      /\ failed' = failed \/ failed' = TRUE
      /\ pc' = "select" => want' = <<>>
  BY DEF SelectMissing, cacheVars
<1>2. batch = {} /\ batch' = {} /\ Fetched' = {}
  BY <1>1 DEF RefreshInv, Fetched
<1>3. SUFFICES ASSUME ~failed', cached' = Tip'
               PROVE  /\ Mirrored' /\ Shrunk(Wanted \cup Fetched)'
                      /\ pc' = "select" => Shrunk({})'
  BY <1>1, <1>2 DEF RefreshInv
<1>4. ~failed /\ cached = Tip /\ want' = BackfillBatch(Unstored(heights))
  BY <1>1, <1>3, SameHeights DEF SelectMissing
<1> DEFINE U == Unstored(SignallingHeights(Tip))
           B == BackfillBatch(U)
           rest == Cardinality(U \ Listed(B))
<1>5. Mirrored /\ heights = SignallingHeights(Tip) /\ Cardinality(U) <= backlog
  BY <1>1, <1>4, RefreshHolds
<1>6. rest <= IF Cardinality(U) > Backfill THEN Cardinality(U) - Backfill ELSE 0
  BY <1>5, MissingList
<1>7. want' = B /\ Wanted' = Listed(B)
  BY <1>4, <1>5 DEF Wanted, Listed
<1>8. U' = U
  BY <1>1, SameHeights
<1>9. IsFiniteSet(U) /\ Cardinality(U) \in Nat
  BY SignallingOnChain
<1>10. rest \in Nat
  <2> HIDE DEF U, B
  <2>1. IsFiniteSet(U \ Listed(B))
    BY <1>9, FS_Subset
  <2> QED
    BY <2>1, FS_CardinalityType
<1>11. rest <= IF backlog > Backfill THEN backlog - Backfill ELSE 0
  <2>1. backlog \in Nat /\ Backfill \in Nat
    BY Parameters DEF TypeOK
  <2> HIDE DEF U, rest
  <2> QED
    BY <1>5, <1>6, <1>9, <1>10, <2>1
<1>12. Wanted' \cup Fetched' = Listed(B)
  BY <1>2, <1>7
<1>13. Shrunk(Wanted \cup Fetched)'
  <2>1. backlog' = backlog
    BY <1>1
  <2> HIDE DEF B
  <2> QED
    BY <1>8, <1>11, <1>12, <2>1 DEF Shrunk
<1>14. ASSUME pc' = "select"
       PROVE  Shrunk({})'
  <2>1. Wanted' = {}
    BY <1>1, <1>14 DEF Wanted
  <2>2. Wanted' \cup Fetched' = {}
    BY <1>2, <2>1
  <2> QED
    BY <1>13, <2>2 DEF Shrunk
<1> QED
  BY <1>1, <1>5, <1>13, <1>14, SameHeights

\* The analysis touches neither hashes nor the set of stored heights.
LEMMA SameHashes ==
  ASSUME UNCHANGED nodeVars, DOMAIN row' = DOMAIN row,
         \A h \in DOMAIN row : row'[h].hash = row[h].hash
  PROVE  /\ Tip' = Tip
         /\ Mirrored => Mirrored'
         /\ Unstored(SignallingHeights(Tip))' = Unstored(SignallingHeights(Tip))
<1>1. chain' = chain /\ Tip' = Tip
  BY DEF nodeVars, Tip
<1>2. InWindow' = InWindow
  BY <1>1 DEF InWindow
<1>3. Mirrored => Mirrored'
  BY <1>1, <1>2 DEF Mirrored, At
<1>4. SignallingHeights(Tip)' = SignallingHeights(Tip)
  BY <1>1 DEF SignallingHeights, At, PeriodStart
<1>5. Unstored(SignallingHeights(Tip))' = Unstored(SignallingHeights(Tip))
  BY <1>4 DEF Unstored
<1> QED
  BY <1>1, <1>3, <1>5

\* The end of a refresh, from the choice of the blocks to analyse on.
LEMMA RefreshAnalyse ==
  ASSUME TypeOK, InRange, RefreshInv, SelectPending \/ AnalyseBlock \/ EndRefresh
  PROVE  RefreshInv'
<1>1. /\ pc \in {"select", "analyse"} /\ pc' \in {"analyse", "idle"}
      /\ UNCHANGED <<nodeVars, cached, refreshed, batch, backlog>>
      /\ failed' = failed \/ failed' = TRUE
  BY DEF SelectPending, AnalyseBlock, EndRefresh, cacheVars
<1>2. batch' = {}
  BY <1>1 DEF RefreshInv
<1>3. DOMAIN row' = DOMAIN row /\ \A h \in DOMAIN row : row'[h].hash = row[h].hash
  <2>1. CASE UNCHANGED row
    BY <2>1
  <2>2. CASE ~UNCHANGED row
    <3>1. AnalyseBlock
      BY <2>2 DEF SelectPending, EndRefresh
    <3>2. /\ DOMAIN row' = DOMAIN row
          /\ \A h \in DOMAIN row : row'[h] = row[h] \/ row'[h].hash = row[h].hash
      BY <2>2, <3>1, AnalyseEffect
    <3> QED
      BY <3>2
  <2> QED
    BY <2>1, <2>2
<1>4. SUFFICES ASSUME ~failed', cached' = Tip'
               PROVE  Mirrored' /\ Shrunk({})'
  BY <1>1, <1>2 DEF RefreshInv
<1>5. ~failed /\ cached = Tip
  BY <1>1, <1>3, <1>4, SameHashes
<1>6. Mirrored /\ Shrunk({})
  BY <1>1, <1>5, RefreshHolds
<1>7. Mirrored'
  BY <1>1, <1>3, <1>6, SameHashes
<1>8. Unstored(SignallingHeights(Tip))' = Unstored(SignallingHeights(Tip))
  BY <1>1, <1>3, SameHashes
<1>9. Shrunk({})'
  BY <1>1, <1>6, <1>8 DEF Shrunk
<1> QED
  BY <1>7, <1>9

\* The scan has ended, and the newest heights are chosen.
LEMMA RefreshScanned ==
  ASSUME TypeOK, InRange, ScanInv, RefreshInv, EndScan \/ RecentTip
  PROVE  RefreshInv'
<1>1. CASE EndScan
  <2>1. /\ UNCHANGED <<nodeVars, row, heights, batch, failed, backlog>>
        /\ pc = "headers" /\ pc' = "window" /\ cached' = tip /\ want = <<>>
    BY <1>1 DEF EndScan, fetchVars
  <2>2. batch' = {}
    BY <2>1 DEF RefreshInv
  <2>3. SUFFICES ASSUME cached' = Tip'
                 PROVE  /\ heights' = SignallingHeights(Tip)'
                        /\ Cardinality(Unstored(SignallingHeights(Tip))') <= backlog'
    BY <2>1, <2>2 DEF RefreshInv
  <2>4. tip = Tip /\ Wanted = {}
    BY <2>1, <2>3, SameHeights DEF Wanted
  <2>5. /\ heights = SignallingHeights(Tip)
        /\ Cardinality(Unstored(SignallingHeights(Tip))) <= backlog
    BY <2>1, <2>4 DEF ScanInv
  <2> QED
    BY <2>1, <2>5, SameHeights
<1>2. CASE RecentTip
  <2>1. /\ UNCHANGED <<nodeVars, row, cached, heights, batch, failed, backlog>>
        /\ pc = "window" /\ pc' = "recent" /\ want' = Recent
    BY <1>2 DEF RecentTip, cacheVars
  <2>2. batch' = {}
    BY <2>1 DEF RefreshInv
  <2>3. InWindow' \subseteq Wanted' \cup Fetched'
    <3>1. Wanted' = Listed(Recent)
      BY <2>1 DEF Wanted, Listed
    <3> QED
      BY <2>1, <3>1, RecentList, SameHeights
  <2>4. SUFFICES ASSUME ~failed', cached' = Tip'
                 PROVE  /\ heights' = SignallingHeights(Tip)'
                        /\ Cardinality(Unstored(SignallingHeights(Tip))') <= backlog'
    BY <2>1, <2>2, <2>3 DEF RefreshInv
  <2>5. ~failed /\ cached = Tip
    BY <2>1, <2>4, SameHeights
  <2>6. /\ heights = SignallingHeights(Tip)
        /\ Cardinality(Unstored(SignallingHeights(Tip))) <= backlog
    BY <2>1, <2>5, RefreshHolds
  <2> QED
    BY <2>1, <2>6, SameHeights
<1> QED
  BY <1>1, <1>2

\* Nothing that RefreshInv speaks of has changed.
LEMMA RefreshUnchanged ==
  ASSUME RefreshInv, UNCHANGED vars
  PROVE  RefreshInv'
<1>1. UNCHANGED <<chain, row, cached, refreshed, pc, heights, want, batch, failed,
                  backlog>>
  BY DEF vars, nodeVars, cacheVars, fetchVars
<1> QED
  BY <1>1 DEF RefreshInv, Mirrored, Shrunk, InWindow, Unstored, SignallingHeights,
     PeriodStart, At, Tip, Wanted, Fetched

LEMMA RefreshStep ==
  ASSUME TypeOK, InRange, ScanInv, RefreshInv, [Next]_vars
  PROVE  RefreshInv'
<1>1. ASSUME NEW d \in 0..MaxDepth, NewBlock(d)
      PROVE  RefreshInv'
  BY <1>1, RefreshNewBlock, Parameters
<1>2. CASE Restart
  <2>1. batch' = {} /\ pc' = "idle" /\ refreshed' = FALSE
    BY <1>2 DEF Restart
  <2> QED
    BY <2>1, RefreshPromisesNothing
<1>3. CASE RefreshTick
  <2>1. batch' = {} /\ pc' = "scan"
    BY <1>3 DEF RefreshTick, RefreshInv
  <2> QED
    BY <2>1, RefreshPromisesNothing
<1>4. CASE QuietTick
  <2>1. /\ UNCHANGED <<nodeVars, row, cached, pc, batch, failed, backlog>>
        /\ pc = "idle" /\ refreshed /\ cached = Tip
    BY <1>4 DEF QuietTick, NeedsRefresh, fetchVars
  <2>2. batch' = {}
    BY <2>1 DEF RefreshInv
  <2>3. SUFFICES ASSUME ~failed'
                 PROVE  Mirrored' /\ Shrunk({})'
    BY <2>1, <2>2 DEF RefreshInv
  <2>4. Mirrored /\ Shrunk({})
    BY <2>1, <2>3, RefreshHolds
  <2>5. Unstored(SignallingHeights(Tip))' = Unstored(SignallingHeights(Tip))
    BY <2>1, SameHeights
  <2>6. Shrunk({})'
    BY <2>1, <2>4, <2>5 DEF Shrunk
  <2> QED
    BY <2>1, <2>4, <2>6, SameHeights
<1>5. CASE ScanTip \/ ScanHeader
  <2>1. batch' = {} /\ pc' = "headers"
    BY <1>5 DEF ScanTip, ScanHeader, RefreshInv
  <2> QED
    BY <2>1, RefreshPromisesNothing
<1>6. CASE ScanFails
  <2>1. batch' = {} /\ failed' = TRUE
    BY <1>6 DEF ScanFails, RefreshInv
  <2> QED
    BY <2>1, RefreshPromisesNothing
<1>7. CASE FetchFails("recent", "idle") \/ FetchFails("fetchMissing", "select")
  <2>1. batch' = {} /\ failed' = TRUE
    BY <1>7 DEF FetchFails
  <2> QED
    BY <2>1, RefreshPromisesNothing
<1>8. CASE FetchBlock("recent", "store")
  BY <1>8, RefreshFetch
<1>9. CASE FetchBlock("fetchMissing", "storeMissing")
  BY <1>9, RefreshFetch
<1> QED
  BY <1>1, <1>2, <1>3, <1>4, <1>5, <1>6, <1>7, <1>8, <1>9, RefreshScanned,
     RefreshStoreRecent, RefreshStoreMissing, RefreshSelectMissing, RefreshAnalyse,
     RefreshUnchanged DEF Next, FetchStep, AnalyseStep

LEMMA RefreshAlways == Spec => [](TypeOK /\ InRange /\ ScanInv /\ RefreshInv)
<1> DEFINE IInv == TypeOK /\ InRange /\ ScanInv /\ RefreshInv
<1>1. Init => IInv
  <2> SUFFICES ASSUME Init
               PROVE  IInv
    OBVIOUS
  <2>1. pc = "idle" /\ batch = {} /\ ~refreshed
    BY DEF Init
  <2>2. ScanInv /\ RefreshInv
    BY <2>1 DEF ScanInv, RefreshInv
  <2> QED
    BY <2>2, RangeInit
<1>2. IInv /\ [Next]_vars => IInv'
  BY RangeStep, ScanStep, RefreshStep
<1> QED
  BY <1>1, <1>2, PTL DEF Spec

\* After a refresh without failures the newest blocks are in the table under the
\* hashes of the active chain, whatever came between the callback's calls
\* (WindowMirrorsChain): a block that comes makes the tip another than the one
\* scanned, so while they are the same all that was fetched is on the chain.
THEOREM TableMirrorsChain == Spec => []WindowMirrorsChain
<1>1. TypeOK /\ InRange /\ ScanInv /\ RefreshInv => WindowMirrorsChain
  <2> SUFFICES ASSUME RefreshInv, Settled
               PROVE  \A h \in 0..Tip : h > Tip - Window =>
                        h \in DOMAIN row /\ row[h].hash = At(h)
    BY DEF WindowMirrorsChain
  <2>1. Mirrored
    BY RefreshHolds DEF Settled
  <2> QED
    BY <2>1 DEF Mirrored, InWindow
<1> QED
  BY <1>1, RefreshAlways, PTL

\* A refresh without failures stores the period's missing signalling blocks, or
\* as many of them as one batch holds (BacklogShrinks), whatever the period,
\* the batch and the signalling blocks.
THEOREM BacklogAlwaysShrinks == Spec => []BacklogShrinks
<1>1. TypeOK /\ InRange /\ ScanInv /\ RefreshInv => BacklogShrinks
  <2> SUFFICES ASSUME RefreshInv, Settled
               PROVE  Cardinality(Unstored(SignallingHeights(Tip))) <=
                        IF backlog > Backfill THEN backlog - Backfill ELSE 0
    BY DEF BacklogShrinks
  <2>1. Shrunk({})
    BY RefreshHolds DEF Settled
  <2>2. Unstored(SignallingHeights(Tip)) \ {} = Unstored(SignallingHeights(Tip))
    OBVIOUS
  <2> QED
    BY <2>1, <2>2 DEF Shrunk
<1> QED
  BY <1>1, RefreshAlways, PTL
=============================================================================
