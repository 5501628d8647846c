-------------------------- MODULE BlockCacheProofs --------------------------
(***************************************************************************)
(* Facts about the block cache's operators, for every cache and every      *)
(* height: what the lookups return and what add_block and rollback keep.   *)
(***************************************************************************)
EXTENDS BlockCacheOps, SequenceTheorems, WellFoundedInduction, TLAPS

\* A nonempty set of naturals has a least element.
LEMMA LeastNatural ==
  ASSUME NEW T, T \subseteq Nat, T # {}
  PROVE  \E x \in T : \A y \in T : x <= y
<1>1. PICK x \in T : \A y \in T : ~ (<<y, x>> \in OpToRel(<, Nat))
  BY WFMin, NatLessThanWellFounded
<1>2. \A y \in T : ~ (y < x)
  BY <1>1 DEF OpToRel
<1>. QED
  BY <1>2

\* A nonempty bounded set of naturals has a greatest element.
LEMMA GreatestNatural ==
  ASSUME NEW n \in Nat, NEW T, T \subseteq 0 .. n, T # {}
  PROVE  \E x \in T : \A y \in T : y <= x
<1>. DEFINE U == {n - x : x \in T}
<1>0. PICK t \in T : TRUE
  OBVIOUS
<1>1. U \subseteq Nat /\ U # {}
  <2>1. \A x \in T : n - x \in Nat
    OBVIOUS
  <2>2. n - t \in U
    BY <1>0
  <2>. QED
    BY <2>1, <2>2
<1>2. PICK u \in U : \A v \in U : u <= v
  BY <1>1, LeastNatural
<1>3. PICK x \in T : u = n - x
  BY <1>2
<1>4. \A y \in T : n - x <= n - y
  BY <1>2, <1>3
<1>. QED
  BY <1>4

\* The lookups find a cached block of the height asked for, and the first one.
LEMMA FirstPositionFound ==
  ASSUME NEW S, NEW blocks \in Seq(S), NEW k, HasHeight(blocks, k)
  PROVE  /\ FirstPosition(blocks, k) \in 1 .. Len(blocks)
         /\ blocks[FirstPosition(blocks, k)].height = k
         /\ \A i \in 1 .. FirstPosition(blocks, k) - 1 : blocks[i].height # k
<1>1. DOMAIN blocks = 1 .. Len(blocks) /\ Len(blocks) \in Nat
  BY LenProperties
<1>2. Positions(blocks, k) \subseteq Nat /\ Positions(blocks, k) # {}
  BY <1>1 DEF Positions, HasHeight
<1>3. \E i \in Positions(blocks, k) : \A j \in Positions(blocks, k) : i <= j
  BY <1>2, LeastNatural
<1>4. /\ FirstPosition(blocks, k) \in Positions(blocks, k)
      /\ \A j \in Positions(blocks, k) : FirstPosition(blocks, k) <= j
  BY <1>3 DEF FirstPosition
<1>. QED
  BY <1>1, <1>4 DEF Positions

\* add_block: the newest block is last, the others keep their order, and a
\* cache within its size stays within it.
LEMMA AddBlockProperties ==
  ASSUME NEW S, NEW blocks \in Seq(S), NEW b \in S,
         NEW n \in Nat \ {0}, Len(blocks) <= n
  PROVE  LET new == AddBlock(blocks, b, n) IN
         /\ new \in Seq(S)
         /\ Len(new) <= n
         /\ Len(new) >= 1
         /\ new[Len(new)] = b
         /\ \E s \in {0, 1} :
              /\ Len(new) = Len(blocks) + 1 - s
              /\ \A i \in 1 .. Len(new) - 1 : new[i] = blocks[i + s]
<1>. DEFINE long == Append(blocks, b)
<1>1. /\ long \in Seq(S) /\ Len(long) = Len(blocks) + 1 /\ Len(blocks) \in Nat
      /\ \A i \in 1 .. Len(blocks) : long[i] = blocks[i]
      /\ long[Len(blocks) + 1] = b
      /\ long # << >>
  BY AppendProperties, LenProperties
<1>2. CASE Len(blocks) + 1 > n
  <2>1. /\ Tail(long) \in Seq(S)
        /\ Len(Tail(long)) = Len(blocks)
        /\ \A i \in 1 .. Len(Tail(long)) : Tail(long)[i] = long[i + 1]
    BY <1>1, HeadTailProperties
  <2>2. AddBlock(blocks, b, n) = Tail(long)
    BY <1>2 DEF AddBlock
  <2>3. Len(blocks) = n /\ n >= 1
    BY <1>1, <1>2
  <2>. QED
    BY <1>1, <2>1, <2>2, <2>3
<1>3. CASE ~ (Len(blocks) + 1 > n)
  <2>1. AddBlock(blocks, b, n) = long
    BY <1>3 DEF AddBlock
  <2>. QED
    BY <1>1, <1>3, <2>1
<1>. QED
  BY <1>2, <1>3

\* rollback: a prefix that ends at the height rolled back to.
LEMMA RollbackProperties ==
  ASSUME NEW S, NEW blocks \in Seq(S), NEW k, HasHeight(blocks, k)
  PROVE  LET new == Rollback(blocks, k) IN
         /\ new \in Seq(S)
         /\ Len(new) \in 1 .. Len(blocks)
         /\ \A i \in 1 .. Len(new) : new[i] = blocks[i]
         /\ new[Len(new)].height = k
<1>. DEFINE p == FirstPosition(blocks, k)
<1>1. p \in 1 .. Len(blocks) /\ blocks[p].height = k
  BY FirstPositionFound
<1>2. Len(blocks) \in Nat /\ \A i \in 1 .. p : blocks[i] \in S
  BY <1>1, ElementOfSeq, LenProperties
<1>3. /\ SubSeq(blocks, 1, p) \in Seq(S)
      /\ Len(SubSeq(blocks, 1, p)) = p
      /\ \A i \in 1 .. p : SubSeq(blocks, 1, p)[i] = blocks[i]
  BY <1>1, <1>2, SubSeqProperties
<1>. QED
  BY <1>1, <1>2, <1>3 DEF Rollback

\* find_common_ancestor: a cached height on which cache and chain agree,
\* above which they agree nowhere; None only if they agree nowhere.
LEMMA CommonAncestorProperties ==
  ASSUME NEW S, NEW T, NEW blocks \in Seq(S), NEW new \in Seq(T)
  PROVE  LET a == FindCommonAncestor(blocks, new) IN
         \/ a = NoHeight /\ CommonHeights(blocks, new) = {}
         \/ /\ a \in 0 .. Len(new) - 1
            /\ HasHeight(blocks, a)
            /\ GetBlockHash(blocks, a) = new[a + 1]
            /\ \A k \in a + 1 .. Len(new) - 1 :
                 HasHeight(blocks, k) => GetBlockHash(blocks, k) # new[k + 1]
<1>. DEFINE C == CommonHeights(blocks, new)
<1>1. Len(new) \in Nat
  BY LenProperties
<1>2. CASE C = {}
  BY <1>2 DEF FindCommonAncestor
<1>3. CASE C # {}
  <2>1. C \subseteq 0 .. Len(new) /\ C \subseteq 0 .. Len(new) - 1
    BY <1>1 DEF CommonHeights
  <2>2. \E k \in C : \A l \in C : l <= k
    BY <1>1, <1>3, <2>1, GreatestNatural
  <2>3. /\ FindCommonAncestor(blocks, new) \in C
        /\ \A l \in C : l <= FindCommonAncestor(blocks, new)
    BY <1>3, <2>2 DEF FindCommonAncestor
  <2>. QED
    BY <1>1, <2>1, <2>3 DEF CommonHeights
<1>. QED
  BY <1>2, <1>3

\* The caches the queries are meant for; the synchronizer's are (CacheOrdered).
Ordered(blocks) ==
  /\ \A i \in DOMAIN blocks : blocks[i].height \in Nat
  /\ \A i, j \in DOMAIN blocks : i < j => blocks[i].height < blocks[j].height

(***************************************************************************)
(* In such a cache a height is found wherever it is cached, the block of   *)
(* highest_height is the latest, the two ends bound every height, and the  *)
(* messages of a range of heights are those of neighbouring blocks: none   *)
(* of these functions looks at the order, all of them rely on it.          *)
(***************************************************************************)
THEOREM QueriesOfOrderedCache ==
  ASSUME NEW S, NEW blocks \in Seq(S), Ordered(blocks)
  PROVE  /\ \A i \in DOMAIN blocks :
              /\ GetBlockAtHeight(blocks, blocks[i].height) = blocks[i]
              /\ LowestHeight(blocks) <= blocks[i].height
              /\ blocks[i].height <= HighestHeight(blocks)
         /\ blocks # << >> =>
              GetLatestBlock(blocks) = GetBlockAtHeight(blocks, HighestHeight(blocks))
         /\ \A first, last \in Nat : \A i, j \in Between(blocks, first, last) :
              i .. j \subseteq Between(blocks, first, last)
<1>1. DOMAIN blocks = 1 .. Len(blocks) /\ Len(blocks) \in Nat
  BY LenProperties
<1>2. \A i, j \in DOMAIN blocks : i <= j => blocks[i].height <= blocks[j].height
  BY <1>1 DEF Ordered
<1>3. ASSUME NEW i \in DOMAIN blocks
      PROVE  GetBlockAtHeight(blocks, blocks[i].height) = blocks[i]
  <2>. DEFINE h == blocks[i].height
  <2>1. HasHeight(blocks, h)
    BY DEF HasHeight, Positions
  <2>2. FirstPosition(blocks, h) \in DOMAIN blocks
        /\ blocks[FirstPosition(blocks, h)].height = h
    BY <1>1, <2>1, FirstPositionFound
  <2>3. ~ (FirstPosition(blocks, h) < i) /\ ~ (i < FirstPosition(blocks, h))
    BY <2>2 DEF Ordered
  <2>4. FirstPosition(blocks, h) = i
    BY <1>1, <2>2, <2>3
  <2>. QED
    BY <2>4 DEF GetBlockAtHeight
<1>4. ASSUME blocks # << >>
      PROVE  /\ 1 \in DOMAIN blocks /\ Len(blocks) \in DOMAIN blocks
             /\ LowestHeight(blocks) = blocks[1].height
             /\ HighestHeight(blocks) = blocks[Len(blocks)].height
  <2>1. Len(blocks) >= 1
    BY <1>1, <1>4, EmptySeq
  <2>2. Head(blocks) = blocks[1]
    BY <1>4, HeadTailProperties
  <2>. QED
    BY <1>1, <1>4, <2>1, <2>2 DEF LowestHeight, HighestHeight, GetLatestBlock
<1>5. ASSUME NEW i \in DOMAIN blocks
      PROVE  LowestHeight(blocks) <= blocks[i].height
             /\ blocks[i].height <= HighestHeight(blocks)
  <2>1. blocks # << >> /\ 1 <= i /\ i <= Len(blocks)
    BY <1>1, EmptySeq
  <2>. QED
    BY <1>1, <1>2, <1>4, <2>1
<1>6. ASSUME blocks # << >>
      PROVE  GetLatestBlock(blocks) = GetBlockAtHeight(blocks, HighestHeight(blocks))
  BY <1>3, <1>4, <1>6 DEF GetLatestBlock
<1>7. ASSUME NEW first \in Nat, NEW last \in Nat,
             NEW i \in Between(blocks, first, last), NEW j \in Between(blocks, first, last),
             NEW k \in i .. j
      PROVE  k \in Between(blocks, first, last)
  <2>1. i \in DOMAIN blocks /\ j \in DOMAIN blocks /\ k \in DOMAIN blocks /\ i <= k /\ k <= j
    BY <1>1 DEF Between
  <2>2. /\ first <= blocks[i].height /\ blocks[i].height <= blocks[k].height
        /\ blocks[k].height <= blocks[j].height /\ blocks[j].height <= last
        /\ blocks[i].height \in Nat /\ blocks[j].height \in Nat /\ blocks[k].height \in Nat
    BY <1>2, <2>1 DEF Between, Ordered
  <2>3. first <= blocks[k].height /\ blocks[k].height <= last
    BY <2>2
  <2>. QED
    BY <2>1, <2>3 DEF Between
<1>. QED
  BY <1>3, <1>5, <1>6, <1>7

\* A block found by its hash is in the cache and has that hash.
LEMMA FoundByHash ==
  ASSUME NEW S, NEW blocks \in Seq(S), NEW i \in DOMAIN blocks,
         \A j \in DOMAIN blocks : blocks[j].hash = blocks[i].hash => j = i
  PROVE  GetBlockWithHash(blocks, blocks[i].hash) = blocks[i]
<1>1. DOMAIN blocks = 1 .. Len(blocks) /\ Len(blocks) \in Nat
  BY LenProperties
<1>2. \A j \in 1 .. i - 1 : j \in DOMAIN blocks /\ j # i
  BY <1>1
<1>. QED
  BY <1>2 DEF GetBlockWithHash

=============================================================================
