---------------------------- MODULE IndexProofs -----------------------------
(***************************************************************************)
(* What the operators of BlockIndex and AtomIndex compute: for every       *)
(* bitmap, every layout of the header, every sequence of atoms and every   *)
(* size of the buckets.                                                    *)
(*                                                                         *)
(* Induction is over sets: the induction theorems of the library take an   *)
(* operator, which the provers cannot supply, but a set of numbers with    *)
(* the property, which is what NatSetInduction takes, they can.            *)
(***************************************************************************)
EXTENDS BlockIndex, AtomIndex, FiniteSetTheorems, WellFoundedInduction, TLAPS

-----------------------------------------------------------------------------
(* Induction and arithmetic                                                *)

\* A set of naturals that is not empty has a least element.
LEMMA LeastElement ==
    ASSUME NEW T \in SUBSET Nat, T # {}
    PROVE  \E x \in T : \A y \in T : x <= y
  <1>1. PICK x \in T : \A y \in T : ~ (<<y, x>> \in OpToRel(<, Nat))
    BY NatLessThanWellFounded, WFMin
  <1>2. \A y \in T : ~(y < x)
    BY <1>1 DEF OpToRel
  <1>3. QED
    BY <1>2

\* A set that has 0 and the successor of each of its members has them all.
LEMMA NatSetInduction ==
    ASSUME NEW S, 0 \in S, \A n \in Nat : n \in S => n + 1 \in S
    PROVE  \A n \in Nat : n \in S
  <1>1. SUFFICES ASSUME Nat \ S # {} PROVE FALSE
    OBVIOUS
  <1>2. PICK x \in Nat \ S : \A y \in Nat \ S : x <= y
    BY <1>1, LeastElement
  <1>3. x - 1 \in Nat /\ x - 1 \in S
    BY <1>2
  <1>4. x - 1 + 1 \in S
    BY <1>3
  <1>5. QED
    BY <1>2, <1>4

\* Quotient and remainder, as / and % of unsigned integers have them.
LEMMA DivMod ==
    ASSUME NEW n \in Nat, NEW d \in Nat \ {0}
    PROVE  n \div d \in Nat /\ n % d \in 0 .. d - 1 /\ n = d * (n \div d) + (n % d)
  <1>1. n % d \in 0 .. d - 1
    OBVIOUS
  <1>2. n \div d \in Nat
    OBVIOUS
  <1>3. n = d * (n \div d) + (n % d)
    BY <1>1, <1>2
  <1>4. QED
    BY <1>1, <1>2, <1>3

\* Counting on from n - 1, the quotient grows when n is a multiple.
LEMMA DivStep ==
    ASSUME NEW n \in Nat, NEW d \in Nat \ {0}
    PROVE  (n + 1) \div d = n \div d + IF (n + 1) % d = 0 THEN 1 ELSE 0
  OBVIOUS

-----------------------------------------------------------------------------
(* Counting the stored blocks                                              *)

\* The stored blocks before a block, counted block after block.
LEMMA PrecedingStep ==
    ASSUME NEW bitmap, NEW n \in Nat
    PROVE  /\ Preceding(bitmap, 0) = 0
           /\ Preceding(bitmap, n) \in Nat
           /\ Preceding(bitmap, n + 1) = Preceding(bitmap, n) + IF bitmap[n] = 1 THEN 1 ELSE 0
  <1> DEFINE P(k) == {i \in 0 .. k - 1 : bitmap[i] = 1}
  <1>1. P(0) = {}
    OBVIOUS
  <1>2. IsFiniteSet(P(n)) /\ Cardinality(P(n)) \in Nat
    <2>1. IsFiniteSet(0 .. n - 1)
      BY FS_Interval
    <2>2. QED
      BY <2>1, FS_Subset, FS_CardinalityType
  <1>3. P(n + 1) = IF bitmap[n] = 1 THEN P(n) \cup {n} ELSE P(n)
    OBVIOUS
  <1>4. n \notin P(n)
    OBVIOUS
  <1>5. Cardinality(P(n + 1)) = Cardinality(P(n)) + IF bitmap[n] = 1 THEN 1 ELSE 0
    <2> HIDE DEF P
    <2>1. Cardinality(P(n) \cup {n}) = Cardinality(P(n)) + 1
      BY <1>2, <1>4, FS_AddElement
    <2>2. QED
      BY <1>2, <1>3, <2>1
  <1>6. QED
    BY <1>1, <1>2, <1>5, FS_EmptySet DEF Preceding

\* The running count of precalculate_sumcount is the number of stored blocks.
LEMMA SetBeforeCounts ==
    ASSUME NEW bitmap, NEW total \in Nat
    PROVE  \A n \in 0 .. total : SetBefore(bitmap, total)[n] = Preceding(bitmap, n)
  <1> DEFINE Step(f) == [n \in 0 .. total |-> IF n = 0 THEN 0
                           ELSE f[n - 1] + (IF bitmap[n - 1] = 1 THEN 1 ELSE 0)]
             nset == SetBefore(bitmap, total)
             S    == {n \in Nat : n \in 0 .. total => nset[n] = Preceding(bitmap, n)}
  <1>1. \E f : f = Step(f)
    <2> DEFINE P == [n \in 0 .. total |-> Preceding(bitmap, n)]
    <2>1. ASSUME NEW n \in 0 .. total PROVE P[n] = Step(P)[n]
      <3>1. CASE n = 0
        BY <3>1, PrecedingStep
      <3>2. CASE n # 0
        <4>1. n - 1 \in Nat /\ n - 1 \in 0 .. total /\ n - 1 + 1 = n
          BY <3>2
        <4>2. Preceding(bitmap, n - 1 + 1) = Preceding(bitmap, n - 1) + IF bitmap[n - 1] = 1 THEN 1 ELSE 0
          BY <4>1, PrecedingStep
        <4>3. QED
          BY <3>2, <4>1, <4>2
      <3>3. QED
        BY <3>1, <3>2
    <2>2. P = Step(P)
      BY <2>1
    <2>3. QED
      BY <2>2
  <1>2. nset = Step(nset)
    <2>1. nset = CHOOSE f : f = Step(f)
      BY DEF SetBefore
    <2>2. QED
      BY <1>1, <2>1
  <1>3. 0 \in S
    BY <1>2, PrecedingStep
  <1>4. ASSUME NEW n \in Nat, n \in S PROVE n + 1 \in S
    <2>1. SUFFICES ASSUME n + 1 \in 0 .. total PROVE nset[n + 1] = Preceding(bitmap, n + 1)
      OBVIOUS
    <2>2. n \in 0 .. total /\ nset[n] = Preceding(bitmap, n)
      BY <1>4, <2>1
    <2>3. nset[n + 1] = nset[n] + IF bitmap[n] = 1 THEN 1 ELSE 0
      BY <1>2, <2>1
    <2>4. QED
      BY <2>2, <2>3, PrecedingStep
  <1>5. QED
    <2> HIDE DEF S
    <2>1. \A n \in Nat : n \in S
      BY <1>3, <1>4, NatSetInduction
    <2>2. QED
      BY <2>1 DEF S

\* A range of blocks in which every byte of the bitmap is 0 or 1 has as many
\* stored blocks as bytes that are not 0.
LEMMA PrecedingSplit ==
    ASSUME NEW bitmap, NEW a \in Nat, NEW b \in Nat, a <= b,
           \A i \in a .. b - 1 : bitmap[i] \in {0, 1}
    PROVE  Preceding(bitmap, b) =
               Preceding(bitmap, a) + Cardinality({i \in a .. b - 1 : bitmap[i] # 0})
  <1> DEFINE A == {i \in 0 .. a - 1 : bitmap[i] = 1}
             B == {i \in a .. b - 1 : bitmap[i] # 0}
  <1>1. {i \in 0 .. b - 1 : bitmap[i] = 1} = A \cup B
    OBVIOUS
  <1>2. A \cap B = {}
    OBVIOUS
  <1>3. IsFiniteSet(A) /\ IsFiniteSet(B)
    <2>1. IsFiniteSet(0 .. a - 1) /\ IsFiniteSet(a .. b - 1)
      BY FS_Interval
    <2>2. QED
      BY <2>1, FS_Subset
  <1>4. Cardinality(A \cup B) = Cardinality(A) + Cardinality(B)
    <2> HIDE DEF A, B
    <2>1. /\ Cardinality(A) \in Nat /\ Cardinality(B) \in Nat
          /\ Cardinality(A \cup B) = Cardinality(A) + Cardinality(B) - Cardinality(A \cap B)
          /\ Cardinality(A \cap B) = 0
      BY <1>2, <1>3, FS_CardinalityType, FS_Union, FS_EmptySet
    <2>2. QED
      BY <2>1
  <1>5. QED
    BY <1>1, <1>4 DEF Preceding

\* A block is in the bucket that starts at or before it, and that start is
\* where precalculate_sumcount took the bucket's count.
LEMMA BucketContains ==
    ASSUME NEW b \in Nat
    PROVE  /\ Bucket(b) \in Nat /\ BucketStart(b) \in 0 .. b
           /\ Bucket(b) * 2 ^ Factor = BucketStart(b)
  <1> DEFINE d == 2 ^ Factor
  <1>1. d \in Nat \ {0}
    BY FactorAssumption
  <1> HIDE DEF d
  <1>2. b \div d \in Nat /\ b % d \in 0 .. d - 1 /\ b = d * (b \div d) + (b % d)
    BY <1>1, DivMod
  <1>3. (b \div d) * d = b - (b % d) /\ b - (b % d) \in 0 .. b
    BY <1>1, <1>2
  <1>4. Bucket(b) = b \div d /\ BucketStart(b) = b - (b % d)
    BY Zenon DEF Bucket, BucketStart, d
  <1>5. Bucket(b) * d = BucketStart(b)
    BY <1>3, <1>4
  <1>6. QED
    BY <1>2, <1>3, <1>4, <1>5 DEF d

\* A block before another one is in an earlier bucket or in the same one.
LEMMA BucketMonotone ==
    ASSUME NEW a \in Nat, NEW b \in Nat, a <= b
    PROVE  Bucket(b) \in Nat /\ Bucket(a) \in 0 .. Bucket(b)
  <1> DEFINE d == 2 ^ Factor
  <1>1. d \in Nat \ {0}
    BY FactorAssumption
  <1> HIDE DEF d
  <1>2. /\ a \div d \in Nat /\ a % d \in 0 .. d - 1 /\ a = d * (a \div d) + (a % d)
        /\ b \div d \in Nat /\ b % d \in 0 .. d - 1 /\ b = d * (b \div d) + (b % d)
    BY <1>1, DivMod
  <1>3. ASSUME NEW p \in Nat, NEW q \in Nat, q < p PROVE d * q + d <= d * p
    <2>1. d * p = d * q + d * (p - q)
      BY <1>1, <1>3
    <2>2. d * (p - q) >= d
      BY <1>1, <1>3
    <2>3. QED
      BY <1>1, <1>3, <2>1, <2>2
  <1>4. a \div d \in 0 .. b \div d
    BY <1>1, <1>2, <1>3
  <1>5. QED
    BY <1>2, <1>4 DEF Bucket, d

\* Two blocks are in one bucket if and only if it starts at the same block
\* for both, and the blocks from that start to the later one are all in it.
LEMMA SameBucket ==
    ASSUME NEW a \in Nat, NEW b \in Nat
    PROVE  /\ Bucket(a) = Bucket(b) => BucketStart(a) = BucketStart(b)
           /\ a \in BucketStart(b) .. b => Bucket(a) = Bucket(b)
  <1> DEFINE d == 2 ^ Factor
  <1>1. d \in Nat \ {0}
    BY FactorAssumption
  <1> HIDE DEF d
  <1>2. /\ a \div d \in Nat /\ a % d \in 0 .. d - 1 /\ a = d * (a \div d) + (a % d)
        /\ b \div d \in Nat /\ b % d \in 0 .. d - 1 /\ b = d * (b \div d) + (b % d)
    BY <1>1, DivMod
  <1>3. Bucket(a) = a \div d /\ Bucket(b) = b \div d
        /\ BucketStart(a) = a - (a % d) /\ BucketStart(b) = b - (b % d)
    BY Zenon DEF Bucket, BucketStart, d
  <1>4. BucketStart(a) = d * Bucket(a) /\ BucketStart(b) = d * Bucket(b)
    BY <1>1, <1>2, <1>3
  <1>5. ASSUME a \in BucketStart(b) .. b PROVE Bucket(a) = Bucket(b)
    <2>1. Bucket(a) <= Bucket(b) /\ Bucket(BucketStart(b)) <= Bucket(a)
      BY <1>5, BucketContains, BucketMonotone
    <2>2. Bucket(BucketStart(b)) = Bucket(b)
      <3>1. (d * Bucket(b)) \div d = Bucket(b)
        BY <1>1, <1>2, <1>3
      <3>2. QED
        BY <1>4, <3>1 DEF Bucket, d
    <2>3. QED
      BY <1>2, <1>3, <2>1, <2>2
  <1>6. QED
    BY <1>4, <1>5

\* v1_seek finds the number of stored blocks before any block of the image,
\* from the bucket's count and the bitmap, if the bytes that it counts itself
\* are 0 or 1: on others the two ways of counting disagree.
LEMMA SeekCounts ==
    ASSUME NEW bitmap, NEW total \in Nat, NEW b \in 0 .. total - 1,
           \A i \in BucketStart(b) .. b - 1 : bitmap[i] \in {0, 1}
    PROVE  v1_seek(bitmap, precalculate_sumcount(bitmap, total), b) = Preceding(bitmap, b)
  <1>1. /\ Bucket(b) \in 0 .. Bucket(total) /\ BucketStart(b) \in 0 .. b
        /\ Bucket(b) * 2 ^ Factor = BucketStart(b)
    <2>1. Bucket(total) \in Nat
      BY BucketContains
    <2>2. QED
      BY <2>1, BucketContains, BucketMonotone
  <1>2. precalculate_sumcount(bitmap, total)[Bucket(b)] = SetBefore(bitmap, total)[BucketStart(b)]
    BY <1>1 DEF precalculate_sumcount
  <1>3. SetBefore(bitmap, total)[BucketStart(b)] = Preceding(bitmap, BucketStart(b))
    BY <1>1, SetBeforeCounts
  <1>4. Preceding(bitmap, b) = Preceding(bitmap, BucketStart(b))
            + Cardinality({i \in BucketStart(b) .. b - 1 : bitmap[i] # 0})
    BY <1>1, PrecedingSplit
  <1>5. QED
    BY <1>2, <1>3, <1>4 DEF v1_seek

\* Behind the last block, where the count may never have been assigned,
\* v1_seek still yields a natural number.
LEMMA SeekIsNat ==
    ASSUME NEW bitmap, NEW total \in Nat, NEW b \in 0 .. total
    PROVE  v1_seek(bitmap, precalculate_sumcount(bitmap, total), b) \in Nat
  <1>1. Bucket(b) \in 0 .. Bucket(total) /\ BucketStart(b) \in 0 .. b
        /\ Bucket(b) * 2 ^ Factor = BucketStart(b)
    <2>1. Bucket(total) \in Nat
      BY BucketContains
    <2>2. QED
      BY <2>1, BucketContains, BucketMonotone
  <1>2. precalculate_sumcount(bitmap, total)[Bucket(b)] \in Nat
    <2>1. CASE BucketStart(b) < total
      <3>1. SetBefore(bitmap, total)[BucketStart(b)] = Preceding(bitmap, BucketStart(b))
        BY <1>1, SetBeforeCounts
      <3>2. Preceding(bitmap, BucketStart(b)) \in Nat
        BY <1>1, PrecedingStep
      <3>3. QED
        BY <1>1, <2>1, <3>1, <3>2 DEF precalculate_sumcount
    <2>2. CASE ~(BucketStart(b) < total)
      BY <1>1, <2>2, GarbageAssumption DEF precalculate_sumcount
    <2>3. QED
      BY <2>1, <2>2
  <1>3. Cardinality({i \in BucketStart(b) .. b - 1 : bitmap[i] # 0}) \in Nat
    <2>1. IsFiniteSet(BucketStart(b) .. b - 1)
      BY <1>1, FS_Interval
    <2>2. QED
      BY <2>1, FS_Subset, FS_CardinalityType
  <1>4. QED
    BY <1>2, <1>3 DEF v1_seek

-----------------------------------------------------------------------------
(* Where the stored blocks are in the image file                           *)

\* The offset of the next stored block: one block on, and a checksum after
\* every blocks_per_checksum of them.
LEMMA OffsetStep ==
    ASSUME NEW head \in HeadType, NEW n \in Nat
    PROVE  /\ rblock2offset(head, 0) = head.head_size
           /\ rblock2offset(head, n + 1) = rblock2offset(head, n) + head.block_size
                + IF head.blocks_per_checksum > 0 /\ (n + 1) % head.blocks_per_checksum = 0
                  THEN head.checksum_size ELSE 0
  <1> DEFINE k == head.blocks_per_checksum
             c == head.checksum_size
             s == head.block_size
  <1>1. k \in Nat /\ c \in Nat /\ s \in Nat /\ head.head_size \in Nat
    BY DEF HeadType
  <1> HIDE DEF k, c, s
  <1>2. (n + 1) * s = n * s + s
    BY <1>1
  <1>3. CASE k = 0
    BY <1>1, <1>2, <1>3 DEF rblock2offset, k, s
  <1>4. CASE k # 0
    <2>1. 0 \div k = 0 /\ n \div k \in Nat
      BY <1>1, <1>4
    <2>2. ((n + 1) \div k) * c = (n \div k) * c + IF (n + 1) % k = 0 THEN c ELSE 0
      <3>1. CASE (n + 1) % k = 0
        <4>1. (n + 1) \div k = n \div k + 1
          BY <1>1, <1>4, <3>1, DivStep
        <4>2. (n \div k + 1) * c = (n \div k) * c + c
          BY <1>1, <2>1
        <4>3. QED
          BY <3>1, <4>1, <4>2
      <3>2. CASE (n + 1) % k # 0
        <4>1. (n + 1) \div k = n \div k + 0
          BY <1>1, <1>4, <3>2, DivStep
        <4>2. QED
          BY <1>1, <2>1, <3>2, <4>1
      <3>3. QED
        BY <3>1, <3>2
    <2>3. n * s \in Nat /\ (n \div k) * c \in Nat
      BY <1>1, <2>1
    <2>4. ASSUME NEW m \in Nat PROVE rblock2offset(head, m) = head.head_size + m * s + (m \div k) * c
      BY <1>4 DEF rblock2offset, k, s, c
    <2>5. rblock2offset(head, 0) = head.head_size + 0 * s + 0 * c
      BY <2>1, <2>4
    <2>6. rblock2offset(head, n + 1) = head.head_size + (n * s + s)
             + ((n \div k) * c + IF (n + 1) % k = 0 THEN c ELSE 0)
      BY <1>2, <2>2, <2>4
    <2>7. rblock2offset(head, n) = head.head_size + n * s + (n \div k) * c
      BY <2>4
    <2>8. rblock2offset(head, n + 1) = rblock2offset(head, n) + s + IF (n + 1) % k = 0 THEN c ELSE 0
      BY <1>1, <2>3, <2>6, <2>7
    <2>9. rblock2offset(head, 0) = head.head_size
      BY <1>1, <2>5
    <2>10. k > 0
      BY <1>1, <1>4
    <2>11. QED
      BY <2>8, <2>9, <2>10 DEF k, s, c
  <1>5. QED
    BY <1>3, <1>4

\* An offset is a natural number.
LEMMA OffsetIsNat ==
    ASSUME NEW head \in HeadType, NEW n \in Nat
    PROVE  rblock2offset(head, n) \in Nat
  <1> DEFINE k == head.blocks_per_checksum
             c == head.checksum_size
             s == head.block_size
  <1>1. k \in Nat /\ c \in Nat /\ s \in Nat /\ head.head_size \in Nat
    BY DEF HeadType
  <1> HIDE DEF k, c, s
  <1>2. n * s \in Nat
    BY <1>1
  <1>3. k # 0 => (n \div k) * c \in Nat
    <2>1. k # 0 => n \div k \in Nat
      BY <1>1, DivMod
    <2>2. QED
      BY <1>1, <2>1
  <1>4. rblock2offset(head, n) = head.head_size + n * s + IF k = 0 THEN 0 ELSE (n \div k) * c
    BY DEF rblock2offset, k, c, s
  <1>5. QED
    BY <1>1, <1>2, <1>3, <1>4

\* rblock2offset is where partclone wrote the block, for every layout.
LEMMA OffsetIsWhereWritten ==
    ASSUME NEW head \in HeadType, NEW r \in Nat
    PROVE  rblock2offset(head, r) = WrittenAt(head, r)
  <1> DEFINE Step(f) == [n \in 0 .. r |-> IF n = 0 THEN head.head_size
                           ELSE f[n - 1] + head.block_size
                                + IF head.blocks_per_checksum > 0 /\ n % head.blocks_per_checksum = 0
                                  THEN head.checksum_size ELSE 0]
             pos == CHOOSE f : f = Step(f)
             S  == {n \in Nat : n \in 0 .. r => pos[n] = rblock2offset(head, n)}
  <1>1. \E f : f = Step(f)
    <2> DEFINE P == [n \in 0 .. r |-> rblock2offset(head, n)]
    <2>1. ASSUME NEW n \in 0 .. r PROVE P[n] = Step(P)[n]
      <3>1. CASE n = 0
        BY <3>1, OffsetStep
      <3>2. CASE n # 0
        <4>1. n - 1 \in Nat /\ n - 1 \in 0 .. r /\ n - 1 + 1 = n
          BY <3>2
        <4>2. rblock2offset(head, n - 1 + 1) = rblock2offset(head, n - 1) + head.block_size
                + IF head.blocks_per_checksum > 0 /\ (n - 1 + 1) % head.blocks_per_checksum = 0
                  THEN head.checksum_size ELSE 0
          BY <4>1, OffsetStep
        <4>3. QED
          BY <3>2, <4>1, <4>2
      <3>3. QED
        BY <3>1, <3>2
    <2>2. P = Step(P)
      BY <2>1
    <2>3. QED
      BY <2>2
  <1>2. pos = Step(pos)
    BY <1>1
  <1> HIDE DEF pos
  <1>3. 0 \in S
    BY <1>2, OffsetStep
  <1>4. ASSUME NEW n \in Nat, n \in S PROVE n + 1 \in S
    <2>1. SUFFICES ASSUME n + 1 \in 0 .. r PROVE pos[n + 1] = rblock2offset(head, n + 1)
      OBVIOUS
    <2>2. n \in 0 .. r /\ pos[n] = rblock2offset(head, n)
      BY <1>4, <2>1
    <2>3. pos[n + 1] = pos[n] + head.block_size
                + IF head.blocks_per_checksum > 0 /\ (n + 1) % head.blocks_per_checksum = 0
                  THEN head.checksum_size ELSE 0
      BY <1>2, <2>1
    <2>4. QED
      BY <2>2, <2>3, OffsetStep
  <1>5. pos[r] = rblock2offset(head, r)
    <2> HIDE DEF S
    <2>1. \A n \in Nat : n \in S
      BY <1>3, <1>4, NatSetInduction
    <2>2. QED
      BY <2>1 DEF S
  <1>6. QED
    BY <1>5 DEF WrittenAt, pos

-----------------------------------------------------------------------------
(* The clusters of the atoms of an ntfsclone image                         *)

LEMMA WidthIsNat == ASSUME NEW a \in Atom PROVE Width(a) \in Nat
  BY DEF Atom, Width, Used, Damaged

\* The first cluster of an atom is where the one before it ends.
LEMMA ClusterOfStep ==
    ASSUME NEW atoms \in Seq(Atom)
    PROVE  /\ ClusterOf(atoms, 1) = 0
           /\ \A i \in 1 .. Len(atoms) + 1 : ClusterOf(atoms, i) \in Nat
           /\ \A i \in 1 .. Len(atoms) :
                 ClusterOf(atoms, i + 1) = ClusterOf(atoms, i) + Width(atoms[i])
  <1> DEFINE F(f, n) == IF n = 0 THEN 0 ELSE f[n - 1] + Width(atoms[n])
             S == {m \in Nat : m <= Len(atoms) => 
                      \E f \in [0 .. m -> Nat] : f = [n \in 0 .. m |-> F(f, n)]}
  <1>0. Len(atoms) \in Nat /\ \A i \in 1 .. Len(atoms) : Width(atoms[i]) \in Nat
    BY WidthIsNat
  <1>1. 0 \in S
    <2> DEFINE g == [n \in 0 .. 0 |-> 0]
    <2>1. g \in [0 .. 0 -> Nat] /\ g = [n \in 0 .. 0 |-> F(g, n)]
      OBVIOUS
    <2>2. QED
      BY <2>1
  <1>2. ASSUME NEW m \in Nat, m \in S PROVE m + 1 \in S
    <2> HIDE DEF F
    <2>1. SUFFICES ASSUME m + 1 <= Len(atoms)
                   PROVE  \E f \in [0 .. m + 1 -> Nat] : f = [n \in 0 .. m + 1 |-> F(f, n)]
      OBVIOUS
    <2>2. PICK f \in [0 .. m -> Nat] : f = [n \in 0 .. m |-> F(f, n)]
      BY <1>0, <1>2, <2>1
    <2> USE DEF F
    <2> DEFINE g == [n \in 0 .. m + 1 |-> IF n = m + 1 THEN f[m] + Width(atoms[n]) ELSE f[n]]
    <2>3. g \in [0 .. m + 1 -> Nat]
      BY <1>0, <2>1, <2>2
    <2>4. ASSUME NEW n \in 0 .. m + 1
          PROVE  g[n] = IF n = 0 THEN 0 ELSE g[n - 1] + Width(atoms[n])
      <3>1. CASE n = m + 1
        BY <3>1
      <3>2. CASE n \in 0 .. m
        <4>1. f[n] = IF n = 0 THEN 0 ELSE f[n - 1] + Width(atoms[n])
          BY <2>2, <3>2
        <4>2. g[n] = f[n] /\ (n # 0 => g[n - 1] = f[n - 1])
          BY <3>2
        <4>3. QED
          BY <4>1, <4>2
      <3>3. QED
        BY <3>1, <3>2
    <2>5. g = [n \in 0 .. m + 1 |-> F(g, n)]
      BY <2>4
    <2>6. QED
      BY <2>3, <2>5
  <1>3. PICK t \in [0 .. Len(atoms) -> Nat] : t = [n \in 0 .. Len(atoms) |-> F(t, n)]
    <2> HIDE DEF S, F
    <2>1. \A m \in Nat : m \in S
      BY <1>1, <1>2, NatSetInduction
    <2>2. Len(atoms) \in S /\ Len(atoms) <= Len(atoms)
      BY <1>0, <2>1
    <2>3. QED
      BY <2>2, Zenon DEF S
  <1>4. \A n \in 0 .. Len(atoms) : t[n] = IF n = 0 THEN 0 ELSE t[n - 1] + Width(atoms[n])
    BY <1>3
  <1>5. ASSUME NEW i \in 1 .. Len(atoms) + 1 PROVE ClusterOf(atoms, i) = t[i - 1]
    <2> DEFINE r == [n \in 0 .. i - 1 |-> t[n]]
               sum == CHOOSE f : f = [n \in 0 .. i - 1 |-> F(f, n)]
               U == {n \in Nat : n \in 0 .. i - 1 => sum[n] = t[n]}
    <2>1. r = [n \in 0 .. i - 1 |-> F(r, n)]
      <3>1. ASSUME NEW n \in 0 .. i - 1
            PROVE  r[n] = IF n = 0 THEN 0 ELSE r[n - 1] + Width(atoms[n])
        BY <1>0, <1>4
      <3>2. QED
        BY <3>1
    <2>2. sum = [n \in 0 .. i - 1 |-> F(sum, n)]
      BY <2>1
    <2>3. ClusterOf(atoms, i) = sum[i - 1]
      BY DEF ClusterOf
    <2> HIDE DEF sum
    <2>4. 0 \in U
      BY <1>0, <1>4, <2>2
    <2>5. ASSUME NEW n \in Nat, n \in U PROVE n + 1 \in U
      <3>1. SUFFICES ASSUME n + 1 \in 0 .. i - 1 PROVE sum[n + 1] = t[n + 1]
        OBVIOUS
      <3>2. sum[n] = t[n]
        BY <2>5, <3>1
      <3>3. sum[n + 1] = sum[n] + Width(atoms[n + 1])
        BY <2>2, <3>1
      <3>4. t[n + 1] = t[n] + Width(atoms[n + 1])
        BY <1>0, <1>4, <3>1
      <3>5. QED
        BY <3>2, <3>3, <3>4
    <2>6. QED
      <3> HIDE DEF U
      <3>1. \A n \in Nat : n \in U
        BY <2>4, <2>5, NatSetInduction
      <3>2. i - 1 \in Nat /\ i - 1 \in 0 .. i - 1
        BY <1>0
      <3>3. QED
        BY <2>3, <3>1, <3>2 DEF U
  <1>6. ClusterOf(atoms, 1) = 0
    BY <1>0, <1>4, <1>5
  <1>7. \A i \in 1 .. Len(atoms) + 1 : ClusterOf(atoms, i) \in Nat
    <2>1. \A i \in 1 .. Len(atoms) + 1 : t[i - 1] \in Nat
      BY <1>0
    <2>2. QED
      BY <1>5, <2>1
  <1>8. ASSUME NEW i \in 1 .. Len(atoms)
        PROVE  ClusterOf(atoms, i + 1) = ClusterOf(atoms, i) + Width(atoms[i])
    <2>1. ClusterOf(atoms, i + 1) = t[i] /\ ClusterOf(atoms, i) = t[i - 1]
      BY <1>0, <1>5
    <2>2. QED
      BY <1>0, <1>4, <2>1
  <1>9. QED
    BY <1>6, <1>7, <1>8

\* Later atoms have later clusters, those behind an atom with clusters
\* strictly so.
LEMMA ClustersAscend ==
    ASSUME NEW atoms \in Seq(Atom), NEW i \in 1 .. Len(atoms) + 1, NEW j \in i .. Len(atoms) + 1
    PROVE  /\ ClusterOf(atoms, i) <= ClusterOf(atoms, j)
           /\ i < j /\ Width(atoms[i]) >= 1 => ClusterOf(atoms, i) < ClusterOf(atoms, j)
  <1> DEFINE C(k) == ClusterOf(atoms, k)
             S == {k \in Nat : i + k <= Len(atoms) + 1 =>
                      /\ C(i) <= C(i + k)
                      /\ k > 0 /\ Width(atoms[i]) >= 1 => C(i) < C(i + k)}
  <1>0. /\ Len(atoms) \in Nat /\ \A k \in 1 .. Len(atoms) : Width(atoms[k]) \in Nat
        /\ \A k \in 1 .. Len(atoms) + 1 : C(k) \in Nat
        /\ \A k \in 1 .. Len(atoms) : C(k + 1) = C(k) + Width(atoms[k])
    BY WidthIsNat, ClusterOfStep
  <1> HIDE DEF C
  <1>1. 0 \in S
    BY <1>0
  <1>2. ASSUME NEW k \in Nat, k \in S PROVE k + 1 \in S
    <2>1. SUFFICES ASSUME i + (k + 1) <= Len(atoms) + 1
                   PROVE  /\ C(i) <= C(i + (k + 1))
                          /\ Width(atoms[i]) >= 1 => C(i) < C(i + (k + 1))
      OBVIOUS
    <2>2. i + k \in 1 .. Len(atoms) /\ i + (k + 1) = (i + k) + 1
      BY <1>0, <2>1
    <2>3. C(i + (k + 1)) = C(i + k) + Width(atoms[i + k])
      BY <1>0, <2>2
    <2>4. C(i + k) \in Nat /\ C(i) \in Nat /\ Width(atoms[i + k]) \in Nat
      BY <1>0, <2>2
    <2>5. C(i) <= C(i + k) /\ (k > 0 /\ Width(atoms[i]) >= 1 => C(i) < C(i + k))
      BY <1>0, <1>2, <2>2
    <2>6. CASE k = 0
      BY <2>3, <2>4, <2>5, <2>6
    <2>7. CASE k # 0
      BY <2>3, <2>4, <2>5, <2>7
    <2>8. QED
      BY <2>6, <2>7
  <1>3. j - i \in S
    <2> HIDE DEF S
    <2>1. \A k \in Nat : k \in S
      BY <1>1, <1>2, NatSetInduction
    <2>2. j - i \in Nat
      BY <1>0
    <2>3. QED
      BY <2>1, <2>2
  <1>4. i + (j - i) = j /\ j - i \in Nat /\ j <= Len(atoms) + 1
    BY <1>0
  <1>5. QED
    BY <1>3, <1>4 DEF C

-----------------------------------------------------------------------------
(* The scan of the atoms                                                   *)

\* The loop of v10_verify, turn after turn.
IsScan(h, s, atoms, total, tol) ==
    /\ h[0] = s /\ ScanAll(s, atoms, total, tol) = h[Len(atoms)]
    /\ \A i \in 1 .. Len(atoms) : h[i] = ScanAtom(h[i - 1], atoms[i], total, tol)

LEMMA ScanSteps ==
    ASSUME NEW s, NEW atoms, Len(atoms) \in Nat, NEW total, NEW tol
    PROVE  \E h : IsScan(h, s, atoms, total, tol)
  <1> DEFINE F(f, i) == IF i = 0 THEN s ELSE ScanAtom(f[i - 1], atoms[i], total, tol)
             S == {m \in Nat : \E f : f = [i \in 0 .. m |-> F(f, i)]}
  <1>1. 0 \in S
    <2> DEFINE g == [i \in 0 .. 0 |-> s]
    <2>1. g = [i \in 0 .. 0 |-> F(g, i)]
      OBVIOUS
    <2>2. QED
      BY <2>1
  <1>2. ASSUME NEW m \in Nat, m \in S PROVE m + 1 \in S
    <2>1. PICK f : f = [i \in 0 .. m |-> F(f, i)]
      BY <1>2
    <2> DEFINE g == [i \in 0 .. m + 1 |-> IF i = m + 1 THEN ScanAtom(f[m], atoms[i], total, tol) ELSE f[i]]
    <2>2. ASSUME NEW i \in 0 .. m + 1 PROVE g[i] = F(g, i)
      <3>1. CASE i = m + 1
        BY <3>1
      <3>2. CASE i \in 0 .. m
        <4>1. g[i] = f[i] /\ (i # 0 => g[i - 1] = f[i - 1])
          BY <3>2
        <4>2. f[i] = F(f, i)
          BY <2>1, <3>2
        <4>3. QED
          BY <4>1, <4>2
      <3>3. QED
        BY <3>1, <3>2
    <2>3. g = [i \in 0 .. m + 1 |-> F(g, i)]
      BY <2>2
    <2> HIDE DEF F, g
    <2>4. m + 1 \in Nat /\ \E f1 : f1 = [i \in 0 .. m + 1 |-> F(f1, i)]
      BY <2>3
    <2>5. QED
      BY <2>4, Zenon
  <1> DEFINE after == CHOOSE f : f = [i \in 0 .. Len(atoms) |-> F(f, i)]
  <1>3. after = [i \in 0 .. Len(atoms) |-> F(after, i)]
    <2> HIDE DEF S, F
    <2>1. Len(atoms) \in S
      BY <1>1, <1>2, NatSetInduction
    <2>2. \E f : f = [i \in 0 .. Len(atoms) |-> F(f, i)]
      BY <2>1, Zenon DEF S
    <2>3. QED
      BY <2>2
  <1>4. ScanAll(s, atoms, total, tol) = after[Len(atoms)]
    BY DEF ScanAll
  <1> HIDE DEF after
  <1>5. after[0] = s /\ \A i \in 1 .. Len(atoms) :
                           after[i] = ScanAtom(after[i - 1], atoms[i], total, tol)
    BY <1>3
  <1>6. IsScan(after, s, atoms, total, tol)
    BY <1>4, <1>5 DEF IsScan
  <1>7. QED
    BY <1>6

\* Where v10_verify can be: the bits it has set are those of clusters of the
\* image, the trailing one (number nr) included.
ScanStates(nr) ==
    [cclust : Nat, pos : Nat, bitmap : SUBSET (0 .. nr), sync : Nat,
     error : {"ok", "EIO", "EDEADLK"}, offset : [0 .. Bucket(nr) -> Nat]]

\* What the scan does with a used cluster, a run of empty ones, and damage in
\* strict mode, before it has come to the end.
LEMMA ScanAtomCases ==
    ASSUME NEW nr \in Nat, NEW s \in ScanStates(nr), NEW a \in Atom, NEW tol \in BOOLEAN,
           NEW t, t = ScanAtom(s, a, nr + 1, tol)
    PROVE  /\ s.error # "ok" \/ s.cclust >= nr + 1 => t = s
           /\ s.error = "ok" /\ s.cclust < nr + 1 /\ a = Used =>
                 /\ t.cclust = s.cclust + 1 /\ t.pos = s.pos + 1 /\ t.error = "ok"
                 /\ t.bitmap = s.bitmap \cup {s.cclust}
                 /\ \A k \in 0 .. Bucket(nr) : t.offset[k] =
                       IF k = Bucket(s.cclust) /\ s.offset[k] = 0 THEN s.pos ELSE s.offset[k]
           /\ s.error = "ok" /\ s.cclust < nr + 1 /\ a \notin {Used, Damaged} =>
                 /\ t.cclust = s.cclust + Width(a) /\ t.pos = s.pos + 1 /\ t.error = "ok"
                 /\ t.bitmap = s.bitmap /\ t.offset = s.offset
           /\ s.error = "ok" /\ s.cclust < nr + 1 /\ a = Damaged /\ ~tol => t.error = "EDEADLK"
           /\ t \in ScanStates(nr)
  <1> DEFINE n == [s EXCEPT !.pos = @ + 1, !.sync = 0, !.cclust = @ + Width(a)]
             u == [n EXCEPT !.bitmap = @ \cup {s.cclust},
                            !.offset[Bucket(s.cclust)] = IF @ = 0 THEN s.pos ELSE @]
  <1>1. Width(a) \in Nat /\ (a = Used => Width(a) = 1) /\ Used # Damaged
    BY WidthIsNat DEF Width, Used, Damaged
  <1>2. /\ n \in ScanStates(nr) /\ n.pos = s.pos + 1 /\ n.cclust = s.cclust + Width(a)
        /\ n.error = s.error /\ n.bitmap = s.bitmap /\ n.offset = s.offset
    <2> DEFINE m1 == [s EXCEPT !.pos = @ + 1]
               m2 == [m1 EXCEPT !.sync = 0]
               m3 == [m2 EXCEPT !.cclust = @ + Width(a)]
    <2>1. n = m3
      BY DEF ScanStates
    <2>2. /\ m1 \in ScanStates(nr) /\ m1.pos = s.pos + 1 /\ m1.cclust = s.cclust
          /\ m1.error = s.error /\ m1.bitmap = s.bitmap /\ m1.offset = s.offset
      BY DEF ScanStates
    <2> HIDE DEF m1
    <2>3. /\ m2 \in ScanStates(nr) /\ m2.pos = s.pos + 1 /\ m2.cclust = s.cclust
          /\ m2.error = s.error /\ m2.bitmap = s.bitmap /\ m2.offset = s.offset
      BY <2>2 DEF ScanStates
    <2> HIDE DEF m2
    <2>4. /\ m3 \in ScanStates(nr) /\ m3.pos = s.pos + 1 /\ m3.cclust = s.cclust + Width(a)
          /\ m3.error = s.error /\ m3.bitmap = s.bitmap /\ m3.offset = s.offset
      BY <1>1, <2>3 DEF ScanStates
    <2>5. QED
      BY <2>1, <2>4
  <1>3. CASE s.error # "ok" \/ s.cclust >= nr + 1
    BY <1>3 DEF ScanAtom, ScanStates
  <1>4. CASE s.error = "ok" /\ s.cclust < nr + 1
    <2>1. t = CASE a = Used -> u
                [] a = Damaged /\ ~tol -> [n EXCEPT !.error = "EDEADLK"]
                [] a = Damaged /\ tol ->
                      IF s.sync > MaxSync THEN [n EXCEPT !.cclust = nr + 1]
                      ELSE [n EXCEPT !.sync = s.sync + 1]
                [] OTHER -> n
      <3>1. ~(s.error # "ok" \/ s.cclust >= nr + 1)
        BY <1>4 DEF ScanStates
      <3>2. QED
        BY <3>1, Zenon DEF ScanAtom
    <2>2. s.cclust \in 0 .. nr /\ Bucket(s.cclust) \in 0 .. Bucket(nr)
      BY <1>4, BucketMonotone DEF ScanStates
    <2> HIDE DEF n
    <2>3. CASE a = Used
      <3>1. t = u
        BY <1>1, <2>1, <2>3, Zenon
      <3>2. /\ u.pos = n.pos /\ u.cclust = n.cclust /\ u.error = n.error
            /\ u.bitmap = n.bitmap \cup {s.cclust}
            /\ \A k \in 0 .. Bucket(nr) : u.offset[k] =
                  IF k = Bucket(s.cclust) /\ n.offset[k] = 0 THEN s.pos ELSE n.offset[k]
        BY <1>2, <2>2 DEF ScanStates
      <3>3. u \in ScanStates(nr)
        BY <1>2, <2>2 DEF ScanStates
      <3> HIDE DEF u
      <3>4. ~(s.error # "ok" \/ s.cclust >= nr + 1) /\ a # Damaged
        BY <1>1, <1>4, <2>3 DEF ScanStates
      <3>5. /\ t.cclust = s.cclust + 1 /\ t.pos = s.pos + 1 /\ t.error = "ok"
            /\ t.bitmap = s.bitmap \cup {s.cclust}
        BY <1>1, <1>2, <1>4, <2>3, <3>1, <3>2
      <3>6. \A k \in 0 .. Bucket(nr) : t.offset[k] =
               IF k = Bucket(s.cclust) /\ s.offset[k] = 0 THEN s.pos ELSE s.offset[k]
        BY <1>2, <3>1, <3>2
      <3>7. QED
        BY <1>4, <2>3, <3>1, <3>3, <3>4, <3>5, <3>6
    <2>4. CASE a = Damaged
      <3>1. t \in {[n EXCEPT !.error = "EDEADLK"], [n EXCEPT !.cclust = nr + 1],
                   [n EXCEPT !.sync = s.sync + 1]}
            /\ (~tol => t = [n EXCEPT !.error = "EDEADLK"])
        BY <1>1, <2>1, <2>4
      <3>2. [n EXCEPT !.error = "EDEADLK"] \in ScanStates(nr)
            /\ [n EXCEPT !.error = "EDEADLK"].error = "EDEADLK"
        BY <1>2 DEF ScanStates
      <3>3. [n EXCEPT !.cclust = nr + 1] \in ScanStates(nr)
        BY <1>2 DEF ScanStates
      <3>4. [n EXCEPT !.sync = s.sync + 1] \in ScanStates(nr)
        <4>1. s.sync + 1 \in Nat
          BY DEF ScanStates
        <4>2. QED
          BY <1>2, <4>1 DEF ScanStates
      <3>5. t \in ScanStates(nr) /\ (~tol => t.error = "EDEADLK")
        BY <3>1, <3>2, <3>3, <3>4
      <3>6. QED
        BY <1>1, <1>4, <2>4, <3>5 DEF ScanStates
    <2>5. CASE a \notin {Used, Damaged}
      <3>1. t = n
        BY <2>1, <2>5
      <3>2. QED
        BY <1>2, <1>4, <2>5, <3>1 DEF ScanStates
    <2>6. QED
      BY <2>3, <2>4, <2>5
  <1>5. QED
    BY <1>3, <1>4 DEF ScanStates

LEMMA ScanUsed ==
    ASSUME NEW nr \in Nat, NEW s \in ScanStates(nr), NEW a \in Atom, NEW tol \in BOOLEAN,
           NEW t, t = ScanAtom(s, a, nr + 1, tol), s.error = "ok", s.cclust < nr + 1, a = Used
    PROVE  /\ t.cclust = s.cclust + 1 /\ t.bitmap = s.bitmap \cup {s.cclust}
           /\ \A k \in 0 .. Bucket(nr) : t.offset[k] =
                 IF k = Bucket(s.cclust) /\ s.offset[k] = 0 THEN s.pos ELSE s.offset[k]
  BY ScanAtomCases

\* The loop keeps to its states.
LEMMA ScanAllType ==
    ASSUME NEW nr \in Nat, NEW s \in ScanStates(nr), NEW atoms \in Seq(Atom), NEW tol \in BOOLEAN,
           NEW h, IsScan(h, s, atoms, nr + 1, tol)
    PROVE  \A i \in 0 .. Len(atoms) : h[i] \in ScanStates(nr)
  <1> DEFINE T == {m \in Nat : m <= Len(atoms) => h[m] \in ScanStates(nr)}
  <1>0. Len(atoms) \in Nat /\ \A i \in 1 .. Len(atoms) : atoms[i] \in Atom
    OBVIOUS
  <1>1. 0 \in T
    BY <1>0 DEF IsScan
  <1>2. ASSUME NEW m \in Nat, m \in T PROVE m + 1 \in T
    <2>1. SUFFICES ASSUME m + 1 <= Len(atoms) PROVE h[m + 1] \in ScanStates(nr)
      OBVIOUS
    <2>2. h[m + 1] = ScanAtom(h[m], atoms[m + 1], nr + 1, tol)
      BY <1>0, <2>1 DEF IsScan
    <2>3. h[m] \in ScanStates(nr) /\ atoms[m + 1] \in Atom
      BY <1>0, <1>2, <2>1
    <2>4. QED
      BY <2>2, <2>3, ScanAtomCases
  <1>3. QED
    <2> HIDE DEF T
    <2>1. \A m \in Nat : m \in T
      BY <1>1, <1>2, NatSetInduction
    <2>2. QED
      BY <1>0, <2>1 DEF T

\* Once the loop has come to an error or to the last cluster it stays there.
LEMMA ScanStays ==
    ASSUME NEW nr \in Nat, NEW s \in ScanStates(nr), NEW atoms \in Seq(Atom), NEW tol \in BOOLEAN,
           NEW h, IsScan(h, s, atoms, nr + 1, tol),
           NEW k \in 0 .. Len(atoms), h[k].error # "ok" \/ h[k].cclust >= nr + 1
    PROVE  h[Len(atoms)] = h[k]
  <1> DEFINE T == {m \in Nat : k + m <= Len(atoms) => h[k + m] = h[k]}
  <1>0. Len(atoms) \in Nat /\ \A i \in 1 .. Len(atoms) : atoms[i] \in Atom
    OBVIOUS
  <1>1. 0 \in T
    BY <1>0 DEF IsScan
  <1>2. ASSUME NEW m \in Nat, m \in T PROVE m + 1 \in T
    <2>1. SUFFICES ASSUME k + (m + 1) <= Len(atoms) PROVE h[k + (m + 1)] = h[k]
      OBVIOUS
    <2>2. k + (m + 1) \in 1 .. Len(atoms) /\ k + (m + 1) - 1 = k + m
      BY <1>0, <2>1
    <2>3. h[k + (m + 1)] = ScanAtom(h[k + m], atoms[k + (m + 1)], nr + 1, tol)
      BY <2>2 DEF IsScan
    <2>4. h[k + m] = h[k] /\ atoms[k + (m + 1)] \in Atom
      BY <1>0, <1>2, <2>2
    <2>5. h[k] \in ScanStates(nr)
      BY ScanAllType
    <2>6. QED
      BY <2>3, <2>4, <2>5, ScanAtomCases
  <1>3. QED
    <2> HIDE DEF T
    <2>1. \A m \in Nat : m \in T
      BY <1>1, <1>2, NatSetInduction
    <2>2. Len(atoms) - k \in Nat /\ k + (Len(atoms) - k) = Len(atoms)
      BY <1>0
    <2>3. Len(atoms) - k \in T
      BY <2>1, <2>2
    <2>4. QED
      BY <1>0, <2>2, <2>3 DEF T

\* Where v10_verify starts.
ScanStart(nr, bits) ==
    [cclust |-> 0, pos |-> 1, bitmap |-> bits, sync |-> 0, error |-> "ok",
     offset |-> [k \in 0 .. Bucket(nr) |-> 0]]

LEMMA ScanStartType ==
    ASSUME NEW nr \in Nat, NEW bits \in StrayBits(nr)
    PROVE  bits \subseteq {nr} /\ ScanStart(nr, bits) \in ScanStates(nr)
  <1>1. bits \subseteq {nr} /\ bits \in SUBSET (0 .. nr)
    BY DEF StrayBits
  <1>2. QED
    BY <1>1 DEF ScanStart, ScanStates

\* v10_verify, with the stale reads at the end of the file and the bits that
\* lie behind the bitmap.
LEMMA VerifyType ==
    ASSUME NEW atoms \in Seq(Atom), atoms # <<>>, NEW nr \in Nat, NEW tol \in BOOLEAN,
           NEW v \in v10_verify(atoms, nr, tol)
    PROVE  v \in ScanStates(nr)
  <1>0. \A t \in Seq(Atom), s \in ScanStates(nr) : ScanAll(s, t, nr + 1, tol) \in ScanStates(nr)
    <2> SUFFICES ASSUME NEW t \in Seq(Atom), NEW s \in ScanStates(nr)
                 PROVE  ScanAll(s, t, nr + 1, tol) \in ScanStates(nr)
      OBVIOUS
    <2>1. Len(t) \in Nat
      OBVIOUS
    <2>2. PICK h : IsScan(h, s, t, nr + 1, tol)
      BY <2>1, ScanSteps
    <2>3. \A i \in 0 .. Len(t) : h[i] \in ScanStates(nr)
      BY <2>2, ScanAllType
    <2>4. QED
      BY <2>1, <2>2, <2>3 DEF IsScan
  <1>1. PICK bits \in StrayBits(nr) :
           v \in ScanEnd(ScanAll(ScanStart(nr, bits), atoms, nr + 1, tol), atoms, nr + 1, tol)
    BY DEF v10_verify, ScanStart
  <1> DEFINE s == ScanAll(ScanStart(nr, bits), atoms, nr + 1, tol)
  <1>2. s \in ScanStates(nr)
    BY <1>0, ScanStartType
  <1> HIDE DEF s
  <1>3. v \in ScanEnd(s, atoms, nr + 1, tol)
    BY <1>1 DEF s
  <1>4. ScanAll(s, [i \in 1 .. nr + 1 |-> atoms[Len(atoms)]], nr + 1, tol) \in ScanStates(nr)
    <2>1. atoms[Len(atoms)] \in Atom
      OBVIOUS
    <2>2. [i \in 1 .. nr + 1 |-> atoms[Len(atoms)]] \in Seq(Atom)
      BY <2>1
    <2>3. QED
      BY <1>0, <1>2, <2>2
  <1>5. [s EXCEPT !.cclust = nr + 1] \in ScanStates(nr)
    BY <1>2 DEF ScanStates
  <1>6. ASSUME NEW r \in ShortErrno PROVE [s EXCEPT !.error = r] \in ScanStates(nr)
    BY <1>2, ShortErrnoAssumption DEF ScanStates
  <1>7. QED
    BY <1>2, <1>3, <1>4, <1>5, <1>6 DEF ScanEnd

-----------------------------------------------------------------------------
(* The index of an undamaged image                                         *)

\* The offset of every bucket is that of its first used cluster among the
\* first m atoms.
FirstOffsets(offset, atoms, m, nr) ==
    \A k \in 0 .. Bucket(nr) :
        IF offset[k] = 0
        THEN \A j \in 1 .. m : atoms[j] = Used => Bucket(ClusterOf(atoms, j)) # k
        ELSE /\ offset[k] \in 1 .. m /\ atoms[offset[k]] = Used
             /\ Bucket(ClusterOf(atoms, offset[k])) = k
             /\ \A j \in 1 .. offset[k] - 1 : atoms[j] = Used => Bucket(ClusterOf(atoms, j)) # k

\* What the loop of v10_verify knows after m atoms.
ScannedTo(s, atoms, m, nr) ==
    /\ s.error = "ok" /\ s.cclust = ClusterOf(atoms, m + 1) /\ s.pos = m + 1
    /\ \A c \in 0 .. nr - 1 :
          c \in s.bitmap <=> \E j \in 1 .. m : atoms[j] = Used /\ ClusterOf(atoms, j) = c
    /\ FirstOffsets(s.offset, atoms, m, nr)

LEMMA ScannedStep ==
    ASSUME NEW nr \in Nat, NEW atoms \in Seq(Atom), NEW tol \in BOOLEAN, NEW m \in Nat,
           m + 1 <= Len(atoms), ClusterOf(atoms, m + 1) <= nr, atoms[m + 1] # Damaged,
           NEW s \in ScanStates(nr), ScannedTo(s, atoms, m, nr),
           NEW t, t = ScanAtom(s, atoms[m + 1], nr + 1, tol)
    PROVE  ScannedTo(t, atoms, m + 1, nr)
  <1> DEFINE C(j) == ClusterOf(atoms, j)
             a == atoms[m + 1]
  <1>0. Len(atoms) \in Nat /\ m + 1 \in 1 .. Len(atoms) /\ a \in Atom
    OBVIOUS
  <1>1. C(m + 1) \in Nat /\ C(m + 2) = C(m + 1) + Width(a) /\ (a = Used => Width(a) = 1)
    BY <1>0, ClusterOfStep DEF Width
  <1>2. /\ s.error = "ok" /\ s.cclust = C(m + 1) /\ s.pos = m + 1
        /\ \A c \in 0 .. nr - 1 : c \in s.bitmap <=> \E j \in 1 .. m : atoms[j] = Used /\ C(j) = c
        /\ FirstOffsets(s.offset, atoms, m, nr)
    BY DEF ScannedTo
  <1>3. s.error = "ok" /\ s.cclust < nr + 1
    BY <1>1, <1>2
  <1>4. \A j \in 1 .. m + 1 : j \in 1 .. m \/ j = m + 1
    OBVIOUS
  <1>5. CASE a = Used
    <2>1. /\ t.cclust = s.cclust + 1 /\ t.pos = s.pos + 1 /\ t.error = "ok"
          /\ t.bitmap = s.bitmap \cup {s.cclust}
          /\ \A k \in 0 .. Bucket(nr) : t.offset[k] =
                IF k = Bucket(s.cclust) /\ s.offset[k] = 0 THEN s.pos ELSE s.offset[k]
      BY <1>0, <1>3, <1>5, ScanAtomCases
    <2> HIDE DEF C, a
    <2>2. t.error = "ok" /\ t.cclust = C((m + 1) + 1) /\ t.pos = (m + 1) + 1
      <3>1. (m + 1) + 1 = m + 2
        OBVIOUS
      <3>2. QED
        BY <1>1, <1>2, <1>5, <2>1, <3>1
    <2>3. ASSUME NEW c \in 0 .. nr - 1
          PROVE  c \in t.bitmap <=> \E j \in 1 .. m + 1 : atoms[j] = Used /\ C(j) = c
      <3>1. m + 1 \in 1 .. m + 1 /\ atoms[m + 1] = Used /\ \A j \in 1 .. m : j \in 1 .. m + 1
        BY <1>5 DEF a
      <3>2. c \in t.bitmap <=> c \in s.bitmap \/ c = C(m + 1)
        BY <1>2, <2>1
      <3>3. QED
        BY <1>2, <1>4, <3>1, <3>2
    <2>4. FirstOffsets(t.offset, atoms, m + 1, nr)
      <3> SUFFICES ASSUME NEW k \in 0 .. Bucket(nr)
                   PROVE  IF t.offset[k] = 0
                          THEN \A j \in 1 .. m + 1 : atoms[j] = Used => Bucket(C(j)) # k
                          ELSE /\ t.offset[k] \in 1 .. m + 1 /\ atoms[t.offset[k]] = Used
                               /\ Bucket(C(t.offset[k])) = k
                               /\ \A j \in 1 .. t.offset[k] - 1 :
                                     atoms[j] = Used => Bucket(C(j)) # k
        BY DEF FirstOffsets, C
      <3>1. t.offset[k] = IF k = Bucket(C(m + 1)) /\ s.offset[k] = 0 THEN m + 1 ELSE s.offset[k]
        BY <1>2, <2>1
      <3>2. IF s.offset[k] = 0
            THEN \A j \in 1 .. m : atoms[j] = Used => Bucket(C(j)) # k
            ELSE /\ s.offset[k] \in 1 .. m /\ atoms[s.offset[k]] = Used
                 /\ Bucket(C(s.offset[k])) = k
                 /\ \A j \in 1 .. s.offset[k] - 1 : atoms[j] = Used => Bucket(C(j)) # k
        BY <1>2 DEF FirstOffsets, C
      <3>3. CASE s.offset[k] # 0
        <4>1. t.offset[k] = s.offset[k] /\ s.offset[k] \in 1 .. m + 1
          BY <3>1, <3>2, <3>3
        <4>2. QED
          BY <3>2, <3>3, <4>1
      <3>4. CASE s.offset[k] = 0 /\ k = Bucket(C(m + 1))
        <4>1. t.offset[k] = m + 1 /\ m + 1 # 0 /\ (m + 1) - 1 = m
          BY <3>1, <3>4
        <4>2. QED
          BY <1>5, <3>2, <3>4, <4>1 DEF a
      <3>5. CASE s.offset[k] = 0 /\ k # Bucket(C(m + 1))
        <4>1. t.offset[k] = 0
          BY <3>1, <3>5
        <4>2. QED
          BY <1>4, <3>2, <3>5, <4>1
      <3>6. QED
        BY <3>3, <3>4, <3>5
    <2>5. QED
      BY <2>2, <2>3, <2>4 DEF ScannedTo, C
  <1>6. CASE a # Used
    <2>1. /\ t.cclust = s.cclust + Width(a) /\ t.pos = s.pos + 1 /\ t.error = "ok"
          /\ t.bitmap = s.bitmap /\ t.offset = s.offset
      BY <1>0, <1>3, <1>6, ScanAtomCases
    <2>2. atoms[m + 1] # Used
      BY <1>6
    <2> HIDE DEF C, a
    <2>3. t.error = "ok" /\ t.cclust = C((m + 1) + 1) /\ t.pos = (m + 1) + 1
      <3>1. (m + 1) + 1 = m + 2
        OBVIOUS
      <3>2. QED
        BY <1>1, <1>2, <2>1, <3>1
    <2>4. ASSUME NEW c \in 0 .. nr - 1
          PROVE  c \in t.bitmap <=> \E j \in 1 .. m + 1 : atoms[j] = Used /\ C(j) = c
      <3>1. \A j \in 1 .. m : j \in 1 .. m + 1
        OBVIOUS
      <3>2. QED
        BY <1>2, <1>4, <2>1, <2>2, <3>1
    <2>5. FirstOffsets(t.offset, atoms, m + 1, nr)
      <3> SUFFICES ASSUME NEW k \in 0 .. Bucket(nr)
                   PROVE  IF t.offset[k] = 0
                          THEN \A j \in 1 .. m + 1 : atoms[j] = Used => Bucket(C(j)) # k
                          ELSE /\ t.offset[k] \in 1 .. m + 1 /\ atoms[t.offset[k]] = Used
                               /\ Bucket(C(t.offset[k])) = k
                               /\ \A j \in 1 .. t.offset[k] - 1 :
                                     atoms[j] = Used => Bucket(C(j)) # k
        BY DEF FirstOffsets, C
      <3>1. IF t.offset[k] = 0
            THEN \A j \in 1 .. m : atoms[j] = Used => Bucket(C(j)) # k
            ELSE /\ t.offset[k] \in 1 .. m /\ atoms[t.offset[k]] = Used
                 /\ Bucket(C(t.offset[k])) = k
                 /\ \A j \in 1 .. t.offset[k] - 1 : atoms[j] = Used => Bucket(C(j)) # k
        BY <1>2, <2>1 DEF FirstOffsets, C
      <3>2. t.offset[k] \in 1 .. m => t.offset[k] \in 1 .. m + 1
        OBVIOUS
      <3>3. QED
        BY <1>4, <2>2, <3>1, <3>2
    <2>6. QED
      BY <2>3, <2>4, <2>5 DEF ScannedTo, C
  <1>7. QED
    BY <1>5, <1>6

\* Up to the first damaged atom the loop counts the clusters right.
LEMMA ScanPrefix ==
    ASSUME NEW nr \in Nat, NEW atoms \in Seq(Atom), NEW tol \in BOOLEAN, NEW bits \in StrayBits(nr),
           NEW h, IsScan(h, ScanStart(nr, bits), atoms, nr + 1, tol),
           NEW n \in 0 .. Len(atoms),
           \A i \in 1 .. n : atoms[i] # Damaged /\ ClusterOf(atoms, i) <= nr
    PROVE  ScannedTo(h[n], atoms, n, nr)
  <1> DEFINE T == {m \in Nat : m <= n => ScannedTo(h[m], atoms, m, nr)}
  <1>0. Len(atoms) \in Nat /\ n \in Nat /\ n <= Len(atoms)
    OBVIOUS
  <1>1. 0 \in T
    <2>1. h[0] = ScanStart(nr, bits) /\ bits \subseteq {nr}
      BY ScanStartType DEF IsScan
    <2>2. ClusterOf(atoms, 1) = 0
      BY ClusterOfStep
    <2>3. ScannedTo(ScanStart(nr, bits), atoms, 0, nr)
      BY <2>1, <2>2 DEF ScanStart, ScannedTo, FirstOffsets
    <2>4. QED
      BY <2>1, <2>3
  <1>2. ASSUME NEW m \in Nat, m \in T PROVE m + 1 \in T
    <2>1. SUFFICES ASSUME m + 1 <= n PROVE ScannedTo(h[m + 1], atoms, m + 1, nr)
      OBVIOUS
    <2>2. m + 1 <= Len(atoms) /\ m + 1 \in 1 .. n /\ m + 1 \in 1 .. Len(atoms)
          /\ m \in 0 .. Len(atoms) /\ (m + 1) - 1 = m
      BY <1>0, <2>1
    <2>3. h[m + 1] = ScanAtom(h[m], atoms[m + 1], nr + 1, tol)
      BY <2>2 DEF IsScan
    <2>4. h[m] \in ScanStates(nr)
      BY <2>2, ScanStartType, ScanAllType
    <2>5. ScannedTo(h[m], atoms, m, nr)
      BY <1>0, <1>2, <2>1
    <2>6. QED
      BY <2>2, <2>3, <2>4, <2>5, ScannedStep
  <1>3. QED
    <2> HIDE DEF T
    <2>1. \A m \in Nat : m \in T
      BY <1>1, <1>2, NatSetInduction
    <2>2. n \in T
      BY <1>0, <2>1
    <2>3. QED
      BY <1>0, <2>2 DEF T

\* Behind the clusters that the header counts, the loop leaves their bits and
\* the offsets it has alone.
LEMMA ScanBehind ==
    ASSUME NEW nr \in Nat, NEW atoms \in Seq(Atom), NEW tol \in BOOLEAN,
           \A i \in 1 .. Len(atoms) : atoms[i] # Damaged,
           NEW s \in ScanStates(nr), s.cclust >= nr, NEW t, t = ScanAll(s, atoms, nr + 1, tol)
    PROVE  /\ \A c \in 0 .. nr - 1 : c \in t.bitmap <=> c \in s.bitmap
           /\ \A k \in 0 .. Bucket(nr) : s.offset[k] # 0 => t.offset[k] = s.offset[k]
  <1>0. Len(atoms) \in Nat /\ \A i \in 1 .. Len(atoms) : atoms[i] \in Atom
    OBVIOUS
  <1>1. PICK h : IsScan(h, s, atoms, nr + 1, tol)
    BY <1>0, ScanSteps
  <1> DEFINE Kept(u) == /\ u.cclust >= nr
                        /\ \A c \in 0 .. nr - 1 : c \in u.bitmap <=> c \in s.bitmap
                        /\ \A k \in 0 .. Bucket(nr) : s.offset[k] # 0 => u.offset[k] = s.offset[k]
             T == {m \in Nat : m <= Len(atoms) => Kept(h[m])}
  <1>2. 0 \in T
    BY <1>0, <1>1 DEF IsScan
  <1>3. ASSUME NEW m \in Nat, m \in T PROVE m + 1 \in T
    <2>1. SUFFICES ASSUME m + 1 <= Len(atoms) PROVE Kept(h[m + 1])
      OBVIOUS
    <2> DEFINE u == h[m]
               w == h[m + 1]
               a == atoms[m + 1]
    <2>2. m + 1 \in 1 .. Len(atoms) /\ m \in 0 .. Len(atoms) /\ (m + 1) - 1 = m
      BY <1>0, <2>1
    <2>3. w = ScanAtom(u, a, nr + 1, tol) /\ a \in Atom /\ a # Damaged
      BY <1>0, <1>1, <2>2 DEF IsScan
    <2>4. u \in ScanStates(nr)
      BY <1>1, <2>2, ScanAllType
    <2>5. Kept(u)
      BY <1>0, <1>3, <2>1
    <2>6. u.cclust \in Nat /\ Width(a) \in Nat
      BY <2>3, <2>4, WidthIsNat DEF ScanStates
    <2> HIDE DEF u, w, a
    <2>7. CASE u.error # "ok" \/ u.cclust >= nr + 1
      <3>1. w = u
        BY <2>3, <2>4, <2>7, ScanAtomCases
      <3>2. QED
        BY <2>5, <3>1 DEF w
    <2>8. CASE u.error = "ok" /\ u.cclust < nr + 1 /\ a = Used
      <3>1. /\ w.cclust = u.cclust + 1 /\ w.bitmap = u.bitmap \cup {u.cclust}
            /\ \A k \in 0 .. Bucket(nr) : w.offset[k] =
                  IF k = Bucket(u.cclust) /\ u.offset[k] = 0 THEN u.pos ELSE u.offset[k]
        BY <2>3, <2>4, <2>8, ScanUsed
      <3>2. w.cclust >= nr
        BY <2>5, <2>6, <3>1
      <3>3. \A c \in 0 .. nr - 1 : c \in w.bitmap <=> c \in s.bitmap
        BY <2>5, <2>6, <3>1
      <3>4. \A k \in 0 .. Bucket(nr) : s.offset[k] # 0 => w.offset[k] = s.offset[k]
        BY <2>5, <3>1
      <3>5. QED
        BY <3>2, <3>3, <3>4 DEF w
    <2>9. CASE u.error = "ok" /\ u.cclust < nr + 1 /\ a # Used
      <3>1. w.cclust = u.cclust + Width(a) /\ w.bitmap = u.bitmap /\ w.offset = u.offset
        BY <2>3, <2>4, <2>9, ScanAtomCases
      <3>2. w.cclust >= nr
        BY <2>5, <2>6, <3>1
      <3>3. QED
        BY <2>5, <3>1, <3>2 DEF w
    <2>10. QED
      BY <2>6, <2>7, <2>8, <2>9
  <1>4. QED
    <2> HIDE DEF T
    <2>1. \A m \in Nat : m \in T
      BY <1>2, <1>3, NatSetInduction
    <2>2. Kept(h[Len(atoms)])
      BY <1>0, <2>1 DEF T
    <2>3. t = h[Len(atoms)]
      BY <1>1 DEF IsScan
    <2>4. QED
      BY <2>2, <2>3

\* In strict mode a damaged atom is met and refused.
LEMMA StrictRefuses ==
    ASSUME NEW nr \in Nat, NEW atoms \in Seq(Atom), NEW bits \in StrayBits(nr),
           NEW tol \in BOOLEAN, ~tol, atoms # <<>>, ClusterOf(atoms, Len(atoms)) <= nr, ~Undamaged(atoms)
    PROVE  ScanAll(ScanStart(nr, bits), atoms, nr + 1, tol).error # "ok"
  <1> DEFINE D == {i \in 1 .. Len(atoms) : atoms[i] = Damaged}
  <1>0. Len(atoms) \in Nat /\ Len(atoms) \in 1 .. Len(atoms) + 1
        /\ \A i \in 1 .. Len(atoms) : atoms[i] \in Atom
    OBVIOUS
  <1>1. D \in SUBSET Nat /\ D # {}
    BY <1>0 DEF Undamaged
  <1>2. PICK d \in D : \A e \in D : d <= e
    BY <1>1, LeastElement
  <1>3. d \in 1 .. Len(atoms) /\ d - 1 \in 0 .. Len(atoms) /\ atoms[d] = Damaged /\ d - 1 + 1 = d
    BY <1>0
  <1>4. PICK h : IsScan(h, ScanStart(nr, bits), atoms, nr + 1, tol)
    BY <1>0, ScanSteps
  <1>5. \A i \in 1 .. d : ClusterOf(atoms, i) <= nr
    <2> SUFFICES ASSUME NEW i \in 1 .. d PROVE ClusterOf(atoms, i) <= nr
      OBVIOUS
    <2>1. i \in 1 .. Len(atoms) + 1 /\ Len(atoms) \in i .. Len(atoms) + 1
      BY <1>0, <1>3
    <2>2. ClusterOf(atoms, i) <= ClusterOf(atoms, Len(atoms))
      BY <2>1, ClustersAscend
    <2>3. ClusterOf(atoms, i) \in Nat /\ ClusterOf(atoms, Len(atoms)) \in Nat
      BY <1>0, <2>1, ClusterOfStep
    <2>4. QED
      BY <2>2, <2>3
  <1>6. \A i \in 1 .. d - 1 : atoms[i] # Damaged /\ ClusterOf(atoms, i) <= nr
    BY <1>0, <1>2, <1>3, <1>5
  <1>7. ScannedTo(h[d - 1], atoms, d - 1, nr)
    BY <1>3, <1>4, <1>6, ScanPrefix
  <1>8. h[d - 1].error = "ok" /\ h[d - 1].cclust < nr + 1
    <2>1. h[d - 1].cclust = ClusterOf(atoms, d) /\ h[d - 1].error = "ok"
      BY <1>3, <1>7 DEF ScannedTo
    <2>2. ClusterOf(atoms, d) \in Nat /\ ClusterOf(atoms, d) <= nr
      BY <1>0, <1>3, <1>5, ClusterOfStep
    <2>3. QED
      BY <2>1, <2>2
  <1>9. h[d].error = "EDEADLK"
    <2>1. h[d - 1] \in ScanStates(nr)
      BY <1>3, <1>4, ScanStartType, ScanAllType
    <2>2. h[d] = ScanAtom(h[d - 1], atoms[d], nr + 1, tol)
      BY <1>3, <1>4 DEF IsScan
    <2>3. QED
      BY <1>0, <1>3, <1>8, <2>1, <2>2, ScanAtomCases
  <1>10. h[Len(atoms)] = h[d]
    <2>1. d \in 0 .. Len(atoms) /\ h[d].error # "ok"
      BY <1>3, <1>9
    <2>2. QED
      BY <1>4, <2>1, ScanStartType, ScanStays
  <1>11. QED
    BY <1>4, <1>9, <1>10 DEF IsScan

\* Bits and offsets that are right for the clusters that the header counts.
LEMMA RightIndex ==
    ASSUME NEW nr \in Nat, NEW atoms \in Seq(Atom), NEW v, NEW offset,
           \A i \in 1 .. Len(atoms) : ClusterOf(atoms, i) <= nr,
           \A c \in 0 .. nr - 1 : c \in v.bitmap <=>
               \E j \in 1 .. Len(atoms) : atoms[j] = Used /\ ClusterOf(atoms, j) = c,
           FirstOffsets(offset, atoms, Len(atoms), nr),
           \A k \in 0 .. Bucket(nr) : offset[k] # 0 => v.offset[k] = offset[k]
    PROVE  IndexIsRight(v, atoms, nr)
  <1> DEFINE C(j) == ClusterOf(atoms, j)
  <1>0. Len(atoms) \in Nat /\ UsedAtoms(atoms) = {j \in 1 .. Len(atoms) : atoms[j] = Used}
    BY DEF UsedAtoms
  <1>w. Width(Used) = 1
    BY DEF Width, Used, Damaged
  <1>1. \A j \in 1 .. Len(atoms) : C(j) \in Nat /\ C(j) <= nr
    BY <1>0, ClusterOfStep
  <1>2. UsedClusters(atoms) = {C(j) : j \in UsedAtoms(atoms)}
    BY DEF UsedClusters
  <1> HIDE DEF C
  <1>3. v.bitmap \cap 0 .. nr - 1 = UsedClusters(atoms) \cap 0 .. nr - 1
    <2>1. \A c \in 0 .. nr - 1 : c \in v.bitmap <=> \E j \in 1 .. Len(atoms) : atoms[j] = Used /\ C(j) = c
      BY DEF C
    <2>2. QED
      BY <1>0, <1>2, <2>1
  <1>4. ASSUME NEW i \in UsedAtoms(atoms), C(i) < nr,
               \A q \in BucketStart(C(i)) .. C(i) - 1 : q \notin UsedClusters(atoms)
        PROVE  v.offset[Bucket(C(i))] = i
    <2> DEFINE k == Bucket(C(i))
               o == offset[k]
    <2>1. i \in 1 .. Len(atoms) /\ atoms[i] = Used /\ C(i) \in Nat /\ C(i) <= nr
      BY <1>0, <1>1
    <2>2. k \in 0 .. Bucket(nr)
      BY <2>1, BucketMonotone
    <2>3. IF o = 0
          THEN \A j \in 1 .. Len(atoms) : atoms[j] = Used => Bucket(C(j)) # k
          ELSE /\ o \in 1 .. Len(atoms) /\ atoms[o] = Used /\ Bucket(C(o)) = k
               /\ \A j \in 1 .. o - 1 : atoms[j] = Used => Bucket(C(j)) # k
      BY <2>2 DEF FirstOffsets, C
    <2> HIDE DEF o
    <2>4. o # 0 /\ v.offset[k] = o
      BY <2>1, <2>2, <2>3 DEF o
    <2>5. o \in 1 .. Len(atoms) /\ atoms[o] = Used /\ Bucket(C(o)) = k /\ o <= i
      BY <2>1, <2>3, <2>4
    <2>6. C(o) \in Nat /\ C(o) >= BucketStart(C(i))
      <3>1. C(o) \in Nat
        BY <1>1, <2>5
      <3>2. BucketStart(C(o)) = BucketStart(C(i))
        BY <2>1, <2>5, <3>1, SameBucket
      <3>3. BucketStart(C(o)) \in 0 .. C(o)
        BY <3>1, BucketContains
      <3>4. QED
        BY <3>1, <3>2, <3>3
    <2>7. o \in 1 .. Len(atoms) + 1 /\ i \in o .. Len(atoms) + 1
      BY <1>0, <2>1, <2>5
    <2>8. o < i => C(o) < C(i)
      BY <1>w, <2>5, <2>7, ClustersAscend DEF C
    <2>9. C(o) \in UsedClusters(atoms)
      BY <1>0, <1>2, <2>5
    <2>10. ~(o < i)
      <3> SUFFICES ASSUME o < i PROVE FALSE
        OBVIOUS
      <3>1. BucketStart(C(i)) \in 0 .. C(i)
        BY <2>1, BucketContains
      <3>2. C(o) \in BucketStart(C(i)) .. C(i) - 1
        BY <2>1, <2>6, <2>8, <3>1
      <3>3. QED
        BY <1>4, <2>9, <3>2
    <2>11. QED
      BY <2>1, <2>4, <2>5, <2>10
  <1>5. QED
    BY <1>3, <1>4 DEF IndexIsRight, C

\* v10_verify accepts only undamaged images in strict mode, and the index of
\* an undamaged one is right, whether or not the trailing cluster is in it
\* and whatever a read at the end of the file returns.
LEMMA VerifyRight ==
    ASSUME NEW nr \in Nat, NEW n \in {nr, nr + 1}, NEW atoms \in Seq(Atom), Covers(atoms, n),
           NEW tol \in BOOLEAN, NEW v \in v10_verify(atoms, nr, tol), v.error = "ok"
    PROVE  (tol \/ Undamaged(atoms)) /\ (Undamaged(atoms) => IndexIsRight(v, atoms, nr))
  <1>1. PICK bits \in StrayBits(nr) :
           v \in ScanEnd(ScanAll(ScanStart(nr, bits), atoms, nr + 1, tol), atoms, nr + 1, tol)
    BY DEF v10_verify, ScanStart
  <1> DEFINE s == ScanAll(ScanStart(nr, bits), atoms, nr + 1, tol)
             L == Len(atoms)
  <1>2. L \in Nat \ {0} /\ atoms # <<>> /\ ClusterOf(atoms, L) <= nr
    <2>1. L \in Nat \ {0} /\ atoms # <<>>
      BY DEF Covers
    <2>2. ClusterOf(atoms, L) \in Nat
      BY <2>1, ClusterOfStep
    <2>3. QED
      BY <2>1, <2>2 DEF Covers
  <1>3. v \in ScanEnd(s, atoms, nr + 1, tol)
    BY <1>1
  <1>4. tol \/ Undamaged(atoms)
    <2> SUFFICES ASSUME ~tol, ~Undamaged(atoms) PROVE FALSE
      OBVIOUS
    <2>1. s.error # "ok"
      BY <1>2, StrictRefuses
    <2> HIDE DEF s
    <2>2. v = s
      BY <1>3, <2>1 DEF ScanEnd
    <2>3. QED
      BY <2>1, <2>2
  <1>5. ASSUME Undamaged(atoms) PROVE IndexIsRight(v, atoms, nr)
    <2>0. \A i \in 1 .. L : atoms[i] # Damaged /\ ClusterOf(atoms, i) <= nr
      <3> SUFFICES ASSUME NEW i \in 1 .. L PROVE atoms[i] # Damaged /\ ClusterOf(atoms, i) <= nr
        OBVIOUS
      <3>1. i \in 1 .. Len(atoms) + 1 /\ L \in i .. Len(atoms) + 1 /\ L \in 1 .. Len(atoms) + 1
        BY <1>2
      <3>2. ClusterOf(atoms, i) <= ClusterOf(atoms, L)
        BY <3>1, ClustersAscend
      <3>3. ClusterOf(atoms, i) \in Nat /\ ClusterOf(atoms, L) \in Nat
        BY <3>1, ClusterOfStep
      <3>4. QED
        BY <1>2, <1>5, <3>2, <3>3 DEF Undamaged
    <2>1. PICK h : IsScan(h, ScanStart(nr, bits), atoms, nr + 1, tol)
      BY <1>2, ScanSteps
    <2>2. L \in 0 .. Len(atoms) /\ s = h[L]
      BY <1>2, <2>1 DEF IsScan
    <2>3. ScannedTo(s, atoms, L, nr)
      BY <2>0, <2>1, <2>2, ScanPrefix
    <2>4. s \in ScanStates(nr)
      BY <2>1, <2>2, ScanStartType, ScanAllType
    <2> HIDE DEF s
    <2>5. /\ s.error = "ok" /\ s.cclust = n
          /\ \A c \in 0 .. nr - 1 :
                c \in s.bitmap <=> \E j \in 1 .. L : atoms[j] = Used /\ ClusterOf(atoms, j) = c
          /\ FirstOffsets(s.offset, atoms, L, nr)
      BY <1>5, <2>3 DEF ScannedTo, Covers
    <2>6. SUFFICES /\ \A c \in 0 .. nr - 1 : c \in v.bitmap <=> c \in s.bitmap
                   /\ \A k \in 0 .. Bucket(nr) : s.offset[k] # 0 => v.offset[k] = s.offset[k]
      <3>1. \A c \in 0 .. nr - 1 :
                c \in v.bitmap <=> \E j \in 1 .. L : atoms[j] = Used /\ ClusterOf(atoms, j) = c
        BY <2>5, <2>6
      <3>2. \A i \in 1 .. L : ClusterOf(atoms, i) <= nr
        BY <2>0
      <3>3. QED
        BY <2>5, <2>6, <3>1, <3>2, RightIndex
    <2> DEFINE tail == [i \in 1 .. nr + 1 |-> atoms[Len(atoms)]]
    <2>7. tail \in Seq(Atom) /\ \A i \in 1 .. Len(tail) : tail[i] # Damaged
      <3>1. atoms[Len(atoms)] \in Atom /\ atoms[Len(atoms)] # Damaged
        BY <1>2, <2>0
      <3>2. tail \in Seq(Atom) /\ Len(tail) = nr + 1
        BY <3>1
      <3>3. QED
        BY <3>1, <3>2
    <2>8. s.cclust >= nr
      BY <2>5
    <2> HIDE DEF tail
    <2>9. CASE v = s
      BY <2>9
    <2>10. CASE v = ScanAll(s, tail, nr + 1, tol)
      BY <2>4, <2>7, <2>8, <2>10, ScanBehind
    <2>11. CASE v = [s EXCEPT !.cclust = nr + 1]
      BY <2>4, <2>11 DEF ScanStates
    <2>12. v \in {s, ScanAll(s, tail, nr + 1, tol), [s EXCEPT !.cclust = nr + 1]}
      <3>1. \A r \in ShortErrno : r # "ok" => v # [s EXCEPT !.error = r]
        BY <2>4 DEF ScanStates
      <3>2. QED
        BY <1>3, <3>1 DEF ScanEnd, tail
    <2>13. QED
      BY <2>9, <2>10, <2>11, <2>12
  <1>6. QED
    BY <1>4, <1>5

-----------------------------------------------------------------------------
(* Reading a cluster of an undamaged image                                 *)

\* The walk of seek2cluster, turn after turn.
IsWalk(g, atoms, i, p, c) ==
    /\ g[0] = [pos |-> i, cpos |-> p, error |-> "ok"]
    /\ WalkTo(atoms, i, p, c) = g[Len(atoms) + 1]
    /\ \A n \in 1 .. Len(atoms) + 1 :
          g[n] = CASE g[n - 1].error # "ok" \/ g[n - 1].cpos >= c -> g[n - 1]
                   [] g[n - 1].cpos < c /\ g[n - 1].pos > Len(atoms) -> [g[n - 1] EXCEPT !.error = "EIO"]
                   [] OTHER ->
                        IF atoms[g[n - 1].pos] = Damaged THEN [g[n - 1] EXCEPT !.error = "EDEADLK"]
                        ELSE [g[n - 1] EXCEPT !.pos = @ + 1,
                                              !.cpos = @ + Width(atoms[g[n - 1].pos])]

LEMMA WalkSteps ==
    ASSUME NEW atoms, Len(atoms) \in Nat, NEW i, NEW p, NEW c
    PROVE  \E g : IsWalk(g, atoms, i, p, c)
  <1> DEFINE Turn(w) ==
                 CASE w.error # "ok" \/ w.cpos >= c -> w
                   [] w.cpos < c /\ w.pos > Len(atoms) -> [w EXCEPT !.error = "EIO"]
                   [] OTHER ->
                        IF atoms[w.pos] = Damaged THEN [w EXCEPT !.error = "EDEADLK"]
                        ELSE [w EXCEPT !.pos = @ + 1, !.cpos = @ + Width(atoms[w.pos])]
             first == [pos |-> i, cpos |-> p, error |-> "ok"]
             F(f, n) == IF n = 0 THEN first ELSE Turn(f[n - 1])
             S == {m \in Nat : \E f : f = [n \in 0 .. m |-> F(f, n)]}
             at == CHOOSE f : f = [n \in 0 .. Len(atoms) + 1 |-> F(f, n)]
  <1>0. WalkTo(atoms, i, p, c) = at[Len(atoms) + 1]
    BY DEF WalkTo
  <1>7. ASSUME \A n \in 1 .. Len(atoms) + 1 : at[n] = Turn(at[n - 1]), at[0] = first
        PROVE  IsWalk(at, atoms, i, p, c)
    <2> HIDE DEF at
    <2>1. QED
      BY <1>0, <1>7, Zenon DEF IsWalk
  <1> HIDE DEF Turn, first
  <1>1. 0 \in S
    <2> DEFINE g == [n \in 0 .. 0 |-> first]
    <2>1. g = [n \in 0 .. 0 |-> F(g, n)]
      OBVIOUS
    <2>2. QED
      BY <2>1
  <1>2. ASSUME NEW m \in Nat, m \in S PROVE m + 1 \in S
    <2>1. PICK f : f = [n \in 0 .. m |-> F(f, n)]
      BY <1>2
    <2> DEFINE g == [n \in 0 .. m + 1 |-> IF n = m + 1 THEN Turn(f[m]) ELSE f[n]]
    <2>2. ASSUME NEW n \in 0 .. m + 1 PROVE g[n] = F(g, n)
      <3>1. CASE n = m + 1
        BY <3>1
      <3>2. CASE n \in 0 .. m
        <4>1. g[n] = f[n] /\ (n # 0 => g[n - 1] = f[n - 1])
          BY <3>2
        <4>2. f[n] = F(f, n)
          BY <2>1, <3>2
        <4>3. QED
          BY <4>1, <4>2
      <3>3. QED
        BY <3>1, <3>2
    <2>3. g = [n \in 0 .. m + 1 |-> F(g, n)]
      BY <2>2
    <2> HIDE DEF F, g
    <2>4. m + 1 \in Nat /\ \E f1 : f1 = [n \in 0 .. m + 1 |-> F(f1, n)]
      BY <2>3
    <2>5. QED
      BY <2>4, Zenon
  <1>3. at = [n \in 0 .. Len(atoms) + 1 |-> F(at, n)]
    <2> HIDE DEF S, F
    <2>1. Len(atoms) + 1 \in Nat
      OBVIOUS
    <2>2. Len(atoms) + 1 \in S
      BY <1>1, <1>2, <2>1, NatSetInduction
    <2>3. \E f : f = [n \in 0 .. Len(atoms) + 1 |-> F(f, n)]
      BY <2>2, Zenon DEF S
    <2>4. QED
      BY <2>3
  <1> HIDE DEF at
  <1>4. at[0] = first /\ \A n \in 1 .. Len(atoms) + 1 : at[n] = Turn(at[n - 1])
    BY <1>3
  <1>5. QED
    BY <1>4, <1>7

\* From atom i on the walk comes to atom j, if nothing is damaged and every
\* atom has clusters.
LEMMA WalkArrives ==
    ASSUME NEW atoms \in Seq(Atom), NEW i \in 1 .. Len(atoms), NEW j \in i .. Len(atoms),
           Undamaged(atoms), \A k \in 1 .. Len(atoms) : Width(atoms[k]) >= 1
    PROVE  WalkTo(atoms, i, ClusterOf(atoms, i), ClusterOf(atoms, j)) =
               [pos |-> j, cpos |-> ClusterOf(atoms, j), error |-> "ok"]
  <1> DEFINE C(k) == ClusterOf(atoms, k)
             c == C(j)
             At(k) == [pos |-> k, cpos |-> C(k), error |-> "ok"]
  <1>0. Len(atoms) \in Nat /\ i \in Nat /\ j \in Nat /\ i <= j /\ j <= Len(atoms)
    OBVIOUS
  <1>1. PICK g : IsWalk(g, atoms, i, C(i), c)
    BY <1>0, WalkSteps
  <1>2. \A k \in 1 .. Len(atoms) : atoms[k] # Damaged /\ C(k) \in Nat
                                   /\ C(k + 1) = C(k) + Width(atoms[k])
    BY <1>0, ClusterOfStep DEF Undamaged
  <1>3. \A k \in i .. j - 1 : C(k) < c
    <2> SUFFICES ASSUME NEW k \in i .. j - 1 PROVE C(k) < c
      OBVIOUS
    <2>1. k \in 1 .. Len(atoms) + 1 /\ j \in k .. Len(atoms) + 1 /\ k < j /\ k \in 1 .. Len(atoms)
      BY <1>0
    <2>2. QED
      BY <2>1, ClustersAscend
  <1>4. g[0] = At(i) /\ WalkTo(atoms, i, C(i), c) = g[Len(atoms) + 1]
    BY <1>1 DEF IsWalk
  <1>5. ASSUME NEW n \in 1 .. Len(atoms) + 1, g[n - 1] = At(j) PROVE g[n] = At(j)
    <2>1. g[n - 1].cpos = c /\ c \in Nat
      BY <1>0, <1>2, <1>5
    <2> HIDE DEF c, At
    <2>2. g[n - 1].cpos >= c
      BY <2>1
    <2>3. ~(g[n - 1].cpos < c)
      BY <2>1
    <2>4. g[n] = g[n - 1]
      BY <1>1, <2>2, <2>3, Zenon DEF IsWalk
    <2>5. QED
      BY <1>5, <2>4
  <1>6. ASSUME NEW n \in 1 .. Len(atoms) + 1, NEW k \in i .. j - 1, g[n - 1] = At(k)
        PROVE  g[n] = At(k + 1)
    <2> DEFINE w == g[n - 1]
    <2>1. w.error = "ok" /\ w.cpos = C(k) /\ w.pos = k /\ w = [pos |-> k, cpos |-> C(k), error |-> "ok"]
      BY <1>6
    <2>2. C(k) < c /\ c \in Nat /\ C(k) \in Nat /\ k \in 1 .. Len(atoms)
      BY <1>0, <1>2, <1>3
    <2> HIDE DEF c, C
    <2>3. ~(w.error # "ok" \/ w.cpos >= c) /\ ~(w.cpos < c /\ w.pos > Len(atoms))
          /\ atoms[w.pos] # Damaged
      BY <1>0, <1>2, <2>1, <2>2
    <2>4. g[n] = [w EXCEPT !.pos = @ + 1, !.cpos = @ + Width(atoms[w.pos])]
      BY <1>1, <2>3, Zenon DEF IsWalk
    <2> HIDE DEF w
    <2>5. g[n] = [pos |-> k + 1, cpos |-> C(k) + Width(atoms[k]), error |-> "ok"]
      BY <2>1, <2>4
    <2>6. QED
      BY <1>2, <2>2, <2>5
  <1> DEFINE T == {n \in Nat : n <= Len(atoms) + 1 =>
                      IF n <= j - i THEN g[n] = At(i + n) ELSE g[n] = At(j)}
  <1> HIDE DEF C, c, At
  <1>7. 0 \in T
    BY <1>0, <1>4
  <1>8. ASSUME NEW n \in Nat, n \in T PROVE n + 1 \in T
    <2>1. SUFFICES ASSUME n + 1 <= Len(atoms) + 1
                   PROVE  IF n + 1 <= j - i THEN g[n + 1] = At(i + (n + 1)) ELSE g[n + 1] = At(j)
      OBVIOUS
    <2>2. n + 1 \in 1 .. Len(atoms) + 1 /\ (n + 1) - 1 = n
      BY <1>0, <2>1
    <2>3. IF n <= j - i THEN g[n] = At(i + n) ELSE g[n] = At(j)
      BY <1>0, <1>8, <2>1
    <2>4. CASE n + 1 <= j - i
      <3>1. i + n \in i .. j - 1 /\ (i + n) + 1 = i + (n + 1) /\ n <= j - i
        BY <1>0, <2>4
      <3>2. g[(n + 1) - 1] = At(i + n)
        BY <2>2, <2>3, <3>1
      <3>3. g[n + 1] = At((i + n) + 1)
        BY <1>6, <2>2, <3>1, <3>2
      <3>4. QED
        BY <2>4, <3>1, <3>3
    <2>5. CASE ~(n + 1 <= j - i)
      <3>1. n <= j - i => i + n = j
        BY <1>0, <2>5
      <3>2. g[(n + 1) - 1] = At(j)
        BY <2>2, <2>3, <3>1
      <3>3. QED
        BY <1>5, <2>2, <2>5, <3>2
    <2>6. QED
      BY <2>4, <2>5
  <1>9. g[Len(atoms) + 1] = At(j)
    <2> HIDE DEF T
    <2>1. \A n \in Nat : n \in T
      BY <1>7, <1>8, NatSetInduction
    <2>2. Len(atoms) + 1 \in T /\ ~(Len(atoms) + 1 <= j - i)
      BY <1>0, <2>1
    <2>3. QED
      BY <1>0, <2>2 DEF T
  <1>10. QED
    BY <1>4, <1>9 DEF At, C, c

\* The first used cluster of the bucket of a used one.
LEMMA FirstUsedIsFirst ==
    ASSUME NEW bitmap, NEW c \in Nat, c \in bitmap
    PROVE  /\ FirstUsed(bitmap, c) \in BucketStart(c) .. c /\ FirstUsed(bitmap, c) \in bitmap
           /\ \A q \in BucketStart(c) .. FirstUsed(bitmap, c) - 1 : q \notin bitmap
  <1> DEFINE T == {p \in BucketStart(c) .. c : p \in bitmap}
  <1>1. BucketStart(c) \in 0 .. c
    BY BucketContains
  <1>2. T \in SUBSET Nat /\ T # {}
    BY <1>1
  <1>3. PICK p \in T : \A q \in T : p <= q
    BY <1>2, LeastElement
  <1>4. p \in BucketStart(c) .. c /\ p \in bitmap /\ \A q \in BucketStart(c) .. p - 1 : q \notin bitmap
    BY <1>1, <1>3
  <1>5. QED
    BY <1>4 DEF FirstUsed

\* A read with the right index gives the cluster, if the count kept for the
\* current bucket is that of the free clusters before its first used one.
LEMMA ReadRight ==
    ASSUME NEW nr \in Nat, NEW n, NEW atoms \in Seq(Atom), Covers(atoms, n), Undamaged(atoms),
           NEW ix, IndexIsRight(ix, atoms, nr), NEW bucket, NEW bsfcount, NEW c \in 0 .. nr - 1,
           c \in ix.bitmap /\ Bucket(c) = bucket =>
               BucketStart(c) + bsfcount = FirstUsed(ix.bitmap, c)
    PROVE  ReadImage(atoms, ix, bucket, bsfcount, c) = <<"ok", ClusterContent(atoms, c)>>
  <1> DEFINE C(k) == ClusterOf(atoms, k)
             f == FirstUsed(ix.bitmap, c)
             w == seek2cluster(atoms, ix, bucket, bsfcount, c)
  <1>0. /\ Len(atoms) \in Nat /\ UsedAtoms(atoms) = {k \in 1 .. Len(atoms) : atoms[k] = Used}
        /\ \A k \in 1 .. Len(atoms) : Width(atoms[k]) >= 1
    BY DEF UsedAtoms, Covers, Undamaged
  <1>1. UsedClusters(atoms) = {C(k) : k \in UsedAtoms(atoms)}
    BY DEF UsedClusters
  <1>2. \A q \in 0 .. nr - 1 : q \in ix.bitmap <=> q \in UsedClusters(atoms)
    BY DEF IndexIsRight
  <1>3. CASE c \notin ix.bitmap
    BY <1>2, <1>3 DEF ReadImage, ClusterContent
  <1>4. CASE c \in ix.bitmap
    <2>1. f \in BucketStart(c) .. c /\ f \in ix.bitmap /\ BucketStart(c) \in 0 .. c
          /\ \A q \in BucketStart(c) .. f - 1 : q \notin ix.bitmap
      <3>1. c \in Nat
        OBVIOUS
      <3>2. BucketStart(c) \in 0 .. c
        BY <3>1, BucketContains
      <3> HIDE DEF f
      <3>3. QED
        BY <1>4, <3>1, <3>2, FirstUsedIsFirst DEF f
    <2> HIDE DEF f
    <2>2. f \in 0 .. nr - 1 /\ f \in Nat
      BY <2>1
    <2>3. PICK j \in UsedAtoms(atoms) : C(j) = c
      BY <1>1, <1>2, <1>4
    <2>4. PICK i \in UsedAtoms(atoms) : C(i) = f
      BY <1>1, <1>2, <2>1, <2>2
    <2>5. i \in 1 .. Len(atoms) /\ j \in 1 .. Len(atoms) /\ atoms[j] = Used
      BY <1>0
    <2>6. i <= j
      <3> SUFFICES ASSUME j < i PROVE FALSE
        BY <1>0, <2>5
      <3>1. j \in 1 .. Len(atoms) + 1 /\ i \in j .. Len(atoms) + 1 /\ Width(atoms[j]) >= 1
        BY <1>0, <2>5
      <3>2. C(j) < C(i)
        BY <3>1, ClustersAscend
      <3>3. QED
        BY <2>1, <2>2, <2>3, <2>4, <3>2
    <2>7. Bucket(f) = Bucket(c) /\ BucketStart(f) = BucketStart(c)
      BY <2>1, <2>2, SameBucket
    <2>8. ix.offset[Bucket(c)] = i
      <3>1. \A q \in BucketStart(f) .. f - 1 : q \notin UsedClusters(atoms)
        BY <1>2, <2>1, <2>2, <2>7
      <3>2. C(i) < nr /\ \A q \in BucketStart(C(i)) .. C(i) - 1 : q \notin UsedClusters(atoms)
        BY <2>2, <2>4, <3>1
      <3>3. ix.offset[Bucket(C(i))] = i
        BY <3>2, Zenon DEF IndexIsRight
      <3>4. QED
        BY <2>4, <2>7, <3>3
    <2>9. w = WalkTo(atoms, i, f, c)
      <3>1. c \in ix.bitmap /\ ix.offset[Bucket(c)] # 0
        BY <1>4, <2>5, <2>8
      <3>2. (IF Bucket(c) = bucket THEN BucketStart(c) + bsfcount ELSE FirstUsed(ix.bitmap, c)) = f
        BY <1>4 DEF f
      <3>3. QED
        BY <2>8, <3>1, <3>2 DEF seek2cluster
    <2>10. w = [pos |-> j, cpos |-> c, error |-> "ok"]
      <3>1. j \in i .. Len(atoms)
        BY <1>0, <2>5, <2>6
      <3>2. WalkTo(atoms, i, C(i), C(j)) = [pos |-> j, cpos |-> C(j), error |-> "ok"]
        BY <1>0, <2>5, <3>1, WalkArrives
      <3>3. QED
        BY <2>3, <2>4, <2>9, <3>2
    <2> HIDE DEF w
    <2>11. w.pos = j /\ w.cpos = c /\ w.error = "ok"
      BY <2>10
    <2>12. ~(\A k \in UsedAtoms(atoms) : k < w.pos)
      BY <2>5, <2>11
    <2>13. ReadImage(atoms, ix, bucket, bsfcount, c) = <<"ok", <<"base", C(j)>>>>
      BY <1>4, <2>5, <2>11, <2>12 DEF ReadImage, w
    <2>14. c \in UsedClusters(atoms)
      BY <1>2, <1>4
    <2>15. QED
      BY <2>3, <2>13, <2>14 DEF ClusterContent
  <1>5. QED
    BY <1>3, <1>4
=============================================================================
