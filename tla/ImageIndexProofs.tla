-------------------------- MODULE ImageIndexProofs --------------------------
(***************************************************************************)
(* Seeking and reading in a partclone image finds every stored block where *)
(* it was written: for every size of the image and of its buckets, every   *)
(* bitmap and every layout of the header.                                  *)
(***************************************************************************)
EXTENDS ImageIndex, IndexProofs

\* The bytes between the start of the bucket that was sought and block b are
\* 0 or 1.
PlainTo(b) == \A i \in BucketStart(sought) .. b - 1 : bitmap[i] \in {0, 1}

IndexInv ==
    /\ total \in 1 .. MaxTotal /\ head \in Heads /\ nvbcount \in Nat
    /\ curblock \in 0 .. total /\ sought \in 0 .. curblock
    /\ sumcount = precalculate_sumcount(bitmap, total)
    /\ CountsPrecedingBlocks
    /\ got = <<>> \/ \E b \in 0 .. total - 1, n \in Nat :
                        /\ b < curblock /\ got = <<b, rblock2offset(head, n)>>
                        /\ PlainTo(b) => n = Preceding(bitmap, b)

LEMMA IndexInit == Init => IndexInv
  <1> SUFFICES ASSUME Init PROVE IndexInv
    OBVIOUS
  <1>1. total \in 1 .. MaxTotal /\ total \in Nat
    BY MaxTotalAssumption DEF Init
  <1>2. CountsPrecedingBlocks
    BY PrecedingStep DEF Init, CountsPrecedingBlocks
  <1>3. QED
    BY <1>1, <1>2 DEF Init, IndexInv

LEMMA IndexStep == IndexInv /\ [Next]_ivars => IndexInv'
  <1> SUFFICES ASSUME IndexInv, [Next]_ivars PROVE IndexInv'
    OBVIOUS
  <1>0. total \in Nat /\ curblock \in Nat /\ nvbcount \in Nat /\ sought \in Nat
        /\ curblock <= total /\ sought <= curblock
    BY MaxTotalAssumption DEF IndexInv
  <1>1. ASSUME NEW b \in 0 .. MaxTotal, Seek(b) PROVE IndexInv'
    <2>1. b \in 0 .. total /\ b \in Nat
      BY <1>0, <1>1, MaxTotalAssumption DEF Seek
    <2>2. nvbcount' = v1_seek(bitmap, precalculate_sumcount(bitmap, total), b)
      BY <1>1 DEF Seek, IndexInv
    <2>3. nvbcount' \in Nat
      BY <1>0, <2>1, <2>2, SeekIsNat
    <2>4. ASSUME b < total, \A i \in BucketStart(b) .. b - 1 : bitmap[i] \in {0, 1}
          PROVE  nvbcount' = Preceding(bitmap, b)
      BY <1>0, <2>1, <2>2, <2>4, SeekCounts
    <2>5. CountsPrecedingBlocks'
      BY <1>1, <2>4 DEF Seek, CountsPrecedingBlocks, Plain
    <2>6. QED
      BY <1>1, <2>1, <2>3, <2>5 DEF Seek, IndexInv
  <1>2. ASSUME ReadBlock PROVE IndexInv'
    <2>1. curblock < total /\ curblock + 1 \in 0 .. total /\ curblock \in 0 .. total - 1
      BY <1>0, <1>2 DEF ReadBlock
    <2>2. PlainTo(curblock) => nvbcount = Preceding(bitmap, curblock)
      BY <2>1 DEF IndexInv, CountsPrecedingBlocks, Plain, PlainTo
    <2>3. nvbcount' = nvbcount + (IF bitmap[curblock] # 0 THEN 1 ELSE 0) /\ nvbcount' \in Nat
      BY <1>0, <1>2 DEF ReadBlock
    <2>4. CountsPrecedingBlocks'
      <3>1. SUFFICES ASSUME Plain' PROVE nvbcount' = Preceding(bitmap, curblock + 1)
        BY <1>2 DEF CountsPrecedingBlocks, ReadBlock
      <3>2. \A i \in BucketStart(sought) .. curblock : bitmap[i] \in {0, 1}
        BY <1>0, <1>2, <3>1 DEF Plain, ReadBlock
      <3>3. BucketStart(sought) \in 0 .. sought
        BY <1>0, BucketContains
      <3>4. PlainTo(curblock) /\ bitmap[curblock] \in {0, 1}
        BY <1>0, <3>2, <3>3 DEF PlainTo
      <3>5. Preceding(bitmap, curblock + 1) = nvbcount + IF bitmap[curblock] = 1 THEN 1 ELSE 0
        BY <1>0, <2>2, <3>4, PrecedingStep
      <3>6. QED
        BY <2>3, <3>4, <3>5
    <2>5. CASE bitmap[curblock] = 0
      BY <1>0, <1>2, <2>1, <2>3, <2>4, <2>5 DEF ReadBlock, IndexInv, PlainTo
    <2>6. CASE bitmap[curblock] # 0
      <3>1. got' = <<curblock, rblock2offset(head, nvbcount)>>
        BY <1>2, <2>6 DEF ReadBlock
      <3>2. curblock < curblock' /\ curblock' \in 0 .. total /\ sought' \in 0 .. curblock'
        BY <1>0, <1>2, <2>1 DEF ReadBlock
      <3>3. \E b \in 0 .. total - 1, n \in Nat :
               /\ b < curblock' /\ got' = <<b, rblock2offset(head, n)>>
               /\ PlainTo(b) => n = Preceding(bitmap, b)
        BY <1>0, <2>1, <2>2, <3>1, <3>2
      <3>4. QED
        BY <1>2, <2>3, <2>4, <3>2, <3>3 DEF ReadBlock, IndexInv, PlainTo
    <2>7. QED
      BY <2>5, <2>6
  <1>3. CASE UNCHANGED ivars
    BY <1>3 DEF ivars, IndexInv, CountsPrecedingBlocks, Plain, PlainTo
  <1>4. QED
    BY <1>1, <1>2, <1>3 DEF Next

\* A block that was read came from where partclone wrote it.
LEMMA IndexImplies == IndexInv => TypeOK /\ CountsPrecedingBlocks /\ ReadsWhereWritten
  <1> SUFFICES ASSUME IndexInv PROVE TypeOK /\ ReadsWhereWritten
    BY DEF IndexInv
  <1>1. CASE got = <<>>
    BY <1>1 DEF IndexInv, TypeOK, ReadsWhereWritten
  <1>2. ASSUME NEW b \in 0 .. total - 1, NEW n \in Nat, b < curblock,
               got = <<b, rblock2offset(head, n)>>, PlainTo(b) => n = Preceding(bitmap, b)
        PROVE  TypeOK /\ ReadsWhereWritten
    <2>1. head \in HeadType /\ b \in Nat
      BY HeadsAssumption, MaxTotalAssumption DEF IndexInv
    <2>2. rblock2offset(head, n) = WrittenAt(head, n) /\ rblock2offset(head, n) \in Nat
      BY <2>1, OffsetIsWhereWritten, OffsetIsNat
    <2>3. Plain => PlainTo(b)
      <3>1. sought \in Nat /\ curblock \in Nat
        BY MaxTotalAssumption DEF IndexInv
      <3>2. BucketStart(sought) \in Nat
        BY <3>1, BucketContains
      <3>3. QED
        BY <1>2, <2>1, <3>1, <3>2 DEF Plain, PlainTo
    <2>4. QED
      BY <1>2, <2>2, <2>3 DEF IndexInv, TypeOK, ReadsWhereWritten
  <1>3. QED
    BY <1>1, <1>2 DEF IndexInv

\* The variables of the index keep their types.
THEOREM IndexTypeCorrect == Spec => []TypeOK
  BY IndexInit, IndexStep, IndexImplies, PTL DEF Spec

\* Wherever seeks and reads have led, v1_nvbcount is the number of stored
\* blocks before the current one, across all bucket boundaries, unless a byte
\* other than 0 and 1 was counted since the start of the sought bucket.
THEOREM CountIsRight == Spec => []CountsPrecedingBlocks
  BY IndexInit, IndexStep, IndexImplies, PTL DEF Spec

\* Every stored block that v1_readblock reads comes from the offset that
\* partclone wrote it to, with the checksums between the blocks, unless a byte
\* other than 0 and 1 was counted since the start of the sought bucket.
THEOREM OffsetIsRight == Spec => []ReadsWhereWritten
  BY IndexInit, IndexStep, IndexImplies, PTL DEF Spec
=============================================================================
