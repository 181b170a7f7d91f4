----------------------------- MODULE BlockIndex -----------------------------
(***************************************************************************)
(* Where a block of the device is in a partclone image: the block counts   *)
(* that libpartclone precalculates from the bitmap, the count it derives   *)
(* from them at every seek, and the file offset of the n-th stored block.  *)
(***************************************************************************)
EXTENDS Buckets, FiniteSets

CONSTANT Garbage    \* what malloc left in a count that is never assigned

ASSUME GarbageAssumption == Garbage \in Nat

\* The header fields that the offsets depend on.
HeadType == [head_size : Nat, block_size : Nat, checksum_size : Nat, blocks_per_checksum : Nat]

\* nset: the number of blocks i < n whose bitmap byte is 1.
SetBefore(bitmap, total) ==
    LET nset[n \in 0 .. total] ==
            IF n = 0 THEN 0 ELSE nset[n - 1] + (IF bitmap[n - 1] = 1 THEN 1 ELSE 0)
    IN  nset

\* precalculate_sumcount: one count for each bucket that has a block.  The
\* array has one entry more when the last bucket is full.
precalculate_sumcount(bitmap, total) ==
    [k \in 0 .. Bucket(total) |->
        IF k * 2 ^ Factor < total THEN SetBefore(bitmap, total)[k * 2 ^ Factor] ELSE Garbage]

\* Mutants: one less; without the bucket's count; without its first block.
v1_seek_Less(bitmap, sumcount, blockno) ==
    sumcount[Bucket(blockno)]
        + Cardinality({pbn \in BucketStart(blockno) .. blockno - 1 : bitmap[pbn] # 0}) - 1
v1_seek_NoSum(bitmap, sumcount, blockno) ==
    Cardinality({pbn \in BucketStart(blockno) .. blockno - 1 : bitmap[pbn] # 0})
v1_seek_Late(bitmap, sumcount, blockno) ==
    sumcount[Bucket(blockno)]
        + Cardinality({pbn \in BucketStart(blockno) + 1 .. blockno - 1 : bitmap[pbn] # 0})

\* v1_seek: from the nearest count on, the bytes that are not 0.
v1_seek(bitmap, sumcount, blockno) ==
    sumcount[Bucket(blockno)]
        + Cardinality({pbn \in BucketStart(blockno) .. blockno - 1 : bitmap[pbn] # 0})

\* Mutants: blocks numbered from 1; no checksums between the blocks.
rblock2offset_FromOne(head, rbnum) == head.head_size + (rbnum - 1) * head.block_size
rblock2offset_NoChecksum(head, rbnum) == head.head_size + rbnum * head.block_size

\* rblock2offset: the stored blocks follow the header, with a checksum after
\* every blocks_per_checksum of them.
rblock2offset(head, rbnum) ==
    head.head_size + rbnum * head.block_size
        + IF head.blocks_per_checksum = 0 THEN 0
          ELSE (rbnum \div head.blocks_per_checksum) * head.checksum_size

\* v2_verify: the bytes of a version 2 bitmap hold eight blocks each, the
\* first one in the lowest bit.
ByteMap(bytes, total) ==
    [i \in 0 .. total - 1 |-> (bytes[i \div 8] \div 2 ^ (i % 8)) % 2]

-----------------------------------------------------------------------------
(* Reference definitions                                                   *)

\* "Preceding valid blocks".
Preceding(bitmap, b) == Cardinality({i \in 0 .. b - 1 : bitmap[i] = 1})

\* The layout as partclone writes it, block after block: where block r
\* starts, given that r blocks were written before it.
WrittenAt(head, r) ==
    LET at[n \in 0 .. r] ==
            IF n = 0 THEN head.head_size
            ELSE at[n - 1] + head.block_size
                 + IF head.blocks_per_checksum > 0 /\ n % head.blocks_per_checksum = 0
                   THEN head.checksum_size ELSE 0
    IN  at[r]
=============================================================================
