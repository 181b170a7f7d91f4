----------------------------- MODULE ImageIndex -----------------------------
(***************************************************************************)
(* Seeking in a partclone image and reading on from there, without a       *)
(* change file: the bitmap is loaded (v1_verify, v2_verify), the counts    *)
(* are precalculated, and from then on v1_nvbcount must stay the number    *)
(* of stored blocks before the current one.                                *)
(***************************************************************************)
EXTENDS BlockIndex

CONSTANTS
    MaxTotal,       \* bound on totalblock
    BitmapBytes,    \* values of a byte of a version 1 bitmap
    Heads           \* header layouts: head_size, block_size, checksums

ASSUME MaxTotalAssumption == MaxTotal \in Nat \ {0}
ASSUME HeadsAssumption == Heads \subseteq HeadType

VARIABLES
    total,      \* pc_head.totalblock
    head,       \* the header fields that give the offsets
    bitmap,     \* v1_bitmap
    sumcount,   \* v1_sumcount
    curblock,   \* pc_curblock
    nvbcount,   \* v1_nvbcount
    got,        \* the last stored block read since the last seek, and its file offset
    sought      \* history: where the last seek led

ivars == <<total, head, bitmap, sumcount, curblock, nvbcount, got, sought>>

\* Version 1 has a byte a block, version 2 a bit a block.
Bitmaps(n) ==
    [0 .. n - 1 -> BitmapBytes]
        \cup {ByteMap(bytes, n) : bytes \in [0 .. (n - 1) \div 8 -> 0 .. 255]}

Init ==
    /\ total \in 1 .. MaxTotal /\ head \in Heads
    /\ bitmap \in Bitmaps(total)
    /\ sumcount = precalculate_sumcount(bitmap, total)
    /\ curblock = 0 /\ nvbcount = 0 /\ got = <<>> /\ sought = 0

\* partclone_seek goes up to and including totalblock.
Seek(blockno) ==
    /\ blockno <= total
    /\ nvbcount' = v1_seek(bitmap, sumcount, blockno) /\ curblock' = blockno
    /\ got' = <<>> /\ sought' = blockno
    /\ UNCHANGED <<total, head, bitmap, sumcount>>

\* v1_readblock: a stored block is read at the offset of slot nvbcount.
ReadBlock ==
    /\ curblock < total
    /\ IF bitmap[curblock] # 0
       THEN got' = <<curblock, rblock2offset(head, nvbcount)>> /\ nvbcount' = nvbcount + 1
       ELSE UNCHANGED <<got, nvbcount>>
    /\ curblock' = curblock + 1
    /\ UNCHANGED <<total, head, bitmap, sumcount, sought>>

Next == ReadBlock \/ \E b \in 0 .. MaxTotal : Seek(b)

Spec == Init /\ [][Next]_ivars

-----------------------------------------------------------------------------

TypeOK ==
    /\ total \in 1 .. MaxTotal /\ head \in Heads
    /\ curblock \in 0 .. total /\ sought \in 0 .. curblock
    /\ nvbcount \in Nat /\ got \in {<<>>} \cup (0 .. total - 1) \X Nat

\* precalculate_sumcount counts the bytes that are 1, v1_seek and
\* v1_readblock those that are not 0: no byte that they tell apart, which
\* version 1 images do have, is between the start of the bucket that the last
\* seek led to and the current block.  Any byte may be anywhere else.
Plain == \A b \in BucketStart(sought) .. curblock - 1 : bitmap[b] \in {0, 1}

\* "Preceding valid blocks": wherever a seek or a run of reads has led,
\* v1_nvbcount is the number of bitmap bytes before the current block that
\* are 1, across bucket boundaries and whatever the bucket size.
CountsPrecedingBlocks == curblock < total /\ Plain => nvbcount = Preceding(bitmap, curblock)

\* A block that is read comes from where partclone wrote it, checksums
\* between the blocks included.
ReadsWhereWritten ==
    got # <<>> /\ Plain => got[2] = WrittenAt(head, Preceding(bitmap, got[1]))
=============================================================================
