---------------------------- MODULE MCImageIndex ----------------------------
(* All bitmaps of up to MaxTotal blocks, with buckets of two blocks.       *)
EXTENDS ImageIndex

Layouts ==   \* version 1: one checksum a block; version 2: one every k, or none
    {[head_size |-> 3, block_size |-> 4, checksum_size |-> 1, blocks_per_checksum |-> k] :
        k \in {0, 1, 2}}
=============================================================================
