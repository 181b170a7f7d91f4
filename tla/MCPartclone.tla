---------------------------- MODULE MCPartclone -----------------------------
(* A partclone image of a few blocks, with buckets of two blocks.          *)
EXTENDS Partclone, TLC

BothErrnos == {"ok", "EIO"}
PartcloneCounts == {0}
Holey == [b \in Blocks |-> IF b = 0 THEN 0 ELSE 1]   \* block 0 is not stored
Full  == [b \in Blocks |-> 1]
=============================================================================
