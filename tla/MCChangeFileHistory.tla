------------------------ MODULE MCChangeFileHistory -------------------------
(* The change file and its acknowledged writes on small instances.         *)
EXTENDS ChangeFileHistory

BothErrnos == {"ok", "EIO"}   \* errno may be 0 when a transfer is short

ClientCounts == {0, N}        \* libpartclone passes 0, the other two N
=============================================================================
