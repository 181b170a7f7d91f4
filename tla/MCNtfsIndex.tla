---------------------------- MODULE MCNtfsIndex -----------------------------
(* All images of up to MaxClusters clusters, with and without damage.      *)
EXTENDS NtfsIndex

BothErrnos == {"ok", "EIO"}   \* errno may be 0 at the end of the file
=============================================================================
