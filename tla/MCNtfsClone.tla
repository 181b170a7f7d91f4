---------------------------- MODULE MCNtfsClone -----------------------------
(* Three clusters, one of them the trailing one, in buckets of two.        *)
EXTENDS NtfsClone

ErrnoSet   == {"EIO"}
NtfsCounts == {N}
BothErrnos == {"ok", "EIO"}
SmallImages ==
    {[minor |-> 1, atoms |-> <<Used, Empty(1), Used>>],
     [minor |-> 0, atoms |-> <<Empty(1), Used>>],          \* version 10.0: no trailing cluster
     [minor |-> 1, atoms |-> <<Used, Damaged, Used, Used>>]}
=============================================================================
