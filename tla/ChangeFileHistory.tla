-------------------------- MODULE ChangeFileHistory -------------------------
(***************************************************************************)
(* The change file with a history variable: the content of the last write  *)
(* to each block that cf_writeblock acknowledged, as far as it is owed.    *)
(***************************************************************************)
EXTENDS ChangeFile

VARIABLE acked

\* The call that returns has written all of the data and of the trailer.
Whole == pc = "wr_trl" /\ map'[cur] \in DOMAIN slots' /\ slots'[map'[cur]].crc = buf

\* What an acknowledged write is owed.  An error leaves the content open, and
\* so does a short transfer that is taken for success; a process that ends
\* keeps its promises for the blocks of the file's map.
Owed ==
    acked' = [b \in Blocks |->
        IF Writing /\ pc' = "idle" /\ b = cur THEN IF ret' = "ok" /\ Whole THEN buf ELSE None
        ELSE IF st # "closed" /\ st' = "closed" /\ dmap'[b] = 0 THEN None
        ELSE acked[b]]

HInit == Init /\ acked = [b \in Blocks |-> None]
HNext == Next /\ Owed
HSpec == HInit /\ [][HNext]_<<vars, acked>>

\* A write that cf_writeblock acknowledged, no transfer of which was short,
\* reads back from every later verified handle, until the next write to that
\* block or, for a block that is not in the file's map yet, the end of the
\* process.
AckedWritesReadBack ==
    st = "ready" =>
        \A b \in Blocks : acked[b] # None /\ ~(Writing /\ b = cur) => Content(map, b) = acked[b]
=============================================================================
