------------------------------ MODULE Overlay -------------------------------
(***************************************************************************)
(* What a change file promises to the image that is written through it: a  *)
(* set of changed blocks, of which the ones that have become durable       *)
(* survive the process.  A block becomes durable when the map is flushed   *)
(* and from then on every write to it is durable at once.  The only        *)
(* content that can ever be damaged is that of the block being written.    *)
(***************************************************************************)
CONSTANTS Block, Data, None, Bad

VARIABLES
    open,   \* is a verified handle held?
    vol,    \* content the handle sees: None for an unchanged block
    dur,    \* content a process started now would see
    busy    \* <<block, content>> of the write in progress, or None

ovars == <<open, vol, dur, busy>>

Init ==
    /\ open = FALSE /\ busy = None
    /\ vol = [b \in Block |-> None] /\ dur = vol

Open == open' = TRUE /\ vol' = dur /\ busy = None /\ UNCHANGED <<dur, busy>>

\* The handle goes away, in an orderly way or not.
Close == open' = FALSE /\ vol' = dur /\ busy' = None /\ UNCHANGED dur

StartWrite(b, d) ==
    /\ open /\ busy = None
    /\ busy' = <<b, d>> /\ UNCHANGED <<open, vol, dur>>

\* The write in progress goes on or ends.  A new block appears whole or not
\* at all; a block that was there keeps its content, is damaged, or has the
\* new one, and its durable copy, if there is one, is the same copy.
WriteStep ==
    /\ open /\ busy # None /\ busy' \in {busy, None}
    /\ LET b == busy[1]
           d == busy[2]
       IN  \E x \in IF vol[b] = None THEN {None, d} ELSE {vol[b], Bad, d} :
              /\ vol' = [vol EXCEPT ![b] = x]
              /\ dur' = [dur EXCEPT ![b] = IF dur[b] = None THEN None ELSE x]
    /\ UNCHANGED open

\* A flush makes some of the blocks durable, all of them if it succeeds; the
\* handle may be closed with it.
Flush ==
    /\ open /\ busy = None
    /\ \E S \in SUBSET Block :
          dur' = [b \in Block |-> IF b \in S THEN vol[b] ELSE dur[b]]
    /\ \/ UNCHANGED <<open, vol>>
       \/ open' = FALSE /\ vol' = dur'
    /\ UNCHANGED busy

Next ==
    \/ Open \/ Close \/ WriteStep \/ Flush
    \/ \E b \in Block, d \in Data : StartWrite(b, d)

Spec == Init /\ [][Next]_ovars
=============================================================================
