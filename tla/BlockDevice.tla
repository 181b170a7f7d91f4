----------------------------- MODULE BlockDevice ----------------------------
(***************************************************************************)
(* What the server of a network block device promises to the kernel, one   *)
(* request at a time: a read returns the bytes of the device, a write of   *)
(* whole blocks that succeeds has changed them and nothing else, and one   *)
(* that fails has changed some of them.  A write of parts of blocks, and   *)
(* one whose payload a signal interrupts, may spoil the blocks it touches, *)
(* and no others.  A signal may also cut an answer short: of its data      *)
(* nothing is promised then, nor that the kernel finds where the next      *)
(* answer starts.                                                          *)
(***************************************************************************)
EXTENDS Integers, Sequences

CONSTANTS
    BlockSize,      \* bytes of a block
    BlockCount      \* blocks of the device

VARIABLES
    content,    \* the bytes of the device
    cur,        \* the request being served, or NoReq
    answer,     \* the last request answered and how, and whether in whole
    spoilt      \* did a signal interrupt a payload?

dvars == <<content, cur, answer, spoilt>>

Bytes == 0 .. BlockSize * BlockCount - 1

NoReq   == [cmd |-> "none", off |-> 0, len |-> 0]
NoReply == [req |-> NoReq, error |-> "ok", data |-> <<>>, whole |-> TRUE]

\* The byte that a write puts at offset o, and the one that was there.
New(o) == [byte |-> "new", of |-> o]
Old(o) == [byte |-> "old", of |-> o]

\* The bytes that a request names, and those of the blocks that it touches.
Named(r)   == r.off .. r.off + r.len - 1
Touched(r) == {o \in Bytes : \E p \in Named(r) : o \div BlockSize = p \div BlockSize}
Aligned(r) == Touched(r) = Named(r)

DInit == content = [o \in Bytes |-> Old(o)] /\ cur = NoReq /\ answer = NoReply /\ spoilt = FALSE

Spoil == spoilt' = TRUE /\ UNCHANGED <<content, cur, answer>>

Take == cur = NoReq /\ cur' # NoReq /\ answer' = NoReply /\ UNCHANGED <<content, spoilt>>

Change ==
    /\ cur.cmd = "write" /\ UNCHANGED <<cur, answer, spoilt>>
    /\ DOMAIN content' = Bytes
    /\ \A o \in Bytes \ Touched(cur) : content'[o] = content[o]
    /\ Aligned(cur) /\ ~spoilt => \A o \in Named(cur) : content'[o] \in {content[o], New(o)}

Answer ==
    /\ cur # NoReq /\ cur' = NoReq /\ UNCHANGED <<content, spoilt>>
    /\ answer'.req = cur
    /\ answer'.error = "ok" =>
          /\ cur.cmd = "read" /\ answer'.whole => answer'.data = [i \in 1 .. cur.len |-> content[cur.off + i - 1]]
          /\ cur.cmd = "write" /\ Aligned(cur) /\ ~spoilt => \A o \in Named(cur) : content[o] = New(o)

DSpec == DInit /\ [][Spoil \/ Take \/ Change \/ Answer]_dvars
=============================================================================
