------------------------------ MODULE RawImage ------------------------------
(***************************************************************************)
(* A raw (dd) image with a named change file: librawimage.c as imagemount  *)
(* drives it, on the change file of ChangeFile.  Unlike libpartclone it    *)
(* falls back to the image only for blocks that the change file does not   *)
(* have, and calls cf_sync at close whether the file was verified or not.  *)
(*                                                                         *)
(* Contents read: a member of Data, <<"base", b>>, or <<"junk">> for a     *)
(* buffer that a short read did not fill.                                  *)
(***************************************************************************)
EXTENDS ChangeFile

CONSTANT MaxBlocks   \* bound on the blocks of one request

ASSUME MaxBlocksAssumption == MaxBlocks \in Nat \ {0}

VARIABLES
    rw,         \* open mode: -w, or read only
    rst,        \* the image: closed, open, failed (to verify), ready
    cfopen,     \* RAW_CF_OPEN
    cfver,      \* RAW_CF_VERIFIED
    cfdep,      \* RAW_HAVE_CFDEP
    curblock,   \* raw_curblock
    at,         \* where the library is
    rem,        \* blocks of the request still to be done
    seeked,     \* history: the position was set and no request made since
    wrote,      \* history: a block was written in this session
    obs         \* history: the blocks read last, what came back, what should

rvars == <<rw, rst, cfopen, cfver, cfdep, curblock, at, rem, seeked, wrote, obs>>
flags == <<cfopen, cfver, cfdep>>

RInit ==
    /\ Init
    /\ rw = FALSE /\ rst = "closed" /\ cfopen = FALSE /\ cfver = FALSE /\ cfdep = FALSE
    /\ curblock = 0 /\ at = "idle" /\ rem = 0 /\ seeked = FALSE /\ wrote = FALSE /\ obs = <<>>

Idle       == pc = "idle" /\ at = "idle"
NoMap      == st \in {"nohdr", "nodev", "unread"}
WriteReady == rw /\ cfdep /\ cfver

\* sys_read of an image block: all of it, an error, or a short read that
\* reports the stale errno.
BaseRead(b) == {<<"ok", <<"base", b>>>>, <<"EIO", None>>} \cup {<<r, <<"junk">>>> : r \in ShortRet}

-----------------------------------------------------------------------------

rawimage_open(mode) ==
    /\ Idle /\ rst = "closed" /\ st = "closed"
    /\ rst' = "open" /\ rw' = mode
    /\ UNCHANGED <<vars, flags, curblock, at, rem, seeked, wrote, obs>>

\* Mutant: the change file is created when the image is verified.
rawimage_verify_Creates ==
    /\ Idle /\ rst = "open" /\ cf_create /\ at' = "v_cf"
    /\ UNCHANGED <<rw, rst, flags, curblock, rem, seeked, wrote, obs>>

rawimage_verify ==
    /\ Idle /\ rst = "open"
    /\ IF rw THEN cf_init(N) /\ at' = "v_cf" /\ UNCHANGED rst
       ELSE rst' = "ready" /\ UNCHANGED <<vars, at>>
    /\ UNCHANGED <<rw, flags, curblock, rem, seeked, wrote, obs>>

verify_cf ==
    /\ pc = "idle" /\ at = "v_cf"
    /\ cfopen' = (st = "init")
    /\ IF st = "init" THEN cf_verify /\ at' = "v_done" /\ UNCHANGED rst
       ELSE at' = "idle" /\ rst' = "ready" /\ UNCHANGED vars
    /\ UNCHANGED <<rw, cfver, cfdep, curblock, rem, seeked, wrote, obs>>

verify_done ==
    /\ pc = "idle" /\ at = "v_done" /\ at' = "idle"
    /\ cfver' = (ret = "ok") /\ rst' = IF ret = "ok" THEN "ready" ELSE "failed"
    /\ UNCHANGED <<vars, rw, cfopen, cfdep, curblock, rem, seeked, wrote, obs>>

\* Mutant: one block too far.
rawimage_seek_Next(b) ==
    /\ Idle /\ rst = "ready" /\ b <= N
    /\ curblock' = b + 1 /\ seeked' = TRUE /\ obs' = <<>>
    /\ UNCHANGED <<vars, rw, rst, flags, at, rem, wrote>>

rawimage_seek(b) ==
    /\ Idle /\ rst = "ready" /\ b <= N
    /\ curblock' = b /\ seeked' = TRUE /\ obs' = <<>>
    /\ IF st = "ready" THEN cf_seek(b) ELSE UNCHANGED vars
    /\ UNCHANGED <<rw, rst, flags, at, rem, wrote>>

\* Every caller seeks before a request.
Request(op, n) ==
    /\ Idle /\ rst = "ready" /\ seeked /\ curblock + n <= N
    /\ at' = op /\ rem' = n /\ seeked' = FALSE /\ obs' = <<>>
    /\ UNCHANGED <<vars, rw, rst, flags, curblock, wrote>>

\* What the reader of block b is entitled to: the change, else the image.
Wanted(b) == IF st = "ready" /\ map[b] # 0 THEN Content(map, b) ELSE <<"base", b>>

\* Without a handle all blocks are read at once and the position stays.
read_image ==
    /\ pc = "idle" /\ at = "read" /\ st = "closed"
    /\ \E o \in BaseRead(curblock) :
          obs' = IF o[1] = "ok" THEN <<[got |-> o[2], want |-> Wanted(curblock)]>> ELSE <<>>
    /\ at' = "idle" /\ rem' = 0
    /\ UNCHANGED <<vars, rw, rst, flags, curblock, seeked, wrote>>

\* What a change file read leads to: the image only if there is no change.
\* Mutant: on any error.
AfterChangeFile_Any(o, b) == IF o[1] # "ok" THEN BaseRead(b) ELSE {o}
AfterChangeFile(o, b) == IF o[1] = "ENXIO" THEN BaseRead(b) ELSE {o}

\* With a handle, block by block.  The change file has the block, or does
\* not (ENXIO), or fails; one without a map fails or ends the process.
read_block ==
    /\ pc = "idle" /\ at = "read" /\ st # "closed"
    /\ \E o \in IF st = "ready" THEN ReadOutcomes(curblock) ELSE {<<"ENXIO", None>>, <<"EIO", None>>} :
       \E r \in AfterChangeFile(o, curblock) :
          IF r[1] = "ok"
          THEN /\ obs' = <<[got |-> r[2], want |-> Wanted(curblock)]>>
               /\ curblock' = curblock + 1 /\ rem' = rem - 1
          ELSE obs' = <<>> /\ rem' = 0 /\ UNCHANGED curblock
    /\ at' = IF rem' = 0 THEN "idle" ELSE "read"
    /\ cur' = IF st = "ready" THEN curblock ELSE cur
    /\ UNCHANGED <<file, st, cnt, map, used, dirty, pc, buf, ret, rw, rst, flags, seeked, wrote>>

\* rawimage_writeblocks: the first one of a session creates or opens the
\* change file, also when it has a verified handle.
write_start ==
    /\ pc = "idle" /\ at = "write"
    /\ IF WriteReady THEN cf_seek(curblock) /\ at' = "w_data"
       ELSE cf_create /\ at' = "w_create"
    /\ UNCHANGED <<rw, rst, flags, curblock, rem, seeked, wrote, obs>>

\* Mutant: what cf_create returned is ignored.
write_created_Ignored ==
    /\ pc = "idle" /\ at = "w_create"
    /\ cfdep' = TRUE /\ cfver' = TRUE /\ cfopen' = TRUE /\ at' = "write"
    /\ UNCHANGED <<vars, rw, rst, curblock, rem, seeked, wrote, obs>>

write_created ==
    /\ pc = "idle" /\ at = "w_create"
    /\ IF ret = "ok" THEN cfdep' = TRUE /\ cfver' = TRUE /\ cfopen' = TRUE /\ at' = "write" /\ UNCHANGED rem
       ELSE at' = "idle" /\ rem' = 0 /\ UNCHANGED flags
    /\ UNCHANGED <<vars, rw, rst, curblock, seeked, wrote, obs>>

write_block(d) ==
    /\ at = "w_data" /\ cf_writeblock(d) /\ at' = "w_done" /\ wrote' = TRUE
    /\ UNCHANGED <<rw, rst, flags, curblock, rem, seeked, obs>>

\* Mutant: one block more than was asked for.
write_done_OneMore ==
    /\ pc = "idle" /\ at = "w_done"
    /\ IF ret = "ok" THEN curblock' = curblock + 1 /\ rem' = rem - 1
       ELSE rem' = 0 /\ UNCHANGED curblock
    /\ at' = IF rem = 0 THEN "idle" ELSE "write"
    /\ UNCHANGED <<vars, rw, rst, flags, seeked, wrote, obs>>

write_done ==
    /\ pc = "idle" /\ at = "w_done"
    /\ IF ret = "ok" THEN curblock' = curblock + 1 /\ rem' = rem - 1
       ELSE rem' = 0 /\ UNCHANGED curblock
    /\ at' = IF rem' = 0 THEN "idle" ELSE "write"
    /\ UNCHANGED <<vars, rw, rst, flags, seeked, wrote, obs>>

rawimage_sync == Idle /\ rst = "ready" /\ WriteReady /\ cf_sync /\ UNCHANGED rvars

\* rawimage_close: cf_sync, then cf_finish, if the change file is open.
rawimage_close ==
    /\ Idle /\ rst # "closed" /\ at' = "c_fin" /\ obs' = <<>>
    /\ IF ~cfopen THEN UNCHANGED vars
       ELSE IF NoMap THEN cf_sync_unverified ELSE cf_sync
    /\ UNCHANGED <<rw, rst, flags, curblock, rem, seeked, wrote>>

\* A handle that is not counted as open is lost with the context.
close_finish ==
    /\ pc = "idle" /\ at = "c_fin" /\ at' = "c_end"
    /\ IF st = "closed" THEN UNCHANGED vars ELSE cf_finish
    /\ UNCHANGED <<rw, rst, flags, curblock, rem, seeked, wrote, obs>>

Reset ==
    /\ rw' = FALSE /\ rst' = "closed" /\ cfopen' = FALSE /\ cfver' = FALSE /\ cfdep' = FALSE
    /\ curblock' = 0 /\ at' = "idle" /\ rem' = 0 /\ seeked' = FALSE /\ wrote' = FALSE /\ obs' = <<>>

close_done == pc = "idle" /\ at = "c_end" /\ Reset /\ UNCHANGED vars
Killed     == Crash /\ Reset

RNext ==
    \/ \E mode \in BOOLEAN : rawimage_open(mode)
    \/ rawimage_verify \/ verify_cf \/ verify_done
    \/ \E b \in 0 .. N : rawimage_seek(b)
    \/ \E n \in 1 .. MaxBlocks : Request("read", n) \/ (rw /\ Request("write", n))
    \/ read_image \/ read_block
    \/ write_start \/ write_created \/ (\E d \in Data : write_block(d)) \/ write_done
    \/ rawimage_sync \/ rawimage_close \/ close_finish \/ close_done
    \/ CfStep /\ UNCHANGED rvars
    \/ Killed

RSpec == RInit /\ [][RNext]_<<vars, rvars>>

-----------------------------------------------------------------------------

RTypeOK ==
    /\ {rw, cfopen, cfver, cfdep, seeked, wrote} \subseteq BOOLEAN
    /\ rst \in {"closed", "open", "failed", "ready"} /\ curblock \in 0 .. N
    /\ at \in {"idle", "v_cf", "v_done", "read", "write", "w_create", "w_data", "w_done",
               "c_fin", "c_end"}
    /\ rem \in 0 .. MaxBlocks /\ Len(obs) <= 1

\* Every block of every request that is reported read is the right one, or
\* the request fails: the change file's own failures are never hidden.
EveryBlockIsRight == \A i \in DOMAIN obs : obs[i].got = obs[i].want

\* Once a block was written, the session keeps the handle it was written
\* through, and what it takes for ready to write has a block map.
WritesShareOneHandle == at = "write" => IF WriteReady THEN st = "ready" ELSE ~dirty

\* cf_seek lets a caller go one entry behind the block map, and neither
\* cf_readblock nor cf_writeblock looks: no request gets there, whatever
\* failed and whichever blocks were done before.
RequestsStayInMap ==
    /\ pc # "overrun"
    /\ at = "read" => curblock \in Blocks

\* -c: "Use specified file to store written data."  A session that writes no
\* block leaves the change file as it was, through its cf_sync at close too,
\* if it has no handle that cf_verify rejected.
OnlyWritesTouchFile ==
    [][~wrote /\ ~NoMap /\ at \notin {"write", "w_create"} => file' = file]_<<vars, rvars>>
=============================================================================
