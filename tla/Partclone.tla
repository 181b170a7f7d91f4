------------------------------ MODULE Partclone -----------------------------
(***************************************************************************)
(* A partclone image with its change file: libpartclone.c as imagemount    *)
(* drives it, session after session, on the change file of ChangeFile.     *)
(*                                                                         *)
(* The library's calls into changefile.c are the actions of ChangeFile;    *)
(* at says where in the library the call in progress is while changefile.c *)
(* runs.  Contents read: a member of Data from the change file, a pair     *)
(* <<"base", b>> for the stored block b of the image, or Zero.             *)
(***************************************************************************)
EXTENDS ChangeFile, BlockIndex

CONSTANTS
    Bitmap,     \* v1_bitmap of the image
    MaxBlocks   \* bound on the blocks of one request

ASSUME BitmapAssumption == Bitmap \in [Blocks -> 0 .. 255]
ASSUME MaxBlocksAssumption == MaxBlocks \in Nat \ {0}

VARIABLES
    given,      \* was a change file named (-c)?
    rw,         \* open mode: -w, or read only
    pst,        \* the image: closed, open, failed (to verify), ready
    cfopen,     \* PC_CF_OPEN
    cfver,      \* PC_CF_VERIFIED
    cfdep,      \* PC_HAVE_CFDEP
    curblock,   \* pc_curblock
    nvbcount,   \* v1_nvbcount
    at,         \* where the library is
    rem,        \* blocks of the request still to be done
    fresh,      \* history: no block was done since the last seek
    wrote,      \* history: a block was written in this session
    obs         \* history: the last block read

pvars  == <<given, rw, pst, cfopen, cfver, cfdep, curblock, nvbcount, at, rem, fresh, wrote, obs>>
flags  == <<cfopen, cfver, cfdep>>
pos    == <<curblock, nvbcount>>
session == <<given, rw>>

NoObs == [blk |-> None, got |-> None, want |-> None, first |-> FALSE, cf |-> "none"]

PInit ==
    /\ Init
    /\ given \in BOOLEAN /\ rw = FALSE
    /\ pst = "closed" /\ cfopen = FALSE /\ cfver = FALSE /\ cfdep = FALSE
    /\ curblock = 0 /\ nvbcount = 0 /\ at = "idle" /\ rem = 0
    /\ fresh = FALSE /\ wrote = FALSE /\ obs = NoObs

Zero == <<"zero">>   \* pc_ivblock
Eof  == <<"eof">>    \* the image file has no such block: EIO

\* The n-th stored block of the image file, in the order of the bitmap.
StoredBlock(n) ==
    IF \E b \in Blocks : Bitmap[b] = 1 /\ Preceding(Bitmap, b) = n
    THEN <<"base", CHOOSE b \in Blocks : Bitmap[b] = 1 /\ Preceding(Bitmap, b) = n>>
    ELSE Eof

Idle == pc = "idle" /\ at = "idle"

-----------------------------------------------------------------------------
(* partclone_open, partclone_verify                                        *)

partclone_open(mode) ==
    /\ Idle /\ pst = "closed" /\ st = "closed"
    /\ pst' = "open" /\ rw' = mode /\ wrote' = FALSE
    /\ UNCHANGED <<vars, given, flags, pos, at, rem, fresh, obs>>

\* Mutant: the change file is created when the image is verified.
partclone_verify_Creates ==
    /\ Idle /\ pst = "open" /\ cf_create /\ at' = "v_load"
    /\ UNCHANGED <<session, pst, flags, pos, rem, fresh, wrote, obs>>

\* The header names a version and v1_init opens a named change file; the
\* header has not been converted yet, so the block count it passes is 0.
partclone_verify ==
    /\ Idle /\ pst = "open"
    /\ \/ pst' = "failed" /\ UNCHANGED <<vars, at>>
       \/ given /\ rw /\ cf_init(0) /\ at' = "v_load" /\ UNCHANGED pst
       \/ ~(given /\ rw) /\ at' = "v_load" /\ UNCHANGED <<vars, pst>>
    /\ UNCHANGED <<session, flags, pos, rem, fresh, wrote, obs>>

\* v1_verify or v2_verify load the bitmap (or fail) and verify the change
\* file if there is a handle.
verify_load ==
    /\ pc = "idle" /\ at = "v_load"
    /\ cfopen' = (st = "init")
    /\ \/ pst' = "failed" /\ at' = "idle" /\ UNCHANGED vars
       \/ st = "closed" /\ pst' = "ready" /\ at' = "idle" /\ UNCHANGED vars
       \/ st = "init" /\ cf_verify /\ at' = "v_done" /\ UNCHANGED pst
    /\ UNCHANGED <<session, cfver, cfdep, pos, rem, fresh, wrote, obs>>

\* The block of zeros may still not be had.
verify_done ==
    /\ pc = "idle" /\ at = "v_done" /\ at' = "idle"
    /\ cfver' = (ret = "ok") /\ pst' \in {"failed"} \cup IF ret = "ok" THEN {"ready"} ELSE {}
    /\ UNCHANGED <<vars, session, cfopen, cfdep, pos, rem, fresh, wrote, obs>>

-----------------------------------------------------------------------------
(* partclone_seek, partclone_readblocks                                    *)

\* A handle that cf_verify rejected may know the block count or not.
NoMap == st \in {"nohdr", "nodev", "unread"}

partclone_seek(b) ==
    /\ Idle /\ pst = "ready" /\ b <= N
    /\ nvbcount' = v1_seek(Bitmap, precalculate_sumcount(Bitmap, N), b)
    /\ IF st = "ready" THEN cf_seek(b) ELSE UNCHANGED vars
    /\ \/ curblock' = b /\ fresh' = TRUE
       \/ NoMap /\ b > 0 /\ fresh' = FALSE /\ UNCHANGED curblock
    /\ obs' = NoObs
    /\ UNCHANGED <<session, pst, flags, at, rem, wrote>>

\* Every caller seeks before a request: imagemount.c, libpctest.c.
partclone_readblocks(n) ==
    /\ Idle /\ pst = "ready" /\ fresh /\ curblock + n <= N
    /\ at' = "read" /\ rem' = n /\ obs' = NoObs
    /\ UNCHANGED <<vars, session, pst, flags, pos, fresh, wrote>>

\* What cf_readblock returns; without a handle the error is the initial one.
\* A handle that was never verified has no map or an unread one: the read
\* fails, if it does not end the process.
ChangeFileRead(b) ==
    CASE st = "ready"  -> ReadOutcomes(b)
      [] st = "closed" -> {<<"EINVAL", None>>}
      [] OTHER         -> {<<"ENXIO", None>>, <<"EIO", None>>, <<"ESRCH", None>>}

\* What the reader of block b is entitled to: the change, else the image.
Image(b)  == IF Bitmap[b] = 1 THEN <<"base", b>> ELSE Zero
Wanted(b) == IF st = "ready" /\ map[b] # 0 THEN Content(map, b) ELSE Image(b)

\* v1_readblock: any error of the change file leads to the image.
v1_readblock ==
    /\ pc = "idle" /\ at = "read"
    /\ \E o \in ChangeFileRead(curblock) :
          LET stored == Bitmap[curblock] # 0
              base   == IF stored THEN {StoredBlock(nvbcount), Eof} ELSE {Zero}
              gots   == IF o[1] = "ok" THEN {o[2]} ELSE base
          IN  /\ nvbcount' = IF o[1] # "ok" /\ stored THEN nvbcount + 1 ELSE nvbcount
              /\ \E g \in gots :
                    /\ obs' = [blk |-> curblock, got |-> g, want |-> Wanted(curblock),
                               first |-> fresh, cf |-> o[1]]
                    /\ IF g = Eof THEN rem' = 0 /\ UNCHANGED curblock
                       ELSE rem' = rem - 1 /\ curblock' = curblock + 1
    /\ at' = IF rem' = 0 THEN "idle" ELSE "read"
    /\ fresh' = FALSE
    /\ cur' = IF st = "ready" THEN curblock ELSE cur
    /\ UNCHANGED <<file, st, cnt, map, used, dirty, pc, buf, ret, session, pst, flags, wrote>>

-----------------------------------------------------------------------------
(* partclone_writeblocks                                                   *)

Writeable  == rw
WriteReady == rw /\ cfdep /\ cfver

partclone_writeblocks(n) ==
    /\ Idle /\ pst = "ready" /\ fresh /\ Writeable /\ curblock + n <= N
    /\ at' = "write" /\ rem' = n /\ obs' = NoObs
    /\ UNCHANGED <<vars, session, pst, flags, pos, fresh, wrote>>

\* v1_writeblock: the first write of a session creates or opens the file.
v1_writeblock ==
    /\ pc = "idle" /\ at = "write"
    /\ IF WriteReady THEN cf_seek(curblock) /\ at' = "w_data"
       ELSE cf_create /\ at' = "w_create"
    /\ UNCHANGED <<session, pst, flags, pos, rem, fresh, wrote, obs>>

\* Mutant: what cf_create returned is ignored.
write_created_Ignored ==
    /\ pc = "idle" /\ at = "w_create"
    /\ cfdep' = TRUE /\ cfver' = TRUE /\ at' = "write"
    /\ UNCHANGED <<vars, session, pst, cfopen, pos, rem, fresh, wrote, obs>>

write_created ==
    /\ pc = "idle" /\ at = "w_create"
    /\ IF ret = "ok" THEN cfdep' = TRUE /\ cfver' = TRUE /\ at' = "write" /\ UNCHANGED rem
       ELSE at' = "idle" /\ rem' = 0 /\ UNCHANGED <<cfdep, cfver>>
    /\ UNCHANGED <<vars, session, pst, cfopen, pos, fresh, wrote, obs>>

write_block(d) ==
    /\ at = "w_data" /\ cf_writeblock(d) /\ at' = "w_done" /\ wrote' = TRUE
    /\ UNCHANGED <<session, pst, flags, pos, rem, fresh, obs>>

\* partclone_writeblocks moves on to the next block or gives up.
write_done ==
    /\ pc = "idle" /\ at = "w_done"
    /\ IF ret = "ok" THEN curblock' = curblock + 1 /\ rem' = rem - 1
       ELSE rem' = 0 /\ UNCHANGED curblock
    /\ at' = IF rem' = 0 THEN "idle" ELSE "write"
    /\ fresh' = FALSE
    /\ UNCHANGED <<vars, session, pst, flags, nvbcount, wrote, obs>>

-----------------------------------------------------------------------------
(* partclone_sync, partclone_close, the end of the process                 *)

partclone_sync ==
    /\ Idle /\ pst = "ready" /\ WriteReady /\ cf_sync
    /\ UNCHANGED pvars

\* v1_sync when the change file was opened by v1_init, then v1_finish.
partclone_close ==
    /\ Idle /\ pst # "closed" /\ at' = "c_fin"
    /\ IF cfopen /\ pst = "ready" /\ WriteReady THEN cf_sync ELSE UNCHANGED vars
    /\ obs' = NoObs
    /\ UNCHANGED <<session, pst, flags, pos, rem, fresh, wrote>>

v1_finish ==
    /\ pc = "idle" /\ at = "c_fin" /\ at' = "c_end"
    /\ IF st = "closed" THEN UNCHANGED vars ELSE cf_finish
    /\ UNCHANGED <<session, pst, flags, pos, rem, fresh, wrote, obs>>

Reset ==
    /\ pst' = "closed" /\ cfopen' = FALSE /\ cfver' = FALSE /\ cfdep' = FALSE
    /\ curblock' = 0 /\ nvbcount' = 0 /\ at' = "idle" /\ rem' = 0
    /\ fresh' = FALSE /\ wrote' = FALSE /\ obs' = NoObs /\ rw' = FALSE /\ UNCHANGED given

close_done == pc = "idle" /\ at = "c_end" /\ Reset /\ UNCHANGED vars

Killed == Crash /\ Reset

PNext ==
    \/ \E mode \in BOOLEAN : partclone_open(mode)
    \/ partclone_verify \/ verify_load \/ verify_done
    \/ \E b \in 0 .. N : partclone_seek(b)
    \/ \E n \in 1 .. MaxBlocks : partclone_readblocks(n) \/ partclone_writeblocks(n)
    \/ v1_readblock
    \/ v1_writeblock \/ write_created \/ (\E d \in Data : write_block(d)) \/ write_done
    \/ partclone_sync \/ partclone_close \/ v1_finish \/ close_done
    \/ CfStep /\ UNCHANGED pvars
    \/ Killed

PSpec == PInit /\ [][PNext]_<<vars, pvars>>

-----------------------------------------------------------------------------
(* Properties                                                              *)

PTypeOK ==
    /\ {given, rw, cfopen, cfver, cfdep, fresh, wrote} \subseteq BOOLEAN
    /\ pst \in {"closed", "open", "failed", "ready"}
    /\ curblock \in 0 .. N /\ nvbcount \in Nat /\ rem \in 0 .. MaxBlocks
    /\ at \in {"idle", "v_load", "v_done", "read", "write", "w_create", "w_data", "w_done",
               "c_fin", "c_end"}

\* Once a block was written, the session keeps the handle it was written
\* through: v1_writeblock never calls cf_create, which would drop the blocks
\* that are not in the file's map, on a dirty handle, and what it takes for
\* ready to write has a block map.
WritesShareOneHandle ==
    at = "write" => IF WriteReady THEN st = "ready" ELSE ~dirty

\* cf_seek lets a caller go one entry behind the block map, and neither
\* cf_readblock nor cf_writeblock looks: no request gets there, whatever
\* failed and whichever blocks were done before.
RequestsStayInMap ==
    /\ pc # "overrun"
    /\ at = "read" => curblock \in Blocks

\* The block of the last read came back; the change file itself did not fail.
Succeeded == obs.blk # None /\ obs.got # Eof
CfFailed  == obs.cf \in {"EIO", "ESRCH"}

\* The first block read after a seek is the right one: the change if there
\* is one, else the stored block or zeros.  A change file that fails leads to
\* the block as it was before the changes, never to another block.
FirstBlockIsRight ==
    Succeeded /\ obs.first => obs.got = IF CfFailed THEN Image(obs.blk) ELSE obs.want

\* A session touches the change file only to write a block: opening, failing
\* to verify, reading and closing leave it as it was.
OnlyWritesTouchFile ==
    [][file' # file => wrote \/ at \in {"write", "w_create"}]_<<vars, pvars>>

\* "Read the block at the current position": so is every block of a request.
EveryBlockIsRight == Succeeded /\ ~CfFailed => obs.got = obs.want

\* "Verify the change file, if present": the file that a session of this
\* image created is not taken for that of another one.
VerifyAcceptsOwnFile == at = "v_done" /\ hdr = "valid" => ret # "ENODEV"
=============================================================================
