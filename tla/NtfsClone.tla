------------------------------ MODULE NtfsClone -----------------------------
(***************************************************************************)
(* An ntfsclone image with its change file: libntfsclone.c as imagemount   *)
(* drives it, session after session, on the change file of ChangeFile and  *)
(* the index of AtomIndex.                                                 *)
(*                                                                         *)
(* N counts the trailing cluster, as the change file does; the header of   *)
(* the image does not.  Contents read: a member of Data from the change    *)
(* file, or what ReadImage gives.                                          *)
(***************************************************************************)
EXTENDS ChangeFile, AtomIndex

CONSTANTS
    NtfsImages, \* the images: minor version and atoms
    MaxBlocks   \* bound on the blocks of one request

ASSUME NtfsMaxBlocksAssumption == MaxBlocks \in Nat \ {0}
ASSUME NtfsImagesAssumption ==
    \A im \in NtfsImages : im.atoms \in Seq(Atom) /\ im.atoms # <<>>

\* The header counts the clusters of the atoms.  Those of a version 10.0 image
\* end before the trailing cluster.
ASSUME NtfsCoverAssumption ==
    \A im \in NtfsImages : im.minor \in {0, 1} /\ Covers(im.atoms, N - 1 + im.minor)

VARIABLES
    image,      \* the image
    given,      \* was a change file named (-c)?
    asked,      \* was tolerant mode asked for (-T)?
    rw,         \* open mode: -w, or read only
    nst,        \* the image: closed, open, failed (to verify), ready
    nr,         \* nc_head.nr_clusters
    cfopen,     \* NC_CF_OPEN
    cfver,      \* NC_CF_VERIFIED
    cfdep,      \* NC_HAVE_CFDEP
    ix,         \* v10_bitmap and v10_bucket_offset
    bucket,     \* v10_current_bucket
    bsfcount,   \* v10_bsfcount
    curblock,   \* nc_curblock
    at,         \* where the library is
    rem,        \* blocks of the request still to be done
    seeked,     \* history: the position was set and no request made since
    wrote,      \* history: a block was written in this session
    obs         \* history: the last block read

ncvars  == <<image, given, asked, rw, nst, nr, cfopen, cfver, cfdep, ix, bucket, bsfcount,
             curblock, at, rem, seeked, wrote, obs>>
options == <<image, given, asked>>
flags   == <<cfopen, cfver, cfdep>>
pos     == <<bucket, bsfcount, curblock>>

NoIndex == [bitmap |-> {}, offset |-> <<>>]

NInit ==
    /\ Init
    /\ rw = FALSE /\ nst = "closed" /\ nr = 0 /\ cfopen = FALSE /\ cfver = FALSE /\ cfdep = FALSE
    /\ ix = NoIndex /\ bucket = 0 /\ bsfcount = 0 /\ curblock = 0
    /\ at = "idle" /\ rem = 0 /\ seeked = FALSE /\ wrote = FALSE /\ obs = <<>>
    /\ image \in NtfsImages /\ given \in BOOLEAN /\ asked \in BOOLEAN

Idle == pc = "idle" /\ at = "idle"

\* NC_TOLERANT and NC_HAVE_CF_PATH are the same bit.
Tolerant == asked \/ given

-----------------------------------------------------------------------------
(* ntfsclone_open, ntfsclone_verify                                        *)

ntfsclone_open(mode) ==
    /\ Idle /\ nst = "closed" /\ st = "closed"
    /\ nst' = "open" /\ rw' = mode
    /\ UNCHANGED <<vars, options, nr, flags, ix, pos, at, rem, seeked, wrote, obs>>

\* What the header of the image has in nr_clusters.
HeaderClusters == N - 1

\* Mutant: the trailing cluster is counted twice.
ClustersForInit_Twice(c) == c + 2

\* v10_init, for cf_init: "1 for trailing cluster", not counted in c yet.
ClustersForInit(c) == c + 1

\* The header names a version and v10_init opens a named change file: its
\* errors are discarded, "We'll create later".
ntfsclone_verify ==
    /\ Idle /\ nst = "open" /\ nr' = HeaderClusters
    /\ \/ nst' = "failed" /\ UNCHANGED <<vars, at>>
       \/ given /\ rw /\ cf_init(ClustersForInit(HeaderClusters)) /\ at' = "v_load" /\ UNCHANGED nst
       \/ ~(given /\ rw) /\ at' = "v_load" /\ UNCHANGED <<vars, nst>>
    /\ UNCHANGED <<options, rw, flags, ix, pos, rem, seeked, wrote, obs>>

\* v10_verify counts the trailing cluster in and builds the index, or fails;
\* then the change file is verified if there is a handle.
verify_load ==
    /\ pc = "idle" /\ at = "v_load" /\ cfopen' = (st = "init")
    /\ \/ nst' = "failed" /\ at' = "idle" /\ nr' \in {nr, nr + 1} /\ UNCHANGED <<vars, ix>>
       \/ \E s \in v10_verify(image.atoms, nr, Tolerant) :
             /\ nr' = nr + 1
             /\ s.error = "ok" /\ ix' = [bitmap |-> s.bitmap, offset |-> s.offset]
             /\ IF st = "init" THEN cf_verify /\ at' = "v_done" /\ UNCHANGED nst
                ELSE nst' = "ready" /\ at' = "idle" /\ UNCHANGED vars
    /\ UNCHANGED <<options, rw, cfver, cfdep, pos, rem, seeked, wrote, obs>>

\* Without the block of 69s an image that was verified is given up too.
verify_done ==
    /\ pc = "idle" /\ at = "v_done" /\ at' = "idle"
    /\ cfver' = (ret = "ok") /\ nst' \in {"failed"} \cup IF ret = "ok" THEN {"ready"} ELSE {}
    /\ UNCHANGED <<vars, options, rw, nr, cfopen, cfdep, ix, pos, rem, seeked, wrote, obs>>

-----------------------------------------------------------------------------
(* ntfsclone_seek, ntfsclone_readblocks                                    *)

NoMap == st \in {"nohdr", "nodev", "unread"}

\* Mutant: one block too far.
ntfsclone_seek_Next(b) ==
    /\ Idle /\ nst = "ready" /\ b <= N /\ curblock' = b + 1 /\ seeked' = TRUE /\ obs' = <<>>
    /\ UNCHANGED <<vars, options, rw, nst, nr, flags, ix, bucket, bsfcount, at, rem, wrote>>

\* The change file's seek fails on a handle that cf_verify rejected.
ntfsclone_seek(b) ==
    /\ Idle /\ nst = "ready" /\ b <= nr
    /\ LET c == Redirect(image.minor, nr, b)
           s == v10_seek(ix.bitmap, bucket, bsfcount, c)
       IN  /\ bucket' = s.bucket /\ bsfcount' = s.bsfcount
           /\ IF st = "ready" THEN cf_seek(c) ELSE UNCHANGED vars
    /\ \/ curblock' = b /\ seeked' = TRUE
       \/ NoMap /\ b > 0 /\ seeked' = FALSE /\ UNCHANGED curblock
    /\ obs' = <<>>
    /\ UNCHANGED <<options, rw, nst, nr, flags, ix, at, rem, wrote>>

\* Every caller seeks before a request: imagemount.c, libntfstest.c.
Request(op, n) ==
    /\ Idle /\ nst = "ready" /\ seeked /\ curblock + n <= nr
    /\ at' = op /\ rem' = n /\ seeked' = FALSE /\ obs' = <<>>
    /\ UNCHANGED <<vars, options, rw, nst, nr, flags, ix, pos, wrote>>

ntfsclone_readblocks(n) == Request("read", n)
ntfsclone_writeblocks(n) == rw /\ Request("write", n)

\* What cf_readblock returns; without a handle the error is the initial one,
\* and one that was never verified has no map or an unread one.
ChangeFileRead(b) ==
    CASE st = "ready"  -> ReadOutcomes(b)
      [] st = "closed" -> {<<"EINVAL", None>>}
      [] OTHER         -> {<<"ENXIO", None>>, <<"EIO", None>>, <<"ESRCH", None>>}

\* What the reader of block b is entitled to: the change, else the image.
Wanted(b) ==
    IF st = "ready" /\ map[b] # 0 THEN Content(map, b) ELSE ClusterContent(image.atoms, b)

\* The count kept for the current bucket is not that of the free clusters
\* before the bucket's first used one.
Stale(b) == /\ b \in ix.bitmap /\ Bucket(b) = bucket
            /\ BucketStart(b) + bsfcount # FirstUsed(ix.bitmap, b)

\* Mutant: the image is preferred to the change file.
AfterChangeFile_Image(o, b) == {ReadImage(image.atoms, ix, bucket, bsfcount, b)}

\* Any error of the change file leads to the image, whose read may fail too.
AfterChangeFile(o, b) ==
    IF o[1] = "ok" THEN {o}
    ELSE {ReadImage(image.atoms, ix, bucket, bsfcount, b)} \cup
         IF b \in ix.bitmap THEN {<<"EIO", Junk>>} ELSE {}

v10_readblock ==
    /\ pc = "idle" /\ at = "read"
    /\ \E o \in ChangeFileRead(curblock) : \E r \in AfterChangeFile(o, curblock) :
          IF r[1] = "ok"
          THEN /\ obs' = <<[blk |-> curblock, got |-> r[2], want |-> Wanted(curblock),
                            stale |-> Stale(curblock), cf |-> o[1]]>>
               /\ rem' = rem - 1 /\ curblock' = curblock + 1
          ELSE obs' = <<>> /\ rem' = 0 /\ UNCHANGED curblock
    /\ at' = IF rem' = 0 THEN "idle" ELSE "read"
    /\ cur' = IF st = "ready" THEN curblock ELSE cur
    /\ UNCHANGED <<file, st, cnt, map, used, dirty, pc, buf, ret,
                   options, rw, nst, nr, flags, ix, bucket, bsfcount, seeked, wrote>>

-----------------------------------------------------------------------------
(* ntfsclone_writeblocks                                                   *)

WriteReady == rw /\ cfdep /\ cfver

\* v10_writeblock: the first write of a session creates or opens the file,
\* under the name given or a made-up one.
v10_writeblock ==
    /\ pc = "idle" /\ at = "write"
    /\ IF WriteReady THEN cf_seek(curblock) /\ at' = "w_data"
       ELSE cf_create /\ at' = "w_create"
    /\ UNCHANGED <<options, rw, nst, nr, flags, ix, pos, rem, seeked, wrote, obs>>

\* Mutant: what cf_create returned is ignored.
write_created_Ignored ==
    /\ pc = "idle" /\ at = "w_create"
    /\ cfdep' = TRUE /\ cfver' = TRUE /\ at' = "write"
    /\ UNCHANGED <<vars, options, rw, nst, nr, cfopen, ix, pos, rem, seeked, wrote, obs>>

write_created ==
    /\ pc = "idle" /\ at = "w_create"
    /\ IF ret = "ok" THEN cfdep' = TRUE /\ cfver' = TRUE /\ at' = "write" /\ UNCHANGED rem
       ELSE at' = "idle" /\ rem' = 0 /\ UNCHANGED <<cfdep, cfver>>
    /\ UNCHANGED <<vars, options, rw, nst, nr, cfopen, ix, pos, seeked, wrote, obs>>

write_block(d) ==
    /\ at = "w_data" /\ cf_writeblock(d) /\ at' = "w_done" /\ wrote' = TRUE
    /\ UNCHANGED <<options, rw, nst, nr, flags, ix, pos, rem, seeked, obs>>

\* Mutant: one block more than was asked for.
write_done_OneMore ==
    /\ pc = "idle" /\ at = "w_done"
    /\ IF ret = "ok" THEN curblock' = curblock + 1 /\ rem' = rem - 1
       ELSE rem' = 0 /\ UNCHANGED curblock
    /\ at' = IF rem = 0 THEN "idle" ELSE "write"
    /\ UNCHANGED <<vars, options, rw, nst, nr, flags, ix, bucket, bsfcount, seeked, wrote, obs>>

write_done ==
    /\ pc = "idle" /\ at = "w_done"
    /\ IF ret = "ok" THEN curblock' = curblock + 1 /\ rem' = rem - 1
       ELSE rem' = 0 /\ UNCHANGED curblock
    /\ at' = IF rem' = 0 THEN "idle" ELSE "write"
    /\ UNCHANGED <<vars, options, rw, nst, nr, flags, ix, bucket, bsfcount, seeked, wrote, obs>>

-----------------------------------------------------------------------------
(* ntfsclone_sync, ntfsclone_close, the end of the process                 *)

ntfsclone_sync == Idle /\ nst = "ready" /\ WriteReady /\ cf_sync /\ UNCHANGED ncvars

\* v10_sync when the change file was opened by v10_init, then v10_finish.
ntfsclone_close ==
    /\ Idle /\ nst # "closed" /\ at' = "c_fin" /\ obs' = <<>>
    /\ IF cfopen /\ nst = "ready" /\ WriteReady THEN cf_sync ELSE UNCHANGED vars
    /\ UNCHANGED <<options, rw, nst, nr, flags, ix, pos, rem, seeked, wrote>>

v10_finish ==
    /\ pc = "idle" /\ at = "c_fin" /\ at' = "c_end"
    /\ IF st = "closed" THEN UNCHANGED vars ELSE cf_finish
    /\ UNCHANGED <<options, rw, nst, nr, flags, ix, pos, rem, seeked, wrote, obs>>

Reset ==
    /\ rw' = FALSE /\ nst' = "closed" /\ nr' = 0
    /\ cfopen' = FALSE /\ cfver' = FALSE /\ cfdep' = FALSE
    /\ ix' = NoIndex /\ bucket' = 0 /\ bsfcount' = 0 /\ curblock' = 0
    /\ at' = "idle" /\ rem' = 0 /\ seeked' = FALSE /\ wrote' = FALSE /\ obs' = <<>>
    /\ UNCHANGED options

close_done == pc = "idle" /\ at = "c_end" /\ Reset /\ UNCHANGED vars
Killed     == Crash /\ Reset

NNext ==
    \/ \E mode \in BOOLEAN : ntfsclone_open(mode)
    \/ ntfsclone_verify \/ verify_load \/ verify_done
    \/ \E b \in 0 .. N : ntfsclone_seek(b)
    \/ \E n \in 1 .. MaxBlocks : ntfsclone_readblocks(n) \/ ntfsclone_writeblocks(n)
    \/ v10_readblock
    \/ v10_writeblock \/ write_created \/ (\E d \in Data : write_block(d)) \/ write_done
    \/ ntfsclone_sync \/ ntfsclone_close \/ v10_finish \/ close_done
    \/ CfStep /\ UNCHANGED ncvars
    \/ Killed

NSpec == NInit /\ [][NNext]_<<vars, ncvars>>

-----------------------------------------------------------------------------
(* Properties                                                              *)

NcTypeOK ==
    /\ {given, asked, rw, cfopen, cfver, cfdep, seeked, wrote} \subseteq BOOLEAN
    /\ nst \in {"closed", "open", "failed", "ready"} /\ nr \in 0 .. N /\ ix.bitmap \subseteq Blocks
    /\ bucket \in 0 .. Bucket(N) /\ curblock \in 0 .. N /\ rem \in 0 .. MaxBlocks
    /\ at \in {"idle", "v_load", "v_done", "read", "write", "w_create", "w_data", "w_done",
               "c_fin", "c_end"}

\* Once a block was written, the session keeps the handle it was written
\* through, and what v10_writeblock takes for ready to write has a map.
WritesShareOneHandle ==
    at = "write" => IF WriteReady THEN st = "ready" ELSE ~dirty

\* cf_seek lets a caller go one entry behind the block map, and neither
\* cf_readblock nor cf_writeblock looks: no request gets there, whatever
\* failed and whichever blocks were done before.
RequestsStayInMap ==
    /\ pc # "overrun"
    /\ at = "read" => curblock \in Blocks

\* "... and verify the change file": v10_init, before v10_verify counted the
\* trailing cluster, and cf_create, after it, come to one block count, so the
\* file that one session created is taken for its own by the next one, and the
\* earlier changes are read again.
VerifyAcceptsOwnFile ==
    /\ at = "v_done" /\ hdr = "valid" => ret # "ENODEV"
    /\ at = "w_create" => nr = N

Whole == Undamaged(image.atoms)

\* -T: "Enable 'tolerant' mode.  Try to make the best of what data is
\* present."  Without it a damaged image is refused, whatever other options
\* are given.
RefusesDamage == nst = "ready" /\ ~Whole => asked

\* Every block read is the change, if there is one, else the cluster of an
\* undamaged image, unless the change file fails or the image's count for
\* the bucket is stale.
BlockIsRight ==
    \A i \in DOMAIN obs :
        /\ obs[i].cf = "ok" => obs[i].got = obs[i].want
        /\ obs[i].cf \in {"ENXIO", "EINVAL"} /\ Whole /\ ~obs[i].stale /\ obs[i].blk < N - 1
              => obs[i].got = obs[i].want

\* A session touches the change file only to write a block.
OnlyWritesTouchFile ==
    [][file' # file => wrote \/ at \in {"write", "w_create"}]_<<vars, ncvars>>
=============================================================================
