------------------------------ MODULE NtfsIndex -----------------------------
(***************************************************************************)
(* Seeking and reading in an ntfsclone image without a change file: the    *)
(* index is built once, and from then on v10_seek keeps the number of free *)
(* clusters at the start of the current bucket for the reads that follow.  *)
(***************************************************************************)
EXTENDS AtomIndex, FiniteSets

CONSTANTS
    MaxClusters,    \* bound on the clusters that the header counts
    MaxDamage       \* bound on the damaged atoms of an image

ASSUME MaxClustersAssumption == MaxClusters \in Nat \ {0}
ASSUME MaxDamageAssumption == MaxDamage \in Nat

VARIABLES
    image,      \* the atoms of the image
    minor,      \* VDT_MINOR: 1 if the trailing cluster is in the image
    nr,         \* nr_clusters of the header
    tolerant,   \* NC_TOLERANT
    phase,      \* open, ready or failed
    ix,         \* v10_bitmap and v10_bucket_offset
    bucket,     \* v10_current_bucket
    bsfcount,   \* v10_bsfcount
    curblock,   \* nc_curblock
    entry,      \* history: the cluster whose seek entered the current bucket
    got         \* history: the last cluster read, and how

ivars == <<image, minor, nr, tolerant, phase, ix, bucket, bsfcount, curblock, entry, got>>
fixed == <<image, minor, nr, tolerant>>

\* ntfsclone writes an atom for each used cluster and one for each run of
\* empty ones: the image of n clusters of which those in u are used.
Written(n, u) ==
    LET starts  == {c \in 0 .. n - 1 : c = 0 \/ c \in u \/ c - 1 \in u}
        Nth(i)  == CHOOSE c \in starts : Cardinality({d \in starts : d < c}) = i - 1
        After(c) == CHOOSE d \in c + 1 .. n : /\ d = n \/ d \in starts
                                              /\ \A e \in c + 1 .. d - 1 : e \notin starts
    IN  [i \in 1 .. Cardinality(starts) |->
            IF Nth(i) \in u THEN Used ELSE Empty(After(Nth(i)) - Nth(i))]

\* Those images, and the ones with a run of atoms damaged.
Images(n) ==
    UNION {{[i \in DOMAIN s |-> IF i \in hit THEN Damaged ELSE s[i]] :
               hit \in {h \in SUBSET DOMAIN s : \A i, j \in h : i - j < MaxDamage}} :
           s \in {Written(n, u) : u \in SUBSET (0 .. n - 1)}}

Init ==
    /\ nr \in 1 .. MaxClusters /\ minor \in {0, 1} /\ tolerant \in BOOLEAN
    /\ image \in Images(nr + minor)
    /\ phase = "open" /\ ix = <<>> /\ bucket = 0 /\ bsfcount = 0 /\ curblock = 0
    /\ entry = 0 /\ got = <<>>

Verify ==
    /\ phase = "open"
    /\ \E s \in v10_verify(image, nr, tolerant) :
          IF s.error = "ok"
          THEN phase' = "ready" /\ ix' = [bitmap |-> s.bitmap, offset |-> s.offset]
          ELSE phase' = "failed" /\ UNCHANGED ix
    /\ UNCHANGED <<fixed, bucket, bsfcount, curblock, entry, got>>

\* Mutant: no test of the block number.
ntfsclone_seek_Unchecked(c) ==
    /\ phase = "ready" /\ curblock' = c /\ got' = <<>>
    /\ UNCHANGED <<fixed, phase, ix, bucket, bsfcount, entry>>

ntfsclone_seek(c) ==
    /\ phase = "ready" /\ c <= nr + 1
    /\ LET s == v10_seek(ix.bitmap, bucket, bsfcount, Redirect(minor, nr + 1, c))
       IN  /\ bucket' = s.bucket /\ bsfcount' = s.bsfcount
           /\ entry' = IF s.bucket = bucket THEN entry ELSE Redirect(minor, nr + 1, c)
    /\ curblock' = c /\ got' = <<>>
    /\ UNCHANGED <<fixed, phase, ix>>

\* Reads go on from the last seek, over the end of the bucket too.
v10_readblock ==
    /\ phase = "ready" /\ curblock <= nr
    /\ LET r == ReadImage(image, ix, bucket, bsfcount, curblock)
       IN  /\ got' = [blk |-> curblock, error |-> r[1], data |-> r[2]]
           /\ curblock' = IF r[1] = "ok" THEN curblock + 1 ELSE curblock
    /\ UNCHANGED <<fixed, phase, ix, bucket, bsfcount, entry>>

Next == Verify \/ v10_readblock \/ \E c \in 0 .. MaxClusters + 1 : ntfsclone_seek(c)

Spec == Init /\ [][Next]_ivars

-----------------------------------------------------------------------------
(* Properties                                                              *)

TypeOK ==
    /\ phase \in {"open", "ready", "failed"} /\ curblock \in 0 .. nr + 1
    /\ bucket \in 0 .. Bucket(nr + 1) /\ bsfcount \in 0 .. 2 ^ Factor - 1
    /\ phase = "ready" => ix.bitmap \subseteq 0 .. nr

\* "Alas, there is no bitmap in the image, so we have to go and build it":
\* an image that is verified in strict mode is undamaged, every cluster that
\* the header counts has its bit, and every bucket leads to the atom of its
\* first used cluster.
VerifiedIndexIsRight ==
    phase = "ready" /\ ~tolerant => Undamaged(image) /\ IndexIsRight(ix, image, nr)

\* The bucket was entered at or behind its first used cluster.
EnteredWell(c) == \E q \in BucketStart(c) .. c : q \in ix.bitmap /\ q <= entry

\* A cluster that is read is the right one, whatever was sought and read
\* before, if its bucket is not the current one or was entered at or behind
\* its first used cluster.
Strict == ~tolerant /\ got # <<>> /\ got.blk < nr
ReadsOwnCluster ==
    Strict /\ (Bucket(got.blk) # bucket \/ EnteredWell(got.blk)) =>
        got.error = "ok" /\ got.data = ClusterContent(image, got.blk)

\* "Read the block at the current position": so it is in every bucket.
EveryClusterIsRight ==
    Strict /\ got.error = "ok" => got.data = ClusterContent(image, got.blk)
=============================================================================
