----------------------------- MODULE AtomIndex ------------------------------
(***************************************************************************)
(* Where a cluster of the device is in an ntfsclone image (version 10 of   *)
(* libntfsclone.c).  The image is a sequence of atoms: a used cluster with *)
(* its data, or a run of empty ones.  v10_verify reads all of them to      *)
(* build a bitmap and, for every bucket of clusters, the offset of its     *)
(* first used one; a read walks from there to the cluster it wants.        *)
(*                                                                         *)
(* Abstractions.  A file offset is the number of the atom that starts      *)
(* there; 0, where the image header is, stays "no offset", as in the code. *)
(* A bitmap is the set of the clusters whose bit is 1.  Damage keeps the   *)
(* atoms behind it aligned.                                                *)
(***************************************************************************)
EXTENDS Buckets, Sequences

CONSTANTS
    ByteBits,   \* bits of a byte of the bitmap
    MaxSync,    \* damaged atoms in a row that tolerant mode reads over
    ShortErrno  \* what a read at the end of the file may return: the stale errno

ASSUME ByteBitsAssumption == ByteBits \in Nat \ {0}
ASSUME MaxSyncAssumption == MaxSync \in Nat
ASSUME ShortErrnoAssumption == ShortErrno \subseteq {"ok", "EIO"}

Used     == <<"used">>
Empty(k) == <<"empty", k>>
Damaged  == <<"damaged">>

Atom     == {Used, Damaged} \cup {"empty"} \X Nat

Width(a) == CASE a = Used -> 1 [] a = Damaged -> 0 [] OTHER -> a[2]

\* bmlen bytes are allocated and cleared, for the clusters that the header
\* counts.  The bit of the trailing cluster may lie behind them.
StrayBits(n) == IF n % ByteBits = 0 THEN {{}, {n}} ELSE {{}}

-----------------------------------------------------------------------------
(* v10_verify                                                              *)

\* Mutant: the bucket keeps its last used cluster.
ScanAtom_LastOffset(s, a, total, tol) ==
    IF s.error # "ok" \/ s.cclust >= total THEN s
    ELSE LET n == [s EXCEPT !.pos = @ + 1, !.sync = 0, !.cclust = @ + Width(a)] IN
         IF a = Used
         THEN [n EXCEPT !.bitmap = @ \cup {s.cclust}, !.offset[Bucket(s.cclust)] = s.pos]
         ELSE IF a = Damaged /\ ~tol THEN [n EXCEPT !.error = "EDEADLK"] ELSE n

\* One turn of the loop that builds the index.  total counts the trailing
\* cluster.
ScanAtom(s, a, total, tol) ==
    IF s.error # "ok" \/ s.cclust >= total THEN s
    ELSE LET n == [s EXCEPT !.pos = @ + 1, !.sync = 0, !.cclust = @ + Width(a)] IN
         CASE a = Used ->
                 [n EXCEPT !.bitmap = @ \cup {s.cclust},
                           !.offset[Bucket(s.cclust)] = IF @ = 0 THEN s.pos ELSE @]
           [] a = Damaged /\ ~tol -> [n EXCEPT !.error = "EDEADLK"]
           [] a = Damaged /\ tol ->
                 IF s.sync > MaxSync THEN [n EXCEPT !.cclust = total]
                 ELSE [n EXCEPT !.sync = s.sync + 1]
           [] OTHER -> n

ScanAll(s, atoms, total, tol) ==
    LET after[i \in 0 .. Len(atoms)] ==
            IF i = 0 THEN s ELSE ScanAtom(after[i - 1], atoms[i], total, tol)
    IN  after[Len(atoms)]

\* The file ends before the last cluster, as a version 10.0 image always
\* does.  A read that returns errno 0 leaves in ibuf what the last one read.
ScanEnd(s, atoms, total, tol) ==
    IF s.error # "ok" \/ s.cclust >= total THEN {s}
    ELSE {IF r = "ok" THEN ScanAll(s, [i \in 1 .. total |-> atoms[Len(atoms)]], total, tol)
          ELSE IF tol THEN [s EXCEPT !.cclust = total]
          ELSE [s EXCEPT !.error = r] : r \in ShortErrno}

\* What building the index of nr + 1 clusters can come to; a run of damage
\* or of stale reads that gets nowhere never ends.
v10_verify(atoms, nr, tol) ==
    LET Start(bits) == [cclust |-> 0, pos |-> 1, bitmap |-> bits, sync |-> 0, error |-> "ok",
                        offset |-> [k \in 0 .. Bucket(nr) |-> 0]]
    IN  {s \in UNION {ScanEnd(ScanAll(Start(bits), atoms, nr + 1, tol), atoms, nr + 1, tol) :
                         bits \in StrayBits(nr)} :
            s.error # "ok" \/ s.cclust >= nr + 1}

-----------------------------------------------------------------------------
(* v10_seek, seek2cluster                                                  *)

\* "If it's not in the image, then just magically redirect it": the cluster
\* that v10_seek looks for.  total has the trailing cluster in it by now, so
\* it is the one behind that which is redirected.
Redirect(minor, total, c) == IF minor = 0 /\ c = total THEN 0 ELSE c

\* A seek to cluster c: the bucket it is in and, when that is another one
\* than before, the free clusters at its start, counted up to c.
v10_seek(bitmap, bucket, bsfcount, c) ==
    IF Bucket(c) = bucket THEN [bucket |-> bucket, bsfcount |-> bsfcount]
    ELSE [bucket   |-> Bucket(c),
          bsfcount |-> (CHOOSE p \in BucketStart(c) .. c :
                           /\ p \in bitmap \/ p = c
                           /\ \A q \in BucketStart(c) .. p - 1 : q \notin bitmap) - BucketStart(c)]

\* The first used cluster of the bucket of cluster c, which is used.
FirstUsed(bitmap, c) ==
    CHOOSE p \in BucketStart(c) .. c :
        p \in bitmap /\ \A q \in BucketStart(c) .. p - 1 : q \notin bitmap

\* "Now the tedium...": atoms are read from number i on, where cluster p is
\* taken to be, until cluster c is reached.  A read at the end of the file
\* returns the errno that was there before: an error, or 0, and then the last
\* atom counts again, but the data that v10_readblock goes on to read is not
\* there either (r_size), so that it is EIO in the end.
WalkTo(atoms, i, p, c) ==
    LET at[n \in 0 .. Len(atoms) + 1] ==
            IF n = 0 THEN [pos |-> i, cpos |-> p, error |-> "ok"]
            ELSE LET w == at[n - 1] IN
                 CASE w.error # "ok" \/ w.cpos >= c -> w
                   [] w.cpos < c /\ w.pos > Len(atoms) -> [w EXCEPT !.error = "EIO"]
                   [] OTHER ->
                        IF atoms[w.pos] = Damaged THEN [w EXCEPT !.error = "EDEADLK"]
                        ELSE [w EXCEPT !.pos = @ + 1, !.cpos = @ + Width(atoms[w.pos])]
    IN  at[Len(atoms) + 1]

\* Mutant: the bucket is taken to start with a used cluster.
seek2cluster_FromStart(atoms, ix, bucket, bsfcount, c) ==
    IF c \notin ix.bitmap \/ ix.offset[Bucket(c)] = 0
    THEN [pos |-> 0, cpos |-> 0, error |-> "EINVAL"]
    ELSE WalkTo(atoms, ix.offset[Bucket(c)], BucketStart(c), c)

seek2cluster(atoms, ix, bucket, bsfcount, c) ==
    IF c \notin ix.bitmap \/ ix.offset[Bucket(c)] = 0
    THEN [pos |-> 0, cpos |-> 0, error |-> "EINVAL"]
    ELSE WalkTo(atoms, ix.offset[Bucket(c)],
                IF Bucket(c) = bucket THEN BucketStart(c) + bsfcount ELSE FirstUsed(ix.bitmap, c), c)

-----------------------------------------------------------------------------
(* Reference definitions                                                   *)

\* The first cluster of atom i, and the clusters that have data.
ClusterOf(atoms, i) ==
    LET sum[n \in 0 .. i - 1] == IF n = 0 THEN 0 ELSE sum[n - 1] + Width(atoms[n])
    IN  sum[i - 1]
UsedAtoms(atoms)    == {i \in DOMAIN atoms : atoms[i] = Used}
UsedClusters(atoms) == {ClusterOf(atoms, i) : i \in UsedAtoms(atoms)}

Undamaged(atoms)    == \A i \in DOMAIN atoms : atoms[i] # Damaged

\* The atoms are those of an image of n clusters, some of them damaged.
Covers(atoms, n) ==
    /\ atoms # <<>> /\ \A i \in DOMAIN atoms : atoms[i] # Damaged => Width(atoms[i]) >= 1
    /\ ClusterOf(atoms, Len(atoms)) < n
    /\ Undamaged(atoms) => ClusterOf(atoms, Len(atoms) + 1) = n

\* Every cluster that the header counts has its bit, and every bucket leads to
\* the atom of its first used cluster.
IndexIsRight(ix, atoms, nr) ==
    /\ ix.bitmap \cap 0 .. nr - 1 = UsedClusters(atoms) \cap 0 .. nr - 1
    /\ \A i \in UsedAtoms(atoms) :
          LET c == ClusterOf(atoms, i)
          IN  c < nr /\ (\A q \in BucketStart(c) .. c - 1 : q \notin UsedClusters(atoms))
              => ix.offset[Bucket(c)] = i

Invalid == <<"invalid">>    \* nc_ivblock
Junk    == <<"junk">>       \* bytes that are not those of a cluster

\* The image's content of a cluster, as the server should give it.
ClusterContent(atoms, c) == IF c \in UsedClusters(atoms) THEN <<"base", c>> ELSE Invalid

-----------------------------------------------------------------------------

\* The image's part of v10_readblock: an error and the content.  The data of
\* an atom follows its type, unless the walk went past the cluster.  Only an
\* atom with data is as long as a cluster: where none follows, the read is
\* short.
ReadImage(atoms, ix, bucket, bsfcount, c) ==
    IF c \notin ix.bitmap THEN <<"ok", Invalid>>
    ELSE LET w == seek2cluster(atoms, ix, bucket, bsfcount, c) IN
         IF w.error # "ok" THEN <<w.error, Junk>>
         ELSE IF \A i \in UsedAtoms(atoms) : i < w.pos THEN <<"EIO", Junk>>
         ELSE IF w.cpos = c /\ atoms[w.pos] = Used THEN <<"ok", <<"base", ClusterOf(atoms, w.pos)>>>>
         ELSE <<"ok", Junk>>
=============================================================================
