------------------------------ MODULE Libimage ------------------------------
(***************************************************************************)
(* The choice of an image type (libimage.c): the types are probed in turn, *)
(* and all later calls go through the handle of the first that matches.    *)
(* A file is what the probes and the verification of the types tell apart. *)
(***************************************************************************)
EXTENDS Integers, Sequences

\* Of the ntfsclone files, one has damaged atoms and one the bytes of a
\* version but not the magic; raw is any other file that can be read.
Files == {"ntfsclone", "ntfsdamaged", "lookalike", "partclone", "partdamaged", "plain", "absent"}

NoHandle == "null"   \* what main's pctx is before image_open

known_types == <<"ntfsclone", "partclone", "raw">>

\* The first reads the header and compares the version, without the magic;
\* the other two verify the whole image, in strict mode.
ntfsclone_probe(f) == f \in {"ntfsclone", "ntfsdamaged", "lookalike"}
partclone_probe(f) == f = "partclone"
rawimage_probe(f)  == f # "absent"

Probe(type, f) ==
    CASE type = "ntfsclone" -> ntfsclone_probe(f)
      [] type = "partclone" -> partclone_probe(f)
      [] type = "raw"       -> rawimage_probe(f)

\* What image_open can return: an error and the handle.  A probe may fail on
\* a file of its type too, if it cannot read it, and the next type is tried.
\* A raw image that is not asked for is no error, but there is no handle.
image_open(f, raw_allowed) ==
    UNION {IF hits = {} THEN {<<"ENOENT", NoHandle>>}
           ELSE LET itidx == CHOOSE i \in hits : \A j \in hits : i <= j
                IN  IF itidx < Len(known_types) \/ raw_allowed
                    THEN {<<"ok", known_types[itidx]>>, <<"EIO", known_types[itidx]>>}
                    ELSE {<<"ok", NoHandle>>} :
           hits \in SUBSET {i \in DOMAIN known_types : Probe(known_types[i], f)}}

\* Mutant: a handle is taken for granted.
image_verify_Unchecked(h, f, tolerant) ==
    IF h = NoHandle THEN {"ok"} ELSE {"ok", "EIO"}

\* image_verify, whose change file and memory may fail as well.
image_verify(h, f, tolerant) ==
    CASE h = NoHandle    -> {"EINVAL"}
      [] h = "ntfsclone" -> CASE f = "ntfsclone"   -> {"ok", "EIO"}
                              [] f = "ntfsdamaged" -> IF tolerant THEN {"ok", "EIO"} ELSE {"EDEADLK"}
                              [] OTHER             -> {"EINVAL"}
      [] h = "partclone" -> IF f = "partclone" THEN {"ok", "EIO"} ELSE {"EINVAL"}
      [] h = "raw"       -> {"ok", "EIO"}
=============================================================================
