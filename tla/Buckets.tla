------------------------------ MODULE Buckets -------------------------------
(***************************************************************************)
(* The blocks of an image in buckets of 2^Factor: libpartclone keeps a     *)
(* count and libntfsclone an offset for each, so that a seek need not      *)
(* start at block 0.                                                       *)
(***************************************************************************)
EXTENDS Integers

CONSTANT Factor     \* v1_bitmap_factor, v10_bucket_factor

\* The second part is what arithmetic says of the first; proofs need it said.
ASSUME FactorAssumption == Factor \in Nat /\ 2 ^ Factor \in Nat \ {0}

Bucket(b)      == b \div 2 ^ Factor
BucketStart(b) == b - (b % 2 ^ Factor)
=============================================================================
