----------------------------- MODULE MCRawImage -----------------------------
(* A raw image of two blocks.                                              *)
EXTENDS RawImage

ErrnoSet  == {"EIO"}
RawCounts == {N}
=============================================================================
