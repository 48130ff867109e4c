----------------------------- MODULE Alignment -----------------------------
(***************************************************************************)
(* The alignment of values in a message: encoder.go and decoder.go pad up  *)
(* to a multiple of 1, 2, 4 or 8.                                          *)
(***************************************************************************)
EXTENDS Integers

Alignments == {1, 2, 4, 8}

\* decoder.align: the remainder of a negative number is not negative here.
AlignUp(offset, n) == offset + ((-offset) % n)
=============================================================================
