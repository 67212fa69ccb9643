------------------------------- MODULE MCRing -------------------------------
(* Ring of four bytes over a two-letter alphabet: every alignment of head *)
(* and tail, full and empty at each of them, and every content.            *)
EXTENDS RingSpec
=============================================================================
