------------------------------ MODULE MCStreamSetup ------------------------------
(* A small world for TLC: a host of two addresses and few numbers. *)
EXTENDS StreamSetup

MCKernel == {0, 1, 3}
=============================================================================
