------------------------------ MODULE MCTlsBio ------------------------------
(* Rings of two bytes, a peer that sends three and receives two through a  *)
(* socket buffer of one: both rings wrap, fill up and run empty.           *)
EXTENDS TlsBio
=============================================================================
