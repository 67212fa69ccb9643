----------------------------- MODULE MCTlsSocket -----------------------------
(* Buffers of two pieces and a wire of one: a flight of three messages, a  *)
(* record of two pieces and the close_notify behind it all have to wait.   *)
EXTENDS TlsSocket
=============================================================================
