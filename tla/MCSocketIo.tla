------------------------------ MODULE MCSocketIo ------------------------------
(* Two calls, one of them with descriptors, and two sockets that share one *)
(* descriptor number, so that the second reuses it.                        *)
EXTENDS SocketIo
CONSTANTS t1, t2, s1, s2
MCTask == {t1, t2}
MCCarries == {t2}
MCSock == {s1, s2}
==============================================================================
