------------------------- MODULE MCSocketLifecycle -------------------------
(* Two sockets, two callbacks and two descriptor numbers, so that a number *)
(* is soon given out again; calls nest four deep: a close, its callback, a *)
(* call in it, and a callback or a finalizer in that.                      *)
EXTENDS SocketLifecycle
=============================================================================
