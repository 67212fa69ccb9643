------------------------------ MODULE MCSniSelect ------------------------------
(* Two kinds of servers, one of which issues no tickets. *)
EXTENDS SniSelect, TLC

CONSTANTS c1, c2, t1, t2, k1, k2

MCConn == {c1, c2}
MCThread == {t1, t2}
MCKind == {k1, k2}
MCSilent == {k2}
MCSymmetry == Permutations(MCConn) \union Permutations(MCThread)
=============================================================================
