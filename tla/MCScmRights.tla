----------------------------- MODULE MCScmRights -----------------------------
(* Four files and queues of three: a message may be too large, have two    *)
(* control messages, and split its descriptors in every way.               *)
EXTENDS ScmRights

Interchangeable == Permutations(File) \union Permutations(Queue)
=============================================================================
