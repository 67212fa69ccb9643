----------------------------- MODULE MCTlsCache -----------------------------
(* One slot for contexts and one for sessions, so that every second put    *)
(* evicts; two option sets, one host with and without verification.        *)
EXTENDS TlsCache, TLC

Interchangeable ==
  Permutations(Session) \union Permutations(Conn) \union Permutations(Client)
    \union Permutations(Ctx) \union Permutations(Options)
=============================================================================
