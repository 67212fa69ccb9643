------------------------------ MODULE TlsCache ------------------------------
(***************************************************************************)
(* net.tls.cache (tls_cache.c, tls_cache.h) with its users in tls_client.c *)
(* and tls_context.c: a store of SSL contexts keyed by their options, and  *)
(* in each context a store of client sessions keyed by destination.        *)
(*                                                                         *)
(* Two kinds of ownership meet here.  Contexts and cache items are Lua     *)
(* userdata that the collector frees when nobody refers to them; SSL       *)
(* sessions are reference counted, and every reference OpenSSL hands to    *)
(* the library must be given back exactly once, on every error path.       *)
(***************************************************************************)
EXTENDS CacheStore

CONSTANTS
  Client,     \* net.tls.client objects
  Conn,       \* TLS connections; a closed one makes room for another
  Options,    \* option sets a context can be built from
  Host,       \* destinations
  Ctx,        \* SSL contexts
  Session,    \* SSL sessions
  None,       \* no context, no session
  CtxCap,     \* ctx_capacity
  SessCap     \* session_capacity

ASSUME CapacityAssumption == CtxCap \in Nat /\ SessCap \in Nat
ASSUME NoneAssumption == None \notin Ctx \union Session

VARIABLES
  cstore,     \* ssl_ctx_cache: options -> context
  sstore,     \* ssl_sess_cache of each context: session key -> session
  ctxState,   \* "unborn", "alive" or "collected"
  outdated,   \* contexts made before the last clear()
  client,     \* the context each client refers to
  conn,       \* the connections
  items,      \* sessions inside a cache item that is not finalized yet
  refs,       \* references to each session the library has to give back
  origin      \* the context and destination a session was issued for

vars == <<cstore, sstore, ctxState, outdated, client, conn, items, refs, origin>>

(* A destination is a name and whether the peer's certificate was verified: *)
(* resuming a session skips the verification.                               *)
Dest == [host: Host, verify: BOOLEAN]

(* Mutant of SessionKey: leaves out whether the peer was verified. *)
SessionKeyHost(d) == <<d.host>>

(* push_session_key: every part of the destination is in the key. *)
SessionKey(d) == <<d.host, d.verify>>

Fresh == [st |-> "none", ctx |-> None, dest |-> None, offered |-> None, held |-> None]
Opened(x, d, offered) ==
  [st |-> "handshake", ctx |-> x, dest |-> d, offered |-> offered, held |-> None]

Init ==
  /\ cstore = NewStore(CtxCap)
  /\ sstore = [x \in Ctx |-> NewStore(SessCap)]
  /\ ctxState = [x \in Ctx |-> "unborn"] /\ outdated = {}
  /\ client = [cl \in Client |-> None]
  /\ conn = [c \in Conn |-> Fresh]
  /\ items = {} /\ refs = [s \in Session |-> 0] /\ origin = << >>

-----------------------------------------------------------------------------
(* Clients and contexts.                                                   *)

(* new_lua of tls_client.c.  A cached context is used again; otherwise one *)
(* is built and put into the cache.  A memory error on the way leaves no   *)
(* client, but the context may be in the cache.                            *)
ClientGets(cl, x, results, errors) ==
  \/ \E r \in results : cstore' = r /\ client' = [client EXCEPT ![cl] = x]
  \/ \E r \in results \union errors : cstore' = r /\ client' = client

NewClient(cl, k) ==
  /\ client[cl] = None
  /\ \/ \E x \in Lookup(cstore, k) :
          /\ ClientGets(cl, x, GetResults(cstore, k, x), GetErrors(cstore, k, x))
          /\ ctxState' = ctxState
     \/ /\ Lookup(cstore, k) = {}
        /\ \E x \in Ctx :
             /\ ctxState[x] = "unborn"
             /\ ctxState' = [ctxState EXCEPT ![x] = "alive"]
             /\ ClientGets(cl, x, PutResults(cstore, k, x), PutErrors(cstore, k, x))
  /\ UNCHANGED <<sstore, outdated, conn, items, refs, origin>>

(* The program forgets a client; its connections keep its context alive. *)
DropClient(cl) ==
  /\ client[cl] # None
  /\ client' = [client EXCEPT ![cl] = None]
  /\ UNCHANGED <<cstore, sstore, ctxState, outdated, conn, items, refs, origin>>

-----------------------------------------------------------------------------
(* Connections.                                                            *)

(* connect: a session for this destination is taken out of the cache.  It  *)
(* is dropped when it expired, when it can not be resumed or when OpenSSL  *)
(* refuses it; either way the library's reference is given back, and       *)
(* OpenSSL has its own.                                                    *)
Connect(c, cl, d) ==
  LET x == client[cl]
      found == IF SessCap = 0 THEN {} ELSE Lookup(sstore[x], SessionKey(d))
  IN  /\ conn[c].st = "none" /\ x # None
      /\ \/ /\ found = {}
            /\ conn' = [conn EXCEPT ![c] = Opened(x, d, None)]
            /\ UNCHANGED <<sstore, items, refs>>
         \/ \E s \in found : \E offered \in {s, None} :
              /\ sstore' = [sstore EXCEPT ![x] = Taken(@, SessionKey(d))]
              /\ items' = items \ {s}
              /\ refs' = [refs EXCEPT ![s] = @ - 1]
              /\ conn' = [conn EXCEPT ![c] = Opened(x, d, offered)]
      /\ UNCHANGED <<cstore, ctxState, outdated, client, origin>>

(* cache_client_session: move the reference the connection cr holds into   *)
(* the cache of its context, given the counts rf.                          *)
CacheHeld(c, cr, rf) ==
  LET s == cr.held
      gone == [cr EXCEPT !.held = None]
  IN  \* nothing to cache, or no memory for the item: the connection keeps it
      \/ /\ conn' = [conn EXCEPT ![c] = cr] /\ refs' = rf
         /\ UNCHANGED <<sstore, items>>
      \* without a ticket, or not resumable: given back
      \/ /\ s # None
         /\ conn' = [conn EXCEPT ![c] = gone] /\ refs' = [rf EXCEPT ![s] = @ - 1]
         /\ UNCHANGED <<sstore, items>>
      \* the item owns it from here on, also if the store runs out of memory
      \/ /\ s # None
         /\ conn' = [conn EXCEPT ![c] = gone] /\ refs' = rf
         /\ items' = items \union {s}
         /\ \E r \in PutResults(sstore[cr.ctx], SessionKey(cr.dest), s)
                       \union PutErrors(sstore[cr.ctx], SessionKey(cr.dest), s) :
              sstore' = [sstore EXCEPT ![cr.ctx] = r]

Unissued == Session \ DOMAIN origin

(* The server issues the sessions ss on connection c. *)
Issue(c, ss) ==
  origin' = [s \in DOMAIN origin \union ss |->
               IF s \in ss THEN <<conn[c].ctx, conn[c].dest>> ELSE origin[s]]

ConnFrame == UNCHANGED <<cstore, ctxState, outdated, client>>

(* A handshake of TLS 1.2 ends: the library takes a reference to the       *)
(* session in use, a new one or the resumed one once more.                 *)
Handshake12(c) ==
  /\ conn[c].st = "handshake"
  /\ IF SessCap = 0
     THEN conn' = [conn EXCEPT ![c].st = "open12"] /\ UNCHANGED <<sstore, items, refs, origin>>
     ELSE \E s \in Unissued \union ({conn[c].offered} \ {None}) :
            /\ Issue(c, {s} \ {conn[c].offered})
            /\ CacheHeld(c, [conn[c] EXCEPT !.st = "open12", !.held = s],
                         [refs EXCEPT ![s] = @ + 1])
  /\ ConnFrame

(* A handshake of TLS 1.3 ends: its tickets come later. *)
Handshake13(c) ==
  /\ conn[c].st = "handshake"
  /\ conn' = [conn EXCEPT ![c].st = "open13"]
  /\ UNCHANGED <<sstore, items, refs, origin>> /\ ConnFrame

(* Mutant of NewSessions: the ticket kept before is overwritten. *)
NewSessionsLeak(cr, rf, ss) ==
  IF ss = {} THEN {<<cr, rf>>}
  ELSE {<<[cr EXCEPT !.held = latest],
          [s \in Session |-> IF s \in ss THEN rf[s] + 1 ELSE rf[s]]>> : latest \in ss}

(* SSL_read or SSL_shutdown handles the tickets that arrived with TLS 1.3. *)
(* new_session_cb keeps each and gives back the one it kept before; the    *)
(* last one is cached.  An earlier attempt that failed is repeated.        *)
NewSessions(cr, rf, ss) ==
  IF ss = {} THEN {<<cr, rf>>}
  ELSE {<<[cr EXCEPT !.held = latest],
          [s \in Session |-> IF s = latest THEN rf[s] + 1
                             ELSE IF s = cr.held THEN rf[s] - 1 ELSE rf[s]]>> :
          latest \in ss}

Read(c, ss, st) ==
  /\ conn[c].st \in {"open12", "open13"}
  /\ ss # {} => conn[c].st = "open13" /\ SessCap > 0
  /\ st \in {conn[c].st, "shut"}
  /\ Issue(c, ss)
  /\ \E p \in NewSessions([conn[c] EXCEPT !.st = st], refs, ss) : CacheHeld(c, p[1], p[2])
  /\ ConnFrame

(* cleanup_context, by close() or by the collector. *)
CloseConn(c) ==
  /\ conn[c].st # "none"
  /\ refs' = [s \in Session |-> IF s = conn[c].held THEN refs[s] - 1 ELSE refs[s]]
  /\ conn' = [conn EXCEPT ![c] = Fresh]
  /\ UNCHANGED <<sstore, items, origin>> /\ ConnFrame

-----------------------------------------------------------------------------
(* The collector.                                                          *)

Referenced(x) ==
  \/ x \in Values(cstore.strong)
  \/ \E cl \in Client : client[cl] = x
  \/ \E c \in Conn : conn[c].ctx = x

(* A context nobody refers to leaves the weak table; its session store is  *)
(* disposed of.                                                            *)
CollectCtx(x) ==
  /\ ctxState[x] = "alive" /\ ~Referenced(x)
  /\ ctxState' = [ctxState EXCEPT ![x] = "collected"]
  /\ cstore' = Forgotten(cstore, x)
  /\ sstore' = [sstore EXCEPT ![x] = NewStore(0)]
  /\ UNCHANGED <<outdated, client, conn, items, refs, origin>>

(* An item nobody refers to: its finalizer gives the session back. *)
CollectItem(s) ==
  /\ s \in items /\ \A x \in Ctx : s \notin Values(sstore[x].strong)
  /\ items' = items \ {s}
  /\ refs' = [refs EXCEPT ![s] = @ - 1]
  /\ sstore' = [x \in Ctx |-> Forgotten(sstore[x], s)]
  /\ UNCHANGED <<cstore, ctxState, outdated, client, conn, origin>>

-----------------------------------------------------------------------------
(* cache:clear().                                                          *)

Cleared(xs) == [x \in Ctx |-> IF x \in xs THEN NewStore(SessCap) ELSE sstore[x]]

ClearFrame == UNCHANGED <<ctxState, client, conn, items, refs, origin>>

(* Mutant of Clear: forgets the strong contexts only. *)
ClearStrong ==
  /\ sstore' = Cleared(Held(cstore))
  /\ cstore' = [cstore EXCEPT !.strong = << >>, !.n = 0]
  /\ outdated' = {x \in Ctx : ctxState[x] # "unborn"}
  /\ ClearFrame

(* The session stores of all contexts in the cache, then the cache. *)
Clear ==
  /\ sstore' = Cleared(Held(cstore))
  /\ cstore' = NewStore(CtxCap)
  /\ outdated' = {x \in Ctx : ctxState[x] # "unborn"}
  /\ ClearFrame

(* One of the stores runs out of memory and clear() raises an error: the   *)
(* strong contexts are visited first, then the weak ones, the cache last.  *)
ClearFails(xs) ==
  /\ xs \subseteq Values(cstore.strong) \/ Values(cstore.strong) \subseteq xs
  /\ sstore' = Cleared(xs)
  /\ UNCHANGED <<cstore, outdated>> /\ ClearFrame

Next ==
  \/ \E cl \in Client :
       \/ DropClient(cl)
       \/ \E k \in Options : NewClient(cl, k)
       \/ \E c \in Conn, d \in Dest : Connect(c, cl, d)
  \/ \E c \in Conn :
       \/ Handshake12(c) \/ Handshake13(c) \/ CloseConn(c)
       \/ \E ss \in SUBSET Unissued, st \in {"open12", "open13", "shut"} : Read(c, ss, st)
  \/ \E x \in Ctx : CollectCtx(x)
  \/ \E s \in Session : CollectItem(s)
  \/ Clear
  \/ \E xs \in SUBSET Held(cstore) : ClearFails(xs)

Spec == Init /\ [][Next]_vars

-----------------------------------------------------------------------------
TableOK(t, K, V) == DOMAIN t \subseteq K /\ \A k \in DOMAIN t : t[k] \in V

StoreOK(s, K, V) ==
  /\ DOMAIN s = {"cap", "n", "strong", "weak"} /\ s.n \in Nat
  /\ TableOK(s.strong, K, V) /\ TableOK(s.weak, K, V)

TypeOK ==
  /\ StoreOK(cstore, Options, Ctx)
  /\ \A x \in Ctx : StoreOK(sstore[x], Host \X BOOLEAN, Session)
  /\ ctxState \in [Ctx -> {"unborn", "alive", "collected"}] /\ outdated \subseteq Ctx
  /\ client \in [Client -> Ctx \union {None}]
  /\ conn \in [Conn -> [st: {"none", "handshake", "open12", "open13", "shut"},
                        ctx: Ctx \union {None}, dest: Dest \union {None},
                        offered: Session \union {None}, held: Session \union {None}]]
  /\ items \subseteq Session /\ refs \in [Session -> Nat]
  /\ DOMAIN origin \subseteq Session

(* doc/net_tls_cache.md: the policy is bounded.  Every store counts its    *)
(* strong entries right and never has more than its capacity, although a   *)
(* put evicts, inserts and counts in separate steps and any of them can    *)
(* run out of memory; size() reports these counts.                         *)
StoresBounded == Bounded(cstore) /\ \A x \in Ctx : Bounded(sstore[x])

Holders(s) == {c \in Conn : conn[c].held = s}

(* Each reference to a session has exactly one owner, a cache item or a    *)
(* connection: none is leaked or given back twice when sessions are        *)
(* replaced, evicted, taken, expired, or caught in a memory error.  What   *)
(* the tables hold are items that were not finalized.  And, as             *)
(* doc/net_tls_cache.md says, a session is removed from the cache when it  *)
(* is selected for a connection: while one offers it, no second one can.   *)
SessionsOwnedOnce ==
  /\ \A s \in Session :
       refs[s] = Cardinality(Holders(s)) + (IF s \in items THEN 1 ELSE 0)
  /\ \A s \in Session : refs[s] <= 1
  /\ \A x \in Ctx : Held(sstore[x]) \subseteq items
  /\ \A c \in Conn : conn[c].st = "handshake" /\ conn[c].offered # None =>
       LET s == conn[c].offered
       IN  /\ s \notin items /\ Holders(s) = {}
           /\ \A e \in Conn \ {c} : ~(conn[e].st = "handshake" /\ conn[e].offered = s)

(* doc/net_tls_cache.md: sessions are scoped to their context and their    *)
(* destination.  In particular a session of a connection that did not      *)
(* verify its peer is never resumed by one that does.                      *)
SessionsScoped ==
  \A c \in Conn : conn[c].offered # None =>
    origin[conn[c].offered] = <<conn[c].ctx, conn[c].dest>>

(* doc/net_tls_cache.md: clear() invalidates all context mappings, which   *)
(* is how a program makes changed certificate files take effect.  No       *)
(* context from before comes back, not through the weak table either, and  *)
(* no client is given a context that was collected.                        *)
ClearForgets ==
  /\ Held(cstore) \cap outdated = {}
  /\ \A x \in Held(cstore) : ctxState[x] = "alive"
  /\ \A cl \in Client : client[cl] # None => ctxState[client[cl]] = "alive"
=============================================================================
