--------------------------- MODULE TlsCacheProofs ---------------------------
(***************************************************************************)
(* What holds of the TLS cache for every number of contexts, sessions,     *)
(* connections and every capacity.                                         *)
(***************************************************************************)
EXTENDS TlsCache, FiniteSetTheorems, TLAPS

(* A store that is well formed: a record of the right shape that keeps the *)
(* promise of the store.                                                   *)
WellFormed(s) ==
  /\ DOMAIN s = {"cap", "n", "strong", "weak"}
  /\ s.cap \in Nat /\ s.n \in Nat
  /\ Bounded(s)

(* A new store is empty and counts nothing. *)
LEMMA NewStoreWellFormed ==
  ASSUME NEW cap \in Nat
  PROVE  WellFormed(NewStore(cap))
<1>1. DOMAIN NewStore(cap).strong = {}
  BY DEF NewStore
<1> QED
  BY <1>1, FS_EmptySet DEF WellFormed, Bounded, NewStore

(* Evicting a strong entry frees its place and counts it. *)
LEMMA EvictedWellFormed ==
  ASSUME NEW s, WellFormed(s), NEW old \in DOMAIN s.strong
  PROVE  /\ WellFormed(Evicted(s, old))
         /\ Evicted(s, old).n = s.n - 1 /\ Evicted(s, old).cap = s.cap
         /\ DOMAIN Evicted(s, old).strong = DOMAIN s.strong \ {old}
<1> DEFINE e == Evicted(s, old)
<1>1. /\ DOMAIN e = DOMAIN s /\ e.cap = s.cap /\ e.n = s.n - 1
      /\ e.strong = Without(s.strong, old)
  BY DEF WellFormed, Evicted
<1>2. DOMAIN e.strong = DOMAIN s.strong \ {old}
  BY <1>1 DEF Without
<1>3. /\ IsFiniteSet(DOMAIN e.strong)
      /\ Cardinality(DOMAIN e.strong) = Cardinality(DOMAIN s.strong) - 1
  BY <1>2, FS_RemoveElement DEF WellFormed, Bounded
<1>4. Cardinality(DOMAIN e.strong) \in Nat
  BY <1>3, FS_CardinalityType
<1> HIDE DEF e
<1> QED
  BY <1>1, <1>2, <1>3, <1>4 DEF WellFormed, Bounded, e

(* Inserting under a key that is there, or into a store with room. *)
LEMMA InsertedWellFormed ==
  ASSUME NEW s, NEW k, NEW v, WellFormed(s),
         k \in DOMAIN s.strong \/ s.n < s.cap
  PROVE  WellFormed(Inserted(s, k, v))
<1> DEFINE i == Inserted(s, k, v)
<1>1. /\ DOMAIN i = DOMAIN s /\ i.cap = s.cap
      /\ i.n = IF k \in DOMAIN s.strong THEN s.n ELSE s.n + 1
      /\ i.strong = With(s.strong, k, v)
  BY DEF WellFormed, Inserted
<1>2. DOMAIN i.strong = DOMAIN s.strong \union {k}
  BY <1>1 DEF With
<1>3. CASE k \in DOMAIN s.strong
  <2>1. DOMAIN i.strong = DOMAIN s.strong
    BY <1>2, <1>3
  <2> HIDE DEF i
  <2> QED
    BY <1>1, <1>3, <2>1 DEF WellFormed, Bounded, i
<1>4. CASE k \notin DOMAIN s.strong
  <2>1. /\ IsFiniteSet(DOMAIN i.strong)
        /\ Cardinality(DOMAIN i.strong) = Cardinality(DOMAIN s.strong) + 1
    BY <1>2, <1>4, FS_AddElement DEF WellFormed, Bounded
  <2> HIDE DEF i
  <2> QED
    BY <1>1, <1>4, <2>1 DEF WellFormed, Bounded, i
<1> QED
  BY <1>3, <1>4

(* Making room leaves the store well formed, and leaves room. *)
LEMMA MakeRoomWellFormed ==
  ASSUME NEW s, NEW k, WellFormed(s), s.cap # 0, NEW r \in MakeRoom(s, k)
  PROVE  WellFormed(r) /\ (k \in DOMAIN r.strong \/ r.n < r.cap)
<1>1. CASE k \notin DOMAIN s.strong /\ s.n >= s.cap
  <2>1. PICK old \in DOMAIN s.strong : r = Evicted(s, old)
    BY <1>1 DEF MakeRoom
  <2>2. WellFormed(r) /\ r.n = s.n - 1 /\ r.cap = s.cap
    BY <2>1, EvictedWellFormed
  <2> QED
    BY <2>2 DEF WellFormed, Bounded
<1>2. CASE ~(k \notin DOMAIN s.strong /\ s.n >= s.cap)
  BY <1>2 DEF MakeRoom, WellFormed
<1> QED
  BY <1>1, <1>2

(* The strong half of a store decides whether it is well formed. *)
LEMMA WeakChangesNothing ==
  ASSUME NEW s, WellFormed(s), NEW w
  PROVE  WellFormed([s EXCEPT !.weak = w])
BY DEF WellFormed, Bounded

(* put leaves a well formed store, also when it runs out of memory. *)
LEMMA PutWellFormed ==
  ASSUME NEW s, NEW k, NEW v, WellFormed(s),
         NEW r \in PutResults(s, k, v) \union PutErrors(s, k, v)
  PROVE  WellFormed(r)
<1>1. CASE s.cap = 0
  BY <1>1 DEF PutResults, PutErrors
<1>2. CASE s.cap # 0
  <2>1. ASSUME NEW m \in MakeRoom(s, k)
        PROVE  WellFormed(m) /\ WellFormed(Inserted(m, k, v))
    BY <1>2, <2>1, MakeRoomWellFormed, InsertedWellFormed
  <2>2. CASE r \in PutResults(s, k, v)
    <3>1. PICK m \in MakeRoom(s, k) : r = Settled(Inserted(m, k, v), k)
      BY <1>2, <2>2 DEF PutResults
    <3> QED
      BY <2>1, <3>1, WeakChangesNothing DEF Settled
  <2>3. CASE r \in PutErrors(s, k, v)
    BY <1>2, <2>1, <2>3 DEF PutErrors
  <2> QED
    BY <2>2, <2>3
<1> QED
  BY <1>1, <1>2

(* get leaves a well formed store, whether or not it promotes. *)
LEMMA GetWellFormed ==
  ASSUME NEW s, NEW k, NEW v, WellFormed(s),
         NEW r \in GetResults(s, k, v) \union GetErrors(s, k, v)
  PROVE  WellFormed(r)
BY PutWellFormed DEF GetResults, GetErrors

(* take leaves a well formed store. *)
LEMMA TakenWellFormed ==
  ASSUME NEW s, NEW k, WellFormed(s)
  PROVE  WellFormed(Taken(s, k))
<1> DEFINE t == Taken(s, k)
<1>1. CASE k \in DOMAIN s.strong
  <2>1. /\ DOMAIN t = DOMAIN s /\ t.cap = s.cap /\ t.n = s.n - 1
        /\ t.strong = Without(s.strong, k)
    BY <1>1 DEF WellFormed, Taken
  <2>2. DOMAIN t.strong = DOMAIN s.strong \ {k}
    BY <2>1 DEF Without
  <2>3. /\ IsFiniteSet(DOMAIN t.strong)
        /\ Cardinality(DOMAIN t.strong) = Cardinality(DOMAIN s.strong) - 1
    BY <1>1, <2>2, FS_RemoveElement DEF WellFormed, Bounded
  <2>4. Cardinality(DOMAIN t.strong) \in Nat
    BY <2>3, FS_CardinalityType
  <2> HIDE DEF t
  <2> QED
    BY <2>1, <2>3, <2>4 DEF WellFormed, Bounded, t
<1>2. CASE k \notin DOMAIN s.strong
  BY <1>2, WeakChangesNothing DEF Taken, Settled
<1> QED
  BY <1>1, <1>2

-----------------------------------------------------------------------------
(* The capacity of a store never changes and its counts stay right, so the *)
(* invariant is that all stores are well formed.                           *)
StoresInv ==
  /\ WellFormed(cstore)
  /\ DOMAIN sstore = Ctx
  /\ \A x \in Ctx : WellFormed(sstore[x])

(* A step that replaces the store of at most one context by a well formed  *)
(* one, whatever that context is.                                          *)
LEMMA OneStoreChanges ==
  ASSUME StoresInv, NEW x, NEW r, x \in Ctx => WellFormed(r),
         cstore' = cstore, sstore' = [sstore EXCEPT ![x] = r]
  PROVE  StoresInv'
BY DEF StoresInv

(* cache_client_session puts one session into one store or into none. *)
LEMMA CacheHeldStores ==
  ASSUME StoresInv, NEW c, NEW cr, NEW rf, CacheHeld(c, cr, rf), cstore' = cstore
  PROVE  StoresInv'
<1> DEFINE key == SessionKey(cr.dest)
           st == sstore[cr.ctx]
<1>1. CASE sstore' = sstore
  BY <1>1 DEF StoresInv
<1>2. CASE \E r \in PutResults(st, key, cr.held) \union PutErrors(st, key, cr.held) :
             sstore' = [sstore EXCEPT ![cr.ctx] = r]
  <2>1. PICK r \in PutResults(st, key, cr.held) \union PutErrors(st, key, cr.held) :
               sstore' = [sstore EXCEPT ![cr.ctx] = r]
    BY <1>2
  <2>2. ASSUME cr.ctx \in Ctx PROVE WellFormed(r)
    <3>1. WellFormed(st)
      BY <2>2 DEF StoresInv
    <3> QED
      BY <2>1, <3>1, PutWellFormed
  <2> QED
    BY <2>1, <2>2, OneStoreChanges
<1> QED
  BY <1>1, <1>2 DEF CacheHeld

(* In the initial state every store is new. *)
LEMMA InitStores == Init => StoresInv
BY NewStoreWellFormed, CapacityAssumption DEF Init, StoresInv

(* Creating a client gets from, or puts into, the store of contexts. *)
LEMMA NewClientStores ==
  ASSUME StoresInv, NEW cl, NEW k, NewClient(cl, k)
  PROVE  StoresInv'
<1>1. sstore' = sstore
  BY DEF NewClient
<1>2. PICK x : cstore' \in GetResults(cstore, k, x) \union GetErrors(cstore, k, x)
                           \union PutResults(cstore, k, x) \union PutErrors(cstore, k, x)
  BY DEF NewClient, ClientGets
<1>3. WellFormed(cstore')
  BY <1>2, GetWellFormed, PutWellFormed DEF StoresInv
<1> QED
  BY <1>1, <1>3 DEF StoresInv

(* Opening a connection takes from the store of its context. *)
LEMMA ConnectStores ==
  ASSUME StoresInv, NEW c, NEW cl, NEW d, Connect(c, cl, d)
  PROVE  StoresInv'
<1> DEFINE x == client[cl]
<1>1. cstore' = cstore
  BY DEF Connect
<1>2. CASE sstore' = sstore
  BY <1>1, <1>2 DEF StoresInv
<1>3. CASE sstore' = [sstore EXCEPT ![x] = Taken(@, SessionKey(d))]
  <2>1. sstore' = [sstore EXCEPT ![x] = Taken(sstore[x], SessionKey(d))]
    BY <1>3
  <2>2. x \in Ctx => WellFormed(Taken(sstore[x], SessionKey(d)))
    BY TakenWellFormed DEF StoresInv
  <2> HIDE DEF x
  <2> QED
    BY <1>1, <2>1, <2>2, OneStoreChanges
<1> QED
  BY <1>2, <1>3 DEF Connect

(* The end of a TLS 1.2 handshake, and reading, cache at most one session. *)
LEMMA CachingStores ==
  ASSUME StoresInv, NEW c, NEW ss, NEW st, Handshake12(c) \/ Read(c, ss, st)
  PROVE  StoresInv'
<1>1. cstore' = cstore
  BY DEF Handshake12, Read, ConnFrame
<1>2. (sstore' = sstore) \/ \E cr, rf : CacheHeld(c, cr, rf)
  <2>1. CASE Handshake12(c)
    BY <2>1 DEF Handshake12
  <2>2. CASE Read(c, ss, st)
    BY <2>2 DEF Read
  <2> QED
    BY <2>1, <2>2
<1>3. CASE sstore' = sstore
  BY <1>1, <1>3 DEF StoresInv
<1>4. CASE \E cr, rf : CacheHeld(c, cr, rf)
  BY <1>1, <1>4, CacheHeldStores
<1> QED
  BY <1>2, <1>3, <1>4

(* The collector disposes of stores and forgets weak entries. *)
LEMMA CollectStores ==
  ASSUME StoresInv, NEW x, NEW s, CollectCtx(x) \/ CollectItem(s)
  PROVE  StoresInv'
<1>1. ASSUME NEW t, WellFormed(t), NEW v PROVE WellFormed(Forgotten(t, v))
  BY <1>1, WeakChangesNothing DEF Forgotten
<1>2. CASE CollectCtx(x)
  BY <1>1, <1>2, NewStoreWellFormed DEF CollectCtx, StoresInv
<1>3. CASE CollectItem(s)
  BY <1>1, <1>3 DEF CollectItem, StoresInv
<1> QED
  BY <1>2, <1>3

(* clear() replaces stores by new ones, all of them or some. *)
LEMMA ClearStores ==
  ASSUME StoresInv, NEW xs, Clear \/ ClearFails(xs)
  PROVE  StoresInv'
<1>1. ASSUME NEW ys, NEW x \in Ctx
      PROVE  WellFormed(Cleared(ys)[x]) /\ DOMAIN Cleared(ys) = Ctx
  BY NewStoreWellFormed, CapacityAssumption DEF Cleared, StoresInv
<1>2. DOMAIN sstore' = Ctx
  BY DEF Clear, ClearFails, Cleared
<1>3. \A x \in Ctx : WellFormed(sstore'[x])
  BY <1>1 DEF Clear, ClearFails
<1>4. WellFormed(cstore')
  BY NewStoreWellFormed, CapacityAssumption DEF Clear, ClearFails, StoresInv
<1> QED
  BY <1>2, <1>3, <1>4 DEF StoresInv

(* Every step of the cache and its users keeps the stores well formed. *)
LEMMA NextStores == StoresInv /\ [Next]_vars => StoresInv'
<1> SUFFICES ASSUME StoresInv, [Next]_vars PROVE StoresInv'
  OBVIOUS
<1>1. ASSUME NEW cl \in Client, NEW k \in Options, NewClient(cl, k) PROVE StoresInv'
  BY <1>1, NewClientStores
<1>2. ASSUME NEW cl \in Client, DropClient(cl) PROVE StoresInv'
  BY <1>2 DEF DropClient, StoresInv
<1>3. ASSUME NEW cl \in Client, NEW c \in Conn, NEW d \in Dest, Connect(c, cl, d)
      PROVE  StoresInv'
  BY <1>3, ConnectStores
<1>4. ASSUME NEW c \in Conn, Handshake12(c) PROVE StoresInv'
  BY <1>4, CachingStores
<1>5. ASSUME NEW c \in Conn, Handshake13(c) \/ CloseConn(c) PROVE StoresInv'
  BY <1>5 DEF Handshake13, CloseConn, ConnFrame, StoresInv
<1>6. ASSUME NEW c \in Conn, NEW ss, NEW st, Read(c, ss, st) PROVE StoresInv'
  BY <1>6, CachingStores
<1>7. ASSUME NEW x \in Ctx, CollectCtx(x) PROVE StoresInv'
  BY <1>7, CollectStores
<1>8. ASSUME NEW s \in Session, CollectItem(s) PROVE StoresInv'
  BY <1>8, CollectStores
<1>9. ASSUME Clear PROVE StoresInv'
  BY <1>9, ClearStores
<1>10. ASSUME NEW xs, ClearFails(xs) PROVE StoresInv'
  BY <1>10, ClearStores
<1>11. CASE UNCHANGED vars
  BY <1>11 DEF vars, StoresInv
<1> QED
  BY <1>1, <1>2, <1>3, <1>4, <1>5, <1>6, <1>7, <1>8, <1>9, <1>10, <1>11 DEF Next

(* No store of contexts or sessions ever grows past its capacity or loses  *)
(* count of its entries, for every capacity and also when memory runs out. *)
THEOREM CapacityRespected == Spec => []StoresBounded
<1>1. StoresInv => StoresBounded
  BY DEF StoresInv, StoresBounded, WellFormed
<1> QED
  BY <1>1, InitStores, NextStores, PTL DEF Spec

-----------------------------------------------------------------------------
(* The store has the entry v under k, strong or weak. *)
Has(s, k, v) ==
  \/ k \in DOMAIN s.strong /\ s.strong[k] = v
  \/ k \in DOMAIN s.weak /\ s.weak[k] = v

(* The values a store holds are those of its entries. *)
LEMMA HeldHas ==
  ASSUME NEW s, NEW v
  PROVE  v \in Held(s) <=> \E k : Has(s, k, v)
BY DEF Held, Values, Has

(* A new store has no entries. *)
LEMMA NewStoreEmpty ==
  ASSUME NEW cap, NEW k, NEW v
  PROVE  ~Has(NewStore(cap), k, v)
BY DEF Has, NewStore

(* Eviction moves entries, it makes none. *)
LEMMA EvictedEntries ==
  ASSUME NEW s, WellFormed(s), NEW old \in DOMAIN s.strong, NEW j, NEW w,
         Has(Evicted(s, old), j, w)
  PROVE  Has(s, j, w)
<1> DEFINE e == Evicted(s, old)
<1>1. /\ e.strong = Without(s.strong, old)
      /\ e.weak = With(s.weak, old, s.strong[old])
  BY DEF WellFormed, Evicted
<1>2. CASE j \in DOMAIN e.strong /\ e.strong[j] = w
  BY <1>1, <1>2 DEF Without, Has
<1>3. CASE j \in DOMAIN e.weak /\ e.weak[j] = w
  BY <1>1, <1>3 DEF With, Has
<1> QED
  BY <1>2, <1>3 DEF Has

(* An insertion makes the one entry it was asked for. *)
LEMMA InsertedEntries ==
  ASSUME NEW s, WellFormed(s), NEW k, NEW v, NEW j, NEW w,
         Has(Inserted(s, k, v), j, w)
  PROVE  Has(s, j, w) \/ (j = k /\ w = v)
<1> DEFINE i == Inserted(s, k, v)
<1>1. i.strong = With(s.strong, k, v) /\ i.weak = s.weak
  BY DEF WellFormed, Inserted
<1>2. CASE j \in DOMAIN i.strong /\ i.strong[j] = w
  BY <1>1, <1>2 DEF With, Has
<1>3. CASE j \in DOMAIN i.weak /\ i.weak[j] = w
  BY <1>1, <1>3 DEF Has
<1> QED
  BY <1>2, <1>3 DEF Has

(* Settling a key in the weak table makes no entry. *)
LEMMA SettledEntries ==
  ASSUME NEW s, WellFormed(s), NEW k, NEW j, NEW w, Has(Settled(s, k), j, w)
  PROVE  Has(s, j, w)
<1>1. Settled(s, k).strong = s.strong /\ Settled(s, k).weak = Without(s.weak, k)
  BY DEF WellFormed, Settled
<1> QED
  BY <1>1 DEF Has, Without

(* What a put leaves in the store was there or is what was put. *)
LEMMA PutEntries ==
  ASSUME NEW s, WellFormed(s), NEW k, NEW v,
         NEW r \in PutResults(s, k, v) \union PutErrors(s, k, v), NEW j, NEW w,
         Has(r, j, w)
  PROVE  Has(s, j, w) \/ (j = k /\ w = v)
<1>1. CASE s.cap = 0
  BY <1>1 DEF PutResults, PutErrors
<1>2. CASE s.cap # 0
  <2>1. ASSUME NEW m \in MakeRoom(s, k), Has(m, j, w) PROVE Has(s, j, w)
    BY <2>1, EvictedEntries DEF MakeRoom
  <2>2. ASSUME NEW m \in MakeRoom(s, k), Has(Inserted(m, k, v), j, w)
        PROVE  Has(s, j, w) \/ (j = k /\ w = v)
    BY <1>2, <2>1, <2>2, MakeRoomWellFormed, InsertedEntries
  <2>3. CASE r \in PutResults(s, k, v)
    <3>1. PICK m \in MakeRoom(s, k) : r = Settled(Inserted(m, k, v), k)
      BY <1>2, <2>3 DEF PutResults
    <3>2. WellFormed(Inserted(m, k, v))
      BY <1>2, MakeRoomWellFormed, InsertedWellFormed
    <3> QED
      BY <2>2, <3>1, <3>2, SettledEntries
  <2>4. CASE r \in PutErrors(s, k, v)
    BY <1>2, <2>1, <2>2, <2>4 DEF PutErrors
  <2> QED
    BY <2>3, <2>4
<1> QED
  BY <1>1, <1>2

(* The same of a get, which may promote. *)
LEMMA GetEntries ==
  ASSUME NEW s, WellFormed(s), NEW k, NEW v,
         NEW r \in GetResults(s, k, v) \union GetErrors(s, k, v), NEW j, NEW w,
         Has(r, j, w)
  PROVE  Has(s, j, w) \/ (j = k /\ w = v)
BY PutEntries DEF GetResults, GetErrors

(* A take makes no entry. *)
LEMMA TakenEntries ==
  ASSUME NEW s, WellFormed(s), NEW k, NEW j, NEW w, Has(Taken(s, k), j, w)
  PROVE  Has(s, j, w)
<1>1. CASE k \in DOMAIN s.strong
  <2>1. Taken(s, k).strong = Without(s.strong, k) /\ Taken(s, k).weak = s.weak
    BY <1>1 DEF WellFormed, Taken
  <2> QED
    BY <2>1 DEF Has, Without
<1>2. CASE k \notin DOMAIN s.strong
  BY <1>2, SettledEntries DEF Taken
<1> QED
  BY <1>1, <1>2

(* The collector makes no entry, and a value that was only weak is gone. *)
LEMMA ForgottenEntries ==
  ASSUME NEW s, WellFormed(s), NEW v, NEW j, NEW w, Has(Forgotten(s, v), j, w)
  PROVE  Has(s, j, w) /\ (v \notin Values(s.strong) => w # v)
<1>1. /\ Forgotten(s, v).strong = s.strong
      /\ Forgotten(s, v).weak
           = [k \in {i \in DOMAIN s.weak : s.weak[i] # v} |-> s.weak[k]]
  BY DEF WellFormed, Forgotten
<1> QED
  BY <1>1 DEF Has, Values

(* What a lookup finds is an entry. *)
LEMMA LookupHas ==
  ASSUME NEW s, NEW k, NEW v \in Lookup(s, k)
  PROVE  Has(s, k, v)
BY DEF Lookup, Has

-----------------------------------------------------------------------------
(* Contexts: those the cache or a client refers to exist, and the cache    *)
(* has none from before the last clear().                                  *)
ForgetInv ==
  /\ ctxState \in [Ctx -> {"unborn", "alive", "collected"}]
  /\ DOMAIN client = Client
  /\ \A k, x : Has(cstore, k, x) => x \in Ctx \ outdated /\ ctxState[x] = "alive"
  /\ \A cl \in Client : client[cl] # None =>
       client[cl] \in Ctx /\ ctxState[client[cl]] = "alive"
  /\ outdated \subseteq {x \in Ctx : ctxState[x] # "unborn"}

(* A client gets a context from the cache or a newborn one. *)
LEMMA NewClientForgets ==
  ASSUME StoresInv, ForgetInv, NEW cl \in Client, NEW k, NewClient(cl, k)
  PROVE  ForgetInv'
<1> USE DEF StoresInv
<1>1. PICK x \in Ctx :
        /\ ctxState' = [ctxState EXCEPT ![x] = "alive"] /\ x \notin outdated
        /\ cstore' \in GetResults(cstore, k, x) \union GetErrors(cstore, k, x)
                       \union PutResults(cstore, k, x) \union PutErrors(cstore, k, x)
        /\ client' = [client EXCEPT ![cl] = x] \/ client' = client
  <2>1. CASE \E x \in Lookup(cstore, k) :
               /\ ClientGets(cl, x, GetResults(cstore, k, x), GetErrors(cstore, k, x))
               /\ ctxState' = ctxState
    <3>1. PICK x \in Lookup(cstore, k) :
               /\ ClientGets(cl, x, GetResults(cstore, k, x), GetErrors(cstore, k, x))
               /\ ctxState' = ctxState
      BY <2>1
    <3>2. x \in Ctx \ outdated /\ ctxState[x] = "alive"
      BY LookupHas DEF ForgetInv
    <3>3. ctxState' = [ctxState EXCEPT ![x] = "alive"]
      BY <3>1, <3>2 DEF ForgetInv
    <3> QED
      BY <3>1, <3>2, <3>3 DEF ClientGets
  <2>2. CASE \E x \in Ctx :
               /\ ctxState[x] = "unborn"
               /\ ctxState' = [ctxState EXCEPT ![x] = "alive"]
               /\ ClientGets(cl, x, PutResults(cstore, k, x), PutErrors(cstore, k, x))
    <3>1. PICK x \in Ctx :
               /\ ctxState[x] = "unborn"
               /\ ctxState' = [ctxState EXCEPT ![x] = "alive"]
               /\ ClientGets(cl, x, PutResults(cstore, k, x), PutErrors(cstore, k, x))
      BY <2>2
    <3>2. \/ cstore' \in PutResults(cstore, k, x) /\ client' = [client EXCEPT ![cl] = x]
          \/ /\ cstore' \in PutResults(cstore, k, x) \union PutErrors(cstore, k, x)
             /\ client' = client
      BY <3>1 DEF ClientGets
    <3>3. x \notin outdated
      BY <3>1 DEF ForgetInv
    <3> QED
      BY <3>1, <3>2, <3>3
  <2> QED
    BY <2>1, <2>2 DEF NewClient
<1>2. ASSUME NEW j, NEW w, Has(cstore', j, w)
      PROVE  w \in Ctx \ outdated /\ ctxState'[w] = "alive"
  <2>1. Has(cstore, j, w) \/ w = x
    BY <1>1, <1>2, GetEntries, PutEntries
  <2> QED
    BY <1>1, <2>1 DEF ForgetInv
<1>3. outdated' = outdated
  BY DEF NewClient
<1>4. /\ ctxState' \in [Ctx -> {"unborn", "alive", "collected"}]
      /\ \A y \in Ctx : ctxState'[y] = IF y = x THEN "alive" ELSE ctxState[y]
  BY <1>1 DEF ForgetInv
<1>5. /\ DOMAIN client' = Client
      /\ \A d \in Client : client'[d] \in {x, client[d]}
  BY <1>1 DEF ForgetInv
<1>6. \A d \in Client : client'[d] # None =>
        client'[d] \in Ctx /\ ctxState'[client'[d]] = "alive"
  BY <1>1, <1>4, <1>5 DEF ForgetInv
<1> QED
  BY <1>2, <1>3, <1>4, <1>5, <1>6 DEF ForgetInv

(* The collector takes a context only when no client and no strong entry   *)
(* refers to it, and its weak entry goes with it.                          *)
LEMMA CollectForgets ==
  ASSUME StoresInv, ForgetInv, NEW x \in Ctx, CollectCtx(x)
  PROVE  ForgetInv'
<1>1. ASSUME NEW j, NEW w, Has(cstore', j, w)
      PROVE  w \in Ctx \ outdated' /\ ctxState'[w] = "alive"
  <2>1. Has(cstore, j, w) /\ w # x
    BY <1>1, ForgottenEntries DEF CollectCtx, Referenced, StoresInv
  <2> QED
    BY <2>1 DEF CollectCtx, ForgetInv
<1>2. \A cl \in Client : client[cl] # x
  BY DEF CollectCtx, Referenced
<1> QED
  BY <1>1, <1>2 DEF CollectCtx, ForgetInv

(* clear() leaves a cache without entries. *)
LEMMA ClearMakesForget ==
  ASSUME ForgetInv, Clear
  PROVE  ForgetInv'
BY NewStoreEmpty DEF Clear, ClearFrame, ForgetInv

(* The other steps leave the contexts and the clients alone, or drop one. *)
LEMMA NextForgets == StoresInv /\ ForgetInv /\ [Next]_vars => ForgetInv'
<1> SUFFICES ASSUME StoresInv, ForgetInv, [Next]_vars PROVE ForgetInv'
  OBVIOUS
<1>1. ASSUME NEW cl \in Client, NEW k \in Options, NewClient(cl, k) PROVE ForgetInv'
  BY <1>1, NewClientForgets
<1>2. ASSUME NEW cl \in Client, DropClient(cl) PROVE ForgetInv'
  BY <1>2 DEF DropClient, ForgetInv
<1>3. ASSUME NEW x \in Ctx, CollectCtx(x) PROVE ForgetInv'
  BY <1>3, CollectForgets
<1>4. ASSUME Clear PROVE ForgetInv'
  BY <1>4, ClearMakesForget
<1>5. CASE UNCHANGED <<cstore, ctxState, outdated, client>>
  BY <1>5 DEF ForgetInv
<1> QED
  BY <1>1, <1>2, <1>3, <1>4, <1>5
  DEF Next, Connect, Handshake12, Handshake13, Read, CloseConn, ConnFrame,
      CollectItem, ClearFails, ClearFrame, vars

(* After clear() the cache never hands out a context from before it, and   *)
(* it never hands out a context the collector has taken.                   *)
THEOREM ClearIsFinal == Spec => []ClearForgets
<1>1. Init => ForgetInv
  BY NewStoreEmpty DEF Init, ForgetInv
<1>2. ForgetInv => ClearForgets
  BY HeldHas DEF ForgetInv, ClearForgets
<1> QED
  BY <1>1, <1>2, InitStores, NextStores, NextForgets, PTL DEF Spec

-----------------------------------------------------------------------------
(* Sessions: every session in a store, held by a connection or offered by  *)
(* one is there under the context and the destination it was issued for.   *)
IssuedFor(o, s, x, d) == s \in DOMAIN o /\ o[s] = <<x, d>>

EntriesScoped(o, stores) ==
  \A x \in Ctx : \A k, s : Has(stores[x], k, s) =>
    s \in Session /\ \E d \in Dest : IssuedFor(o, s, x, d) /\ k = SessionKey(d)

ConnScoped(o, cr) ==
  /\ DOMAIN cr = {"st", "ctx", "dest", "offered", "held"}
  /\ cr.st # "none" => cr.ctx \in Ctx /\ cr.dest \in Dest
  /\ \A s \in {cr.held, cr.offered} \ {None} :
       s \in Session /\ cr.dest \in Dest /\ IssuedFor(o, s, cr.ctx, cr.dest)

ScopeInv ==
  /\ DOMAIN conn = Conn
  /\ EntriesScoped(origin, sstore)
  /\ \A c \in Conn : ConnScoped(origin, conn[c])

(* Different destinations have different keys. *)
LEMMA KeyDeterminesDest ==
  ASSUME NEW d \in Dest, NEW e \in Dest, SessionKey(d) = SessionKey(e)
  PROVE  d = e
BY DEF Dest, SessionKey

(* Sessions are issued once: what was issued before keeps its origin. *)
LEMMA IssueKeeps ==
  ASSUME NEW c, NEW ss \in SUBSET Unissued, Issue(c, ss), NEW s, NEW x, NEW d,
         IssuedFor(origin, s, x, d)
  PROVE  IssuedFor(origin', s, x, d)
BY DEF Issue, Unissued, IssuedFor

(* Taking entries away does no harm. *)
LEMMA FewerEntries ==
  ASSUME NEW o, NEW before, EntriesScoped(o, before), NEW after,
         \A x \in Ctx : \A k, s : Has(after[x], k, s) => Has(before[x], k, s)
  PROVE  EntriesScoped(o, after)
<1> SUFFICES ASSUME NEW x \in Ctx, NEW k, NEW s, Has(after[x], k, s)
             PROVE  s \in Session /\ \E d \in Dest :
                      IssuedFor(o, s, x, d) /\ k = SessionKey(d)
  BY DEF EntriesScoped
<1>1. Has(before[x], k, s)
  OBVIOUS
<1> QED
  BY <1>1 DEF EntriesScoped

(* A connection whose record is scoped may cache what it holds. *)
LEMMA CachingScoped ==
  ASSUME StoresInv, ScopeInv, NEW c \in Conn, NEW cr, NEW rf,
         ConnScoped(origin', cr), cr.ctx \in Ctx, CacheHeld(c, cr, rf),
         \A s, x, d : IssuedFor(origin, s, x, d) => IssuedFor(origin', s, x, d)
  PROVE  ScopeInv'
<1> DEFINE key == SessionKey(cr.dest)
           st == sstore[cr.ctx]
<1>1. /\ DOMAIN conn' = Conn
      /\ \A e \in Conn : e # c => conn'[e] = conn[e]
      /\ conn'[c] = cr \/ conn'[c] = [cr EXCEPT !.held = None]
  BY DEF CacheHeld, ScopeInv
<1>2. ConnScoped(origin', conn'[c])
  BY <1>1 DEF ConnScoped
<1>3. \A e \in Conn : ConnScoped(origin', conn'[e])
  <2> SUFFICES ASSUME NEW e \in Conn, e # c PROVE ConnScoped(origin', conn'[e])
    BY <1>2
  <2>1. conn'[e] = conn[e] /\ ConnScoped(origin, conn[e])
    BY <1>1 DEF ScopeInv
  <2> QED
    BY <2>1 DEF ConnScoped
<1>4. EntriesScoped(origin', sstore')
  <2> SUFFICES ASSUME NEW x \in Ctx, NEW k, NEW s, Has(sstore'[x], k, s)
               PROVE  s \in Session /\ \E d \in Dest :
                        IssuedFor(origin', s, x, d) /\ k = SessionKey(d)
    BY DEF EntriesScoped
  <2>1. CASE Has(sstore[x], k, s)
    BY <2>1 DEF ScopeInv, EntriesScoped
  <2>2. CASE ~Has(sstore[x], k, s)
    <3>1. PICK r \in PutResults(st, key, cr.held) \union PutErrors(st, key, cr.held) :
                 cr.held # None /\ sstore' = [sstore EXCEPT ![cr.ctx] = r]
      BY <2>2 DEF CacheHeld
    <3>2. x = cr.ctx /\ sstore'[x] = r
      BY <2>2, <3>1 DEF StoresInv
    <3>3. k = key /\ s = cr.held
      BY <2>2, <3>2, PutEntries DEF StoresInv
    <3> QED
      BY <3>1, <3>2, <3>3 DEF ConnScoped
  <2> QED
    BY <2>1, <2>2
<1> QED
  BY <1>1, <1>3, <1>4 DEF ScopeInv

(* The session of a finished TLS 1.2 handshake is new or the offered one.  *)
LEMMA Handshake12Scoped ==
  ASSUME StoresInv, ScopeInv, NEW c \in Conn, Handshake12(c)
  PROVE  ScopeInv'
<1>1. ConnScoped(origin, conn[c]) /\ conn[c].ctx \in Ctx /\ conn[c].dest \in Dest
  BY DEF ScopeInv, ConnScoped, Handshake12
<1>2. CASE SessCap = 0
  <2>1. /\ conn' = [conn EXCEPT ![c] = [conn[c] EXCEPT !.st = "open12"]]
        /\ sstore' = sstore /\ origin' = origin
    BY <1>2 DEF Handshake12
  <2>2. ConnScoped(origin, [conn[c] EXCEPT !.st = "open12"])
    BY <1>1 DEF ConnScoped
  <2>3. DOMAIN conn' = Conn /\ \A e \in Conn : ConnScoped(origin', conn'[e])
    BY <2>1, <2>2 DEF ScopeInv
  <2>4. EntriesScoped(origin', sstore')
    BY <2>1 DEF ScopeInv
  <2> QED
    BY <2>3, <2>4 DEF ScopeInv
<1>3. CASE SessCap # 0
  <2>1. PICK s \in Unissued \union ({conn[c].offered} \ {None}) :
          /\ Issue(c, {s} \ {conn[c].offered})
          /\ CacheHeld(c, [conn[c] EXCEPT !.st = "open12", !.held = s],
                       [refs EXCEPT ![s] = @ + 1])
    BY <1>3 DEF Handshake12
  <2> DEFINE cr == [conn[c] EXCEPT !.st = "open12", !.held = s]
  <2>2. \A t, x, d : IssuedFor(origin, t, x, d) => IssuedFor(origin', t, x, d)
    BY <2>1, IssueKeeps
  <2>3. s \in Session /\ IssuedFor(origin', s, conn[c].ctx, conn[c].dest)
    <3>1. CASE s = conn[c].offered
      <4>1. s \in {conn[c].held, conn[c].offered} \ {None}
        BY <2>1, <3>1, NoneAssumption DEF Unissued
      <4>2. s \in Session /\ IssuedFor(origin, s, conn[c].ctx, conn[c].dest)
        BY <1>1, <4>1 DEF ConnScoped
      <4> QED
        BY <2>2, <4>2
    <3>2. CASE s # conn[c].offered
      BY <2>1, <3>2 DEF Issue, IssuedFor, Unissued
    <3> QED
      BY <3>1, <3>2
  <2>4. /\ DOMAIN cr = DOMAIN conn[c] /\ cr.st = "open12" /\ cr.held = s
        /\ cr.ctx = conn[c].ctx /\ cr.dest = conn[c].dest
        /\ cr.offered = conn[c].offered
    BY <1>1 DEF ConnScoped
  <2> HIDE DEF cr
  <2>5. ConnScoped(origin', cr)
    BY <1>1, <2>2, <2>3, <2>4 DEF ConnScoped
  <2> QED
    BY <1>1, <2>1, <2>2, <2>4, <2>5, CachingScoped DEF cr
<1> QED
  BY <1>2, <1>3

(* The tickets of a TLS 1.3 connection are issued for its destination. *)
LEMMA ReadScoped ==
  ASSUME StoresInv, ScopeInv, NEW c \in Conn, NEW ss \in SUBSET Unissued, NEW st,
         Read(c, ss, st)
  PROVE  ScopeInv'
<1>1. ConnScoped(origin, conn[c]) /\ conn[c].ctx \in Ctx /\ conn[c].dest \in Dest
  BY DEF ScopeInv, ConnScoped, Read
<1>2. \A t, x, d : IssuedFor(origin, t, x, d) => IssuedFor(origin', t, x, d)
  BY IssueKeeps DEF Read
<1> DEFINE base == [conn[c] EXCEPT !.st = st]
<1>3. PICK p \in NewSessions(base, refs, ss) : CacheHeld(c, p[1], p[2])
  BY DEF Read
<1>4. /\ DOMAIN base = DOMAIN conn[c] /\ base.held = conn[c].held
      /\ base.ctx = conn[c].ctx /\ base.dest = conn[c].dest
      /\ base.offered = conn[c].offered
  BY <1>1 DEF ConnScoped
<1> HIDE DEF base
<1>5. CASE ss = {}
  <2>1. p[1] = base
    BY <1>3, <1>5 DEF NewSessions
  <2>2. ConnScoped(origin', base)
    BY <1>1, <1>2, <1>4 DEF ConnScoped
  <2> QED
    BY <1>1, <1>2, <1>3, <1>4, <2>1, <2>2, CachingScoped
<1>6. CASE ss # {}
  <2>1. PICK latest \in ss : p[1] = [base EXCEPT !.held = latest]
    BY <1>3, <1>6 DEF NewSessions
  <2>2. /\ DOMAIN p[1] = DOMAIN base /\ p[1].held = latest
        /\ p[1].ctx = base.ctx /\ p[1].dest = base.dest
        /\ p[1].offered = base.offered
    BY <1>1, <1>4, <2>1 DEF ConnScoped
  <2>3. latest \in Session /\ IssuedFor(origin', latest, conn[c].ctx, conn[c].dest)
    BY <2>1 DEF Read, Issue, IssuedFor, Unissued
  <2>4. ConnScoped(origin', p[1])
    BY <1>1, <1>2, <1>4, <2>2, <2>3 DEF ConnScoped
  <2> QED
    BY <1>1, <1>2, <1>3, <1>4, <2>2, <2>4, CachingScoped
<1> QED
  BY <1>5, <1>6

(* A connection offers a session found under its own destination's key in  *)
(* its own context.                                                        *)
LEMMA ConnectScoped ==
  ASSUME StoresInv, ForgetInv, ScopeInv, NEW c \in Conn, NEW cl \in Client,
         NEW d \in Dest, Connect(c, cl, d)
  PROVE  ScopeInv'
<1> DEFINE x == client[cl]
<1>1. x \in Ctx
  BY DEF ForgetInv, Connect
<1>2. origin' = origin
  BY DEF Connect
<1>3. EntriesScoped(origin', sstore')
  <2> SUFFICES ASSUME NEW y \in Ctx, NEW k, NEW s, Has(sstore'[y], k, s)
               PROVE  Has(sstore[y], k, s)
    BY <1>2, FewerEntries DEF ScopeInv
  <2>1. CASE sstore'[y] = sstore[y]
    BY <2>1
  <2>2. CASE sstore'[y] # sstore[y]
    <3>1. sstore'[y] = Taken(sstore[y], SessionKey(d))
      BY <2>2 DEF Connect, StoresInv
    <3> QED
      BY <3>1, TakenEntries DEF StoresInv
  <2> QED
    BY <2>1, <2>2
<1>4. PICK offered :
        /\ conn' = [conn EXCEPT ![c] = Opened(x, d, offered)]
        /\ offered = None \/ offered \in Lookup(sstore[x], SessionKey(d))
  BY DEF Connect
<1>5. ASSUME offered # None
      PROVE  offered \in Session /\ IssuedFor(origin, offered, x, d)
  <2>1. Has(sstore[x], SessionKey(d), offered)
    BY <1>4, <1>5, LookupHas
  <2>2. PICK e \in Dest : IssuedFor(origin, offered, x, e) /\ SessionKey(d) = SessionKey(e)
    BY <1>1, <2>1 DEF ScopeInv, EntriesScoped
  <2>3. d = e
    BY <2>2, KeyDeterminesDest
  <2> QED
    BY <1>1, <2>1, <2>2, <2>3 DEF ScopeInv, EntriesScoped
<1>6. ConnScoped(origin', conn'[c])
  BY <1>1, <1>2, <1>4, <1>5 DEF ConnScoped, ScopeInv, Opened
<1>7. DOMAIN conn' = Conn /\ \A e \in Conn : e # c => conn'[e] = conn[e]
  BY <1>4 DEF ScopeInv
<1>8. \A e \in Conn : ConnScoped(origin', conn'[e])
  BY <1>2, <1>6, <1>7 DEF ScopeInv, ConnScoped, IssuedFor
<1> QED
  BY <1>3, <1>7, <1>8 DEF ScopeInv

(* The collector and clear() only take entries away. *)
LEMMA FewerEntriesScoped ==
  ASSUME StoresInv, ScopeInv, conn' = conn, origin' = origin,
         \A x \in Ctx : \A k, s : Has(sstore'[x], k, s) => Has(sstore[x], k, s)
  PROVE  ScopeInv'
<1>1. EntriesScoped(origin', sstore')
  BY FewerEntries DEF ScopeInv
<1>2. \A c \in Conn : ConnScoped(origin', conn'[c])
  BY DEF ScopeInv
<1> QED
  BY <1>1, <1>2 DEF ScopeInv

(* Every step keeps the sessions scoped. *)
LEMMA NextScoped == StoresInv /\ ForgetInv /\ ScopeInv /\ [Next]_vars => ScopeInv'
<1> SUFFICES ASSUME StoresInv, ForgetInv, ScopeInv, [Next]_vars PROVE ScopeInv'
  OBVIOUS
<1>1. ASSUME NEW cl \in Client, NEW c \in Conn, NEW d \in Dest, Connect(c, cl, d)
      PROVE  ScopeInv'
  BY <1>1, ConnectScoped
<1>2. ASSUME NEW c \in Conn, Handshake12(c) PROVE ScopeInv'
  BY <1>2, Handshake12Scoped
<1>3. ASSUME NEW c \in Conn, NEW ss \in SUBSET Unissued, NEW st, Read(c, ss, st)
      PROVE  ScopeInv'
  BY <1>3, ReadScoped
<1>4. ASSUME NEW c \in Conn, Handshake13(c) \/ CloseConn(c) PROVE ScopeInv'
  <2>1. sstore' = sstore /\ origin' = origin
    BY <1>4 DEF Handshake13, CloseConn
  <2>2. EntriesScoped(origin', sstore')
    BY <2>1 DEF ScopeInv
  <2>3. DOMAIN conn' = Conn /\ \A e \in Conn : e # c => conn'[e] = conn[e]
    BY <1>4 DEF Handshake13, CloseConn, ScopeInv
  <2>4. ConnScoped(origin', conn'[c])
    <3>1. CASE Handshake13(c)
      <4>1. conn'[c] = [conn[c] EXCEPT !.st = "open13"]
        BY <3>1 DEF Handshake13, ScopeInv
      <4> QED
        BY <2>1, <3>1, <4>1 DEF Handshake13, ScopeInv, ConnScoped, IssuedFor
    <3>2. CASE CloseConn(c)
      BY <3>2 DEF CloseConn, ScopeInv, ConnScoped, Fresh
    <3> QED
      BY <1>4, <3>1, <3>2
  <2>5. \A e \in Conn : ConnScoped(origin', conn'[e])
    BY <2>1, <2>3, <2>4 DEF ScopeInv, ConnScoped, IssuedFor
  <2> QED
    BY <2>2, <2>3, <2>5 DEF ScopeInv
<1>5. ASSUME NEW x \in Ctx, CollectCtx(x) PROVE ScopeInv'
  <2>1. \A y \in Ctx : \A k, s : Has(sstore'[y], k, s) => Has(sstore[y], k, s)
    BY <1>5, NewStoreEmpty DEF CollectCtx, StoresInv
  <2> QED
    BY <1>5, <2>1, FewerEntriesScoped DEF CollectCtx
<1>6. ASSUME NEW t \in Session, CollectItem(t) PROVE ScopeInv'
  <2>1. \A y \in Ctx : \A k, s : Has(sstore'[y], k, s) => Has(sstore[y], k, s)
    BY <1>6, ForgottenEntries DEF CollectItem, StoresInv
  <2> QED
    BY <1>6, <2>1, FewerEntriesScoped DEF CollectItem
<1>7. ASSUME NEW xs, Clear \/ ClearFails(xs) PROVE ScopeInv'
  <2>1. \A y \in Ctx : \A k, s : Has(sstore'[y], k, s) => Has(sstore[y], k, s)
    BY <1>7, NewStoreEmpty DEF Clear, ClearFails, Cleared
  <2> QED
    BY <1>7, <2>1, FewerEntriesScoped DEF Clear, ClearFails, ClearFrame
<1>8. CASE UNCHANGED <<sstore, conn, origin>>
  BY <1>8, FewerEntriesScoped
<1> QED
  BY <1>1, <1>2, <1>3, <1>4, <1>5, <1>6, <1>7, <1>8
  DEF Next, NewClient, DropClient, vars

(* A connection only ever offers a session that was issued for its own     *)
(* context and destination, verification included, for every number of     *)
(* contexts, hosts, connections and sessions.                              *)
THEOREM SessionsStayScoped == Spec => []SessionsScoped
<1>1. Init => ForgetInv
  BY NewStoreEmpty DEF Init, ForgetInv
<1>2. Init => ScopeInv
  BY NewStoreEmpty DEF Init, Fresh, ScopeInv, EntriesScoped, ConnScoped
<1>3. ScopeInv => SessionsScoped
  BY DEF ScopeInv, ConnScoped, IssuedFor, SessionsScoped
<1> QED
  BY <1>1, <1>2, <1>3, InitStores, NextStores, NextForgets, NextScoped, PTL DEF Spec

-----------------------------------------------------------------------------
(* References: a session is with an item, with one connection, offered by  *)
(* one that shakes hands, or with nobody, and is counted accordingly.      *)
Owned(cn, it, s) == s \in it \/ \E c \in Conn : cn[c].held = s

Offers(cr) == cr.st = "handshake" /\ cr.offered # None

Ledger(cn, it, rf, og) ==
  /\ it \subseteq Session /\ DOMAIN rf = Session
  /\ \A s \in Session : rf[s] = IF Owned(cn, it, s) THEN 1 ELSE 0
  /\ \A s \in Session : Owned(cn, it, s) => s \in DOMAIN og
  /\ \A c \in Conn : cn[c].held \notin it
  /\ \A c, e \in Conn : cn[c].held # None /\ cn[c].held = cn[e].held => c = e
  /\ \A c \in Conn : cn[c].st \in {"none", "handshake"} => cn[c].held = None
  /\ \A c \in Conn : Offers(cn[c]) =>
       /\ ~Owned(cn, it, cn[c].offered) /\ cn[c].offered \in DOMAIN og
       /\ \A e \in Conn : Offers(cn[e]) /\ cn[e].offered = cn[c].offered => e = c

(* A store never has the same value twice under a key. *)
Twinless(s) ==
  \A k \in DOMAIN s.strong \intersect DOMAIN s.weak : s.strong[k] # s.weak[k]

OwnInv ==
  /\ Ledger(conn, items, refs, origin)
  /\ \A x \in Ctx : Twinless(sstore[x]) /\ \A k, s : Has(sstore[x], k, s) => s \in items

(* A put of a value that is not there makes no twins. *)
LEMMA EvictedTwinless ==
  ASSUME NEW s, WellFormed(s), Twinless(s), NEW k, NEW m \in MakeRoom(s, k)
  PROVE  Twinless(m)
<1>1. CASE m = s
  BY <1>1
<1>2. ASSUME NEW old \in DOMAIN s.strong, m = Evicted(s, old) PROVE Twinless(m)
  <2>1. m.strong = Without(s.strong, old) /\ m.weak = With(s.weak, old, s.strong[old])
    BY <1>2 DEF WellFormed, Evicted
  <2> QED
    BY <2>1 DEF Twinless, With, Without
<1> QED
  BY <1>1, <1>2 DEF MakeRoom

LEMMA PutTwinless ==
  ASSUME NEW s, WellFormed(s), Twinless(s), NEW k, NEW v, v \notin Held(s),
         NEW r \in PutResults(s, k, v) \union PutErrors(s, k, v)
  PROVE  Twinless(r)
<1>1. CASE s.cap = 0
  BY <1>1 DEF PutResults, PutErrors
<1>2. CASE s.cap # 0
  <2>1. ASSUME NEW m \in MakeRoom(s, k)
        PROVE  /\ Twinless(m) /\ Twinless(Inserted(m, k, v))
               /\ Twinless(Settled(Inserted(m, k, v), k))
    <3>1. Twinless(m)
      BY EvictedTwinless
    <3>2. WellFormed(m) /\ WellFormed(Inserted(m, k, v))
      BY <1>2, MakeRoomWellFormed, InsertedWellFormed
    <3>3. \A j : ~Has(m, j, v)
      <4> SUFFICES ASSUME NEW j, Has(m, j, v) PROVE Has(s, j, v)
        BY HeldHas
      <4> QED
        BY EvictedEntries DEF MakeRoom
    <3> DEFINE i == Inserted(m, k, v)
    <3>4. i.strong = With(m.strong, k, v) /\ i.weak = m.weak
      BY <3>2 DEF WellFormed, Inserted
    <3> HIDE DEF i
    <3>5. Twinless(i)
      BY <3>1, <3>3, <3>4 DEF Twinless, With, Has
    <3>6. Settled(i, k).strong = i.strong /\ Settled(i, k).weak = Without(i.weak, k)
      BY <3>2 DEF WellFormed, Settled, i
    <3>7. Twinless(Settled(i, k))
      BY <3>5, <3>6 DEF Twinless, Without
    <3> QED
      BY <3>1, <3>5, <3>7 DEF i
  <2> QED
    BY <1>2, <2>1 DEF PutResults, PutErrors
<1> QED
  BY <1>1, <1>2

(* What take found is gone from its key. *)
LEMMA TakenGone ==
  ASSUME NEW s, WellFormed(s), Twinless(s), NEW k, NEW v \in Lookup(s, k)
  PROVE  Twinless(Taken(s, k)) /\ ~Has(Taken(s, k), k, v)
<1>1. CASE k \in DOMAIN s.strong
  <2>1. Taken(s, k).strong = Without(s.strong, k) /\ Taken(s, k).weak = s.weak
    BY <1>1 DEF WellFormed, Taken
  <2>2. v = s.strong[k]
    BY <1>1 DEF Lookup
  <2> QED
    BY <1>1, <2>1, <2>2 DEF Twinless, Without, Has
<1>2. CASE k \notin DOMAIN s.strong
  <2>1. Taken(s, k).strong = s.strong /\ Taken(s, k).weak = Without(s.weak, k)
    BY <1>2 DEF WellFormed, Taken, Settled
  <2> QED
    BY <1>2, <2>1 DEF Twinless, Without, Has
<1> QED
  BY <1>1, <1>2

(* The reference a connection holds moves into an item, or is given back.  *)
LEMMA LetGo ==
  ASSUME NEW cn, NEW it, NEW rf, NEW og, Ledger(cn, it, rf, og), NEW c \in Conn,
         NEW s \in Session, cn[c].held = s, NEW dn, dn[c].held = None,
         Offers(dn[c]) => Offers(cn[c]) /\ dn[c].offered = cn[c].offered,
         \A e \in Conn \ {c} : dn[e] = cn[e]
  PROVE  /\ Ledger(dn, it \union {s}, rf, og)
         /\ Ledger(dn, it, [rf EXCEPT ![s] = @ - 1], og)
<1>1. s \notin it /\ \A e \in Conn \ {c} : cn[e].held # s
  BY NoneAssumption DEF Ledger
<1>2. \A t \in Session : Owned(dn, it \union {s}, t) <=> Owned(cn, it, t)
  BY <1>1, NoneAssumption DEF Owned
<1>3. \A t \in Session : Owned(dn, it, t) <=> Owned(cn, it, t) /\ t # s
  BY <1>1, NoneAssumption DEF Owned
<1>4. \A e \in Conn : Offers(dn[e]) => Offers(cn[e]) /\ dn[e].offered = cn[e].offered
  OBVIOUS
<1>5. \A e \in Conn : Offers(cn[e]) =>
        ~Owned(dn, it \union {s}, cn[e].offered) /\ ~Owned(dn, it, cn[e].offered)
  BY <1>1 DEF Ledger, Owned, Offers
<1>6. \A e \in Conn : dn[e].held = None \/ dn[e].held = cn[e].held
  OBVIOUS
<1>7. Ledger(dn, it \union {s}, rf, og)
  <2>1. \A e \in Conn : dn[e].held \notin it \union {s}
    BY <1>1, NoneAssumption DEF Ledger
  <2>2. \A d, e \in Conn : dn[d].held # None /\ dn[d].held = dn[e].held => d = e
    BY <1>6 DEF Ledger
  <2>3. \A e \in Conn : dn[e].st \in {"none", "handshake"} => dn[e].held = None
    BY DEF Ledger
  <2>4. \A e \in Conn : Offers(dn[e]) =>
          /\ ~Owned(dn, it \union {s}, dn[e].offered) /\ dn[e].offered \in DOMAIN og
          /\ \A d \in Conn : Offers(dn[d]) /\ dn[d].offered = dn[e].offered => d = e
    BY <1>4, <1>5 DEF Ledger
  <2> QED
    BY <1>2, <2>1, <2>2, <2>3, <2>4 DEF Ledger
<1>8. Ledger(dn, it, [rf EXCEPT ![s] = @ - 1], og)
  <2>1. \A e \in Conn : dn[e].held \notin it
    BY NoneAssumption DEF Ledger
  <2>2. \A d, e \in Conn : dn[d].held # None /\ dn[d].held = dn[e].held => d = e
    BY <1>6 DEF Ledger
  <2>3. \A e \in Conn : dn[e].st \in {"none", "handshake"} => dn[e].held = None
    BY DEF Ledger
  <2>4. \A e \in Conn : Offers(dn[e]) =>
          /\ ~Owned(dn, it, dn[e].offered) /\ dn[e].offered \in DOMAIN og
          /\ \A d \in Conn : Offers(dn[d]) /\ dn[d].offered = dn[e].offered => d = e
    BY <1>4, <1>5 DEF Ledger
  <2>5. Owned(cn, it, s)
    BY DEF Owned
  <2> DEFINE r == [rf EXCEPT ![s] = @ - 1]
  <2>6. DOMAIN r = Session /\ \A t \in Session : r[t] = IF Owned(dn, it, t) THEN 1 ELSE 0
    BY <1>3, <2>5 DEF Ledger
  <2> HIDE DEF r
  <2>7. \A t \in Session : Owned(dn, it, t) => t \in DOMAIN og
    BY <1>3 DEF Ledger
  <2>8. it \subseteq Session
    BY DEF Ledger
  <2>9. Ledger(dn, it, r, og)
    BY <2>1, <2>2, <2>3, <2>4, <2>6, <2>7, <2>8 DEF Ledger
  <2> QED
    BY <2>9 DEF r
<1> QED
  BY <1>7, <1>8

(* A connection without a session gets one nobody has. *)
LEMMA Gain ==
  ASSUME NEW cn, NEW it, NEW rf, NEW og, Ledger(cn, it, rf, og), NEW c \in Conn,
         cn[c].held = None, NEW s \in Session, ~Owned(cn, it, s),
         NEW dn, dn[c].held = s, dn[c].st \notin {"none", "handshake"},
         \A e \in Conn \ {c} : dn[e] = cn[e] /\ ~(Offers(cn[e]) /\ cn[e].offered = s),
         NEW og2, DOMAIN og \union {s} \subseteq DOMAIN og2
  PROVE  Ledger(dn, it, [rf EXCEPT ![s] = @ + 1], og2)
<1>1. s \notin it /\ \A e \in Conn : cn[e].held # s
  BY DEF Owned
<1>2. \A t \in Session : Owned(dn, it, t) <=> Owned(cn, it, t) \/ t = s
  BY NoneAssumption DEF Owned
<1>3. ~Offers(dn[c]) /\ \A e \in Conn : Offers(dn[e]) => e # c /\ Offers(cn[e]) /\ dn[e] = cn[e]
  BY DEF Offers
<1>4. \A e \in Conn : dn[e].held \notin it
  BY <1>1 DEF Ledger
<1>5. \A d, e \in Conn : dn[d].held # None /\ dn[d].held = dn[e].held => d = e
  BY <1>1 DEF Ledger
<1>6. \A e \in Conn : dn[e].st \in {"none", "handshake"} => dn[e].held = None
  BY DEF Ledger
<1>7. ASSUME NEW e \in Conn, Offers(dn[e])
      PROVE  /\ ~Owned(dn, it, dn[e].offered) /\ dn[e].offered \in DOMAIN og2
             /\ \A d \in Conn : Offers(dn[d]) /\ dn[d].offered = dn[e].offered => d = e
  <2>1. e # c /\ Offers(cn[e]) /\ dn[e] = cn[e] /\ cn[e].offered # s
    BY <1>3, <1>7
  <2>2. ~Owned(cn, it, cn[e].offered) /\ cn[e].offered \in DOMAIN og
    BY <2>1 DEF Ledger
  <2>3. ~Owned(dn, it, dn[e].offered)
    BY <2>1, <2>2 DEF Owned
  <2>4. \A d \in Conn : Offers(dn[d]) /\ dn[d].offered = dn[e].offered => d = e
    BY <1>3, <2>1 DEF Ledger
  <2> QED
    BY <2>1, <2>2, <2>3, <2>4
<1> DEFINE r == [rf EXCEPT ![s] = @ + 1]
<1>8. DOMAIN r = Session /\ \A t \in Session : r[t] = IF Owned(dn, it, t) THEN 1 ELSE 0
  BY <1>2 DEF Ledger
<1> HIDE DEF r
<1>9. it \subseteq Session /\ \A t \in Session : Owned(dn, it, t) => t \in DOMAIN og2
  BY <1>2 DEF Ledger
<1>10. Ledger(dn, it, r, og2)
  BY <1>4, <1>5, <1>6, <1>7, <1>8, <1>9 DEF Ledger
<1> QED
  BY <1>10 DEF r

(* A connection gets on with what it holds. *)
LEMMA GetsOn ==
  ASSUME NEW cn, NEW it, NEW rf, NEW og, Ledger(cn, it, rf, og), NEW c \in Conn,
         NEW dn, dn[c].held = cn[c].held, ~Offers(dn[c]),
         dn[c].st \in {"none", "handshake"} => dn[c].held = None,
         \A e \in Conn \ {c} : dn[e] = cn[e],
         NEW og2, DOMAIN og \subseteq DOMAIN og2
  PROVE  Ledger(dn, it, rf, og2)
<1>1. \A e \in Conn : dn[e].held = cn[e].held
  OBVIOUS
<1>2. \A t : Owned(dn, it, t) <=> Owned(cn, it, t)
  BY <1>1 DEF Owned
<1>3. \A e \in Conn : Offers(dn[e]) => e # c /\ Offers(cn[e]) /\ dn[e] = cn[e]
  OBVIOUS
<1>4. \A e \in Conn : Offers(dn[e]) =>
        /\ ~Owned(dn, it, dn[e].offered) /\ dn[e].offered \in DOMAIN og2
        /\ \A d \in Conn : Offers(dn[d]) /\ dn[d].offered = dn[e].offered => d = e
  BY <1>2, <1>3 DEF Ledger
<1>5. \A e \in Conn : dn[e].st \in {"none", "handshake"} => dn[e].held = None
  BY DEF Ledger
<1> QED
  BY <1>1, <1>2, <1>4, <1>5 DEF Ledger

(* The account is of values, however the function of counts is written. *)
LEMMA SamePoints ==
  ASSUME NEW cn, NEW it, NEW rf, NEW og, Ledger(cn, it, rf, og),
         NEW r, DOMAIN r = Session, \A s \in Session : r[s] = rf[s]
  PROVE  Ledger(cn, it, r, og)
BY DEF Ledger

(* A session that is in no item is in no store. *)
LEMMA NotHeld ==
  ASSUME OwnInv, NEW x \in Ctx, NEW s, s \notin items PROVE s \notin Held(sstore[x])
BY HeldHas DEF OwnInv

(* cache_client_session keeps the account, whatever the store runs out of. *)
LEMMA CachingOwned ==
  ASSUME StoresInv, OwnInv, DOMAIN conn = Conn, NEW c \in Conn, NEW cr, NEW rf,
         DOMAIN cr = {"st", "ctx", "dest", "offered", "held"}, cr.ctx \in Ctx,
         cr.held \in Session \union {None}, CacheHeld(c, cr, rf),
         Ledger([conn EXCEPT ![c] = cr], items, rf, origin')
  PROVE  OwnInv'
<1> DEFINE s == cr.held
           key == SessionKey(cr.dest)
           gone == [cr EXCEPT !.held = None]
           cn == [conn EXCEPT ![c] = cr]
           dn == [conn EXCEPT ![c] = gone]
<1>1. cn[c] = cr /\ dn[c] = gone /\ \A e \in Conn \ {c} : dn[e] = cn[e]
  OBVIOUS
<1>2. gone.held = None /\ gone.st = cr.st /\ gone.offered = cr.offered
  OBVIOUS
<1>3. Offers(gone) => Offers(cr)
  BY <1>2 DEF Offers
<1>4. CASE conn' = cn /\ refs' = rf /\ UNCHANGED <<sstore, items>>
  BY <1>4 DEF OwnInv
<1> HIDE DEF cn, dn, gone
<1>5. s # None => /\ Ledger(dn, items \union {s}, rf, origin')
                  /\ Ledger(dn, items, [rf EXCEPT ![s] = @ - 1], origin')
                  /\ s \notin items
  <2> SUFFICES ASSUME s # None
               PROVE  /\ Ledger(dn, items \union {s}, rf, origin')
                      /\ Ledger(dn, items, [rf EXCEPT ![s] = @ - 1], origin')
                      /\ s \notin items
    OBVIOUS
  <2>1. Ledger(cn, items, rf, origin') /\ s \in Session /\ cn[c].held = s
    BY <1>1 DEF cn
  <2>2. dn[c].held = None /\ (Offers(dn[c]) => Offers(cn[c]) /\ dn[c].offered = cn[c].offered)
    BY <1>1, <1>2, <1>3
  <2> HIDE DEF s
  <2>3. s \notin items
    BY <2>1 DEF Ledger
  <2> QED
    BY <1>1, <2>1, <2>2, <2>3, LetGo
<1>6. CASE /\ s # None /\ conn' = dn /\ refs' = [rf EXCEPT ![s] = @ - 1]
           /\ UNCHANGED <<sstore, items>>
  BY <1>5, <1>6 DEF OwnInv
<1>7. ASSUME s # None, conn' = dn, refs' = rf, items' = items \union {s},
             NEW r \in PutResults(sstore[cr.ctx], key, s) \union PutErrors(sstore[cr.ctx], key, s),
             sstore' = [sstore EXCEPT ![cr.ctx] = r]
      PROVE  OwnInv'
  <2>1. Ledger(conn', items', refs', origin')
    BY <1>5, <1>7
  <2>2. WellFormed(sstore[cr.ctx]) /\ Twinless(sstore[cr.ctx]) /\ s \notin Held(sstore[cr.ctx])
    BY <1>5, <1>7, NotHeld DEF StoresInv, OwnInv
  <2>3. Twinless(r)
    BY <2>2, PutTwinless
  <2>4. \A k, v : Has(r, k, v) => v \in items'
    <3> SUFFICES ASSUME NEW k, NEW v, Has(r, k, v) PROVE v \in items'
      OBVIOUS
    <3>1. Has(sstore[cr.ctx], k, v) \/ v = s
      BY <2>2, PutEntries
    <3> QED
      BY <1>7, <3>1 DEF OwnInv
  <2>5. sstore'[cr.ctx] = r /\ \A x \in Ctx \ {cr.ctx} : sstore'[x] = sstore[x]
    BY <1>7 DEF StoresInv
  <2>6. \A x \in Ctx : Twinless(sstore'[x]) /\ \A k, v : Has(sstore'[x], k, v) => v \in items'
    BY <1>7, <2>3, <2>4, <2>5 DEF OwnInv
  <2> QED
    BY <2>1, <2>6 DEF OwnInv
<1> QED
  BY <1>4, <1>6, <1>7 DEF CacheHeld, cn, dn, gone

(* The session of a TLS 1.2 handshake is new, or the one that was offered  *)
(* and that nobody else has.                                               *)
LEMMA Handshake12Owned ==
  ASSUME StoresInv, ScopeInv, OwnInv, NEW c \in Conn, Handshake12(c)
  PROVE  OwnInv'
<1>1. /\ DOMAIN conn[c] = {"st", "ctx", "dest", "offered", "held"} /\ DOMAIN conn = Conn
      /\ conn[c].ctx \in Ctx /\ conn[c].st = "handshake"
  BY DEF ScopeInv, ConnScoped, Handshake12
<1>2. conn[c].held = None /\ Ledger(conn, items, refs, origin)
  BY <1>1 DEF OwnInv, Ledger
<1>3. CASE SessCap = 0
  <2> DEFINE cr == [conn[c] EXCEPT !.st = "open12"]
             dn == [conn EXCEPT ![c] = cr]
  <2>1. cr.held = None /\ cr.st = "open12"
    BY <1>1, <1>2
  <2> HIDE DEF cr
  <2>2. dn[c] = cr /\ \A e \in Conn \ {c} : dn[e] = conn[e]
    BY <1>1
  <2> HIDE DEF dn
  <2>3. Ledger(dn, items, refs, origin)
    BY <1>2, <2>1, <2>2, GetsOn DEF Offers
  <2>4. conn' = dn /\ UNCHANGED <<sstore, items, refs, origin>>
    BY <1>3 DEF Handshake12, dn, cr
  <2> QED
    BY <2>3, <2>4 DEF OwnInv
<1>4. CASE SessCap # 0
  <2>1. PICK s \in Unissued \union ({conn[c].offered} \ {None}) :
          /\ Issue(c, {s} \ {conn[c].offered})
          /\ CacheHeld(c, [conn[c] EXCEPT !.st = "open12", !.held = s],
                       [refs EXCEPT ![s] = @ + 1])
    BY <1>4 DEF Handshake12
  <2>2. DOMAIN origin' = DOMAIN origin \union ({s} \ {conn[c].offered})
    BY <2>1 DEF Issue
  <2>3. /\ s \in Session /\ ~Owned(conn, items, s) /\ s \in DOMAIN origin'
        /\ \A e \in Conn \ {c} : ~(Offers(conn[e]) /\ conn[e].offered = s)
    <3>1. CASE s = conn[c].offered /\ s # None
      <4>1. s \in Session
        BY <3>1 DEF ScopeInv, ConnScoped
      <4>2. Offers(conn[c])
        BY <1>1, <3>1 DEF Offers
      <4> QED
        BY <1>2, <2>2, <3>1, <4>1, <4>2 DEF Ledger
    <3>2. CASE s \in Unissued /\ s # conn[c].offered
      BY <1>2, <2>2, <3>2 DEF Ledger, Unissued
    <3>3. CASE s \in Unissued /\ s = None
      BY <3>3, NoneAssumption DEF Unissued
    <3> QED
      BY <2>1, <3>1, <3>2, <3>3
  <2> DEFINE cr == [conn[c] EXCEPT !.st = "open12", !.held = s]
             dn == [conn EXCEPT ![c] = cr]
             rf == [refs EXCEPT ![s] = @ + 1]
  <2>4. /\ DOMAIN cr = DOMAIN conn[c] /\ cr.st = "open12" /\ cr.held = s
        /\ cr.ctx = conn[c].ctx
    BY <1>1
  <2>5. CacheHeld(c, cr, rf)
    BY <2>1
  <2> HIDE DEF cr
  <2>6. dn[c] = cr /\ \A e \in Conn \ {c} : dn[e] = conn[e]
    BY <1>1
  <2> HIDE DEF dn
  <2>7. Ledger(dn, items, rf, origin')
    BY <1>2, <2>2, <2>3, <2>4, <2>6, Gain
  <2> HIDE DEF rf
  <2> QED
    BY <1>1, <2>3, <2>4, <2>5, <2>7, CachingOwned DEF dn
<1> QED
  BY <1>3, <1>4

(* Tickets: the last one is kept, and the one before is given back. *)
LEMMA ReadOwned ==
  ASSUME StoresInv, ScopeInv, OwnInv, NEW c \in Conn, NEW ss \in SUBSET Unissued,
         NEW st \in {"open12", "open13", "shut"}, Read(c, ss, st)
  PROVE  OwnInv'
<1>1. /\ DOMAIN conn[c] = {"st", "ctx", "dest", "offered", "held"} /\ DOMAIN conn = Conn
      /\ conn[c].ctx \in Ctx /\ conn[c].held \in Session \union {None}
  BY DEF ScopeInv, ConnScoped, Read
<1>2. Ledger(conn, items, refs, origin) /\ DOMAIN origin' = DOMAIN origin \union ss
  BY DEF OwnInv, Read, Issue
<1> DEFINE base == [conn[c] EXCEPT !.st = st]
<1>3. PICK p \in NewSessions(base, refs, ss) : CacheHeld(c, p[1], p[2])
  BY DEF Read
<1>4. /\ DOMAIN base = DOMAIN conn[c] /\ base.held = conn[c].held /\ base.st = st
      /\ base.ctx = conn[c].ctx
  BY <1>1
<1> HIDE DEF base
<1>5. CASE ss = {}
  <2> DEFINE dn == [conn EXCEPT ![c] = base]
  <2>1. p[1] = base /\ p[2] = refs
    BY <1>3, <1>5 DEF NewSessions
  <2>2. dn[c] = base /\ \A e \in Conn \ {c} : dn[e] = conn[e]
    BY <1>1
  <2> HIDE DEF dn
  <2>3. Ledger(dn, items, refs, origin')
    BY <1>2, <1>4, <2>2, GetsOn DEF Offers
  <2> QED
    BY <1>1, <1>3, <1>4, <2>1, <2>3, CachingOwned DEF dn
<1>6. CASE ss # {}
  <2> DEFINE h == conn[c].held
             none == [base EXCEPT !.held = None]
             en == [conn EXCEPT ![c] = none]
             r1 == IF h = None THEN refs ELSE [refs EXCEPT ![h] = @ - 1]
  <2>1. PICK latest \in ss :
          /\ p[1] = [base EXCEPT !.held = latest]
          /\ p[2] = [s \in Session |-> IF s = latest THEN refs[s] + 1
                                       ELSE IF s = h THEN refs[s] - 1 ELSE refs[s]]
    BY <1>3, <1>4, <1>6 DEF NewSessions
  <2>2. /\ latest \in Session /\ latest \notin DOMAIN origin /\ latest \in DOMAIN origin'
        /\ latest # None
    BY <1>2, <2>1, NoneAssumption DEF Unissued
  <2>3. ~Owned(conn, items, latest) /\ \A e \in Conn : ~(Offers(conn[e]) /\ conn[e].offered = latest)
    BY <1>2, <2>2 DEF Ledger
  <2>4. none.held = None /\ none.st = st
    BY <1>1, <1>4
  <2> HIDE DEF none
  <2>5. en[c] = none /\ \A e \in Conn \ {c} : en[e] = conn[e]
    BY <1>1
  <2> HIDE DEF en
  <2>6. Ledger(en, items, r1, origin)
    <3>1. ~Offers(en[c])
      BY <2>4, <2>5 DEF Offers
    <3>2. CASE h = None
      <4>1. Ledger(en, items, refs, origin)
        BY <1>2, <2>4, <2>5, <3>1, <3>2, GetsOn
      <4> QED
        BY <3>2, <4>1
    <3>3. CASE h # None
      <4>1. h \in Session /\ conn[c].held = h /\ en[c].held = None
        BY <1>1, <2>4, <2>5, <3>3
      <4> HIDE DEF h
      <4>2. Ledger(en, items, [refs EXCEPT ![h] = @ - 1], origin)
        <5>1. Ledger(conn, items, refs, origin) /\ (\A e \in Conn \ {c} : en[e] = conn[e])
              /\ (Offers(en[c]) => Offers(conn[c]) /\ en[c].offered = conn[c].offered)
          BY <1>2, <2>5, <3>1
        <5> HIDE DEF r1
        <5>2. /\ Ledger(en, items \union {h}, refs, origin)
              /\ Ledger(en, items, [refs EXCEPT ![h] = @ - 1], origin)
          BY <4>1, <5>1, LetGo
        <5> QED
          BY <5>2
      <4> QED
        BY <3>3, <4>2 DEF r1
    <3> QED
      BY <3>2, <3>3
  <2> DEFINE cr == p[1]
             dn == [conn EXCEPT ![c] = cr]
  <2>7. /\ DOMAIN cr = {"st", "ctx", "dest", "offered", "held"} /\ cr.held = latest
        /\ cr.st = st /\ cr.ctx \in Ctx
    BY <1>1, <1>4, <2>1
  <2> HIDE DEF cr
  <2>8. dn[c] = cr /\ \A e \in Conn \ {c} : dn[e] = conn[e]
    BY <1>1
  <2> HIDE DEF dn
  <2>9. h # latest
    BY <2>3 DEF Owned
  <2>10. p[2] = [r1 EXCEPT ![latest] = @ + 1]
    <3>1. DOMAIN refs = Session /\ h \in Session \union {None}
      BY <1>1, <1>2 DEF Ledger
    <3> DEFINE q == [r1 EXCEPT ![latest] = @ + 1]
    <3>2. CASE h = None
      BY <2>1, <2>2, <3>1, <3>2, NoneAssumption
    <3>3. CASE h # None
      <4>1. DOMAIN r1 = Session /\ r1[h] = refs[h] - 1
            /\ \A s \in Session \ {h} : r1[s] = refs[s]
        BY <1>1, <3>1, <3>3
      <4> HIDE DEF r1, h
      <4>2. DOMAIN q = Session /\ q[latest] = r1[latest] + 1
            /\ \A s \in Session \ {latest} : q[s] = r1[s]
        BY <2>2, <4>1
      <4>3. q = [s \in Session |-> q[s]]
        BY <4>2
      <4> HIDE DEF q
      <4>4. \A s \in Session : q[s] = IF s = latest THEN refs[s] + 1
                                     ELSE IF s = h THEN refs[s] - 1 ELSE refs[s]
        BY <2>2, <2>9, <4>1, <4>2
      <4>5. p[2] = q
        BY <2>1, <4>3, <4>4
      <4> QED
        BY <4>5 DEF q
    <3> QED
      BY <3>2, <3>3
  <2>11. ~Owned(en, items, latest)
    BY <2>2, <2>3, <2>4, <2>5 DEF Owned
  <2>12. \A e \in Conn \ {c} : dn[e] = en[e] /\ ~(Offers(en[e]) /\ en[e].offered = latest)
    BY <2>3, <2>5, <2>8
  <2>13. en[c].held = None /\ dn[c].held = latest /\ dn[c].st \notin {"none", "handshake"}
    BY <2>4, <2>5, <2>7, <2>8
  <2>14. DOMAIN origin \union {latest} \subseteq DOMAIN origin'
    BY <1>2, <2>1
  <2> HIDE DEF r1
  <2>15. Ledger(dn, items, p[2], origin')
    BY <2>2, <2>6, <2>10, <2>11, <2>12, <2>13, <2>14, Gain
  <2> QED
    BY <1>1, <1>3, <2>2, <2>7, <2>15, CachingOwned DEF dn, cr
<1> QED
  BY <1>5, <1>6

(* A session is under one key of one store only: its origin names both. *)
LEMMA OneEntry ==
  ASSUME ScopeInv, NEW x \in Ctx, NEW y \in Ctx, NEW k, NEW j, NEW s,
         Has(sstore[x], k, s), Has(sstore[y], j, s)
  PROVE  x = y /\ k = j /\ s \in Session
<1>1. PICK d \in Dest : IssuedFor(origin, s, x, d) /\ k = SessionKey(d)
  BY DEF ScopeInv, EntriesScoped
<1>2. PICK e \in Dest : IssuedFor(origin, s, y, e) /\ j = SessionKey(e)
  BY DEF ScopeInv, EntriesScoped
<1>3. s \in Session
  BY DEF ScopeInv, EntriesScoped
<1>4. x = y /\ d = e
  BY <1>1, <1>2 DEF IssuedFor
<1> QED
  BY <1>1, <1>2, <1>3, <1>4

(* A session that is found leaves its item for the connection. *)
LEMMA ConnectOwned ==
  ASSUME StoresInv, ForgetInv, ScopeInv, OwnInv, NEW c \in Conn, NEW cl \in Client,
         NEW d \in Dest, Connect(c, cl, d)
  PROVE  OwnInv'
<1> DEFINE x == client[cl]
<1>1. /\ x \in Ctx /\ conn[c].st = "none" /\ conn[c].held = None /\ DOMAIN conn = Conn
      /\ Ledger(conn, items, refs, origin) /\ origin' = origin
  BY DEF ForgetInv, Connect, ScopeInv, OwnInv, Ledger
<1>2. CASE conn' = [conn EXCEPT ![c] = Opened(x, d, None)] /\ UNCHANGED <<sstore, items, refs>>
  <2> DEFINE cr == Opened(x, d, None)
  <2>1. cr.held = None /\ ~Offers(cr)
    BY DEF Opened, Offers
  <2> HIDE DEF cr
  <2>2. conn'[c] = cr /\ \A e \in Conn \ {c} : conn'[e] = conn[e]
    BY <1>1, <1>2 DEF cr
  <2>3. Ledger(conn', items, refs, origin)
    BY <1>1, <2>1, <2>2, GetsOn
  <2> QED
    BY <1>1, <1>2, <2>3 DEF OwnInv
<1>3. ASSUME NEW s \in Lookup(sstore[x], SessionKey(d)), NEW offered \in {s, None},
             sstore' = [sstore EXCEPT ![x] = Taken(@, SessionKey(d))],
             items' = items \ {s}, refs' = [refs EXCEPT ![s] = @ - 1],
             conn' = [conn EXCEPT ![c] = Opened(x, d, offered)]
      PROVE  OwnInv'
  <2> DEFINE cr == Opened(x, d, offered)
             key == SessionKey(d)
  <2>1. /\ cr.held = None /\ cr.st = "handshake" /\ cr.offered = offered
    BY DEF Opened
  <2> HIDE DEF cr
  <2>2. conn'[c] = cr /\ \A e \in Conn \ {c} : conn'[e] = conn[e]
    BY <1>1, <1>3 DEF cr
  <2>3. Has(sstore[x], key, s)
    BY <1>3, LookupHas
  <2>4. s \in items /\ s \in Session /\ s # None
    BY <1>1, <2>3, NoneAssumption DEF OwnInv, Ledger
  <2>5. \A e \in Conn : conn[e].held # s
    BY <1>1, <2>4 DEF Ledger
  <2>6. \A e \in Conn : conn'[e].held = conn[e].held
    BY <1>1, <2>1, <2>2
  <2>7. \A t : Owned(conn', items', t) <=> Owned(conn, items, t) /\ t # s
    BY <1>3, <2>5, <2>6 DEF Owned
  <2>8. s \in DOMAIN origin /\ \A e \in Conn : Offers(conn[e]) => conn[e].offered # s
    BY <1>1, <2>4 DEF Ledger, Owned
  <2>9. Ledger(conn', items', refs', origin)
    <3>1. \A e \in Conn : Offers(conn'[e]) =>
            \/ e = c /\ conn'[e].offered = s
            \/ e # c /\ conn'[e] = conn[e] /\ Offers(conn[e]) /\ conn[e].offered # s
      BY <1>3, <2>1, <2>2, <2>8 DEF Offers
    <3>2. \A e \in Conn : Offers(conn'[e]) =>
            /\ ~Owned(conn', items', conn'[e].offered) /\ conn'[e].offered \in DOMAIN origin
            /\ \A f \in Conn : Offers(conn'[f]) /\ conn'[f].offered = conn'[e].offered => f = e
      BY <1>1, <2>7, <2>8, <3>1 DEF Ledger
    <3>3. \A e \in Conn : conn'[e].st \in {"none", "handshake"} => conn'[e].held = None
      BY <1>1, <2>1, <2>2 DEF Ledger
    <3>4. \A e \in Conn : conn'[e].held \notin items'
      BY <1>1, <1>3, <2>6 DEF Ledger
    <3>5. \A e, f \in Conn : conn'[e].held # None /\ conn'[e].held = conn'[f].held => e = f
      BY <1>1, <2>6 DEF Ledger
    <3>6. /\ DOMAIN refs' = Session
          /\ \A t \in Session : refs'[t] = IF Owned(conn', items', t) THEN 1 ELSE 0
      <4>1. Owned(conn, items, s) /\ DOMAIN refs = Session
        BY <1>1, <2>4 DEF Owned, Ledger
      <4>2. DOMAIN refs' = Session /\ refs'[s] = refs[s] - 1
            /\ \A t \in Session \ {s} : refs'[t] = refs[t]
        BY <1>3, <2>4, <4>1
      <4>3. refs[s] = 1 /\ \A t \in Session : refs[t] = IF Owned(conn, items, t) THEN 1 ELSE 0
        BY <1>1, <2>4, <4>1 DEF Ledger
      <4> QED
        BY <2>7, <4>2, <4>3
    <3>7. items' \subseteq Session /\ \A t \in Session : Owned(conn', items', t) => t \in DOMAIN origin
      BY <1>1, <1>3, <2>7 DEF Ledger
    <3> QED
      BY <3>2, <3>3, <3>4, <3>5, <3>6, <3>7 DEF Ledger
  <2>10. sstore'[x] = Taken(sstore[x], key) /\ \A y \in Ctx \ {x} : sstore'[y] = sstore[y]
    BY <1>1, <1>3 DEF StoresInv
  <2>11. Twinless(Taken(sstore[x], key)) /\ ~Has(Taken(sstore[x], key), key, s)
    BY <1>1, <1>3, TakenGone DEF StoresInv, OwnInv
  <2>12. ASSUME NEW y \in Ctx, NEW k, NEW t, Has(sstore'[y], k, t) PROVE t \in items'
    <3>1. Has(sstore[y], k, t)
      BY <1>1, <2>10, <2>12, TakenEntries DEF StoresInv
    <3>2. t \in items
      BY <3>1 DEF OwnInv
    <3>3. t # s
      <4> SUFFICES ASSUME t = s PROVE FALSE
        OBVIOUS
      <4>1. y = x /\ k = key
        BY <1>1, <2>3, <3>1, OneEntry
      <4> QED
        BY <2>10, <2>11, <2>12, <4>1
    <3> QED
      BY <1>3, <3>2, <3>3
  <2>13. \A y \in Ctx : Twinless(sstore'[y])
    BY <2>10, <2>11 DEF OwnInv
  <2> QED
    BY <1>1, <2>9, <2>12, <2>13 DEF OwnInv
<1> QED
  BY <1>2, <1>3 DEF Connect

(* The end of a TLS 1.3 handshake, and of a connection. *)
LEMMA EndsOwned ==
  ASSUME ScopeInv, OwnInv, NEW c \in Conn, Handshake13(c) \/ CloseConn(c)
  PROVE  OwnInv'
<1>1. /\ DOMAIN conn[c] = {"st", "ctx", "dest", "offered", "held"} /\ DOMAIN conn = Conn
      /\ conn[c].held \in Session \union {None}
      /\ Ledger(conn, items, refs, origin) /\ UNCHANGED <<sstore, items, origin>>
  BY DEF ScopeInv, ConnScoped, OwnInv, Handshake13, CloseConn
<1>2. CASE Handshake13(c)
  <2> DEFINE cr == [conn[c] EXCEPT !.st = "open13"]
  <2>1. cr.held = conn[c].held /\ cr.st = "open13"
    BY <1>1
  <2> HIDE DEF cr
  <2>2. conn'[c] = cr /\ refs' = refs /\ \A e \in Conn \ {c} : conn'[e] = conn[e]
    BY <1>1, <1>2 DEF Handshake13, cr
  <2>3. Ledger(conn', items, refs, origin)
    BY <1>1, <2>1, <2>2, GetsOn DEF Offers
  <2> QED
    BY <1>1, <2>2, <2>3 DEF OwnInv
<1>3. CASE CloseConn(c)
  <2> DEFINE h == conn[c].held
  <2>1. Fresh.held = None /\ Fresh.st = "none" /\ ~Offers(Fresh)
    BY DEF Fresh, Offers
  <2>2. conn'[c] = Fresh /\ \A e \in Conn \ {c} : conn'[e] = conn[e]
    BY <1>1, <1>3 DEF CloseConn
  <2>3. refs' = [s \in Session |-> IF s = h THEN refs[s] - 1 ELSE refs[s]] /\ DOMAIN refs = Session
    BY <1>1, <1>3 DEF CloseConn, Ledger
  <2>4. conn[c].held = h
    OBVIOUS
  <2> HIDE DEF h
  <2>5. \A s \in Session : refs'[s] = IF s = h THEN refs[s] - 1 ELSE refs[s]
    BY <2>3
  <2>6. DOMAIN refs' = Session
    BY <2>3
  <2>7. CASE h = None
    <3>1. Ledger(conn', items, refs, origin)
      BY <1>1, <2>1, <2>2, <2>4, <2>7, GetsOn
    <3>2. \A s \in Session : refs'[s] = refs[s]
      BY <2>5, <2>7, NoneAssumption
    <3> QED
      BY <1>1, <2>6, <3>1, <3>2, SamePoints DEF OwnInv
  <2>8. CASE h # None
    <3>1. h \in Session
      BY <1>1, <2>4, <2>8
    <3> DEFINE r == [refs EXCEPT ![h] = @ - 1]
    <3>2. \A s \in Session : refs'[s] = r[s]
      BY <2>3, <2>5, <3>1
    <3>3. Ledger(conn', items, r, origin)
      <4>1. /\ Ledger(conn, items, refs, origin) /\ (\A e \in Conn \ {c} : conn'[e] = conn[e])
            /\ conn'[c].held = None
            /\ (Offers(conn'[c]) => Offers(conn[c]) /\ conn'[c].offered = conn[c].offered)
        BY <1>1, <2>1, <2>2
      <4> HIDE DEF r
      <4>2. /\ Ledger(conn', items \union {h}, refs, origin)
            /\ Ledger(conn', items, [refs EXCEPT ![h] = @ - 1], origin)
        BY <2>4, <3>1, <4>1, LetGo
      <4> QED
        BY <4>2 DEF r
    <3> HIDE DEF r
    <3> QED
      BY <1>1, <2>6, <3>2, <3>3, SamePoints DEF OwnInv
  <2> QED
    BY <2>7, <2>8
<1> QED
  BY <1>2, <1>3

(* The collector: an item that is finalized is in no table any more, and a *)
(* context that goes takes only entries along.  So does clear().           *)
LEMMA FewerOwned ==
  ASSUME OwnInv, UNCHANGED <<conn, items, refs, origin>>,
         \A x \in Ctx : sstore'[x] = sstore[x] \/ \E cap : sstore'[x] = NewStore(cap)
  PROVE  OwnInv'
<1>1. \A x \in Ctx : Twinless(sstore'[x]) /\ \A k, s : Has(sstore'[x], k, s) => s \in items
  <2> SUFFICES ASSUME NEW x \in Ctx
               PROVE  Twinless(sstore'[x]) /\ \A k, s : Has(sstore'[x], k, s) => s \in items
    OBVIOUS
  <2>1. CASE sstore'[x] = sstore[x]
    BY <2>1 DEF OwnInv
  <2>2. ASSUME NEW cap, sstore'[x] = NewStore(cap)
        PROVE  Twinless(sstore'[x]) /\ \A k, s : Has(sstore'[x], k, s) => s \in items
    <3>1. DOMAIN sstore'[x].strong = {}
      BY <2>2 DEF NewStore
    <3> QED
      BY <2>2, <3>1, NewStoreEmpty DEF Twinless
  <2> QED
    BY <2>1, <2>2
<1> QED
  BY <1>1 DEF OwnInv

LEMMA CollectItemOwned ==
  ASSUME StoresInv, OwnInv, NEW s \in Session, CollectItem(s) PROVE OwnInv'
<1>1. /\ s \in items /\ items' = items \ {s} /\ UNCHANGED <<conn, origin>>
      /\ refs' = [refs EXCEPT ![s] = @ - 1]
      /\ \A x \in Ctx : sstore'[x] = Forgotten(sstore[x], s) /\ s \notin Values(sstore[x].strong)
  BY DEF CollectItem
<1>2. \A e \in Conn : conn[e].held # s
  BY <1>1 DEF OwnInv, Ledger
<1>3. \A t : Owned(conn, items', t) <=> Owned(conn, items, t) /\ t # s
  BY <1>1, <1>2 DEF Owned
<1>4. Ledger(conn, items', refs', origin)
  <2>1. Owned(conn, items, s) /\ DOMAIN refs = Session /\ Ledger(conn, items, refs, origin)
    BY <1>1 DEF Owned, Ledger, OwnInv
  <2>2. DOMAIN refs' = Session /\ refs'[s] = refs[s] - 1
        /\ \A t \in Session \ {s} : refs'[t] = refs[t]
    BY <1>1, <2>1
  <2>3. refs[s] = 1 /\ \A t \in Session : refs[t] = IF Owned(conn, items, t) THEN 1 ELSE 0
    BY <2>1 DEF Ledger
  <2>4. \A t \in Session : refs'[t] = IF Owned(conn, items', t) THEN 1 ELSE 0
    BY <1>3, <2>2, <2>3
  <2> QED
    BY <1>1, <1>3, <2>1, <2>2, <2>4 DEF Ledger
<1>5. ASSUME NEW x \in Ctx
      PROVE  Twinless(sstore'[x]) /\ \A k, t : Has(sstore'[x], k, t) => t \in items'
  <2> DEFINE w == sstore[x]
  <2>1. WellFormed(w) /\ Twinless(w) /\ sstore'[x] = Forgotten(w, s) /\ s \notin Values(w.strong)
    BY <1>1 DEF StoresInv, OwnInv
  <2>2. \A k, t : Has(Forgotten(w, s), k, t) => Has(w, k, t) /\ t # s
    BY <2>1, ForgottenEntries
  <2>3. /\ Forgotten(w, s).strong = w.strong
        /\ Forgotten(w, s).weak = [k \in {i \in DOMAIN w.weak : w.weak[i] # s} |-> w.weak[k]]
    BY <2>1 DEF WellFormed, Forgotten
  <2>4. Twinless(Forgotten(w, s))
    BY <2>1, <2>3 DEF Twinless
  <2> QED
    BY <1>1, <2>1, <2>2, <2>4 DEF OwnInv
<1> QED
  BY <1>1, <1>4, <1>5 DEF OwnInv

(* Every step keeps the account. *)
LEMMA NextOwned ==
  StoresInv /\ ForgetInv /\ ScopeInv /\ OwnInv /\ [Next]_vars => OwnInv'
<1> SUFFICES ASSUME StoresInv, ForgetInv, ScopeInv, OwnInv, [Next]_vars PROVE OwnInv'
  OBVIOUS
<1>1. ASSUME NEW cl \in Client, NEW c \in Conn, NEW d \in Dest, Connect(c, cl, d)
      PROVE  OwnInv'
  BY <1>1, ConnectOwned
<1>2. ASSUME NEW c \in Conn, Handshake12(c) PROVE OwnInv'
  BY <1>2, Handshake12Owned
<1>3. ASSUME NEW c \in Conn, NEW ss \in SUBSET Unissued, NEW st \in {"open12", "open13", "shut"},
             Read(c, ss, st)
      PROVE  OwnInv'
  BY <1>3, ReadOwned
<1>4. ASSUME NEW c \in Conn, Handshake13(c) \/ CloseConn(c) PROVE OwnInv'
  BY <1>4, EndsOwned
<1>5. ASSUME NEW x \in Ctx, CollectCtx(x) PROVE OwnInv'
  <2>1. \A y \in Ctx : sstore'[y] = sstore[y] \/ \E cap : sstore'[y] = NewStore(cap)
    BY <1>5 DEF CollectCtx, StoresInv
  <2> QED
    BY <1>5, <2>1, FewerOwned DEF CollectCtx
<1>6. ASSUME NEW s \in Session, CollectItem(s) PROVE OwnInv'
  BY <1>6, CollectItemOwned
<1>7. ASSUME NEW xs, Clear \/ ClearFails(xs) PROVE OwnInv'
  <2>1. \A y \in Ctx : sstore'[y] = sstore[y] \/ \E cap : sstore'[y] = NewStore(cap)
    BY <1>7 DEF Clear, ClearFails, Cleared
  <2> QED
    BY <1>7, <2>1, FewerOwned DEF Clear, ClearFails, ClearFrame
<1>8. CASE UNCHANGED <<sstore, conn, items, refs, origin>>
  BY <1>8, FewerOwned
<1> QED
  BY <1>1, <1>2, <1>3, <1>4, <1>5, <1>6, <1>7, <1>8
  DEF Next, NewClient, DropClient, vars

LEMMA InitOwned == Init => OwnInv
<1> SUFFICES ASSUME Init PROVE OwnInv
  OBVIOUS
<1>1. \A c \in Conn : conn[c].held = None /\ ~Offers(conn[c])
  BY DEF Init, Fresh, Offers
<1>2. items = {} /\ DOMAIN refs = Session /\ \A s \in Session : refs[s] = 0
  BY DEF Init
<1>3. \A s \in Session : ~Owned(conn, items, s)
  BY <1>1, <1>2, NoneAssumption DEF Owned
<1>4. Ledger(conn, items, refs, origin)
  BY <1>1, <1>2, <1>3 DEF Ledger
<1>5. \A x \in Ctx : sstore[x] = NewStore(SessCap)
  BY DEF Init
<1>6. \A x \in Ctx : Twinless(sstore[x])
  <2>1. DOMAIN NewStore(SessCap).strong = {}
    BY DEF NewStore
  <2> QED
    BY <1>5, <2>1 DEF Twinless
<1> QED
  BY <1>4, <1>5, <1>6, NewStoreEmpty DEF OwnInv

(* Each reference to a session has exactly one owner, an item or a         *)
(* connection, the tables hold items that were not finalized, and a        *)
(* session that is offered is nobody else's (tls_cache.c,                  *)
(* cache_client_session, new_session_cb, cleanup_context), for every       *)
(* number of contexts, sessions and connections and every capacity.        *)
THEOREM EverySessionOwnedOnce == Spec => []SessionsOwnedOnce
<1>1. Init => ForgetInv
  BY NewStoreEmpty DEF Init, ForgetInv
<1>2. Init => ScopeInv
  BY NewStoreEmpty DEF Init, Fresh, ScopeInv, EntriesScoped, ConnScoped
<1>3. OwnInv => SessionsOwnedOnce
  <2> SUFFICES ASSUME OwnInv PROVE SessionsOwnedOnce
    OBVIOUS
  <2>1. ASSUME NEW s \in Session
        PROVE  /\ refs[s] = Cardinality(Holders(s)) + (IF s \in items THEN 1 ELSE 0)
               /\ refs[s] <= 1
    <3>1. refs[s] = IF Owned(conn, items, s) THEN 1 ELSE 0
      BY DEF OwnInv, Ledger
    <3>2. Cardinality({}) = 0
      BY FS_EmptySet
    <3>3. CASE s \in items
      <4>1. Holders(s) = {}
        BY <3>3 DEF Holders, OwnInv, Ledger
      <4>2. refs[s] = 1
        BY <3>1, <3>3 DEF Owned
      <4> QED
        BY <3>2, <3>3, <4>1, <4>2
    <3>4. ASSUME s \notin items, NEW c \in Conn, conn[c].held = s
          PROVE  /\ refs[s] = Cardinality(Holders(s)) + (IF s \in items THEN 1 ELSE 0)
                 /\ refs[s] <= 1
      <4>1. Holders(s) = {c}
        BY <3>4, NoneAssumption DEF Holders, OwnInv, Ledger
      <4>2. Cardinality(Holders(s)) = 1
        BY <4>1, FS_Singleton
      <4>3. refs[s] = 1
        BY <3>1, <3>4 DEF Owned
      <4> QED
        BY <3>4, <4>2, <4>3
    <3>5. CASE s \notin items /\ \A c \in Conn : conn[c].held # s
      <4>1. Holders(s) = {} /\ refs[s] = 0
        BY <3>1, <3>5 DEF Holders, Owned
      <4> QED
        BY <3>2, <3>5, <4>1
    <3> QED
      BY <3>3, <3>4, <3>5
  <2>2. \A x \in Ctx : Held(sstore[x]) \subseteq items
    BY HeldHas DEF OwnInv
  <2>3. \A c \in Conn : conn[c].st = "handshake" /\ conn[c].offered # None =>
          LET s == conn[c].offered
          IN  /\ s \notin items /\ Holders(s) = {}
              /\ \A e \in Conn \ {c} : ~(conn[e].st = "handshake" /\ conn[e].offered = s)
    BY DEF OwnInv, Ledger, Offers, Owned, Holders
  <2> QED
    BY <2>1, <2>2, <2>3 DEF SessionsOwnedOnce
<1> QED
  BY <1>1, <1>2, <1>3, InitOwned, InitStores, NextStores, NextForgets, NextScoped, NextOwned, PTL
  DEF Spec

-----------------------------------------------------------------------------
(* Types.  Values of stores are typed by ForgetInv and ScopeInv, and that  *)
(* no count is ever negative follows from the ledger of references; the    *)
(* rest is shape.                                                          *)
Link == [st: {"none", "handshake", "open12", "open13", "shut"},
         ctx: Ctx \union {None}, dest: Dest \union {None},
         offered: Session \union {None}, held: Session \union {None}]

ShapeInv ==
  /\ \A k, x : Has(cstore, k, x) => k \in Options
  /\ client \in [Client -> Ctx \union {None}]
  /\ conn \in [Conn -> Link]
  /\ refs = [s \in Session |-> refs[s]]
  /\ DOMAIN origin \subseteq Session

(* cache_client_session keeps the shape of the connection and the counts.  *)
LEMMA CachingShaped ==
  ASSUME conn \in [Conn -> Link], NEW c \in Conn, NEW cr \in Link, NEW rf,
         rf = [s \in Session |-> rf[s]], CacheHeld(c, cr, rf)
  PROVE  conn' \in [Conn -> Link] /\ refs' = [s \in Session |-> refs'[s]]
<1>1. [cr EXCEPT !.held = None] \in Link
  BY DEF Link
<1>2. conn' \in [Conn -> Link]
  BY <1>1 DEF CacheHeld
<1>3. refs' = rf \/ refs' = [rf EXCEPT ![cr.held] = @ - 1]
  BY DEF CacheHeld
<1>4. refs' = [s \in Session |-> refs'[s]]
  BY <1>3
<1> QED
  BY <1>2, <1>4

LEMMA Handshake12Shaped ==
  ASSUME ShapeInv, ScopeInv, NEW c \in Conn, Handshake12(c)
  PROVE  /\ conn' \in [Conn -> Link] /\ refs' = [s \in Session |-> refs'[s]]
         /\ DOMAIN origin' \subseteq Session
<1>1. conn[c] \in Link
  BY DEF ShapeInv
<1>2. CASE SessCap = 0
  <2>1. [conn[c] EXCEPT !.st = "open12"] \in Link
    BY <1>1 DEF Link
  <2> QED
    BY <1>2, <2>1 DEF Handshake12, ShapeInv
<1>3. CASE SessCap # 0
  <2>1. PICK s \in Unissued \union ({conn[c].offered} \ {None}) :
          /\ Issue(c, {s} \ {conn[c].offered})
          /\ CacheHeld(c, [conn[c] EXCEPT !.st = "open12", !.held = s],
                       [refs EXCEPT ![s] = @ + 1])
    BY <1>3 DEF Handshake12
  <2>2. s \in Session
    BY <1>1 DEF Unissued, Link
  <2>3. [conn[c] EXCEPT !.st = "open12", !.held = s] \in Link
    BY <1>1, <2>2 DEF Link
  <2>4. PICK rf : rf = [refs EXCEPT ![s] = @ + 1]
    OBVIOUS
  <2>5. rf = [t \in Session |-> rf[t]]
    BY <2>4 DEF ShapeInv
  <2>6. conn' \in [Conn -> Link] /\ refs' = [t \in Session |-> refs'[t]]
    BY <2>1, <2>3, <2>4, <2>5, CachingShaped DEF ShapeInv
  <2>7. DOMAIN origin' \subseteq Session
    BY <2>1, <2>2 DEF Issue, ShapeInv
  <2> QED
    BY <2>6, <2>7
<1> QED
  BY <1>2, <1>3

LEMMA ReadShaped ==
  ASSUME ShapeInv, NEW c \in Conn, NEW ss \in SUBSET Unissued,
         NEW st \in {"open12", "open13", "shut"}, Read(c, ss, st)
  PROVE  /\ conn' \in [Conn -> Link] /\ refs' = [s \in Session |-> refs'[s]]
         /\ DOMAIN origin' \subseteq Session
<1>1. PICK cr : cr = [conn[c] EXCEPT !.st = st]
  OBVIOUS
<1>2. cr \in Link
  BY <1>1 DEF ShapeInv, Link
<1>3. PICK p \in NewSessions(cr, refs, ss) : CacheHeld(c, p[1], p[2])
  BY <1>1 DEF Read
<1>4. p[1] \in Link /\ p[2] = [s \in Session |-> p[2][s]]
  <2>1. CASE ss = {}
    BY <1>2, <1>3, <2>1 DEF NewSessions, ShapeInv
  <2>2. CASE ss # {}
    <3>1. PICK latest \in ss :
            p = <<[cr EXCEPT !.held = latest],
                  [s \in Session |-> IF s = latest THEN refs[s] + 1
                                     ELSE IF s = cr.held THEN refs[s] - 1 ELSE refs[s]]>>
      BY <1>3, <2>2 DEF NewSessions
    <3>2. latest \in Session
      BY DEF Unissued
    <3> QED
      BY <1>2, <3>1, <3>2 DEF Link
  <2> QED
    BY <2>1, <2>2
<1>5. conn' \in [Conn -> Link] /\ refs' = [s \in Session |-> refs'[s]]
  BY <1>3, <1>4, CachingShaped DEF ShapeInv
<1>6. DOMAIN origin' \subseteq Session
  BY DEF Read, Issue, Unissued, ShapeInv
<1> QED
  BY <1>5, <1>6

LEMMA ConnectShaped ==
  ASSUME ShapeInv, ForgetInv, ScopeInv, NEW cl \in Client, NEW c \in Conn, NEW d \in Dest,
         Connect(c, cl, d)
  PROVE  conn' \in [Conn -> Link] /\ refs' = [s \in Session |-> refs'[s]]
<1>1. client[cl] \in Ctx
  BY DEF Connect, ForgetInv
<1>2. ASSUME NEW s \in Lookup(sstore[client[cl]], SessionKey(d)) PROVE s \in Session
  BY <1>1, <1>2, LookupHas DEF ScopeInv, EntriesScoped
<1>3. PICK offered \in Session \union {None} :
        conn' = [conn EXCEPT ![c] = Opened(client[cl], d, offered)]
  BY <1>2 DEF Connect
<1>4. Opened(client[cl], d, offered) \in Link
  BY <1>1 DEF Opened, Link
<1>5. refs' = refs \/ \E s : refs' = [refs EXCEPT ![s] = @ - 1]
  BY DEF Connect
<1>6. refs' = [s \in Session |-> refs'[s]]
  BY <1>5 DEF ShapeInv
<1> QED
  BY <1>3, <1>4, <1>6 DEF ShapeInv

LEMMA NewClientShaped ==
  ASSUME StoresInv, ShapeInv, ForgetInv, NEW cl \in Client, NEW k \in Options, NewClient(cl, k)
  PROVE  /\ client' \in [Client -> Ctx \union {None}]
         /\ \A j, x : Has(cstore', j, x) => j \in Options
<1>1. ASSUME NEW x \in Lookup(cstore, k) PROVE x \in Ctx
  BY <1>1, LookupHas DEF ForgetInv
<1>2. PICK x \in Ctx :
        /\ cstore' \in GetResults(cstore, k, x) \union GetErrors(cstore, k, x)
                       \union PutResults(cstore, k, x) \union PutErrors(cstore, k, x)
        /\ client' = [client EXCEPT ![cl] = x] \/ client' = client
  <2>1. CASE \E x \in Lookup(cstore, k) :
               ClientGets(cl, x, GetResults(cstore, k, x), GetErrors(cstore, k, x))
    <3>1. PICK x \in Lookup(cstore, k) :
               ClientGets(cl, x, GetResults(cstore, k, x), GetErrors(cstore, k, x))
      BY <2>1
    <3>2. x \in Ctx
      BY <1>1
    <3> QED
      BY <3>1, <3>2 DEF ClientGets
  <2>2. CASE \E x \in Ctx :
               ClientGets(cl, x, PutResults(cstore, k, x), PutErrors(cstore, k, x))
    BY <2>2 DEF ClientGets
  <2> QED
    BY <2>1, <2>2 DEF NewClient
<1>3. client' \in [Client -> Ctx \union {None}]
  BY <1>2 DEF ShapeInv
<1>4. ASSUME NEW j, NEW w, Has(cstore', j, w) PROVE j \in Options
  <2>1. Has(cstore, j, w) \/ j = k
    BY <1>2, <1>4, GetEntries, PutEntries DEF StoresInv
  <2> QED
    BY <2>1 DEF ShapeInv
<1> QED
  BY <1>3, <1>4

LEMMA NextShaped == StoresInv /\ ForgetInv /\ ScopeInv /\ ShapeInv /\ [Next]_vars => ShapeInv'
<1> SUFFICES ASSUME StoresInv, ForgetInv, ScopeInv, ShapeInv, [Next]_vars PROVE ShapeInv'
  OBVIOUS
<1>1. ASSUME NEW cl \in Client, NEW c \in Conn, NEW d \in Dest, Connect(c, cl, d)
      PROVE  ShapeInv'
  BY <1>1, ConnectShaped DEF Connect, ShapeInv
<1>2. ASSUME NEW c \in Conn, Handshake12(c) PROVE ShapeInv'
  BY <1>2, Handshake12Shaped DEF Handshake12, ConnFrame, ShapeInv
<1>3. ASSUME NEW c \in Conn, NEW ss \in SUBSET Unissued, NEW st \in {"open12", "open13", "shut"},
             Read(c, ss, st)
      PROVE  ShapeInv'
  BY <1>3, ReadShaped DEF Read, ConnFrame, ShapeInv
<1>4. ASSUME NEW c \in Conn, Handshake13(c) \/ CloseConn(c) PROVE ShapeInv'
  <2>1. Fresh \in Link /\ [conn[c] EXCEPT !.st = "open13"] \in Link
    BY DEF Fresh, Link, ShapeInv
  <2>2. conn' \in [Conn -> Link]
    BY <1>4, <2>1 DEF Handshake13, CloseConn, ShapeInv
  <2>3. refs' = [s \in Session |-> refs'[s]]
    BY <1>4 DEF Handshake13, CloseConn, ShapeInv
  <2> QED
    BY <1>4, <2>2, <2>3 DEF Handshake13, CloseConn, ConnFrame, ShapeInv
<1>5. ASSUME NEW x \in Ctx, CollectCtx(x) PROVE ShapeInv'
  <2>1. \A k, w : Has(cstore', k, w) => Has(cstore, k, w)
    BY <1>5, ForgottenEntries DEF CollectCtx, StoresInv
  <2> QED
    BY <1>5, <2>1 DEF CollectCtx, ShapeInv
<1>6. ASSUME NEW s \in Session, CollectItem(s) PROVE ShapeInv'
  <2>1. refs' = [t \in Session |-> refs'[t]]
    BY <1>6 DEF CollectItem, ShapeInv
  <2> QED
    BY <1>6, <2>1 DEF CollectItem, ShapeInv
<1>7. ASSUME NEW xs, Clear \/ ClearFails(xs) PROVE ShapeInv'
  <2>1. \A k, w : Has(cstore', k, w) => Has(cstore, k, w)
    BY <1>7, NewStoreEmpty DEF Clear, ClearFails
  <2> QED
    BY <1>7, <2>1 DEF Clear, ClearFails, ClearFrame, ShapeInv
<1>8. ASSUME NEW cl \in Client, NEW k \in Options, NewClient(cl, k) PROVE ShapeInv'
  BY <1>8, NewClientShaped DEF NewClient, ShapeInv
<1>9. ASSUME NEW cl \in Client, DropClient(cl) PROVE ShapeInv'
  BY <1>9 DEF DropClient, ShapeInv
<1>10. CASE UNCHANGED vars
  BY <1>10 DEF vars, ShapeInv
<1> QED
  BY <1>1, <1>2, <1>3, <1>4, <1>5, <1>6, <1>7, <1>8, <1>9, <1>10 DEF Next

(* Stores have the keys and values they are for, every connection refers   *)
(* to a context and a destination or to none, and no session is given back *)
(* more often than it was taken.                                           *)
THEOREM CacheTypes == Spec => []TypeOK
<1>1. Init => ForgetInv
  BY NewStoreEmpty DEF Init, ForgetInv
<1>2. Init => ScopeInv
  BY NewStoreEmpty DEF Init, Fresh, ScopeInv, EntriesScoped, ConnScoped
<1>3. Init => ShapeInv
  <2> SUFFICES ASSUME Init PROVE ShapeInv
    OBVIOUS
  <2>1. Fresh \in Link
    BY DEF Fresh, Link
  <2>2. refs = [s \in Session |-> refs[s]]
    BY DEF Init
  <2> QED
    BY <2>1, <2>2, NewStoreEmpty DEF Init, ShapeInv
<1>4. StoresInv /\ ForgetInv /\ ScopeInv /\ OwnInv /\ ShapeInv => TypeOK
  <2> SUFFICES ASSUME StoresInv, ForgetInv, ScopeInv, OwnInv, ShapeInv PROVE TypeOK
    OBVIOUS
  <2>1. StoreOK(cstore, Options, Ctx)
    BY DEF StoresInv, WellFormed, StoreOK, TableOK, ShapeInv, ForgetInv, Has
  <2>2. ASSUME NEW x \in Ctx PROVE StoreOK(sstore[x], Host \X BOOLEAN, Session)
    <3>keys. \A d \in Dest : SessionKey(d) \in Host \X BOOLEAN
      BY DEF SessionKey, Dest
    <3>1. \A k, s : Has(sstore[x], k, s) => k \in Host \X BOOLEAN /\ s \in Session
      <4> SUFFICES ASSUME NEW k, NEW s, Has(sstore[x], k, s)
                   PROVE  k \in Host \X BOOLEAN /\ s \in Session
        OBVIOUS
      <4>1. s \in Session /\ \E d \in Dest : k = SessionKey(d)
        BY DEF ScopeInv, EntriesScoped
      <4> QED
        BY <3>keys, <4>1
    <3> QED
      BY <3>1 DEF StoresInv, WellFormed, StoreOK, TableOK, Has
  <2>3. \A s \in Session : refs[s] \in Nat
    BY DEF OwnInv, Ledger
  <2>4. refs \in [Session -> Nat]
    BY <2>3 DEF ShapeInv
  <2>5. ctxState \in [Ctx -> {"unborn", "alive", "collected"}] /\ outdated \subseteq Ctx
    BY DEF ForgetInv
  <2>6. items \subseteq Session
    BY DEF OwnInv, Ledger
  <2>7. /\ client \in [Client -> Ctx \union {None}] /\ DOMAIN origin \subseteq Session
        /\ conn \in [Conn -> [st: {"none", "handshake", "open12", "open13", "shut"},
                              ctx: Ctx \union {None}, dest: Dest \union {None},
                              offered: Session \union {None}, held: Session \union {None}]]
    BY DEF ShapeInv, Link
  <2> QED
    BY <2>1, <2>2, <2>4, <2>5, <2>6, <2>7, Zenon DEF TypeOK
<1> QED
  BY <1>1, <1>2, <1>3, <1>4, InitStores, NextStores, NextForgets, NextScoped, InitOwned,
     NextOwned, NextShaped, PTL DEF Spec
=============================================================================
