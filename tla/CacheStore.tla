----------------------------- MODULE CacheStore -----------------------------
(***************************************************************************)
(* tls_cache_store.h as operators on one record.  A store is a strong      *)
(* table of at most cap entries, the number n of entries it believes to    *)
(* hold there, and a table of weak values for the entries it had to evict. *)
(*                                                                         *)
(* Every call works through the Lua API, where an allocation can raise a   *)
(* memory error half way: PutErrors are the stores such a call leaves.     *)
(***************************************************************************)
EXTENDS Naturals, FiniteSets

Without(t, k) == [j \in DOMAIN t \ {k} |-> t[j]]
With(t, k, v) == [j \in DOMAIN t \union {k} |-> IF j = k THEN v ELSE t[j]]
Values(t) == {t[k] : k \in DOMAIN t}

(* A new store, and what tls_cache_store_clear makes of an old one: both   *)
(* tables are built before either is replaced.                             *)
NewStore(cap) == [cap |-> cap, n |-> 0, strong |-> << >>, weak |-> << >>]

Held(s) == Values(s.strong) \union Values(s.weak)

(* Mutant of Evicted: the strong entry that left is still counted. *)
EvictedUncounted(s, old) ==
  [s EXCEPT !.weak = With(@, old, s.strong[old]), !.strong = Without(@, old)]

Evicted(s, old) ==
  [s EXCEPT !.weak = With(@, old, s.strong[old]),
            !.strong = Without(@, old),
            !.n = @ - 1]

(* A new key of a full store pushes an arbitrary entry to the weak table. *)
MakeRoom(s, k) ==
  IF k \notin DOMAIN s.strong /\ s.n >= s.cap
  THEN {Evicted(s, old) : old \in DOMAIN s.strong}
  ELSE {s}

Inserted(s, k, v) ==
  [s EXCEPT !.strong = With(@, k, v),
            !.n = IF k \in DOMAIN s.strong THEN @ ELSE @ + 1]

(* A promoted or replaced value must not stay in the weak table. *)
Settled(s, k) == [s EXCEPT !.weak = Without(@, k)]

PutResults(s, k, v) ==
  IF s.cap = 0 THEN {s}
  ELSE {Settled(Inserted(r, k, v), k) : r \in MakeRoom(s, k)}

(* Out of memory before anything happened, before the insertion, or before *)
(* the weak table was settled.                                             *)
PutErrors(s, k, v) ==
  IF s.cap = 0 THEN {}
  ELSE {s} \union MakeRoom(s, k)
           \union {Inserted(r, k, v) : r \in MakeRoom(s, k)}

Lookup(s, k) ==
  IF k \in DOMAIN s.strong THEN {s.strong[k]}
  ELSE IF k \in DOMAIN s.weak THEN {s.weak[k]}
  ELSE {}

(* get: a strong hit changes nothing, a weak hit is put again. *)
GetResults(s, k, v) == IF k \in DOMAIN s.strong THEN {s} ELSE PutResults(s, k, v)
GetErrors(s, k, v) == IF k \in DOMAIN s.strong THEN {} ELSE PutErrors(s, k, v)

(* Mutant of Taken: a weak entry is counted out as well. *)
TakenMiscounted(s, k) ==
  [s EXCEPT !.strong = Without(@, k), !.weak = Without(@, k), !.n = @ - 1]

(* take: the entry found first leaves its table. *)
Taken(s, k) ==
  IF k \in DOMAIN s.strong
  THEN [s EXCEPT !.strong = Without(@, k), !.n = @ - 1]
  ELSE Settled(s, k)

(* The collector found nobody who refers to a value but weak tables. *)
Forgotten(s, v) ==
  [s EXCEPT !.weak = [k \in {j \in DOMAIN s.weak : s.weak[j] # v} |-> s.weak[k]]]

(* The promise of the store, also after a memory error: it knows how many  *)
(* entries are strong, and there are never more than its capacity.         *)
Bounded(s) ==
  /\ IsFiniteSet(DOMAIN s.strong)
  /\ s.n = Cardinality(DOMAIN s.strong)
  /\ s.n <= s.cap
=============================================================================
