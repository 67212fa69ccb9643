---------------------------- MODULE TlsBioProofs ----------------------------
(***************************************************************************)
(* A ring is a bounded first-in first-out queue, for every capacity and    *)
(* every set of bytes (zring.h).  Ciphertext crosses the two rings of a    *)
(* TLS connection intact, memory is freed once, and fill and drain tell    *)
(* the truth, for every capacity, any amount of ciphertext and any socket  *)
(* buffer (tls_bio.c).                                                     *)
(***************************************************************************)
EXTENDS RingSpec, TlsBio, SequenceTheorems, TLAPS

-----------------------------------------------------------------------------
(* The ring by itself, for every capacity and every set of bytes.          *)

(* The rings of capacity RingCap that satisfy the invariant zring.h        *)
(* documents, with the modulo spelled out as one conditional subtraction.  *)
WellFormed(r) ==
  /\ r \in [cap: {RingCap}, head: Slot, tail: Slot, count: 0..RingCap, mem: [Slot -> Byte]]
  /\ r.tail = Wrap(RingCap, r.head + r.count)

RingInv == WellFormed(rb)

(* Reducing a position below 2*c modulo c is subtracting c at most once.   *)
LEMMA WrapIsMod ==
  ASSUME NEW c \in Nat \ {0}, NEW i \in 0..2 * c - 1
  PROVE  i % c = Wrap(c, i)
<1>1. CASE i < c
  BY <1>1, SMT DEF Wrap
<1>2. CASE i >= c
  <2>1. i - c \in 0..c - 1
    BY <1>2
  <2>2. i = (i - c) + c
    BY <1>2
  <2>3. ((i - c) + c) % c = (i - c) % c
    BY <2>1, SMT
  <2>4. (i - c) % c = i - c
    BY <2>1, SMT
  <2> QED
    BY <1>2, <2>2, <2>3, <2>4 DEF Wrap
<1> QED
  BY <1>1, <1>2

(* A commit that is accepted keeps the ring well formed: the write         *)
(* position wraps exactly at the end of the memory.                        *)
LEMMA CommitWellFormed ==
  ASSUME NEW r, NEW n \in Nat, WellFormed(r)
  PROVE  WellFormed(RingCommit(r, n))
<1>1. CASE ~CommitOk(r, n)
  BY <1>1 DEF RingCommit
<1>2. CASE CommitOk(r, n)
  <2> DEFINE t == Wrap(RingCap, r.tail + n)
             q == [r EXCEPT !.count = r.count + n, !.tail = t]
  <2>1. /\ r.cap = RingCap /\ r.head \in Slot /\ r.tail \in Slot
        /\ r.count \in 0..RingCap /\ r.mem \in [Slot -> Byte]
    BY DEF WellFormed
  <2>2. n <= RingCap - r.count /\ n <= RingCap - r.tail
    BY <1>2, <2>1, RingCapAssumption DEF CommitOk, SpaceSize, Least, Slot
  <2>3. t \in Slot /\ r.count + n \in 0..RingCap
    BY <2>1, <2>2, RingCapAssumption DEF Wrap, Slot
  <2>4. t = Wrap(RingCap, r.head + (r.count + n))
    BY <2>1, <2>2, RingCapAssumption DEF WellFormed, Wrap, Slot
  <2>5. q \in [cap: {RingCap}, head: Slot, tail: Slot, count: 0..RingCap, mem: [Slot -> Byte]]
    BY <2>1, <2>3 DEF WellFormed
  <2>6. q.tail = t /\ q.head = r.head /\ q.count = r.count + n
    BY DEF WellFormed
  <2>7. RingCommit(r, n) = q
    BY <1>2, <2>1 DEF RingCommit
  <2> QED
    BY <2>4, <2>5, <2>6, <2>7 DEF WellFormed
<1> QED
  BY <1>1, <1>2

(* So does a consume that is accepted, on the read side. *)
LEMMA ConsumeWellFormed ==
  ASSUME NEW r, NEW n \in Nat, WellFormed(r)
  PROVE  WellFormed(RingConsume(r, n))
<1>1. CASE ~ConsumeOk(r, n)
  BY <1>1 DEF RingConsume
<1>2. CASE ConsumeOk(r, n)
  <2> DEFINE h == Wrap(RingCap, r.head + n)
             q == [r EXCEPT !.count = r.count - n, !.head = h]
  <2>1. /\ r.cap = RingCap /\ r.head \in Slot /\ r.tail \in Slot
        /\ r.count \in 0..RingCap /\ r.mem \in [Slot -> Byte]
    BY DEF WellFormed
  <2>2. n <= r.count /\ n <= RingCap - r.head
    BY <1>2, <2>1, RingCapAssumption DEF ConsumeOk, DataSize, Least, Slot
  <2>3. h \in Slot /\ r.count - n \in 0..RingCap
    BY <2>1, <2>2, RingCapAssumption DEF Wrap, Slot
  <2>4. r.tail = Wrap(RingCap, h + (r.count - n))
    BY <2>1, <2>2, RingCapAssumption DEF WellFormed, Wrap, Slot
  <2>5. q \in [cap: {RingCap}, head: Slot, tail: Slot, count: 0..RingCap, mem: [Slot -> Byte]]
    BY <2>1, <2>3 DEF WellFormed
  <2>6. q.head = h /\ q.tail = r.tail /\ q.count = r.count - n
    BY DEF WellFormed
  <2>7. RingConsume(r, n) = q
    BY <1>2, <2>1 DEF RingConsume
  <2> QED
    BY <2>4, <2>5, <2>6, <2>7 DEF WellFormed
<1> QED
  BY <1>1, <1>2

(* A byte stored into the write segment lands inside the memory. *)
LEMMA StoreWellFormed ==
  ASSUME NEW r, NEW i \in Nat, NEW b \in Byte, WellFormed(r), i < SpaceSize(r)
  PROVE  WellFormed(StoreAt(r, i, b))
BY RingCapAssumption DEF WellFormed, StoreAt, SpaceSize, Least, Wrap, Slot

(* The empty ring zring_init makes is well formed. *)
LEMMA InitWellFormed ==
  RbInit => RingInv
BY RingCapAssumption DEF RbInit, RingInit, RingInv, WellFormed, Wrap, Slot

(* Every call of the producer and of the consumer keeps the ring well      *)
(* formed, refused calls included.                                         *)
LEMMA NextWellFormed ==
  RingInv /\ [RbNext]_rb => RingInv'
<1> SUFFICES ASSUME RingInv, [RbNext]_rb PROVE RingInv'
  OBVIOUS
<1>1. ASSUME NEW i \in Slot, NEW b \in Byte, Store(i, b) PROVE RingInv'
  BY <1>1, StoreWellFormed, RingCapAssumption DEF Store, RingInv, Slot
<1>2. ASSUME NEW n \in Request, Commit(n) PROVE RingInv'
  BY <1>2, CommitWellFormed, RingCapAssumption DEF Commit, RingInv, Request
<1>3. ASSUME NEW n \in Request, Consume(n) PROVE RingInv'
  BY <1>3, ConsumeWellFormed, RingCapAssumption DEF Consume, RingInv, Request
<1>4. CASE UNCHANGED rb
  BY <1>4 DEF RingInv
<1> QED
  BY <1>1, <1>2, <1>3, <1>4 DEF RbNext

(* The invariant the other theorems rest on. *)
THEOREM RingInvariant == RbSpec => []RingInv
BY InitWellFormed, NextWellFormed, PTL DEF RbSpec

(* Every ring the program can reach has its fields in range. *)
THEOREM RingTypeCorrect == RbSpec => []RingTypeOK
<1>1. RingInv => RingTypeOK
  BY DEF RingInv, WellFormed, RingTypeOK
<1> QED
  BY <1>1, RingInvariant, PTL

(* The invariant zring.h documents holds for every capacity.               *)
THEOREM DocumentedInvariant == RbSpec => []TailFollowsData
<1>1. RingInv => TailFollowsData
  <2> SUFFICES ASSUME RingInv PROVE TailFollowsData
    OBVIOUS
  <2>1. rb.cap = RingCap /\ rb.head + rb.count \in 0..2 * RingCap - 1
    BY RingCapAssumption DEF RingInv, WellFormed, Slot
  <2>2. rb.tail = Wrap(RingCap, rb.head + rb.count)
    BY DEF RingInv, WellFormed
  <2> QED
    BY <2>1, <2>2, WrapIsMod, RingCapAssumption DEF TailFollowsData
<1> QED
  BY <1>1, RingInvariant, PTL

(* A size of zero means full, or empty, and no segment leaves the memory.  *)
THEOREM SegmentSizesHonest == RbSpec => []SegmentsHonest
<1>1. RingInv => SegmentsHonest
  <2> SUFFICES ASSUME RingInv PROVE SegmentsHonest
    OBVIOUS
  <2>1. /\ rb.cap = RingCap /\ rb.head \in Slot /\ rb.tail \in Slot
        /\ rb.count \in 0..RingCap
    BY DEF RingInv, WellFormed
  <2> QED
    BY <2>1, RingCapAssumption DEF SegmentsHonest, SpaceSize, DataSize, Least, Slot
<1> QED
  BY <1>1, RingInvariant, PTL

-----------------------------------------------------------------------------
(* The ring implements the bounded queue, for every capacity.              *)

(* The fields of a well formed ring as plain arithmetic, and its contents  *)
(* and write region as functions on intervals.                             *)
LEMMA RingFields ==
  ASSUME NEW r, WellFormed(r)
  PROVE  /\ r.cap = RingCap /\ r.head \in 0..RingCap - 1 /\ r.tail \in 0..RingCap - 1
         /\ r.count \in 0..RingCap /\ r.mem \in [Slot -> Byte]
         /\ SpaceSize(r) \in 0..RingCap /\ DataSize(r) \in 0..RingCap
         /\ SpaceSize(r) = 0 <=> r.count = RingCap
         /\ SpaceSize(r) <= RingCap - r.count /\ SpaceSize(r) <= RingCap - r.tail
         /\ DataSize(r) <= r.count /\ DataSize(r) <= RingCap - r.head
<1>1. /\ r.cap = RingCap /\ r.head \in 0..RingCap - 1 /\ r.tail \in 0..RingCap - 1
      /\ r.count \in 0..RingCap /\ r.mem \in [Slot -> Byte]
  BY DEF WellFormed, Slot
<1> QED
  BY <1>1, RingCapAssumption DEF SpaceSize, DataSize, Least

(* The contents and the write region are sequences of bytes, as long as    *)
(* the counts say.                                                         *)
LEMMA ViewsTyped ==
  ASSUME NEW r, WellFormed(r)
  PROVE  /\ RingContents(r) \in Seq(Byte)
         /\ Len(RingContents(r)) = r.count
         /\ SpaceRegion(r) \in Seq(Byte)
         /\ SpaceRegion(r) \in Fifo!Chunk
         /\ Len(SpaceRegion(r)) = SpaceSize(r)
<1>1. RingContents(r) \in [1..r.count -> Byte]
  <2>1. \A i \in 1..r.count : Wrap(r.cap, r.head + i - 1) \in Slot
    BY RingFields, RingCapAssumption DEF Wrap, Slot
  <2> QED
    BY <2>1, RingFields DEF RingContents
<1>2. SpaceRegion(r) \in [1..SpaceSize(r) -> Byte]
  <2>1. \A i \in 1..SpaceSize(r) : r.tail + i - 1 \in Slot
    BY RingFields, RingCapAssumption DEF Slot
  <2> QED
    BY <2>1, RingFields DEF SpaceRegion
<1>3. /\ RingContents(r) \in Seq(Byte)
      /\ Len(RingContents(r)) = r.count
  BY <1>1, RingFields
<1>4. /\ SpaceRegion(r) \in Seq(Byte)
      /\ Len(SpaceRegion(r)) = SpaceSize(r)
  BY <1>2, RingFields
<1>5. SpaceRegion(r) \in Fifo!Chunk
  BY <1>2, RingFields DEF Fifo!Chunk
<1> QED
  BY <1>3, <1>4, <1>5

(* The write region is empty exactly when the queue is full. *)
LEMMA RoomAgrees ==
  ASSUME NEW r, WellFormed(r)
  PROVE  Fifo!RoomIffNotFull(RingContents(r), SpaceRegion(r))
<1>1. Len(RingContents(r)) = r.count /\ Len(SpaceRegion(r)) = SpaceSize(r)
  BY ViewsTyped
<1>2. SpaceSize(r) = 0 <=> SpaceRegion(r) = <<>>
  BY <1>1, ViewsTyped
<1> QED
  BY <1>1, <1>2, RingFields DEF Fifo!RoomIffNotFull

(* The contents are what the read segment shows, followed by what it shows *)
(* once that is consumed: two calls of zring_data read everything.         *)
THEOREM TwoSegmentsSuffice == RbSpec => []SegmentsCoverContents
<1>1. ASSUME RingInv PROVE SegmentsCoverContents
  <2> DEFINE n == DataSize(rb)
             rest == RingConsume(rb, n)
             D == DataRegion(rb)
             E == DataRegion(rest)
             C == RingContents(rb)
  <2>1. WellFormed(rb)
    BY <1>1 DEF RingInv
  <2>2. /\ rb.cap = RingCap /\ rb.head \in 0..RingCap - 1 /\ rb.count \in 0..RingCap
        /\ n \in 0..RingCap /\ n <= rb.count /\ n <= RingCap - rb.head
        /\ n = rb.count \/ n = RingCap - rb.head
    BY <2>1, RingFields DEF DataSize, Least
  <2>3. /\ rest.cap = RingCap /\ rest.count = rb.count - n
        /\ rest.head = Wrap(RingCap, rb.head + n) /\ rest.mem = rb.mem
    BY <2>1, <2>2 DEF RingConsume, ConsumeOk, WellFormed
  <2>4. DataSize(rest) = rb.count - n
    BY <2>2, <2>3, RingCapAssumption DEF DataSize, Least, Wrap
  <2>5. D = [i \in 1..n |-> rb.mem[rb.head + i - 1]]
    BY DEF DataRegion
  <2>6. E = [i \in 1..(rb.count - n) |-> rb.mem[rest.head + i - 1]]
    BY <2>3, <2>4 DEF DataRegion
  <2>7. C = [i \in 1..rb.count |-> rb.mem[Wrap(RingCap, rb.head + i - 1)]]
    BY <2>2 DEF RingContents
  <2> HIDE DEF n, rest, D, E, C
  <2>8. D \in Seq(Byte) /\ Len(D) = n
    <3>1. D \in [1..n -> Byte]
      <4>1. \A i \in 1..n : rb.head + i - 1 \in Slot
        BY <2>2, RingCapAssumption DEF Slot
      <4> QED
        BY <2>1, <2>5, <4>1, RingFields
    <3> QED
      BY <2>2, <3>1
  <2>9. E \in Seq(Byte) /\ Len(E) = rb.count - n
    <3>1. E \in [1..(rb.count - n) -> Byte]
      <4>1. \A i \in 1..(rb.count - n) : rest.head + i - 1 \in Slot
        BY <2>2, <2>3, RingCapAssumption DEF Slot, Wrap
      <4> QED
        BY <2>1, <2>6, <4>1, RingFields
    <3> QED
      BY <2>2, <3>1
  <2>10. C \in Seq(Byte) /\ Len(C) = rb.count
    BY <2>1, ViewsTyped DEF C
  <2>11. D \o E \in Seq(Byte) /\ Len(D \o E) = rb.count
    BY <2>2, <2>8, <2>9
  <2>12. ASSUME NEW i \in 1..rb.count PROVE C[i] = (D \o E)[i]
    <3>1. CASE i <= n
      <4>1. (D \o E)[i] = D[i]
        BY <2>2, <2>8, <2>9, <3>1
      <4> QED
        BY <2>2, <2>5, <2>7, <3>1, <4>1, RingCapAssumption DEF Wrap
    <3>2. CASE i > n
      <4>1. (D \o E)[i] = E[i - n] /\ i - n \in 1..(rb.count - n)
        BY <2>2, <2>8, <2>9, <3>2
      <4>2. Wrap(RingCap, rb.head + i - 1) = rest.head + (i - n) - 1
        BY <2>2, <2>3, <3>2, RingCapAssumption DEF Wrap
      <4> QED
        BY <2>6, <2>7, <4>1, <4>2
    <3>3. i <= n \/ i > n
      BY <2>2, RingCapAssumption
    <3> QED
      BY <3>1, <3>2, <3>3
  <2>13. C = D \o E
    <3> DEFINE S == D \o E
    <3>1. S = [i \in 1..rb.count |-> S[i]]
      <4>1. S \in Seq(Byte) /\ Len(S) = rb.count
        BY <2>11
      <4> HIDE DEF S
      <4> QED
        BY <4>1
    <3>2. C = [i \in 1..rb.count |-> C[i]]
      BY <2>7
    <3> QED
      BY <2>12, <3>1, <3>2
  <2> QED
    BY <2>13 DEF SegmentsCoverContents, C, D, E, rest, n
<1> QED
  BY <1>1, RingInvariant, PTL

(* Storing into the write region touches no byte the consumer can see:     *)
(* every position of the contents differs from every position of the       *)
(* region.                                                                 *)
LEMMA StoreMapsToStore ==
  ASSUME NEW r, NEW i \in Nat, NEW b \in Byte, WellFormed(r), i < SpaceSize(r)
  PROVE  /\ RingContents(StoreAt(r, i, b)) = RingContents(r)
         /\ Len(SpaceRegion(StoreAt(r, i, b))) = Len(SpaceRegion(r))
         /\ SpaceRegion(StoreAt(r, i, b)) \in Fifo!Chunk
<1> DEFINE q == StoreAt(r, i, b)
<1>1. WellFormed(q)
  BY StoreWellFormed
<1>2. /\ q.cap = r.cap /\ q.head = r.head /\ q.tail = r.tail /\ q.count = r.count
      /\ q.mem = [r.mem EXCEPT ![r.tail + i] = b]
  BY DEF StoreAt, WellFormed
<1>3. \A j \in 1..r.count : Wrap(r.cap, r.head + j - 1) # r.tail + i
  BY RingFields, RingCapAssumption DEF WellFormed, Wrap
<1>4. \A j \in 1..r.count : Wrap(r.cap, r.head + j - 1) \in Slot
  BY RingFields, RingCapAssumption DEF Wrap, Slot
<1>5. \A j \in 1..r.count :
        q.mem[Wrap(r.cap, r.head + j - 1)] = r.mem[Wrap(r.cap, r.head + j - 1)]
  BY <1>2, <1>3, <1>4, RingFields
<1>6. RingContents(q) = RingContents(r)
  BY <1>2, <1>5 DEF RingContents
<1>7. SpaceSize(q) = SpaceSize(r)
  BY <1>2 DEF SpaceSize
<1> QED
  BY <1>1, <1>6, <1>7, ViewsTyped

(* An accepted commit appends exactly the stored prefix of the region.     *)
LEMMA CommitMapsToPut ==
  ASSUME NEW r, NEW n \in Nat, WellFormed(r), CommitOk(r, n)
  PROVE  RingContents(RingCommit(r, n))
           = RingContents(r) \o SubSeq(SpaceRegion(r), 1, n)
<1> DEFINE q == RingCommit(r, n)
           C == RingContents(r)
           S == SubSeq(SpaceRegion(r), 1, n)
<1>0. n <= SpaceSize(r)
  BY DEF CommitOk
<1>1. q.cap = RingCap /\ q.head = r.head /\ q.count = r.count + n /\ q.mem = r.mem
  BY RingFields DEF RingCommit, WellFormed
<1>2. S \in Seq(Byte) /\ Len(S) = n /\ \A j \in 1..n : S[j] = SpaceRegion(r)[j]
  BY <1>0, ViewsTyped, RingFields
<1>3. \A j \in 1..n : S[j] = r.mem[r.tail + j - 1]
  BY <1>0, <1>2, RingFields DEF SpaceRegion
<1>4. C \in Seq(Byte) /\ Len(C) = r.count
  BY ViewsTyped
<1>5. \A j \in 1..r.count + n :
        (C \o S)[j] = IF j <= r.count THEN C[j] ELSE S[j - r.count]
  <2>1. r.count \in Nat
    BY RingFields
  <2> QED
    BY <1>2, <1>4, <2>1
<1>6. \A j \in 1..r.count + n :
        r.mem[Wrap(RingCap, r.head + j - 1)]
          = IF j <= r.count THEN C[j] ELSE S[j - r.count]
  <2> TAKE j \in 1..r.count + n
  <2>1. CASE j <= r.count
    BY <2>1, RingFields DEF RingContents
  <2>2. CASE j > r.count
    <3>1. Wrap(RingCap, r.head + j - 1) = r.tail + (j - r.count) - 1
      BY <1>0, <2>2, RingFields, RingCapAssumption DEF WellFormed, Wrap
    <3>2. S[j - r.count] = r.mem[r.tail + (j - r.count) - 1]
      BY <1>3, <2>2, RingFields
    <3> QED
      BY <2>2, <3>1, <3>2, RingFields
  <2> QED
    BY <2>1, <2>2, RingFields
<1>7. RingContents(q) = [j \in 1..r.count + n |-> r.mem[Wrap(RingCap, r.head + j - 1)]]
  BY <1>1 DEF RingContents
<1>8. C \o S = [j \in 1..r.count + n |-> (C \o S)[j]]
  BY <1>2, <1>4, RingFields
<1>9. \A j \in 1..r.count + n : RingContents(q)[j] = (C \o S)[j]
  BY <1>5, <1>6, <1>7
<1> QED
  BY <1>7, <1>8, <1>9

(* An accepted consume drops exactly the n oldest bytes, and the write     *)
(* region keeps every byte already stored in it.                           *)
LEMMA ConsumeMapsToTake ==
  ASSUME NEW r, NEW n \in Nat, WellFormed(r), ConsumeOk(r, n)
  PROVE  /\ n <= Len(RingContents(r))
         /\ RingContents(RingConsume(r, n))
              = SubSeq(RingContents(r), n + 1, Len(RingContents(r)))
         /\ Len(SpaceRegion(RingConsume(r, n))) >= Len(SpaceRegion(r))
         /\ SubSeq(SpaceRegion(RingConsume(r, n)), 1, Len(SpaceRegion(r)))
              = SpaceRegion(r)
<1> DEFINE q == RingConsume(r, n)
           C == RingContents(r)
           S == SubSeq(C, n + 1, Len(C))
           R == SpaceRegion(r)
           T == SpaceRegion(q)
<1>0. n <= r.count /\ n <= RingCap - r.head
  <2>1. /\ r.count \in Nat /\ r.head \in Nat /\ DataSize(r) \in Nat
        /\ DataSize(r) <= r.count /\ DataSize(r) <= RingCap - r.head
    BY RingFields
  <2>2. n <= DataSize(r)
    BY DEF ConsumeOk
  <2> QED
    BY <2>1, <2>2, RingCapAssumption
<1>1. /\ q.cap = RingCap /\ q.head = Wrap(RingCap, r.head + n) /\ q.tail = r.tail
      /\ q.count = r.count - n /\ q.mem = r.mem
  BY RingFields DEF RingConsume, WellFormed
<1>2. WellFormed(q)
  BY ConsumeWellFormed
<1>3. C \in Seq(Byte) /\ Len(C) = r.count
  BY ViewsTyped
<1>4. S = [j \in 1..r.count - n |-> C[j + n]]
  BY <1>0, <1>3, RingFields
<1>5. RingContents(q) = [j \in 1..r.count - n |-> r.mem[Wrap(RingCap, q.head + j - 1)]]
  BY <1>1 DEF RingContents
<1>6. \A j \in 1..r.count - n : Wrap(RingCap, q.head + j - 1) = Wrap(RingCap, r.head + (j + n) - 1)
  BY <1>0, <1>1, RingFields, RingCapAssumption DEF Wrap
<1>7. \A j \in 1..r.count - n : C[j + n] = r.mem[Wrap(RingCap, r.head + (j + n) - 1)]
  BY <1>0, RingFields DEF RingContents
<1>8. RingContents(q) = S
  BY <1>4, <1>5, <1>6, <1>7
<1>9. SpaceSize(q) >= SpaceSize(r)
  <2>1. r.cap = RingCap /\ r.count \in 0..RingCap /\ r.tail \in 0..RingCap - 1
    BY RingFields
  <2> QED
    BY <1>0, <1>1, <2>1, RingCapAssumption DEF SpaceSize, Least
<1>10. Len(R) = SpaceSize(r) /\ Len(T) = SpaceSize(q) /\ T \in Seq(Byte) /\ R \in Seq(Byte)
  BY <1>2, ViewsTyped
<1>11. \A j \in 1..SpaceSize(r) : T[j] = R[j]
  BY <1>1, <1>2, <1>9, RingFields DEF SpaceRegion
<1>12. SubSeq(T, 1, SpaceSize(r)) = R
  BY <1>2, <1>9, <1>10, <1>11, RingFields
<1> QED
  BY <1>0, <1>3, <1>8, <1>9, <1>10, <1>12

(* What the runs check of the offsets holds for every capacity. *)
THEOREM OffsetsSound == RbSpec => []RingSound
<1>1. RingTypeOK /\ TailFollowsData => RingSound
  BY DEF RingSound
<1> QED
  BY <1>1, RingTypeCorrect, DocumentedInvariant, PTL

(* What the runs check of the two segments holds for every capacity. *)
THEOREM SegmentsAreExact == RbSpec => []SegmentsExact
<1>1. SegmentsHonest /\ SegmentsCoverContents => SegmentsExact
  BY DEF SegmentsExact
<1> QED
  BY <1>1, SegmentSizesHonest, TwoSegmentsSuffice, PTL

(* An empty ring is an empty queue with room for RingCap bytes. *)
LEMMA InitRefines == RbInit => Fifo!FifoInit
<1> SUFFICES ASSUME NEW m \in [Slot -> Byte], rb = RingInit(RingCap, m)
             PROVE  Fifo!FifoInit
  BY DEF RbInit
<1>1. rb.cap = RingCap /\ rb.count = 0 /\ rb.tail = 0 /\ rb.mem = m
  BY DEF RingInit
<1>2. RingContents(rb) = <<>>
  BY <1>1 DEF RingContents
<1>3. SpaceSize(rb) = RingCap
  BY <1>1, RingCapAssumption DEF SpaceSize, Least
<1>4. SpaceRegion(rb) \in [1..RingCap -> Byte]
  BY <1>1, <1>3, RingCapAssumption DEF SpaceRegion, Slot
<1> QED
  BY <1>2, <1>4 DEF Fifo!FifoInit

(* Every call of the ring is a call of the queue or changes nothing of it. *)
LEMMA StepRefines ==
  RingInv /\ [RbNext]_rb => [Fifo!FifoNext]_(Fifo!fifoVars)
<1> SUFFICES ASSUME RingInv, [RbNext]_rb
             PROVE  [Fifo!FifoNext]_(Fifo!fifoVars)
  OBVIOUS
<1>0. WellFormed(rb) /\ WellFormed(rb)'
  BY NextWellFormed DEF RingInv
<1>1. ASSUME NEW i \in Slot, NEW b \in Byte, Store(i, b)
      PROVE  Fifo!Store
  <2>1. i \in Nat /\ i < SpaceSize(rb) /\ rb' = StoreAt(rb, i, b)
    BY <1>1, RingCapAssumption DEF Store, Slot
  <2> QED
    BY <1>0, <2>1, StoreMapsToStore DEF Fifo!Store
<1>2. ASSUME NEW n \in Request, Commit(n), CommitOk(rb, n)
      PROVE  Fifo!Put(n) /\ n \in 0..RingCap
  <2>1. n \in Nat /\ n <= SpaceSize(rb) /\ rb' = RingCommit(rb, n)
    BY <1>2, RingCapAssumption DEF Commit, Request, CommitOk
  <2>2. RingContents(rb)' = RingContents(rb) \o SubSeq(SpaceRegion(rb), 1, n)
    BY <1>0, <1>2, <2>1, CommitMapsToPut
  <2>3. n \in 0..Len(SpaceRegion(rb)) /\ Len(RingContents(rb)) + n <= RingCap
    <3>1. /\ rb.count \in 0..RingCap /\ SpaceSize(rb) \in 0..RingCap
          /\ SpaceSize(rb) <= RingCap - rb.count
      BY <1>0, RingFields
    <3> QED
      BY <1>0, <2>1, <3>1, ViewsTyped, RingCapAssumption
  <2>4. Fifo!RoomIffNotFull(RingContents(rb)', SpaceRegion(rb)')
    BY <1>0, RoomAgrees
  <2>5. SpaceRegion(rb)' \in Fifo!Chunk
    BY <1>0, ViewsTyped
  <2>6. n \in 0..RingCap
    BY <1>0, <2>1, RingFields, RingCapAssumption
  <2> QED
    BY <2>2, <2>3, <2>4, <2>5, <2>6 DEF Fifo!Put
<1>3. ASSUME NEW n \in Request, Consume(n), ConsumeOk(rb, n)
      PROVE  Fifo!Take(n) /\ n \in 0..RingCap
  <2>1. n \in Nat /\ rb' = RingConsume(rb, n)
    BY <1>3, RingCapAssumption DEF Consume, Request
  <2>2. /\ n <= Len(RingContents(rb))
        /\ RingContents(rb)' = SubSeq(RingContents(rb), n + 1, Len(RingContents(rb)))
        /\ Len(SpaceRegion(rb)') >= Len(SpaceRegion(rb))
        /\ SubSeq(SpaceRegion(rb)', 1, Len(SpaceRegion(rb))) = SpaceRegion(rb)
    BY <1>0, <1>3, <2>1, ConsumeMapsToTake
  <2>3. n \in 0..Len(RingContents(rb)) /\ n \in 0..RingCap
    BY <1>0, <2>1, <2>2, ViewsTyped, RingFields, RingCapAssumption
  <2>4. Fifo!RoomIffNotFull(RingContents(rb)', SpaceRegion(rb)')
    BY <1>0, RoomAgrees
  <2>5. SpaceRegion(rb)' \in Fifo!Chunk
    BY <1>0, ViewsTyped
  <2> QED
    BY <2>2, <2>3, <2>4, <2>5 DEF Fifo!Take
<1>4. CASE UNCHANGED rb
  BY <1>4 DEF Fifo!fifoVars
<1>5. ASSUME NEW n \in Request, Commit(n), ~CommitOk(rb, n)
      PROVE  UNCHANGED rb
  BY <1>5 DEF Commit, RingCommit
<1>6. ASSUME NEW n \in Request, Consume(n), ~ConsumeOk(rb, n)
      PROVE  UNCHANGED rb
  BY <1>6 DEF Consume, RingConsume
<1> QED
  BY <1>1, <1>2, <1>3, <1>4, <1>5, <1>6 DEF RbNext, Fifo!FifoNext

(* The ring is a first-in first-out queue of RingCap bytes: nothing is lost,   *)
(* duplicated or reordered, uncommitted bytes stay invisible, and a        *)
(* consumer running between space() and commit() does not disturb the      *)
(* producer's region.                                                      *)
THEOREM RingImplementsFifo == RbSpec => RefinesFifo
<1> QED
  BY InitRefines, StepRefines, RingInvariant, PTL DEF RbSpec, RefinesFifo, Fifo!FifoSpec

-----------------------------------------------------------------------------
(* Rings that hold consecutive positions.                                  *)

(* The write position follows the stored bytes. *)
Proper(r) ==
  /\ r \in [cap: {Cap}, head: 0..Cap - 1, tail: 0..Cap - 1, count: 0..Cap,
            mem: [0..Cap - 1 -> Nat]]
  /\ r.tail = Wrap(Cap, r.head + r.count)

(* The bytes of r, or of s, are those after position a. *)
Holds(r, a) == \A i \in 1..r.count : r.mem[Wrap(Cap, r.head + i - 1)] = a + i
Counted(s, a) == s \in Seq(Nat) /\ \A i \in 1..Len(s) : s[i] = a + i

(* A ring has room for one byte at least. *)
LEMMA CapPositive == Cap \in Nat \ {0}
BY BoundsAssumption

(* A ring offers no segment to write into only when it is full, and none   *)
(* to read from only when it is empty.                                     *)
LEMMA Segments ==
  ASSUME NEW r, Proper(r)
  PROVE  /\ r.cap = Cap /\ r.head \in 0..Cap - 1 /\ r.tail \in 0..Cap - 1
         /\ r.count \in 0..Cap /\ r.mem \in [0..Cap - 1 -> Nat]
         /\ SpaceSize(r) \in 0..Cap /\ SpaceSize(r) <= Cap - r.count
         /\ SpaceSize(r) <= Cap - r.tail /\ (SpaceSize(r) = 0 <=> r.count = Cap)
         /\ DataSize(r) \in 0..Cap /\ DataSize(r) <= r.count
         /\ DataSize(r) <= Cap - r.head /\ (DataSize(r) = 0 <=> r.count = 0)
<1>1. /\ r.cap = Cap /\ r.head \in 0..Cap - 1 /\ r.tail \in 0..Cap - 1
      /\ r.count \in 0..Cap /\ r.mem \in [0..Cap - 1 -> Nat]
  BY DEF Proper
<1>2. PICK h \in 0..Cap - 1, t \in 0..Cap - 1, c \in 0..Cap :
        h = r.head /\ t = r.tail /\ c = r.count
  BY <1>1, Zenon
<1>3. SpaceSize(r) = Least(Cap - c, Cap - t) /\ DataSize(r) = Least(c, Cap - h)
  BY <1>1, <1>2, Zenon DEF SpaceSize, DataSize
<1>4. PICK m : m = Least(Cap - c, Cap - t)
  OBVIOUS
<1>5. m \in 0..Cap /\ m <= Cap - c /\ m <= Cap - t /\ (m = 0 <=> c = Cap)
  BY <1>4, CapPositive DEF Least
<1>6. PICK n : n = Least(c, Cap - h)
  OBVIOUS
<1>7. n \in 0..Cap /\ n <= c /\ n <= Cap - h /\ (n = 0 <=> c = 0)
  BY <1>6, CapPositive DEF Least
<1> QED
  BY <1>1, <1>2, <1>3, <1>4, <1>5, <1>6, <1>7, Zenon

(* Where the positions of a ring go when n bytes are written at t behind   *)
(* its c bytes, the oldest at h: the stored ones stay outside of the       *)
(* segment, the new ones fill it in order.                                 *)
WriteInOrder(h, t, c, n) ==
  /\ c + n \in 0..Cap /\ Wrap(Cap, t + n) \in 0..Cap - 1
  /\ Wrap(Cap, t + n) = Wrap(Cap, h + (c + n))
  /\ \A i \in 1..c : /\ Wrap(Cap, h + i - 1) \in 0..Cap - 1
                    /\ ~(Wrap(Cap, h + i - 1) >= t /\ Wrap(Cap, h + i - 1) - t \in 0..n - 1)
  /\ \A j \in 1..n : Wrap(Cap, h + (c + j) - 1) = t + j - 1 /\ t + j - 1 \in 0..Cap - 1

(* A write that fits the segment keeps the stored bytes, and its own in    *)
(* order.                                                                  *)
LEMMA WritePlaces ==
  ASSUME NEW h \in 0..Cap - 1, NEW t \in 0..Cap - 1, NEW c \in 0..Cap, NEW n \in Nat,
         t = Wrap(Cap, h + c), n <= Cap - c, n <= Cap - t
  PROVE  WriteInOrder(h, t, c, n)
<1>1. c + n \in 0..Cap /\ Wrap(Cap, t + n) \in 0..Cap - 1
  BY CapPositive DEF Wrap
<1>2. Wrap(Cap, t + n) = Wrap(Cap, h + (c + n))
  BY CapPositive DEF Wrap
<1>3. ASSUME NEW i \in 1..c
      PROVE  /\ Wrap(Cap, h + i - 1) \in 0..Cap - 1
             /\ ~(Wrap(Cap, h + i - 1) >= t /\ Wrap(Cap, h + i - 1) - t \in 0..n - 1)
  BY CapPositive DEF Wrap
<1>4. ASSUME NEW j \in 1..n
      PROVE  Wrap(Cap, h + (c + j) - 1) = t + j - 1 /\ t + j - 1 \in 0..Cap - 1
  BY CapPositive DEF Wrap
<1> QED
  BY <1>1, <1>2, <1>3, <1>4, Zenon DEF WriteInOrder

(* The same when the n oldest of c bytes are read.                         *)
LEMMA ReadPlaces ==
  ASSUME NEW h \in 0..Cap - 1, NEW c \in 0..Cap, NEW n \in Nat, n <= c, n <= Cap - h
  PROVE  /\ c - n \in 0..Cap /\ Wrap(Cap, h + n) \in 0..Cap - 1
         /\ Wrap(Cap, h + c) = Wrap(Cap, Wrap(Cap, h + n) + (c - n))
         /\ \A i \in 1..(c - n) :
              Wrap(Cap, Wrap(Cap, h + n) + i - 1) = Wrap(Cap, h + (n + i) - 1)
<1>1. c - n \in 0..Cap /\ Wrap(Cap, h + n) \in 0..Cap - 1
  BY CapPositive DEF Wrap
<1>2. Wrap(Cap, h + c) = Wrap(Cap, Wrap(Cap, h + n) + (c - n))
  BY CapPositive DEF Wrap
<1>3. ASSUME NEW i \in 1..(c - n)
      PROVE  Wrap(Cap, Wrap(Cap, h + n) + i - 1) = Wrap(Cap, h + (n + i) - 1)
  BY CapPositive DEF Wrap
<1> QED
  BY <1>1, <1>2, <1>3, Zenon

(* Ciphertext copied into the write segment follows what the ring held.    *)
LEMMA CopiedIn ==
  ASSUME NEW r, Proper(r), NEW a \in Nat, Holds(r, a),
         NEW s, Counted(s, a + r.count), Len(s) <= SpaceSize(r)
  PROVE  \E new : /\ new = CopyIn(r, s) /\ Proper(new) /\ Holds(new, a)
                  /\ new.count = r.count + Len(s)
<1>1. /\ r.cap = Cap /\ r.head \in 0..Cap - 1 /\ r.tail \in 0..Cap - 1
      /\ r.count \in 0..Cap /\ r.mem \in [0..Cap - 1 -> Nat]
      /\ SpaceSize(r) <= Cap - r.count /\ SpaceSize(r) <= Cap - r.tail
      /\ SpaceSize(r) \in 0..Cap
  BY Segments
<1>2. PICK n \in Nat : n = Len(s)
  BY DEF Counted
<1>3. PICK h \in 0..Cap - 1, t \in 0..Cap - 1, c \in 0..Cap :
        h = r.head /\ t = r.tail /\ c = r.count
  BY <1>1
<1>4. t = Wrap(Cap, h + c)
  BY <1>3 DEF Proper
<1>5. n <= SpaceSize(r) /\ n <= Cap - c /\ n <= Cap - t
  <2>1. n <= SpaceSize(r)
    BY <1>2, Zenon
  <2>2. PICK k \in 0..Cap : k = SpaceSize(r)
    BY <1>1
  <2>3. n <= k /\ k <= Cap - c /\ k <= Cap - t
    BY <1>1, <1>3, <2>1, <2>2, Zenon
  <2>4. n <= Cap - c /\ n <= Cap - t
    BY <2>3, CapPositive
  <2> QED
    BY <2>1, <2>4
<1>6. WriteInOrder(h, t, c, n)
  BY <1>4, <1>5, WritePlaces, Zenon
<1>7. \A j \in 1..n : s[j] \in Nat /\ s[j] = a + c + j
  BY <1>2, <1>3 DEF Counted
<1> DEFINE Mem == [i \in DOMAIN r.mem |->
                     IF i - r.tail \in 0..Len(s) - 1 /\ i >= r.tail
                     THEN s[i - r.tail + 1] ELSE r.mem[i]]
<1>8. PICK m : m = Mem
  OBVIOUS
<1>9. /\ DOMAIN r.mem = 0..Cap - 1
      /\ m = [i \in 0..Cap - 1 |-> IF i - t \in 0..n - 1 /\ i >= t
                                  THEN s[i - t + 1] ELSE r.mem[i]]
  BY <1>1, <1>2, <1>3, <1>8
<1> HIDE DEF Mem
<1>10. m \in [0..Cap - 1 -> Nat]
  <2>1. ASSUME NEW i \in 0..Cap - 1, i - t \in 0..n - 1, i >= t PROVE s[i - t + 1] \in Nat
    <3>1. i - t + 1 \in 1..n
      BY <2>1, CapPositive
    <3> QED
      BY <1>7, <3>1
  <2>2. \A i \in 0..Cap - 1 : r.mem[i] \in Nat
    BY <1>1
  <2> QED
    BY <1>9, <2>1, <2>2
<1>11. PICK q : q = [r EXCEPT !.mem = m]
  OBVIOUS
<1>12. /\ q.cap = Cap /\ q.head = h /\ q.tail = t /\ q.count = c /\ q.mem = m
       /\ q \in [cap: {Cap}, head: 0..Cap - 1, tail: 0..Cap - 1, count: 0..Cap,
                 mem: [0..Cap - 1 -> Nat]]
  BY <1>1, <1>3, <1>10, <1>11 DEF Proper
<1>13. CommitOk(q, n)
  BY <1>1, <1>3, <1>5, <1>12 DEF CommitOk, SpaceSize
<1>14. PICK new : new = [q EXCEPT !.count = @ + n, !.tail = Wrap(q.cap, @ + n)]
  OBVIOUS
<1>15. new = CopyIn(r, s)
  BY <1>2, <1>8, <1>11, <1>13, <1>14 DEF CopyIn, RingCommit, Mem
<1>16. /\ new.head = h /\ new.mem = m /\ new.count = c + n /\ new.tail = Wrap(Cap, t + n)
       /\ new \in [cap: {Cap}, head: 0..Cap - 1, tail: 0..Cap - 1, count: 0..Cap,
                   mem: [0..Cap - 1 -> Nat]]
  BY <1>6, <1>12, <1>14 DEF WriteInOrder
<1>17. Proper(new)
  BY <1>6, <1>16 DEF WriteInOrder, Proper
<1>18. ASSUME NEW i \in 1..c PROVE m[Wrap(Cap, h + i - 1)] = a + i
  <2>1. r.mem[Wrap(Cap, h + i - 1)] = a + i
    BY <1>3 DEF Holds
  <2>2. m[Wrap(Cap, h + i - 1)] = r.mem[Wrap(Cap, h + i - 1)]
    BY <1>6, <1>9 DEF WriteInOrder
  <2> QED
    BY <2>1, <2>2
<1>19. ASSUME NEW j \in 1..n PROVE m[Wrap(Cap, h + (c + j) - 1)] = a + (c + j)
  <2>1. PICK p \in 0..Cap - 1 : p = t + j - 1 /\ p = Wrap(Cap, h + (c + j) - 1)
    BY <1>6 DEF WriteInOrder
  <2>2. p - t \in 0..n - 1 /\ p >= t /\ p - t + 1 = j
    BY <2>1
  <2>3. m[p] = s[j]
    BY <1>9, <2>2
  <2>4. a + c + j = a + (c + j)
    OBVIOUS
  <2> QED
    BY <1>7, <2>1, <2>3, <2>4
<1>20. Holds(new, a)
  <2> SUFFICES ASSUME NEW i \in 1..(c + n) PROVE m[Wrap(Cap, h + i - 1)] = a + i
    BY <1>16 DEF Holds
  <2>1. CASE i <= c
    <3>1. i \in 1..c
      BY <2>1
    <3> QED
      BY <1>18, <3>1
  <2>2. CASE ~(i <= c)
    <3>1. PICK j \in 1..n : i = c + j
      <4>1. i - c \in 1..n /\ i = c + (i - c)
        BY <2>2
      <4> QED
        BY <4>1
    <3> QED
      BY <1>19, <3>1
  <2> QED
    BY <2>1, <2>2
<1>21. new.count = r.count + Len(s)
  BY <1>2, <1>3, <1>16
<1> QED
  BY <1>15, <1>17, <1>20, <1>21, Zenon

(* Consuming moves the ring on by so many positions.                       *)
LEMMA Consumed ==
  ASSUME NEW r, Proper(r), NEW a \in Nat, Holds(r, a), NEW n \in Nat, n <= DataSize(r)
  PROVE  \E new : /\ new = RingConsume(r, n) /\ Proper(new) /\ Holds(new, a + n)
                  /\ new.count = r.count - n
<1>1. /\ r.cap = Cap /\ r.head \in 0..Cap - 1
      /\ r.count \in 0..Cap /\ DataSize(r) <= r.count /\ DataSize(r) <= Cap - r.head
      /\ DataSize(r) \in 0..Cap
  BY Segments
<1>2. PICK h \in 0..Cap - 1, c \in 0..Cap : h = r.head /\ c = r.count
  BY <1>1
<1>3. n <= c /\ n <= Cap - h
  BY <1>1, <1>2, CapPositive
<1>4. /\ c - n \in 0..Cap /\ Wrap(Cap, h + n) \in 0..Cap - 1
      /\ Wrap(Cap, h + c) = Wrap(Cap, Wrap(Cap, h + n) + (c - n))
      /\ \A i \in 1..(c - n) :
           Wrap(Cap, Wrap(Cap, h + n) + i - 1) = Wrap(Cap, h + (n + i) - 1)
  BY <1>3, ReadPlaces, Zenon
<1>5. PICK new : new = [r EXCEPT !.count = @ - n, !.head = Wrap(r.cap, @ + n)]
  OBVIOUS
<1>6. new = RingConsume(r, n)
  BY <1>5 DEF RingConsume, ConsumeOk
<1>7. /\ new.head = Wrap(Cap, h + n) /\ new.mem = r.mem
      /\ new.count = c - n /\ new.tail = r.tail
      /\ new \in [cap: {Cap}, head: 0..Cap - 1, tail: 0..Cap - 1, count: 0..Cap,
                  mem: [0..Cap - 1 -> Nat]]
  BY <1>1, <1>2, <1>4, <1>5 DEF Proper
<1>8. Proper(new)
  BY <1>2, <1>4, <1>7 DEF Proper
<1>9. Holds(new, a + n)
  <2> SUFFICES ASSUME NEW i \in 1..(c - n)
               PROVE  r.mem[Wrap(Cap, Wrap(Cap, h + n) + i - 1)] = a + n + i
    BY <1>7 DEF Holds
  <2>1. PICK j \in 1..c : j = n + i
    <3>1. n + i \in 1..c
      BY <1>3
    <3> QED
      BY <3>1
  <2>2. r.mem[Wrap(Cap, h + j - 1)] = a + j
    BY <1>2 DEF Holds
  <2>3. a + n + i = a + j
    BY <2>1
  <2> QED
    BY <1>4, <2>1, <2>2, <2>3
<1> QED
  BY <1>2, <1>6, <1>7, <1>8, <1>9, Zenon

(* The read segment begins with the oldest positions.                      *)
LEMMA Offered ==
  ASSUME NEW r, Proper(r), NEW a \in Nat, Holds(r, a), NEW n \in Nat, n <= DataSize(r)
  PROVE  \E s : s = SubSeq(DataRegion(r), 1, n) /\ Counted(s, a) /\ Len(s) = n
<1>1. /\ r.cap = Cap /\ r.head \in 0..Cap - 1 /\ r.count \in 0..Cap
      /\ r.mem \in [0..Cap - 1 -> Nat] /\ DataSize(r) <= r.count
      /\ DataSize(r) <= Cap - r.head /\ DataSize(r) \in 0..Cap
  BY Segments
<1>2. PICK h \in 0..Cap - 1, c \in 0..Cap, k \in 0..Cap :
        h = r.head /\ c = r.count /\ k = DataSize(r)
  BY <1>1
<1>3. k <= c /\ k <= Cap - h /\ n <= k
  BY <1>1, <1>2
<1>4. ASSUME NEW i \in 1..k PROVE r.mem[h + i - 1] = a + i
  <2>1. i \in 1..c /\ Wrap(Cap, h + i - 1) = h + i - 1
    BY <1>3, CapPositive DEF Wrap
  <2> QED
    BY <1>2, <2>1 DEF Holds
<1>5. PICK d : d = DataRegion(r)
  OBVIOUS
<1>6. d = [i \in 1..k |-> r.mem[h + i - 1]]
  BY <1>2, <1>5 DEF DataRegion
<1>7. k \in Nat
  BY CapPositive
<1>8. \A i \in 1..k : d[i] = a + i /\ d[i] \in Nat
  <2> SUFFICES ASSUME NEW i \in 1..k PROVE d[i] = a + i /\ d[i] \in Nat
    OBVIOUS
  <2>1. d[i] = a + i
    BY <1>4, <1>6
  <2>2. a + i \in Nat
    BY <1>7
  <2> QED
    BY <2>1, <2>2
<1>9. d \in Seq(Nat) /\ Len(d) = k
  <2>1. DOMAIN d = 1..k
    BY <1>6
  <2>2. d \in [1..k -> Nat]
    BY <1>6, <1>8, <2>1
  <2> QED
    BY <1>7, <2>2
<1>10. PICK s : s = SubSeq(d, 1, n)
  OBVIOUS
<1>11. s \in Seq(Nat) /\ Len(s) = n /\ \A i \in 1..n : s[i] = d[i]
  BY <1>3, <1>7, <1>9, <1>10
<1>12. \A i \in 1..n : i \in 1..k
  BY <1>3, <1>7
<1>13. Counted(s, a)
  BY <1>8, <1>11, <1>12 DEF Counted
<1> QED
  BY <1>5, <1>10, <1>11, <1>13, Zenon

(* A stream goes on where it stopped.                                      *)
LEMMA GoesOn ==
  ASSUME NEW s, NEW t, Counted(s, 0), Counted(t, Len(s))
  PROVE  \E new : new = s \o t /\ Counted(new, 0) /\ Len(new) = Len(s) + Len(t)
<1>1. s \in Seq(Nat) /\ t \in Seq(Nat)
  BY DEF Counted
<1>2. PICK m \in Nat, n \in Nat : m = Len(s) /\ n = Len(t)
  BY <1>1
<1>3. (\A i \in 1..m : s[i] = i) /\ \A i \in 1..n : t[i] = m + i
  BY <1>2 DEF Counted
<1>4. PICK new : new = s \o t
  OBVIOUS
<1>5. /\ new \in Seq(Nat) /\ Len(new) = m + n
      /\ \A i \in 1..(m + n) : new[i] = IF i <= m THEN s[i] ELSE t[i - m]
  BY <1>1, <1>2, <1>4
<1>6. ASSUME NEW i \in 1..(m + n) PROVE new[i] = 0 + i
  <2>1. CASE i <= m
    <3>1. i \in 1..m /\ 0 + i = i
      BY <2>1
    <3> QED
      BY <1>3, <1>5, <2>1, <3>1
  <2>2. CASE ~(i <= m)
    <3>1. i - m \in 1..n /\ m + (i - m) = 0 + i
      BY <2>2
    <3> QED
      BY <1>3, <1>5, <2>2, <3>1
  <2> QED
    BY <2>1, <2>2
<1> QED
  BY <1>2, <1>4, <1>5, <1>6, Zenon DEF Counted

(* Taking the front of a queue ...                                         *)
LEMMA Taken ==
  ASSUME NEW a \in Nat, NEW q, Counted(q, a), NEW n \in Nat, n <= Len(q)
  PROVE  \E s : s = SubSeq(q, 1, n) /\ Counted(s, a) /\ Len(s) = n
<1>1. PICK k \in Nat : k = Len(q) /\ n <= k
  BY DEF Counted
<1>2. q \in Seq(Nat) /\ \A i \in 1..k : q[i] = a + i
  BY <1>1 DEF Counted
<1>3. PICK s : s = SubSeq(q, 1, n)
  OBVIOUS
<1>4. s \in Seq(Nat) /\ Len(s) = n /\ \A i \in 1..n : s[i] = q[i]
  BY <1>1, <1>2, <1>3
<1>5. Counted(s, a)
  <2>1. \A i \in 1..n : i \in 1..k
    BY <1>1
  <2> QED
    BY <1>2, <1>4, <2>1 DEF Counted
<1> QED
  BY <1>3, <1>4, <1>5, Zenon

(* ... leaves the positions after it.                                      *)
LEMMA Left ==
  ASSUME NEW a \in Nat, NEW q, Counted(q, a), NEW n \in Nat, n <= Len(q)
  PROVE  \E t : t = SubSeq(q, n + 1, Len(q)) /\ Counted(t, a + n) /\ Len(t) = Len(q) - n
<1>1. PICK k \in Nat : k = Len(q) /\ n <= k
  BY DEF Counted
<1>2. q \in Seq(Nat) /\ \A i \in 1..k : q[i] = a + i
  BY <1>1 DEF Counted
<1>3. PICK t : t = SubSeq(q, n + 1, Len(q))
  OBVIOUS
<1>4. t \in Seq(Nat) /\ Len(t) = k - n /\ \A i \in 1..(k - n) : t[i] = q[n + i]
  BY <1>1, <1>2, <1>3
<1>5. Counted(t, a + n)
  <2> SUFFICES ASSUME NEW i \in 1..(k - n) PROVE t[i] = a + n + i
    BY <1>4 DEF Counted
  <2>1. n + i \in 1..k /\ a + (n + i) = a + n + i
    BY <1>1
  <2> QED
    BY <1>2, <1>4, <2>1
<1> QED
  BY <1>1, <1>3, <1>4, <1>5, Zenon

-----------------------------------------------------------------------------
(* The inductive invariant.                                                *)

Results == {"none", "ok", "again", "eof", "nobufs", "error", "einval"}

Scalars ==
  /\ rxEof \in BOOLEAN /\ sslEof \in BOOLEAN /\ fin \in BOOLEAN
  /\ link \in {"up", "reset"} /\ room \in 0..SndBuf
  /\ put \in 0..MaxOut /\ sent \in 0..MaxIn

(* What there is to free: everything of an open BIO, nothing of another,   *)
(* and OpenSSL is attached only to an open one until the state is closed.  *)
Memory ==
  /\ fd \in {"unborn", "open", "closed"} /\ ssl \in {"none", "attached", "freed"}
  /\ closing \in BOOLEAN
  /\ fd = "unborn" => ptr = {} /\ ssl = "none" /\ (\A r \in Resource : frees[r] = 0)
  /\ fd = "open" => ptr = Resource /\ (\A r \in Resource : frees[r] = 0)
  /\ fd = "closed" => /\ ptr = {} /\ (ssl = "attached" => closing)
                      /\ \A r \in Resource : frees[r] \in 0..1
  /\ closing => fd = "closed"

Rings == IF fd = "open" THEN Proper(rx) /\ Proper(tx) ELSE rx = NoRing /\ tx = NoRing

(* A call in progress is on an open BIO and has moved what it counted; a   *)
(* fill goes on only with room to read into.                               *)
Calls ==
  /\ call.fn = "none" => call = Idle
  /\ call \in [fn: {"none", "fill", "drain"}, total: Nat, base: 0..Cap]
  /\ call.fn # "none" => fd = "open"
  /\ call.fn = "fill" => rx.count < Cap /\ rx.count = call.base + call.total
  /\ call.fn = "drain" => call.base = tx.count + call.total /\ call.total <= Len(out)
  /\ ret \in [fn: {"none", "fill", "drain", "commit", "consume"}, tag: Results,
              n: 0..MaxIn + MaxOut]

(* What OpenSSL read, what rx holds and what the kernel holds follow each  *)
(* other; with the link up they are all the peer sent.                     *)
Inward ==
  /\ Counted(got, 0)
  /\ link = "reset" => inq = <<>>
  /\ fd # "closed" => Holds(rx, Len(got)) /\ Len(got) + rx.count <= sent
  /\ fd # "closed" /\ link = "up" =>
       Counted(inq, Len(got) + rx.count) /\ Len(got) + rx.count + Len(inq) = sent

Outward ==
  /\ Counted(out, 0)
  /\ fd # "closed" => Holds(tx, Len(out)) /\ Len(out) + tx.count = put

Ends ==
  link = "up" => /\ rxEof => fin /\ inq = <<>>
                 /\ sslEof => fin /\ Len(got) = sent

BioInv == Scalars /\ Memory /\ Rings /\ Calls /\ Inward /\ Outward /\ Ends

(* A counted stream is a sequence.                                         *)
LEMMA Lengths ==
  ASSUME NEW s, NEW a, Counted(s, a) PROVE s \in Seq(Nat) /\ Len(s) \in Nat
BY DEF Counted

(* A ring without memory is empty and full.                                *)
LEMMA NoRingEmpty ==
  /\ NoRing.count = 0 /\ NoRing.cap = 0 /\ NoRing.head = 0 /\ NoRing.tail = 0
  /\ SpaceSize(NoRing) = 0 /\ DataSize(NoRing) = 0
BY DEF NoRing, RingInit, SpaceSize, DataSize, Least

(* A ring that was just made is empty.                                     *)
LEMMA NewRing ==
  \E new : /\ new = RingInit(Cap, Blank) /\ Proper(new) /\ new.count = 0
           /\ \A a \in Nat : Holds(new, a)
<1>1. PICK m : m = Blank
  OBVIOUS
<1>2. m \in [0..Cap - 1 -> Nat]
  BY <1>1 DEF Blank
<1>3. PICK new : new = [cap |-> Cap, head |-> 0, tail |-> 0, count |-> 0, mem |-> m]
  OBVIOUS
<1>4. new = RingInit(Cap, Blank)
  BY <1>1, <1>3 DEF RingInit
<1>5. Proper(new)
  BY <1>2, <1>3, CapPositive DEF Proper, Wrap
<1>6. \A a \in Nat : Holds(new, a)
  BY <1>3 DEF Holds
<1> QED
  BY <1>3, <1>4, <1>5, <1>6

(* The initial state.                                                      *)
LEMMA BioInit == Init => BioInv
<1> SUFFICES ASSUME Init PROVE BioInv
  OBVIOUS
<1>1. Scalars
  <2>1. 0 \in 0..MaxOut /\ 0 \in 0..MaxIn /\ SndBuf \in 0..SndBuf
    BY BoundsAssumption
  <2> QED
    BY <2>1 DEF Init, Scalars
<1>2. Memory
  BY DEF Init, Memory
<1>3. Rings
  BY DEF Init, Rings
<1>4. Calls
  <2>1. 0 \in 0..Cap /\ 0 \in 0..MaxIn + MaxOut
    BY BoundsAssumption, CapPositive
  <2> QED
    BY <2>1 DEF Init, Calls, Idle, Results
<1>5. Inward
  BY NoRingEmpty DEF Init, Inward, Counted, Holds
<1>6. Outward
  BY NoRingEmpty DEF Init, Outward, Counted, Holds
<1>7. Ends
  BY DEF Init, Ends
<1> QED
  BY <1>1, <1>2, <1>3, <1>4, <1>5, <1>6, <1>7 DEF BioInv

-----------------------------------------------------------------------------
(* Creation and disposal.                                                  *)

(* Freeing an open BIO frees each resource once; freeing a freed one does  *)
(* nothing.                                                                *)
LEMMA FreeKeeps ==
  ASSUME BioInv, call = Idle, NEW p \in SUBSET Resource, FreeBio(p),
         fd = "closed" => p = {}, ssl' \in {"none", "attached", "freed"},
         closing' \in BOOLEAN, ssl' = "attached" => closing',
         UNCHANGED <<rxEof, out>>, UNCHANGED lua, UNCHANGED kernel, UNCHANGED openssl
  PROVE  BioInv'
<1>1. Scalars'
  BY DEF BioInv, Scalars, kernel, openssl
<1>2. Memory'
  <2>1. fd' = "closed" /\ ptr' = {}
    BY DEF FreeBio
  <2>2. \A r \in Resource : frees'[r] \in 0..1
    BY DEF FreeBio, BioInv, Memory
  <2> QED
    BY <2>1, <2>2 DEF Memory
<1>3. Rings'
  BY DEF Rings, FreeBio
<1>4. Calls'
  BY DEF BioInv, Calls, Idle, lua
<1>5. Inward'
  BY DEF BioInv, Inward, FreeBio, kernel, openssl
<1>6. Outward'
  BY DEF BioInv, Outward, FreeBio, kernel, openssl
<1>7. Ends'
  BY DEF BioInv, Ends, kernel, openssl
<1> QED
  BY <1>1, <1>2, <1>3, <1>4, <1>5, <1>6, <1>7 DEF BioInv

(* tls_bio_new, with every failure.                                        *)
LEMMA NewKeeps ==
  ASSUME BioInv, NEW a \in Allocations, New(a) PROVE BioInv'
<1>0. fd = "unborn" /\ call = Idle /\ rx.count = 0 /\ tx.count = 0
  BY NoRingEmpty DEF New, BioInv, Calls, Rings
<1>1. CASE a # Resource
  <2>1. a \in SUBSET Resource
    BY DEF Allocations, Resource
  <2> QED
    BY <1>0, <1>1, <2>1, FreeKeeps DEF New, BioInv, Memory
<1>2. CASE a = Resource
  <2>1. /\ fd' = "open" /\ ptr' = Resource /\ frees' = frees
        /\ rx' = RingInit(Cap, Blank) /\ tx' = RingInit(Cap, Blank)
        /\ UNCHANGED <<ssl, closing, rxEof, out, call, ret, inq, sent, fin, link, room, got, sslEof, put>>
    BY <1>2 DEF New, FreeBio, lua, kernel, openssl
  <2>2. PICK new : /\ new = RingInit(Cap, Blank) /\ Proper(new) /\ new.count = 0
                   /\ \A k \in Nat : Holds(new, k)
    BY NewRing, Zenon
  <2>3. rx' = new /\ tx' = new
    BY <2>1, <2>2
  <2>4. Len(got) \in Nat /\ Len(out) \in Nat
    BY Lengths DEF BioInv, Inward, Outward
  <2>5. Scalars'
    BY <2>1 DEF BioInv, Scalars
  <2>6. Memory'
    BY <1>0, <2>1 DEF BioInv, Memory
  <2>7. Rings'
    BY <2>1, <2>2, <2>3 DEF Rings
  <2>8. Calls'
    BY <1>0, <2>1 DEF BioInv, Calls, Idle
  <2>9. Inward'
    BY <1>0, <2>1, <2>2, <2>3, <2>4 DEF BioInv, Inward
  <2>10. Outward'
    BY <1>0, <2>1, <2>2, <2>3, <2>4 DEF BioInv, Outward
  <2>11. Ends'
    BY <2>1 DEF BioInv, Ends
  <2> QED
    BY <2>5, <2>6, <2>7, <2>8, <2>9, <2>10, <2>11 DEF BioInv
<1> QED
  BY <1>1, <1>2

(* cleanup_context.                                                        *)
LEMMA CleanupKeeps ==
  ASSUME BioInv, CleanupContext PROVE BioInv'
<1>1. ptr \in SUBSET Resource /\ (fd = "closed" => ptr = {})
  BY DEF BioInv, Memory, CleanupContext
<1>2. closing' \in BOOLEAN /\ ssl' = "freed"
  BY DEF BioInv, Memory, CleanupContext
<1> QED
  BY <1>1, <1>2, FreeKeeps DEF CleanupContext

(* __gc of the BIO.                                                        *)
LEMMA GcKeeps ==
  ASSUME BioInv, GcBio PROVE BioInv'
<1>1. ptr \in SUBSET Resource /\ fd # "closed" /\ ssl' \in {"none", "attached", "freed"}
  BY DEF BioInv, Memory, GcBio
<1>2. closing' \in BOOLEAN /\ (ssl' = "attached" => closing')
  BY DEF GcBio
<1> QED
  BY <1>1, <1>2, FreeKeeps DEF GcBio

(* Steps that touch no more than the SSL.                                  *)
LEMMA SslKeeps ==
  ASSUME BioInv, fd = "open", ssl' \in {"attached", "freed"},
         UNCHANGED <<fd, ptr, frees, closing, rx, tx, rxEof, out>>, UNCHANGED lua,
         UNCHANGED kernel, UNCHANGED openssl
  PROVE  BioInv'
<1>1. Scalars' /\ Ends'
  BY DEF BioInv, Scalars, Ends, kernel, openssl
<1>2. Memory'
  BY DEF BioInv, Memory
<1>3. Rings'
  BY DEF BioInv, Rings
<1>4. Calls'
  BY DEF BioInv, Calls, lua
<1>5. Inward' /\ Outward'
  BY DEF BioInv, Inward, Outward, kernel, openssl
<1> QED
  BY <1>1, <1>2, <1>3, <1>4, <1>5 DEF BioInv

-----------------------------------------------------------------------------
(* What moves between OpenSSL, the rings and the kernel.                   *)

(* OpenSSL reads the oldest n bytes of rx.                                 *)
LEMMA ReadMoves ==
  ASSUME BioInv, fd = "open", NEW n \in Nat, n <= DataSize(rx),
         got' = got \o SubSeq(DataRegion(rx), 1, n), rx' = RingConsume(rx, n),
         UNCHANGED <<fd, inq, sent, link>>
  PROVE  /\ Inward' /\ Proper(rx') /\ rx'.count = rx.count - n
         /\ Len(got') = Len(got) + n
<1>1. PICK a \in Nat : a = Len(got)
  BY Lengths DEF BioInv, Inward
<1>2. Proper(rx) /\ Holds(rx, a)
  BY <1>1 DEF BioInv, Rings, Inward
<1>3. PICK s : s = SubSeq(DataRegion(rx), 1, n) /\ Counted(s, a) /\ Len(s) = n
  BY <1>2, Offered, Zenon
<1>4. PICK new : new = got \o s /\ Counted(new, 0) /\ Len(new) = Len(got) + Len(s)
  <2>1. Counted(got, 0) /\ Counted(s, Len(got))
    BY <1>1, <1>3 DEF BioInv, Inward
  <2> QED
    BY <2>1, GoesOn, Zenon
<1>5. PICK r : /\ r = RingConsume(rx, n) /\ Proper(r) /\ Holds(r, a + n)
               /\ r.count = rx.count - n
  BY <1>2, Consumed, Zenon
<1>6. /\ rx' = r /\ got' = new /\ Len(new) = a + n
      /\ fd' = fd /\ inq' = inq /\ sent' = sent /\ link' = link
  BY <1>1, <1>3, <1>4, <1>5
<1>7. PICK c \in Nat : c = rx.count
  BY <1>2, CapPositive DEF Proper
<1>8. (a + n) + (c - n) = a + c
  BY <1>7
<1>9. Inward'
  BY <1>1, <1>4, <1>5, <1>6, <1>7, <1>8 DEF BioInv, Inward
<1> QED
  BY <1>1, <1>5, <1>6, <1>9

(* The oldest n bytes of the kernel's queue are read into rx.              *)
LEMMA FillMoves ==
  ASSUME BioInv, fd = "open", NEW n \in Nat \ {0}, n <= SpaceSize(rx), n <= Len(inq),
         rx' = CopyIn(rx, SubSeq(inq, 1, n)), inq' = SubSeq(inq, n + 1, Len(inq)),
         UNCHANGED <<fd, got, sent, link>>
  PROVE  /\ Inward' /\ Proper(rx') /\ rx'.count = rx.count + n
         /\ link = "up" /\ inq # <<>>
<1>1. PICK a \in Nat : a = Len(got)
  BY Lengths DEF BioInv, Inward
<1>2. Proper(rx) /\ Holds(rx, a)
  BY <1>1 DEF BioInv, Rings, Inward
<1>3. PICK c \in Nat : c = rx.count
  BY <1>2, CapPositive DEF Proper
<1>4. inq # <<>>
  <2> SUFFICES ASSUME inq = <<>> PROVE FALSE
    OBVIOUS
  <2>1. Len(inq) = 0
    OBVIOUS
  <2> QED
    BY <2>1
<1>5. link = "up"
  BY <1>4 DEF BioInv, Inward, Scalars
<1>6. Counted(inq, a + c) /\ a + c + Len(inq) = sent
  BY <1>1, <1>3, <1>5 DEF BioInv, Inward
<1>7. PICK k \in Nat : k = Len(inq)
  BY <1>6, Lengths
<1>8. PICK b \in Nat : b = a + c
  OBVIOUS
<1>9. n \in Nat /\ n <= Len(inq) /\ Counted(inq, b)
  BY <1>6, <1>8
<1>10. PICK s : s = SubSeq(inq, 1, n) /\ Counted(s, b) /\ Len(s) = n
  BY <1>9, Taken, Zenon
<1>11. PICK rest : /\ rest = SubSeq(inq, n + 1, Len(inq)) /\ Counted(rest, b + n)
                   /\ Len(rest) = Len(inq) - n
  BY <1>9, Left, Zenon
<1>12. PICK r : /\ r = CopyIn(rx, s) /\ Proper(r) /\ Holds(r, a) /\ r.count = rx.count + Len(s)
  <2>1. Len(s) <= SpaceSize(rx) /\ Counted(s, a + rx.count)
    BY <1>3, <1>8, <1>10
  <2> QED
    BY <1>2, <2>1, CopiedIn, Zenon
<1>13. /\ rx' = r /\ inq' = rest /\ r.count = c + n /\ Len(rest) = k - n
       /\ fd' = fd /\ got' = got /\ sent' = sent /\ link' = link
  BY <1>3, <1>7, <1>10, <1>11, <1>12
<1>14. /\ a + (c + n) = a + c + n /\ a + (c + n) + (k - n) = a + c + k
       /\ (n <= k => a + (c + n) <= a + c + k)
  BY <1>7
<1>15. Inward'
  <2>1. Counted(rest, a + (c + n)) /\ a + (c + n) + Len(rest) = sent /\ a + (c + n) <= sent
    BY <1>6, <1>7, <1>8, <1>11, <1>13, <1>14
  <2> QED
    BY <1>1, <1>5, <1>12, <1>13, <2>1 DEF BioInv, Inward
<1> QED
  BY <1>3, <1>4, <1>5, <1>12, <1>13, <1>15

(* OpenSSL writes its next n bytes into tx.                                *)
LEMMA WriteMoves ==
  ASSUME BioInv, fd = "open", NEW n \in Nat, n <= SpaceSize(tx),
         tx' = CopyIn(tx, [i \in 1..n |-> put + i]), put' = put + n,
         UNCHANGED <<fd, out>>
  PROVE  Outward' /\ Proper(tx')
<1>1. PICK a \in Nat : a = Len(out)
  BY Lengths DEF BioInv, Outward
<1>2. Proper(tx) /\ Holds(tx, a) /\ a + tx.count = put
  BY <1>1 DEF BioInv, Rings, Outward
<1>3. PICK c \in Nat : c = tx.count
  BY <1>2, CapPositive DEF Proper
<1>4. PICK s : s = [i \in 1..n |-> put + i]
  OBVIOUS
<1>5. put \in Nat /\ put = a + c
  BY <1>2, <1>3
<1>6. \A i \in 1..n : put + i \in Nat
  BY <1>5
<1>7. s \in Seq(Nat) /\ Len(s) = n /\ \A i \in 1..n : s[i] = put + i
  BY <1>4, <1>6
<1>8. Counted(s, a + tx.count) /\ Len(s) <= SpaceSize(tx)
  BY <1>2, <1>7 DEF Counted
<1>9. PICK r : /\ r = CopyIn(tx, s) /\ Proper(r) /\ Holds(r, a) /\ r.count = tx.count + Len(s)
  BY <1>2, <1>8, CopiedIn, Zenon
<1>10. /\ tx' = r /\ r.count = c + n /\ fd' = fd /\ out' = out /\ put' = put + n
  BY <1>3, <1>4, <1>7, <1>9
<1>11. a + (c + n) = put + n
  BY <1>5
<1> QED
  BY <1>1, <1>9, <1>10, <1>11 DEF BioInv, Outward

(* The kernel takes the oldest n bytes of tx.                              *)
LEMMA DrainMoves ==
  ASSUME BioInv, fd = "open", NEW n \in Nat, n <= DataSize(tx),
         out' = out \o SubSeq(DataRegion(tx), 1, n), tx' = RingConsume(tx, n),
         UNCHANGED <<fd, put>>
  PROVE  /\ Outward' /\ Proper(tx') /\ tx'.count = tx.count - n
         /\ Len(out') = Len(out) + n
<1>1. PICK a \in Nat : a = Len(out)
  BY Lengths DEF BioInv, Outward
<1>2. Proper(tx) /\ Holds(tx, a) /\ a + tx.count = put
  BY <1>1 DEF BioInv, Rings, Outward
<1>3. PICK s : s = SubSeq(DataRegion(tx), 1, n) /\ Counted(s, a) /\ Len(s) = n
  BY <1>2, Offered, Zenon
<1>4. PICK new : new = out \o s /\ Counted(new, 0) /\ Len(new) = Len(out) + Len(s)
  <2>1. Counted(out, 0) /\ Counted(s, Len(out))
    BY <1>1, <1>3 DEF BioInv, Outward
  <2> QED
    BY <2>1, GoesOn, Zenon
<1>5. PICK r : /\ r = RingConsume(tx, n) /\ Proper(r) /\ Holds(r, a + n)
               /\ r.count = tx.count - n
  BY <1>2, Consumed, Zenon
<1>6. tx' = r /\ out' = new /\ Len(new) = a + n /\ fd' = fd /\ put' = put
  BY <1>1, <1>3, <1>4, <1>5
<1>7. PICK c \in Nat : c = tx.count
  BY <1>2, CapPositive DEF Proper
<1>8. (a + n) + (c - n) = a + c
  BY <1>7
<1>9. Outward'
  BY <1>1, <1>2, <1>4, <1>5, <1>6, <1>7, <1>8 DEF BioInv, Outward
<1> QED
  BY <1>1, <1>5, <1>6, <1>9

-----------------------------------------------------------------------------
(* The steps of OpenSSL, of the Lua calls, of the kernel and of the peer.  *)

(* OpenSSL reads.                                                          *)
LEMMA BioReadKeeps ==
  ASSUME BioInv, NEW len \in 1..Cap, BioRead(len) PROVE BioInv'
<1>0. /\ fd = "open" /\ call = Idle /\ Proper(rx)
      /\ UNCHANGED <<tx, rxEof, put, out, fd, ptr, frees, ssl, closing,
                     call, ret, inq, sent, fin, link, room>>
  BY DEF BioInv, Memory, Rings, BioRead, LuaRuns, bio, lua, kernel
<1>1. Memory' /\ Outward'
  BY <1>0 DEF BioInv, Memory, Outward
<1>2. Calls'
  BY <1>0 DEF BioInv, Calls, Idle
<1>3. CASE DataSize(rx) > 0
  <2>1. PICK n \in Nat : n = Least(len, DataSize(rx)) /\ n <= DataSize(rx)
    BY <1>0, Segments, CapPositive DEF Least
  <2>2. /\ got' = got \o SubSeq(DataRegion(rx), 1, n) /\ rx' = RingConsume(rx, n)
        /\ sslEof' = sslEof
    BY <1>0, <1>3, <2>1, Segments DEF BioRead
  <2>3. Inward' /\ Proper(rx')
    BY <1>0, <2>1, <2>2, ReadMoves
  <2>4. Scalars'
    BY <1>0, <2>2 DEF BioInv, Scalars
  <2>5. Rings'
    BY <1>0, <2>3 DEF BioInv, Rings
  <2>6. Ends'
    <3>1. link = "up" => ~sslEof
      <4> SUFFICES ASSUME link = "up", sslEof PROVE FALSE
        OBVIOUS
      <4>1. Len(got) = sent /\ Len(got) + rx.count <= sent
        BY <1>0 DEF BioInv, Ends, Inward
      <4>2. rx.count \in Nat \ {0}
        BY <1>0, <1>3, Segments, CapPositive
      <4>3. Len(got) \in Nat
        BY Lengths DEF BioInv, Inward
      <4> QED
        BY <4>1, <4>2, <4>3
    <3> QED
      BY <1>0, <2>2, <3>1 DEF BioInv, Ends
  <2> QED
    BY <1>1, <1>2, <2>3, <2>4, <2>5, <2>6 DEF BioInv
<1>4. CASE DataSize(rx) = 0
  <2>1. sslEof' = (sslEof \/ rxEof) /\ UNCHANGED <<rx, got>>
    BY <1>4 DEF BioRead
  <2>2. Scalars' /\ Rings' /\ Inward'
    BY <1>0, <2>1 DEF BioInv, Scalars, Rings, Inward
  <2>3. Ends'
    <3>1. rx.count = 0
      BY <1>0, <1>4, Segments
    <3>2. Len(got) \in Nat
      BY Lengths DEF BioInv, Inward
    <3>3. ASSUME link = "up", rxEof PROVE fin /\ Len(got) = sent
      <4>1. fin /\ inq = <<>> /\ Len(got) + rx.count + Len(inq) = sent
        BY <1>0, <3>3 DEF BioInv, Ends, Inward
      <4>2. Len(inq) = 0
        BY <4>1
      <4> QED
        BY <3>1, <3>2, <4>1, <4>2
    <3> QED
      BY <1>0, <2>1, <3>3 DEF BioInv, Ends
  <2> QED
    BY <1>1, <1>2, <2>2, <2>3 DEF BioInv
<1> QED
  BY <1>3, <1>4, <1>0, Segments DEF BioRead

(* OpenSSL writes.                                                         *)
LEMMA BioWriteKeeps ==
  ASSUME BioInv, NEW len \in 1..Cap, BioWrite(len) PROVE BioInv'
<1>0. /\ fd = "open" /\ call = Idle /\ Proper(tx)
      /\ UNCHANGED <<rx, rxEof, got, sslEof, out, fd, ptr, frees, ssl, closing,
                     call, ret, inq, sent, fin, link, room>>
  BY DEF BioInv, Memory, Rings, BioWrite, LuaRuns, bio, lua, kernel
<1>1. PICK n \in Nat : n = Least(len, SpaceSize(tx)) /\ n <= SpaceSize(tx) /\ n <= len
  BY <1>0, Segments, CapPositive DEF Least
<1>2. /\ tx' = CopyIn(tx, [i \in 1..n |-> put + i]) /\ put' = put + n
      /\ put + len <= MaxOut
  BY <1>1 DEF BioWrite
<1>3. Outward' /\ Proper(tx')
  BY <1>0, <1>1, <1>2, WriteMoves
<1>4. put' \in 0..MaxOut
  <2>1. put \in 0..MaxOut /\ MaxOut \in Nat /\ len \in Nat
    BY BoundsAssumption, CapPositive DEF BioInv, Scalars
  <2> QED
    BY <1>1, <1>2, <2>1
<1>5. Scalars'
  BY <1>0, <1>4 DEF BioInv, Scalars
<1>6. Memory' /\ Inward' /\ Ends'
  BY <1>0 DEF BioInv, Memory, Inward, Ends
<1>7. Rings'
  BY <1>0, <1>3 DEF BioInv, Rings
<1>8. Calls'
  BY <1>0 DEF BioInv, Calls, Idle
<1> QED
  BY <1>3, <1>5, <1>6, <1>7, <1>8 DEF BioInv

(* An answer that moves nothing.                                           *)
LEMMA AnswerKeeps ==
  ASSUME BioInv, Calls', UNCHANGED <<rx, tx, rxEof, out>>, UNCHANGED bio,
         UNCHANGED kernel, UNCHANGED openssl
  PROVE  BioInv'
<1>1. Scalars'
  BY DEF BioInv, Scalars, kernel, openssl
<1>2. Memory'
  BY DEF BioInv, Memory, bio
<1>3. Rings'
  BY DEF BioInv, Rings, bio
<1>4. Inward'
  BY DEF BioInv, Inward, bio, kernel, openssl
<1>5. Outward'
  BY DEF BioInv, Outward, bio, openssl
<1>6. Ends'
  BY DEF BioInv, Ends, kernel, openssl
<1> QED
  BY <1>1, <1>2, <1>3, <1>4, <1>5, <1>6 DEF BioInv

(* What a call has counted is within what a result may say.                *)
LEMMA Counts ==
  ASSUME BioInv
  PROVE  call.fn # "none" => call.total \in 0..MaxIn + MaxOut
<1> SUFFICES ASSUME call.fn # "none" PROVE call.total \in 0..MaxIn + MaxOut
  OBVIOUS
<1>0. call \in [fn: {"none", "fill", "drain"}, total: Nat, base: 0..Cap] /\ fd = "open"
  BY DEF BioInv, Calls
<1>1. /\ call.fn \in {"fill", "drain"} /\ call.total \in Nat
      /\ call.base \in 0..Cap /\ Proper(rx) /\ Proper(tx)
  BY <1>0 DEF BioInv, Rings
<1>2. rx.count \in Nat /\ tx.count \in Nat /\ call.base \in Nat
  <2>1. rx.count \in 0..Cap
    BY <1>1, Segments
  <2>2. tx.count \in 0..Cap
    BY <1>1, Segments
  <2> QED
    BY <1>1, <2>1, <2>2, CapPositive
<1>3. Len(got) \in Nat /\ Len(out) \in Nat
  <2>1. Counted(got, 0) /\ Counted(out, 0)
    BY DEF BioInv, Inward, Outward
  <2> QED
    BY <2>1, Lengths
<1>4. MaxIn \in Nat /\ MaxOut \in Nat
  BY BoundsAssumption
<1>5. CASE call.fn = "fill"
  <2>1. rx.count = call.base + call.total
    BY <1>5 DEF BioInv, Calls
  <2>2. Len(got) + rx.count <= sent /\ sent \in 0..MaxIn
    BY <1>0 DEF BioInv, Inward, Scalars
  <2> QED
    BY <1>1, <1>2, <1>3, <1>4, <2>1, <2>2
<1>6. CASE call.fn = "drain"
  <2>1. call.total <= Len(out)
    BY <1>6 DEF BioInv, Calls
  <2>2. Len(out) + tx.count = put /\ put \in 0..MaxOut
    BY <1>0 DEF BioInv, Outward, Scalars
  <2> QED
    BY <1>1, <1>2, <1>3, <1>4, <2>1, <2>2
<1> QED
  BY <1>1, <1>5, <1>6

(* fill() begins, or answers at once.                                      *)
LEMMA FillStartKeeps ==
  ASSUME BioInv, FillStart PROVE BioInv'
<1>1. /\ call = Idle /\ UNCHANGED <<rx, tx, rxEof, out, inq, sent, fin, link, room>>
      /\ UNCHANGED bio /\ UNCHANGED openssl
  BY DEF FillStart, FillFrame, LuaRuns
<1>2. UNCHANGED kernel /\ fd' = fd
  BY <1>1 DEF kernel, bio
<1>3. 0 \in 0..MaxIn + MaxOut
  BY BoundsAssumption
<1>4. Calls'
  <2>1. ASSUME NEW tag \in Results, Answer("fill", tag) PROVE Calls'
    BY <1>1, <1>2, <1>3, <2>1 DEF Answer, BioInv, Calls, Idle
  <2>2. ASSUME fd = "open", SpaceSize(rx) > 0, ret' = ret,
               call' = [fn |-> "fill", total |-> 0, base |-> rx.count]
        PROVE  Calls'
    <3>1. Proper(rx)
      BY <2>2 DEF BioInv, Rings
    <3>2. rx.count \in 0..Cap /\ rx.count < Cap /\ rx.count + 0 = rx.count
      BY <2>2, <3>1, Segments, CapPositive
    <3> QED
      BY <1>1, <1>2, <2>2, <3>2 DEF BioInv, Calls
  <2> QED
    BY <2>1, <2>2 DEF FillStart, Results
<1> QED
  BY <1>1, <1>2, <1>4, AnswerKeeps

(* drain() begins, or answers at once.                                     *)
LEMMA DrainStartKeeps ==
  ASSUME BioInv, DrainStart PROVE BioInv'
<1>1. /\ call = Idle /\ UNCHANGED <<rx, tx, rxEof, out, inq, sent, fin, link, room>>
      /\ UNCHANGED bio /\ UNCHANGED openssl
  BY DEF DrainStart, DrainFrame, LuaRuns
<1>2. UNCHANGED kernel /\ fd' = fd
  BY <1>1 DEF kernel, bio
<1>3. 0 \in 0..MaxIn + MaxOut
  BY BoundsAssumption
<1>4. Calls'
  <2>1. ASSUME NEW tag \in Results, Answer("drain", tag) PROVE Calls'
    BY <1>1, <1>2, <1>3, <2>1 DEF Answer, BioInv, Calls, Idle
  <2>2. ASSUME fd = "open", ret' = ret,
               call' = [fn |-> "drain", total |-> 0, base |-> tx.count]
        PROVE  Calls'
    <3>1. Proper(tx)
      BY <2>2 DEF BioInv, Rings
    <3>2. tx.count \in 0..Cap /\ tx.count = tx.count + 0
      BY <3>1, Segments, CapPositive
    <3>3. Len(out) \in Nat
      BY Lengths DEF BioInv, Outward
    <3> QED
      BY <1>1, <1>2, <2>2, <3>2, <3>3 DEF BioInv, Calls
  <2> QED
    BY <2>1, <2>2 DEF DrainStart, Results
<1> QED
  BY <1>1, <1>2, <1>4, AnswerKeeps

(* A call that ends with what it has counted, or with nothing.             *)
LEMMA FinishCalls ==
  ASSUME BioInv, call.fn # "none", NEW tag \in Results, NEW n \in 0..MaxIn + MaxOut,
         Finish(tag, n)
  PROVE  Calls'
<1>1. call' = Idle /\ ret' = [fn |-> call.fn, tag |-> tag, n |-> n]
  BY DEF Finish
<1>2. call.fn \in {"fill", "drain"}
  BY DEF BioInv, Calls
<1>3. 0 \in 0..Cap
  BY CapPositive
<1> QED
  BY <1>1, <1>2, <1>3 DEF Calls, Idle

(* The steps of fill() that read nothing.                                  *)
LEMMA FillStopKeeps ==
  ASSUME BioInv, FillAgain \/ FillFatal PROVE BioInv'
<1>1. /\ call.fn = "fill" /\ UNCHANGED <<rx, tx, rxEof, out, inq, sent, fin, link, room>>
      /\ UNCHANGED bio /\ UNCHANGED openssl
  BY DEF FillAgain, FillFatal, FillFrame
<1>2. call.total \in 0..MaxIn + MaxOut /\ 0 \in 0..MaxIn + MaxOut
  BY <1>1, Counts, BoundsAssumption
<1>3. Calls'
  <2>1. Finish("again", 0) \/ Finish("ok", call.total) \/ Finish("error", 0)
    BY DEF FillAgain, FillFatal
  <2>2. "again" \in Results /\ "ok" \in Results /\ "error" \in Results
    BY DEF Results
  <2> QED
    BY <1>1, <1>2, <2>1, <2>2, FinishCalls
<1> QED
  BY <1>1, <1>3, AnswerKeeps DEF kernel

(* read() returned 0: there is room, so the peer is done.                  *)
LEMMA FillEofKeeps ==
  ASSUME BioInv, FillEof PROVE BioInv'
<1>1. /\ call.fn = "fill" /\ UNCHANGED <<rx, tx, out, inq, sent, fin, link, room>>
      /\ UNCHANGED bio /\ UNCHANGED openssl /\ rxEof' = TRUE
      /\ Finish("eof", call.total)
  BY DEF FillEof, FillFrame
<1>2. call.total \in 0..MaxIn + MaxOut
  BY <1>1, Counts
<1>3. Calls'
  BY <1>1, <1>2, FinishCalls DEF Results
<1>4. Scalars'
  BY <1>1 DEF BioInv, Scalars, openssl
<1>5. Memory'
  BY <1>1 DEF BioInv, Memory, bio
<1>6. Rings'
  BY <1>1 DEF BioInv, Rings, bio
<1>7. Inward'
  BY <1>1 DEF BioInv, Inward, bio, openssl
<1>8. Outward'
  BY <1>1 DEF BioInv, Outward, bio, openssl
<1>9. Ends'
  <2>1. Proper(rx) /\ rx.count < Cap
    BY <1>1 DEF BioInv, Calls, Rings
  <2>2. SpaceSize(rx) # 0
    BY <2>1, Segments, CapPositive
  <2>3. link = "up" => fin /\ inq = <<>>
    BY <2>2 DEF FillEof
  <2> QED
    BY <1>1, <2>3 DEF BioInv, Ends, openssl
<1> QED
  BY <1>3, <1>4, <1>5, <1>6, <1>7, <1>8, <1>9 DEF BioInv

(* A step that moves bytes from the kernel into rx, whatever the call.     *)
LEMMA InKeeps ==
  ASSUME BioInv, fd = "open", NEW n \in Nat \ {0}, n <= SpaceSize(rx), n <= Len(inq),
         rx' = CopyIn(rx, SubSeq(inq, 1, n)), inq' = SubSeq(inq, n + 1, Len(inq)),
         rxEof' = rxEof, FillFrame, Calls'
  PROVE  BioInv'
<1>1. /\ UNCHANGED <<tx, out, sent, fin, link, room>>
      /\ UNCHANGED <<fd, ptr, frees, ssl, closing, got, sslEof, put>>
  BY DEF FillFrame, bio, openssl
<1>2. Inward' /\ Proper(rx') /\ link = "up" /\ inq # <<>>
  BY <1>1, FillMoves
<1>3. Scalars' /\ Memory' /\ Outward'
  BY <1>1 DEF BioInv, Scalars, Memory, Outward
<1>4. Rings'
  BY <1>1, <1>2 DEF BioInv, Rings
<1>5. Ends'
  <2>1. ~rxEof
    BY <1>2 DEF BioInv, Ends
  <2> QED
    BY <1>1, <2>1 DEF BioInv, Ends
<1> QED
  BY <1>2, <1>3, <1>4, <1>5 DEF BioInv

(* A step that moves bytes from tx to the kernel, whatever the call.       *)
LEMMA OutKeeps ==
  ASSUME BioInv, fd = "open", NEW n \in Nat, n <= DataSize(tx), n <= room,
         out' = out \o SubSeq(DataRegion(tx), 1, n), tx' = RingConsume(tx, n),
         room' = room - n, DrainFrame, Calls'
  PROVE  BioInv'
<1>1. /\ UNCHANGED <<rx, rxEof, inq, sent, fin, link>>
      /\ UNCHANGED <<fd, ptr, frees, ssl, closing, got, sslEof, put>>
  BY DEF DrainFrame, bio, openssl
<1>2. Outward' /\ Proper(tx')
  BY <1>1, DrainMoves
<1>3. room' \in 0..SndBuf
  <2>1. room \in 0..SndBuf /\ SndBuf \in Nat
    BY BoundsAssumption DEF BioInv, Scalars
  <2> QED
    BY <2>1
<1>4. Scalars'
  BY <1>1, <1>3 DEF BioInv, Scalars
<1>5. Memory' /\ Inward' /\ Ends'
  BY <1>1 DEF BioInv, Memory, Inward, Ends
<1>6. Rings'
  BY <1>1, <1>2 DEF BioInv, Rings
<1> QED
  BY <1>2, <1>4, <1>5, <1>6 DEF BioInv

(* read() returned n bytes.                                                *)
LEMMA FillDataKeeps ==
  ASSUME BioInv, NEW n \in 1..Cap, FillData(n) PROVE BioInv'
<1>1. /\ call.fn = "fill" /\ fd = "open" /\ fd' = fd /\ got' = got
      /\ rx' = CopyIn(rx, SubSeq(inq, 1, n)) /\ inq' = SubSeq(inq, n + 1, Len(inq))
      /\ n <= SpaceSize(rx) /\ n <= Len(inq) /\ rxEof' = rxEof /\ FillFrame
      /\ FillGoesOn(rx', n) /\ UNCHANGED <<tx, out, sent, link>>
  BY DEF FillData, FillFrame, BioInv, Calls, bio, openssl
<1>2. n \in Nat \ {0}
  BY CapPositive
<1>3. Inward' /\ Proper(rx') /\ rx'.count = rx.count + n
  BY <1>1, <1>2, FillMoves
<1>4. /\ call \in [fn: {"none", "fill", "drain"}, total: Nat, base: 0..Cap]
      /\ rx.count = call.base + call.total
  BY <1>1 DEF BioInv, Calls
<1>5. PICK k \in Nat, b \in Nat : k = call.total /\ b = call.base
  BY <1>4, CapPositive
<1>6. rx'.count = b + (k + n) /\ k + n \in Nat
  BY <1>2, <1>3, <1>4, <1>5
<1>7. CASE SpaceSize(rx') > 0
  <2>1. call' = [call EXCEPT !.total = @ + n] /\ ret' = ret
    BY <1>1, <1>7 DEF FillGoesOn
  <2>2. /\ call'.fn = "fill" /\ call'.total = k + n /\ call'.base = b
        /\ call' \in [fn: {"none", "fill", "drain"}, total: Nat, base: 0..Cap]
    BY <1>1, <1>4, <1>5, <1>6, <2>1
  <2>3. rx'.count \in 0..Cap /\ (SpaceSize(rx') = 0 <=> rx'.count = Cap)
    BY <1>3, Segments
  <2>4. rx'.count < Cap
    BY <1>7, <2>3, CapPositive
  <2>5. Calls'
    BY <1>1, <1>6, <2>1, <2>2, <2>4 DEF BioInv, Calls
  <2> QED
    BY <1>1, <1>2, <2>5, InKeeps
<1>8. CASE ~(SpaceSize(rx') > 0)
  <2>1. Finish("ok", call.total + n)
    BY <1>1, <1>8 DEF FillGoesOn
  <2>2. Len(got) + rx'.count <= sent
    BY <1>1, <1>3 DEF Inward
  <2>3. Len(got) \in Nat /\ sent \in 0..MaxIn /\ MaxIn \in Nat /\ MaxOut \in Nat
    BY Lengths, BoundsAssumption DEF BioInv, Scalars, Inward
  <2>4. k + n \in 0..MaxIn + MaxOut
    BY <1>6, <2>2, <2>3
  <2>5. call.total + n \in 0..MaxIn + MaxOut
    BY <1>5, <2>4
  <2>6. Calls'
    BY <1>1, <2>1, <2>5, FinishCalls DEF Results
  <2> QED
    BY <1>1, <1>2, <2>6, InKeeps
<1> QED
  BY <1>7, <1>8

(* The steps of drain() that send nothing.                                 *)
LEMMA DrainStopKeeps ==
  ASSUME BioInv, DrainDone \/ DrainAgain \/ DrainFatal PROVE BioInv'
<1>1. /\ call.fn = "drain" /\ UNCHANGED <<rx, tx, rxEof, out, inq, sent, fin, link, room>>
      /\ UNCHANGED bio /\ UNCHANGED openssl
  BY DEF DrainDone, DrainAgain, DrainFatal, DrainFrame
<1>2. call.total \in 0..MaxIn + MaxOut /\ 0 \in 0..MaxIn + MaxOut
  BY <1>1, Counts, BoundsAssumption
<1>3. Calls'
  <2>1. Finish("ok", call.total) \/ Finish("again", call.total) \/ Finish("error", 0)
    BY DEF DrainDone, DrainAgain, DrainFatal
  <2>2. "again" \in Results /\ "ok" \in Results /\ "error" \in Results
    BY DEF Results
  <2> QED
    BY <1>1, <1>2, <2>1, <2>2, FinishCalls
<1> QED
  BY <1>1, <1>3, AnswerKeeps DEF kernel

(* send() took n bytes.                                                    *)
LEMMA DrainDataKeeps ==
  ASSUME BioInv, NEW n \in 1..Cap, DrainData(n) PROVE BioInv'
<1>1. /\ call.fn = "drain" /\ fd = "open" /\ fd' = fd /\ put' = put /\ rx' = rx
      /\ out' = out \o SubSeq(DataRegion(tx), 1, n) /\ tx' = RingConsume(tx, n)
      /\ n <= DataSize(tx) /\ n <= room /\ room' = room - n /\ DrainFrame
      /\ call' = [call EXCEPT !.total = @ + n] /\ ret' = ret
  BY DEF DrainData, DrainFrame, BioInv, Calls, bio, openssl
<1>2. n \in Nat
  BY CapPositive
<1>3. tx'.count = tx.count - n /\ Len(out') = Len(out) + n
  BY <1>1, <1>2, DrainMoves
<1>4. /\ call \in [fn: {"none", "fill", "drain"}, total: Nat, base: 0..Cap]
      /\ call.base = tx.count + call.total /\ call.total <= Len(out)
  BY <1>1 DEF BioInv, Calls
<1>5. tx.count \in Nat
  <2>1. Proper(tx)
    BY <1>1 DEF BioInv, Rings
  <2> QED
    BY <2>1, Segments, CapPositive
<1>6. Len(out) \in Nat
  BY Lengths DEF BioInv, Outward
<1>7. /\ call'.fn = "drain" /\ call'.total = call.total + n /\ call'.base = call.base
      /\ call' \in [fn: {"none", "fill", "drain"}, total: Nat, base: 0..Cap]
  <2>1. call.total + n \in Nat
    BY <1>2, <1>4
  <2>2. call' = [call EXCEPT !.total = call.total + n]
    BY <1>1
  <2> QED
    BY <1>1, <1>4, <2>1, <2>2
<1>8. call'.base = tx'.count + call'.total /\ call'.total <= Len(out')
  BY <1>2, <1>3, <1>4, <1>5, <1>6, <1>7
<1>9. Calls'
  BY <1>1, <1>7, <1>8 DEF BioInv, Calls
<1> QED
  BY <1>1, <1>2, <1>9, OutKeeps

(* commit(), refused or not.                                               *)
LEMMA CommitKeeps ==
  ASSUME BioInv, NEW n \in 1..Cap + 1, CommitLua(n) PROVE BioInv'
<1>1. /\ call = Idle /\ rxEof' = rxEof /\ FillFrame /\ fd' = fd /\ tx' = tx /\ out' = out
      /\ UNCHANGED <<sent, fin, link, room>> /\ UNCHANGED bio /\ UNCHANGED openssl
  BY DEF CommitLua, FillFrame, LuaRuns, bio
<1>2. n \in Nat \ {0} /\ 0 \in 0..MaxIn + MaxOut
  BY CapPositive, BoundsAssumption
<1>3. Calls'
  <2>1. call' = Idle /\ \E tag \in Results : ret' = [fn |-> "commit", tag |-> tag, n |-> 0]
    BY <1>1 DEF CommitLua, Answer, Results
  <2> QED
    BY <1>1, <1>2, <2>1 DEF BioInv, Calls, Idle
<1>4. CASE UNCHANGED <<rx, inq>>
  BY <1>1, <1>3, <1>4, AnswerKeeps DEF kernel
<1>5. CASE ~UNCHANGED <<rx, inq>>
  <2>1. /\ fd = "open" /\ n <= SpaceSize(rx) /\ n <= Len(inq)
        /\ rx' = CopyIn(rx, SubSeq(inq, 1, n)) /\ inq' = SubSeq(inq, n + 1, Len(inq))
    BY <1>5 DEF CommitLua, CommitOk
  <2> QED
    BY <1>1, <1>2, <1>3, <2>1, InKeeps
<1> QED
  BY <1>4, <1>5

(* consume(), refused or not.                                              *)
LEMMA ConsumeKeeps ==
  ASSUME BioInv, NEW n \in 1..Cap + 1, ConsumeLua(n) PROVE BioInv'
<1>1. /\ call = Idle /\ rxEof' = rxEof /\ DrainFrame /\ fd' = fd /\ rx' = rx
      /\ UNCHANGED <<inq, sent, fin, link>> /\ UNCHANGED bio /\ UNCHANGED openssl
  BY DEF ConsumeLua, DrainFrame, LuaRuns, bio
<1>2. n \in Nat /\ 0 \in 0..MaxIn + MaxOut
  BY CapPositive, BoundsAssumption
<1>3. Calls'
  <2>1. call' = Idle /\ \E tag \in Results : ret' = [fn |-> "consume", tag |-> tag, n |-> 0]
    BY <1>1 DEF ConsumeLua, Answer, Results
  <2> QED
    BY <1>1, <1>2, <2>1 DEF BioInv, Calls, Idle
<1>4. CASE UNCHANGED <<tx, out, room>>
  BY <1>1, <1>3, <1>4, AnswerKeeps DEF kernel
<1>5. CASE ~UNCHANGED <<tx, out, room>>
  <2>1. /\ fd = "open" /\ n <= DataSize(tx) /\ n <= room /\ room' = room - n
        /\ out' = out \o SubSeq(DataRegion(tx), 1, n) /\ tx' = RingConsume(tx, n)
    BY <1>5 DEF ConsumeLua, ConsumeOk
  <2> QED
    BY <1>1, <1>2, <1>3, <2>1, OutKeeps
<1> QED
  BY <1>4, <1>5

(* The kernel and the peer.                                                *)
LEMMA KernelKeeps ==
  ASSUME BioInv, PeerSend \/ PeerClose \/ Reset \/ PeerReceive PROVE BioInv'
<1>1. /\ UNCHANGED <<rx, tx, rxEof, out, fd, ptr, frees, ssl, closing, call, ret, got, sslEof, put>>
  BY DEF PeerSend, PeerClose, Reset, PeerReceive, KernelFrame, bio, lua, openssl
<1>2. Memory' /\ Rings' /\ Calls' /\ Outward'
  BY <1>1 DEF BioInv, Memory, Rings, Calls, Outward
<1>3. MaxIn \in Nat /\ SndBuf \in Nat /\ sent \in 0..MaxIn
  BY BoundsAssumption DEF BioInv, Scalars
<1>4. Scalars'
  <2>1. sent' \in 0..MaxIn
    BY <1>3 DEF PeerSend, PeerClose, Reset, PeerReceive
  <2>2. room' \in 0..SndBuf
    <3>1. SndBuf \in 0..SndBuf
      BY <1>3
    <3> QED
      BY <3>1 DEF BioInv, Scalars, PeerSend, PeerClose, Reset, PeerReceive
  <2>3. fin' \in BOOLEAN /\ link' \in {"up", "reset"}
    BY DEF BioInv, Scalars, PeerSend, PeerClose, Reset, PeerReceive
  <2> QED
    BY <1>1, <2>1, <2>2, <2>3 DEF BioInv, Scalars
<1>5. CASE PeerSend
  <2>1. /\ ~fin /\ link = "up" /\ sent' = sent + 1 /\ inq' = Append(inq, sent + 1)
        /\ fin' = fin /\ link' = link
    BY <1>5 DEF PeerSend
  <2>2. Ends'
    <3>1. ~rxEof /\ ~sslEof
      BY <2>1 DEF BioInv, Ends
    <3> QED
      BY <1>1, <3>1 DEF Ends
  <2>3. Inward'
    <3>1. CASE fd = "closed"
      BY <1>1, <2>1, <3>1 DEF BioInv, Inward
    <3>2. CASE fd # "closed"
      <4>1. PICK a \in Nat : a = Len(got)
        BY Lengths DEF BioInv, Inward
      <4>2. PICK c \in Nat : c = rx.count
        <5>1. CASE fd = "open"
          <6>1. Proper(rx)
            BY <5>1 DEF BioInv, Rings
          <6> QED
            BY <6>1, Segments, CapPositive
        <5>2. CASE fd # "open"
          BY <5>2, NoRingEmpty DEF BioInv, Rings
        <5> QED
          BY <5>1, <5>2
      <4>3. /\ Holds(rx, a) /\ a + c <= sent /\ Counted(inq, a + c)
            /\ a + c + Len(inq) = sent
        BY <2>1, <3>2, <4>1, <4>2 DEF BioInv, Inward
      <4>4. PICK k \in Nat : k = Len(inq)
        BY <4>3, Lengths
      <4>5. PICK q : q = Append(inq, sent + 1)
        OBVIOUS
      <4>6. inq \in Seq(Nat) /\ sent + 1 \in Nat /\ \A i \in 1..k : inq[i] = a + c + i
        BY <1>3, <4>3, <4>4 DEF Counted
      <4>7. q \in Seq(Nat) /\ Len(q) = k + 1 /\ (\A i \in 1..k : q[i] = inq[i]) /\ q[k + 1] = sent + 1
        BY <4>4, <4>5, <4>6
      <4>8. \A i \in 1..(k + 1) : q[i] = a + c + i
        <5> SUFFICES ASSUME NEW i \in 1..(k + 1) PROVE q[i] = a + c + i
          OBVIOUS
        <5>1. CASE i = k + 1
          BY <4>3, <4>4, <4>7, <5>1
        <5>2. CASE i # k + 1
          <6>1. i \in 1..k
            BY <5>2
          <6> QED
            BY <4>6, <4>7, <6>1
        <5> QED
          BY <5>1, <5>2
      <4>9. Counted(q, a + c) /\ a + c + Len(q) = sent + 1 /\ a + c <= sent + 1
        BY <1>3, <4>3, <4>4, <4>7, <4>8 DEF Counted
      <4> QED
        BY <1>1, <2>1, <4>1, <4>2, <4>3, <4>5, <4>9 DEF BioInv, Inward
    <3> QED
      BY <3>1, <3>2
  <2> QED
    BY <1>2, <1>4, <2>2, <2>3 DEF BioInv
<1>6. CASE PeerClose \/ Reset \/ PeerReceive
  <2>1. Inward' /\ Ends'
    BY <1>1, <1>6 DEF BioInv, Inward, Ends, PeerClose, Reset, PeerReceive
  <2> QED
    BY <1>2, <1>4, <2>1 DEF BioInv
<1> QED
  BY <1>5, <1>6

(* Every step keeps the invariant.                                         *)
LEMMA BioStep == BioInv /\ [Next]_vars => BioInv'
<1> SUFFICES ASSUME BioInv, [Next]_vars PROVE BioInv'
  OBVIOUS
<1>1. ASSUME NEW a \in Allocations, New(a) PROVE BioInv'
  BY <1>1, NewKeeps
<1>2. CASE Setup
  <2>1. CASE CleanupContext
    BY <2>1, CleanupKeeps
  <2>2. CASE ~CleanupContext
    BY <1>2, <2>2, SslKeeps DEF Setup
  <2> QED
    BY <2>1, <2>2
<1>3. CASE CleanupSsl
  <2>1. fd = "open"
    BY <1>3 DEF CleanupSsl, LuaRuns, BioInv, Memory
  <2> QED
    BY <1>3, <2>1, SslKeeps DEF CleanupSsl
<1>4. CASE CleanupContext \/ GcBio
  BY <1>4, CleanupKeeps, GcKeeps
<1>5. ASSUME NEW n \in 1..Cap, BioRead(n) \/ BioWrite(n) PROVE BioInv'
  BY <1>5, BioReadKeeps, BioWriteKeeps
<1>6. CASE FillStart \/ FillStep
  BY <1>6, FillStartKeeps, FillStopKeeps, FillEofKeeps, FillDataKeeps DEF FillStep
<1>7. CASE DrainStart \/ DrainStep
  BY <1>7, DrainStartKeeps, DrainStopKeeps, DrainDataKeeps DEF DrainStep
<1>8. ASSUME NEW n \in 1..Cap + 1, CommitLua(n) \/ ConsumeLua(n) PROVE BioInv'
  BY <1>8, CommitKeeps, ConsumeKeeps
<1>9. CASE PeerSend \/ PeerClose \/ Reset \/ PeerReceive
  BY <1>9, KernelKeeps
<1>10. CASE UNCHANGED vars
  <2>1. /\ UNCHANGED <<rx, tx, rxEof, out, call, ret>> /\ UNCHANGED bio
        /\ UNCHANGED kernel /\ UNCHANGED openssl /\ fd' = fd
    BY <1>10 DEF vars, bio, kernel, openssl
  <2>2. Calls'
    BY <2>1 DEF BioInv, Calls
  <2> QED
    BY <2>1, <2>2, AnswerKeeps
<1> QED
  BY <1>1, <1>2, <1>3, <1>4, <1>5, <1>6, <1>7, <1>8, <1>9, <1>10 DEF Next

-----------------------------------------------------------------------------
(* What the invariant says in the words of TlsBio.                         *)

(* A stream that counts from its first byte is what was sent.              *)
LEMMA AllOfIt ==
  ASSUME NEW s, Counted(s, 0) PROVE s = Positions(Len(s))
<1>1. PICK n \in Nat : n = Len(s)
  BY Lengths
<1>2. s \in Seq(Nat) /\ \A i \in 1..n : s[i] = i
  BY <1>1 DEF Counted
<1>3. DOMAIN s = 1..n /\ s = [i \in DOMAIN s |-> s[i]]
  BY <1>1, <1>2
<1>4. s = [i \in 1..n |-> i]
  BY <1>2, <1>3
<1> QED
  BY <1>1, <1>4 DEF Positions

(* The contents of a ring are its bytes, oldest first.                     *)
LEMMA ContentsCounted ==
  ASSUME NEW r, NEW a \in Nat, NEW c \in Nat, c = r.count,
         r.cap = Cap \/ c = 0, Holds(r, a)
  PROVE  \E s : s = RingContents(r) /\ Counted(s, a) /\ Len(s) = c
<1>1. PICK s : s = RingContents(r)
  OBVIOUS
<1>2. s = [i \in 1..c |-> r.mem[Wrap(r.cap, r.head + i - 1)]]
  BY <1>1 DEF RingContents
<1>3. \A i \in 1..c : s[i] = a + i
  <2> SUFFICES ASSUME NEW i \in 1..c PROVE s[i] = a + i
    OBVIOUS
  <2>1. r.cap = Cap
    OBVIOUS
  <2>2. r.mem[Wrap(Cap, r.head + i - 1)] = a + i
    BY DEF Holds
  <2> QED
    BY <1>2, <2>1, <2>2
<1>4. \A i \in 1..c : s[i] \in Nat
  BY <1>3
<1>5. s \in Seq(Nat) /\ Len(s) = c
  <2>1. s \in [1..c -> Nat]
    BY <1>2, <1>4
  <2> QED
    BY <2>1
<1> QED
  BY <1>1, <1>3, <1>5, Zenon DEF Counted

(* The positions say that ciphertext is intact.                            *)
LEMMA BioIntact == BioInv => CiphertextIntact
<1> SUFFICES ASSUME BioInv PROVE CiphertextIntact
  OBVIOUS
<1>1. PICK a \in Nat, b \in Nat : a = Len(got) /\ b = Len(out)
  <2>1. Counted(got, 0) /\ Counted(out, 0)
    BY DEF BioInv, Inward, Outward
  <2> QED
    BY <2>1, Lengths
<1>2. PICK c \in Nat, d \in Nat : /\ c = rx.count /\ (rx.cap = Cap \/ c = 0)
                                  /\ d = tx.count /\ (tx.cap = Cap \/ d = 0)
  <2>1. CASE fd = "open"
    <3>1. Proper(rx) /\ Proper(tx)
      BY <2>1 DEF BioInv, Rings
    <3>2. rx.count \in 0..Cap /\ rx.cap = Cap
      BY <3>1, Segments
    <3>3. tx.count \in 0..Cap /\ tx.cap = Cap
      BY <3>1, Segments
    <3> QED
      BY <3>2, <3>3, CapPositive
  <2>2. CASE fd # "open"
    BY <2>2, NoRingEmpty DEF BioInv, Rings
  <2> QED
    BY <2>1, <2>2
<1>3. Holds(rx, a) /\ Holds(tx, b)
  <2>1. CASE fd = "open"
    BY <1>1, <2>1 DEF BioInv, Inward, Outward
  <2>2. CASE fd # "open"
    BY <2>2, NoRingEmpty DEF BioInv, Rings, Holds
  <2> QED
    BY <2>1, <2>2
<1>4. PICK s : s = RingContents(rx) /\ Counted(s, a) /\ Len(s) = c
  BY <1>2, <1>3, ContentsCounted, Zenon
<1>5. PICK t : t = RingContents(tx) /\ Counted(t, b) /\ Len(t) = d
  <2>1. d = tx.count /\ (tx.cap = Cap \/ d = 0) /\ Holds(tx, b)
    BY <1>2, <1>3
  <2> QED
    BY <2>1, ContentsCounted, Zenon
<1>6. PICK in : in = got \o s /\ Counted(in, 0) /\ Len(in) = Len(got) + Len(s)
  <2>1. Counted(got, 0) /\ Counted(s, Len(got))
    BY <1>1, <1>4 DEF BioInv, Inward
  <2> QED
    BY <2>1, GoesOn, Zenon
<1>7. PICK on : on = out \o t /\ Counted(on, 0) /\ Len(on) = Len(out) + Len(t)
  <2>1. Counted(out, 0) /\ Counted(t, Len(out))
    BY <1>1, <1>5 DEF BioInv, Outward
  <2> QED
    BY <2>1, GoesOn, Zenon
<1>8. got \o RingContents(rx) = Positions(Len(got \o RingContents(rx)))
  BY <1>4, <1>6, AllOfIt
<1>9. ASSUME fd = "open", link = "up"
      PROVE  (got \o RingContents(rx)) \o inq = Positions(sent)
  <2>1. Counted(inq, Len(in)) /\ Len(in) + Len(inq) = sent
    BY <1>1, <1>2, <1>4, <1>6, <1>9 DEF BioInv, Inward
  <2>2. PICK all : all = in \o inq /\ Counted(all, 0) /\ Len(all) = Len(in) + Len(inq)
    BY <1>6, <2>1, GoesOn, Zenon
  <2> QED
    BY <1>4, <1>6, <2>1, <2>2, AllOfIt
<1>10. out = Positions(Len(out))
  <2>1. Counted(out, 0)
    BY DEF BioInv, Outward
  <2> QED
    BY <2>1, AllOfIt
<1>11. ASSUME fd = "open" PROVE out \o RingContents(tx) = Positions(put)
  <2>1. Len(on) = put
    BY <1>1, <1>2, <1>5, <1>7, <1>11 DEF BioInv, Outward
  <2> QED
    BY <1>5, <1>7, <2>1, AllOfIt
<1>12. ASSUME link = "up"
       PROVE  (rxEof => fin /\ inq = <<>>) /\ (sslEof => fin /\ got = Positions(sent))
  <2>1. Counted(got, 0)
    BY DEF BioInv, Inward
  <2>2. got = Positions(Len(got))
    BY <2>1, AllOfIt
  <2> QED
    BY <1>12, <2>2 DEF BioInv, Ends
<1> QED
  BY <1>8, <1>9, <1>10, <1>11, <1>12 DEF CiphertextIntact

(* What there is to free was freed at most once.                           *)
LEMMA BioSafe == BioInv => MemorySafe
<1> SUFFICES ASSUME BioInv PROVE MemorySafe
  OBVIOUS
<1>1. \A r \in Resource : frees[r] \in 0..1 /\ (frees[r] = 1 => r \notin ptr)
  BY DEF BioInv, Memory
<1>2. \A r \in Resource : frees[r] <= 1
  BY <1>1
<1>3. Freed => fd = "closed"
  <2>1. Resource # {}
    BY DEF Resource
  <2> QED
    BY <2>1 DEF Freed, BioInv, Memory
<1>4. fd = "closed" => /\ SpaceSize(rx) = 0 /\ DataSize(rx) = 0
                       /\ SpaceSize(tx) = 0 /\ DataSize(tx) = 0
  BY NoRingEmpty DEF BioInv, Rings
<1>5. ssl = "attached" /\ ~closing => fd = "open" /\ ptr = Resource
  BY DEF BioInv, Memory
<1> QED
  BY <1>1, <1>2, <1>3, <1>4, <1>5, Zenon DEF MemorySafe

(* The fields have their types.                                            *)
LEMMA BioTyped == BioInv => TypeOK
<1> SUFFICES ASSUME BioInv PROVE TypeOK
  OBVIOUS
<1>1. fd \in {"unborn", "open", "closed"} /\ ptr \subseteq Resource
      /\ ssl \in {"none", "attached", "freed"} /\ closing \in BOOLEAN
  BY DEF BioInv, Memory
<1>2. RingType(rx) /\ RingType(tx)
  BY DEF BioInv, Rings, RingType, Proper
<1>3. call \in [fn: {"none", "fill", "drain"}, total: 0..MaxIn + MaxOut, base: 0..Cap]
  <2>1. call \in [fn: {"none", "fill", "drain"}, total: Nat, base: 0..Cap]
    BY DEF BioInv, Calls
  <2>2. call.total \in 0..MaxIn + MaxOut
    <3>1. CASE call.fn = "none"
      <4>1. call.total = 0
        BY <3>1 DEF BioInv, Calls, Idle
      <4> QED
        BY <4>1, BoundsAssumption
    <3>2. CASE call.fn # "none"
      BY <3>2, Counts
    <3> QED
      BY <3>1, <3>2
  <2> QED
    BY <2>1, <2>2
<1>4. ret \in [fn: {"none", "fill", "drain", "commit", "consume"},
               tag: {"none", "ok", "again", "eof", "nobufs", "error", "einval"},
               n: 0..MaxIn + MaxOut]
  BY DEF BioInv, Calls, Results
<1>5. Scalars
  BY DEF BioInv
<1> QED
  BY <1>1, <1>2, <1>3, <1>4, <1>5 DEF TypeOK, Scalars

(* A call that ends says what it moved.                                    *)
LEMMA BioHonest ==
  BioInv /\ [Next]_vars =>
    [call # Idle /\ call' = Idle /\ ret'.tag # "error" =>
       IF call.fn = "fill"
       THEN /\ ret'.n = rx'.count - call.base
            /\ ret'.tag = "ok" => ret'.n > 0
            /\ ret'.tag = "again" => ret'.n = 0
            /\ ret'.tag = "eof" => rxEof'
       ELSE /\ ret'.n = call.base - tx'.count
            /\ ret'.tag = "ok" => tx'.count = 0
            /\ ret'.tag = "again" => tx'.count > 0 /\ room = 0]_vars
<1> SUFFICES ASSUME BioInv, [Next]_vars, call # Idle, call' = Idle, ret'.tag # "error"
             PROVE  IF call.fn = "fill"
                    THEN /\ ret'.n = rx'.count - call.base
                         /\ ret'.tag = "ok" => ret'.n > 0
                         /\ ret'.tag = "again" => ret'.n = 0
                         /\ ret'.tag = "eof" => rxEof'
                    ELSE /\ ret'.n = call.base - tx'.count
                         /\ ret'.tag = "ok" => tx'.count = 0
                         /\ ret'.tag = "again" => tx'.count > 0 /\ room = 0
  OBVIOUS
<1>1. /\ call.fn \in {"fill", "drain"} /\ fd = "open" /\ Proper(rx) /\ Proper(tx)
      /\ call \in [fn: {"none", "fill", "drain"}, total: Nat, base: 0..Cap]
  BY DEF BioInv, Calls, Rings
<1>2. PICK k \in Nat, b \in Nat : k = call.total /\ b = call.base
  BY <1>1, CapPositive
<1>3. FillStep \/ DrainStep
  <2>1. call' # call
    OBVIOUS
  <2>2. ~UNCHANGED lua /\ ~UNCHANGED vars
    BY <2>1 DEF lua, vars
  <2>3. \A a \in Allocations : ~New(a)
    BY <2>2 DEF New
  <2>4. ~Setup /\ ~CleanupSsl /\ ~CleanupContext /\ ~GcBio
    BY <2>2 DEF Setup, CleanupSsl, CleanupContext, GcBio
  <2>5. \A n \in 1..Cap : ~BioRead(n) /\ ~BioWrite(n)
    BY <2>2 DEF BioRead, BioWrite
  <2>6. ~FillStart /\ ~DrainStart /\ \A n \in 1..Cap + 1 : ~CommitLua(n) /\ ~ConsumeLua(n)
    BY DEF FillStart, DrainStart, CommitLua, ConsumeLua, LuaRuns
  <2>7. ~PeerSend /\ ~PeerClose /\ ~Reset /\ ~PeerReceive
    BY <2>2 DEF PeerSend, PeerClose, Reset, PeerReceive, KernelFrame
  <2> QED
    BY <2>2, <2>3, <2>4, <2>5, <2>6, <2>7 DEF Next
<1>4. CASE FillStep
  <2>1. call.fn = "fill"
    BY <1>4 DEF FillStep, FillAgain, FillFatal, FillEof, FillData
  <2>2. rx.count = b + k
    BY <1>2, <2>1 DEF BioInv, Calls
  <2>3. ~FillFatal
    BY DEF FillFatal, Finish
  <2>4. CASE FillAgain
    <3>1. rx' = rx /\ IF k = 0 THEN ret'.n = 0 /\ ret'.tag = "again"
                               ELSE ret'.n = k /\ ret'.tag = "ok"
      BY <1>2, <2>4 DEF FillAgain, Finish
    <3>2. ret'.n = k /\ (ret'.tag = "ok" => k # 0) /\ (ret'.tag = "again" => k = 0)
          /\ ret'.tag # "eof"
      BY <3>1
    <3>3. ret'.n = rx'.count - b
      BY <2>2, <3>1, <3>2
    <3>4. ret'.tag = "ok" => ret'.n > 0
      BY <3>2
    <3> QED
      BY <1>2, <2>1, <3>2, <3>3, <3>4
  <2>5. CASE FillEof
    <3>1. rx' = rx /\ rxEof' = TRUE /\ ret'.n = k /\ ret'.tag = "eof"
      BY <1>2, <2>5 DEF FillEof, Finish
    <3>2. ret'.n = rx'.count - b
      BY <2>2, <3>1
    <3> QED
      BY <1>2, <2>1, <3>1, <3>2
  <2>6. ASSUME NEW n \in 1..Cap, FillData(n)
        PROVE  ret'.n = rx'.count - b /\ ret'.tag = "ok" /\ ret'.n > 0
    <3>1. /\ rx' = CopyIn(rx, SubSeq(inq, 1, n)) /\ inq' = SubSeq(inq, n + 1, Len(inq))
          /\ n <= SpaceSize(rx) /\ n <= Len(inq) /\ FillGoesOn(rx', n)
          /\ UNCHANGED <<fd, got, sent, link>>
      BY <2>6 DEF FillData, FillFrame, bio, openssl
    <3>2. n \in Nat \ {0}
      BY CapPositive
    <3>3. rx'.count = rx.count + n
      BY <1>1, <3>1, <3>2, FillMoves
    <3>4. ret'.n = k + n /\ ret'.tag = "ok"
      <4>1. call'.fn # "fill"
        BY DEF Idle
      <4>2. ~(call' = [call EXCEPT !.total = @ + n])
        BY <1>1, <2>1, <4>1
      <4>3. Finish("ok", call.total + n)
        BY <3>1, <4>2 DEF FillGoesOn
      <4> QED
        BY <1>2, <4>3 DEF Finish
    <3> QED
      BY <2>2, <3>2, <3>3, <3>4
  <2> QED
    BY <1>2, <1>4, <2>1, <2>3, <2>4, <2>5, <2>6 DEF FillStep
<1>5. CASE DrainStep
  <2>1. call.fn = "drain"
    BY <1>5 DEF DrainStep, DrainDone, DrainAgain, DrainFatal, DrainData
  <2>2. b = tx.count + k
    BY <1>2, <2>1 DEF BioInv, Calls
  <2>3. ~DrainFatal
    BY DEF DrainFatal, Finish
  <2>4. \A n \in 1..Cap : ~DrainData(n)
    <3> SUFFICES ASSUME NEW n \in 1..Cap, DrainData(n) PROVE FALSE
      OBVIOUS
    <3>1. call' = [call EXCEPT !.total = @ + n] /\ call'.fn = "none"
      BY DEF DrainData, Idle
    <3> QED
      BY <1>1, <2>1, <3>1
  <2>5. tx.count \in 0..Cap /\ (DataSize(tx) = 0 <=> tx.count = 0) /\ DataSize(tx) \in 0..Cap
    BY <1>1, Segments
  <2>6. CASE DrainDone
    <3>1. tx' = tx /\ ret'.n = k /\ ret'.tag = "ok" /\ DataSize(tx) = 0
      BY <1>2, <2>6 DEF DrainDone, Finish
    <3>2. ret'.n = b - tx'.count /\ tx'.count = 0
      BY <2>2, <2>5, <3>1
    <3> QED
      BY <1>2, <2>1, <3>1, <3>2
  <2>7. CASE DrainAgain
    <3>1. tx' = tx /\ ret'.n = k /\ ret'.tag = "again" /\ DataSize(tx) > 0 /\ room = 0
      BY <1>2, <2>7 DEF DrainAgain, Finish
    <3>2. ret'.n = b - tx'.count /\ tx'.count > 0
      BY <2>2, <2>5, <3>1, CapPositive
    <3> QED
      BY <1>2, <2>1, <3>1, <3>2
  <2> QED
    BY <1>5, <2>3, <2>4, <2>6, <2>7 DEF DrainStep
<1> QED
  BY <1>3, <1>4, <1>5

-----------------------------------------------------------------------------
(* The invariant of every reachable state.                                 *)
THEOREM BioInvariant == Spec => []BioInv
BY BioInit, BioStep, PTL DEF Spec

(* TypeOK of TlsBio.                                                       *)
THEOREM BioTypes == Spec => []TypeOK
BY BioInvariant, BioTyped, PTL

(* CiphertextIntact: nothing is lost, repeated or reordered in the rings,  *)
(* and end of file is never early.                                         *)
THEOREM CiphertextArrives == Spec => []CiphertextIntact
BY BioInvariant, BioIntact, PTL

(* MemorySafe: everything is freed once, and OpenSSL is attached only to   *)
(* what is not, until the Lua state is closed.                             *)
THEOREM MemoryFreedOnce == Spec => []MemorySafe
BY BioInvariant, BioSafe, PTL

(* AnswersTrue: fill and drain say what they moved.                        *)
THEOREM AnswersAreTrue == Spec => AnswersTrue
BY BioInvariant, BioHonest, PTL DEF Spec, AnswersTrue
=============================================================================
