------------------------------ MODULE RingSpec ------------------------------
(***************************************************************************)
(* One ring, a producer and a consumer that take turns in any order.  The  *)
(* producer holds the pointer of zring_space across turns (the Lua API of  *)
(* tls_bio.c splits space() from commit() and peek() from consume()).      *)
(***************************************************************************)
EXTENDS ZRing

CONSTANTS Byte, RingCap

ASSUME RingCapAssumption == RingCap \in Nat \ {0}
ASSUME ByteAssumption == Byte # {}

VARIABLE rb

Slot == 0..RingCap - 1

RingTypeOK ==
  rb \in [cap: {RingCap}, head: Slot, tail: Slot, count: 0..RingCap, mem: [Slot -> Byte]]

(* The memory a ring starts with holds whatever was there. *)
RbInit == \E m \in [Slot -> Byte] : rb = RingInit(RingCap, m)

Store(i, b) ==
  /\ i < SpaceSize(rb)
  /\ rb' = StoreAt(rb, i, b)

Commit(n) == rb' = RingCommit(rb, n)

Consume(n) == rb' = RingConsume(rb, n)

(* Callers may ask for more than the segment: the calls refuse. *)
Request == 0..RingCap + 1

RbNext ==
  \/ \E i \in Slot, b \in Byte : Store(i, b)
  \/ \E n \in Request : Commit(n)
  \/ \E n \in Request : Consume(n)

RbSpec == RbInit /\ [][RbNext]_rb

-----------------------------------------------------------------------------
(* zring.h documents `tail == (head + count) % cap`: the write position is *)
(* where the data ends, also when data or a mover's step ends exactly at   *)
(* the end of the memory.                                                  *)
TailFollowsData == rb.tail = (rb.head + rb.count) % rb.cap

(* The offsets stay in the memory and agree with each other. *)
RingSound == RingTypeOK /\ TailFollowsData

(* The two size functions answer 0 only for a full, respectively an empty  *)
(* ring (tls_bio.c reads a 0 as "ring full" and "fully drained"), and what *)
(* they answer stays inside the memory.                                    *)
SegmentsHonest ==
  /\ SpaceSize(rb) = 0 <=> rb.count = RingCap
  /\ DataSize(rb) = 0 <=> rb.count = 0
  /\ rb.tail + SpaceSize(rb) <= RingCap
  /\ rb.head + DataSize(rb) <= RingCap

(* Whoever reads the contents segment by segment sees each byte once, in   *)
(* order: after the first segment is consumed the second one is the rest.  *)
SegmentsCoverContents ==
  LET rest == RingConsume(rb, DataSize(rb))
  IN  RingContents(rb) = DataRegion(rb) \o DataRegion(rest)

(* The two segments are what the callers take them for. *)
SegmentsExact == SegmentsHonest /\ SegmentsCoverContents

(* The ring is a bounded first-in first-out queue with a stable write      *)
(* region: the detailed specification implements BoundedFifo.              *)
Fifo == INSTANCE BoundedFifo
          WITH Capacity <- RingCap,
               queue <- RingContents(rb),
               region <- SpaceRegion(rb)

RefinesFifo == Fifo!FifoSpec
=============================================================================
