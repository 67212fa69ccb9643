------------------------------- MODULE ZRing -------------------------------
(***************************************************************************)
(* The byte ring of zring.h as operators on one record.  A ring is         *)
(* [cap, head, tail, count, mem]: head is the read position, tail the      *)
(* write position, count the number of valid bytes.  A caller gets a       *)
(* pointer to one contiguous segment, copies, and then commits or consumes *)
(* what it copied; the second half of a wrapped ring needs a second call.  *)
(***************************************************************************)
EXTENDS Naturals, Sequences

(* zring_init: an empty ring over the caller's memory.  tls_bio_free also  *)
(* uses it, with no memory and capacity 0, so that a ring whose memory is  *)
(* gone has nothing to read and no room to write.                          *)
RingInit(cap, mem) ==
  [cap |-> cap, head |-> 0, tail |-> 0, count |-> 0, mem |-> mem]

Least(a, b) == IF a < b THEN a ELSE b

(* Bytes that can be written, or read, before the end of the memory. *)
SpaceSize(r) == Least(r.cap - r.count, r.cap - r.tail)
DataSize(r)  == Least(r.count, r.cap - r.head)

(* The segment zring_space hands out for writing. *)
SpaceRegion(r) == [i \in 1..SpaceSize(r) |-> r.mem[r.tail + i - 1]]

(* The segment zring_data hands out for reading. *)
DataRegion(r) == [i \in 1..DataSize(r) |-> r.mem[r.head + i - 1]]

(* memcpy of one byte into the writable segment, at offset i. *)
StoreAt(r, i, b) == [r EXCEPT !.mem[r.tail + i] = b]

(* Mutant of Wrap: the position one past the end is taken for a slot. *)
WrapLate(cap, i) == IF i > cap THEN i - cap ELSE i

(* A position one past the end, or beyond, comes back to the start. *)
Wrap(cap, i) == IF i >= cap THEN i - cap ELSE i

(* Mutant of CommitOk: bounded by the free bytes, not by the segment. *)
CommitOkTotal(r, n) == n <= r.cap - r.count

(* The two movers return -1, and leave the ring alone, when n exceeds the  *)
(* contiguous segment.                                                     *)
CommitOk(r, n)  == n <= SpaceSize(r)
ConsumeOk(r, n) == n <= DataSize(r)

RingCommit(r, n) ==
  IF CommitOk(r, n)
  THEN [r EXCEPT !.count = @ + n, !.tail = Wrap(r.cap, @ + n)]
  ELSE r

(* Mutants of RingConsume: an emptied ring is rewound on the read side     *)
(* only; the count is forgotten.                                           *)
RingConsumeRewind(r, n) ==
  IF ConsumeOk(r, n)
  THEN [r EXCEPT !.count = @ - n, !.head = IF r.count = n THEN 0 ELSE Wrap(r.cap, @ + n)]
  ELSE r

RingConsumeUncounted(r, n) ==
  IF ConsumeOk(r, n) THEN [r EXCEPT !.head = Wrap(r.cap, @ + n)] ELSE r

RingConsume(r, n) ==
  IF ConsumeOk(r, n)
  THEN [r EXCEPT !.count = @ - n, !.head = Wrap(r.cap, @ + n)]
  ELSE r

(* The stored bytes, oldest first. *)
RingContents(r) == [i \in 1..r.count |-> r.mem[Wrap(r.cap, r.head + i - 1)]]
=============================================================================
