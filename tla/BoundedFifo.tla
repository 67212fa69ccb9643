---------------------------- MODULE BoundedFifo ----------------------------
(***************************************************************************)
(* What a byte ring promises its two users, with no indices and no wrap:   *)
(* a queue of at most Capacity bytes and, behind it, the region the        *)
(* producer is currently allowed to write to.  The producer stores bytes   *)
(* into the region and later commits a prefix of it; the consumer takes    *)
(* bytes from the front.  The two interleave freely: the consumer may run  *)
(* between the moment the producer asked for the region and the commit.    *)
(***************************************************************************)
EXTENDS Naturals, Sequences

CONSTANTS Byte, Capacity

VARIABLES queue, region

fifoVars == <<queue, region>>

Chunk == UNION {[1..n -> Byte] : n \in 0..Capacity}

(* There is room to write exactly when the queue is not full. *)
RoomIffNotFull(q, r) == r = <<>> <=> Len(q) = Capacity

FifoInit ==
  /\ queue = <<>>
  /\ region \in [1..Capacity -> Byte]

(* The producer writes into its region: nothing is visible to the consumer. *)
Store ==
  /\ queue' = queue
  /\ \E r \in Chunk : Len(r) = Len(region) /\ region' = r

(* The first n bytes of the region become the newest bytes of the queue. *)
Put(n) ==
  /\ n \in 0..Len(region)
  /\ Len(queue) + n <= Capacity
  /\ queue' = queue \o SubSeq(region, 1, n)
  /\ region' \in Chunk
  /\ RoomIffNotFull(queue', region')

(* The oldest n bytes leave.  What the producer already stored stays where *)
(* it is: its region may grow, but never moves and never loses a byte.     *)
Take(n) ==
  /\ n \in 0..Len(queue)
  /\ queue' = SubSeq(queue, n + 1, Len(queue))
  /\ region' \in Chunk
  /\ Len(region') >= Len(region)
  /\ SubSeq(region', 1, Len(region)) = region
  /\ RoomIffNotFull(queue', region')

FifoNext ==
  \/ Store
  \/ \E n \in 0..Capacity : Put(n) \/ Take(n)

FifoSpec == FifoInit /\ [][FifoNext]_fifoVars
=============================================================================
