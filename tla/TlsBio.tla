------------------------------- MODULE TlsBio -------------------------------
(***************************************************************************)
(* tls_bio.c: the two ciphertext rings between one OpenSSL connection and  *)
(* the socket.  OpenSSL reads from rx and writes to tx (the BIO            *)
(* callbacks); Lua calls fill() and drain() move bytes between the rings   *)
(* and the kernel, one system call at a time, while the peer keeps sending *)
(* and receiving.  A byte is its position in its stream, so a stream that  *)
(* is not 1, 2, 3... has lost, repeated or reordered ciphertext.           *)
(***************************************************************************)
EXTENDS ZRing, FiniteSets

CONSTANTS
  Cap,      \* capacity of each ring
  MaxIn,    \* bytes the peer may send
  MaxOut,   \* bytes OpenSSL may produce
  SndBuf    \* bytes the kernel takes before send() would block

ASSUME BoundsAssumption ==
  /\ Cap \in Nat \ {0} /\ SndBuf \in Nat \ {0}
  /\ MaxIn \in Nat /\ MaxOut \in Nat

VARIABLES
  fd,       \* "unborn", "open", or "closed": the C field is -1
  ptr,      \* the resources the tls_bio_t still points to
  frees,    \* how often each resource was given back
  ssl,      \* the owner's SSL: "none", "attached" to the BIOs, "freed"
  closing,  \* the Lua state is being closed: only finalizers run
  rx, tx,   \* the rings
  rxEof,    \* the flag rx_eof
  call,     \* the Lua call in progress: its name, progress, and what the
            \* ring held when it started
  ret,      \* the answer of the last finished Lua call
  got,      \* ciphertext OpenSSL has read
  sslEof,   \* OpenSSL has been told end of file
  put,      \* number of bytes OpenSSL has written to tx
  out,      \* bytes handed to the kernel
  inq,      \* bytes in the kernel's receive queue
  sent,     \* number of bytes the peer has sent
  fin,      \* the peer has closed its side
  link,     \* "up" or "reset"
  room      \* free space in the kernel's send buffer

bio == <<fd, ptr, frees, ssl, closing>>
lua == <<call, ret>>
kernel == <<inq, sent, fin, link, room>>
openssl == <<got, sslEof, put>>
vars == <<fd, ptr, frees, ssl, closing, rx, tx, rxEof, call, ret, got, sslEof,
          put, out, inq, sent, fin, link, room>>

Resource == {"rx_method", "tx_method", "rx_mem", "tx_mem"}

(* The allocations tls_bio_new may end with: both methods are attempted,   *)
(* then the memory of rx, then that of tx, each only if all before it      *)
(* succeeded.                                                              *)
Allocations ==
  (SUBSET {"rx_method", "tx_method"})
    \union {{"rx_method", "tx_method", "rx_mem"}, Resource}

Positions(n) == [i \in 1..n |-> i]
Blank == [i \in 0..Cap - 1 |-> 0]
NoRing == RingInit(0, [i \in {} |-> 0])
Idle == [fn |-> "none", total |-> 0, base |-> 0]

Init ==
  /\ fd = "unborn" /\ ptr = {} /\ frees = [r \in Resource |-> 0] /\ ssl = "none"
  /\ closing = FALSE
  /\ rx = NoRing /\ tx = NoRing /\ rxEof = FALSE
  /\ call = Idle /\ ret = [fn |-> "none", tag |-> "none", n |-> 0]
  /\ got = <<>> /\ sslEof = FALSE /\ put = 0 /\ out = <<>>
  /\ inq = <<>> /\ sent = 0 /\ fin = FALSE /\ link = "up" /\ room = SndBuf

-----------------------------------------------------------------------------
(* Creation and disposal.                                                  *)

(* Mutant of FreeBio: the pointers are not set to NULL. *)
FreeBioDangling(p) ==
  /\ frees' = [r \in Resource |-> IF r \in p THEN frees[r] + 1 ELSE frees[r]]
  /\ ptr' = ptr
  /\ rx' = NoRing /\ tx' = NoRing
  /\ fd' = "closed"

(* A program may call: nothing is in progress and the state is not closed. *)
LuaRuns == call = Idle /\ ~closing

(* tls_bio_free on the pointers p: each is freed and set to NULL, the      *)
(* rings lose their memory, fd becomes -1.                                 *)
FreeBio(p) ==
  /\ frees' = [r \in Resource |-> IF r \in p THEN frees[r] + 1 ELSE frees[r]]
  /\ ptr' = {}
  /\ rx' = NoRing /\ tx' = NoRing
  /\ fd' = "closed"

(* tls_bio_new, called by accept and connect of a TLS context: if any      *)
(* allocation fails everything allocated so far is released.               *)
New(a) ==
  /\ fd = "unborn"
  /\ \/ /\ a = Resource
        /\ fd' = "open" /\ ptr' = a /\ frees' = frees
        /\ rx' = RingInit(Cap, Blank) /\ tx' = RingInit(Cap, Blank)
     \/ a # Resource /\ FreeBio(a)
  /\ UNCHANGED <<ssl, closing, rxEof, out>> /\ UNCHANGED lua /\ UNCHANGED kernel
  /\ UNCHANGED openssl

(* cleanup_context, by close() or as the finalizer of the context: the SSL *)
(* goes first, and its BIOs with it; then the methods and the memory.      *)
CleanupContext ==
  /\ fd # "unborn" /\ call = Idle
  /\ ssl' = "freed"
  /\ FreeBio(ptr)
  /\ UNCHANGED <<closing, rxEof, out>> /\ UNCHANGED lua /\ UNCHANGED kernel
  /\ UNCHANGED openssl

(* tls_bio_setup: both BIOs are attached to the SSL, or the first one is   *)
(* freed again and the caller disposes of the context.                     *)
Setup ==
  /\ fd = "open" /\ ssl = "none"
  /\ \/ /\ ssl' = "attached"
        /\ UNCHANGED <<fd, ptr, frees, closing, rx, tx, rxEof, out>> /\ UNCHANGED lua
        /\ UNCHANGED kernel /\ UNCHANGED openssl
     \/ CleanupContext

(* A completed TLS shutdown frees the SSL alone: the BIO stays for the     *)
(* last drain of close_notify.                                             *)
CleanupSsl ==
  /\ ssl = "attached" /\ LuaRuns
  /\ ssl' = "freed"
  /\ UNCHANGED <<fd, ptr, frees, closing, rx, tx, rxEof, out>> /\ UNCHANGED lua
  /\ UNCHANGED kernel /\ UNCHANGED openssl

(* __gc of an open BIO.  The registry keeps it from the collector until    *)
(* cleanup_context, unless memory ran out before it was entered there and  *)
(* then the SSL never got it.  What remains is the closing of the Lua      *)
(* state: finalizers run newest first, and the BIO is newer than the       *)
(* context that made it, so the context's (CleanupContext) comes next.     *)
GcBio ==
  /\ fd = "open" /\ call = Idle
  /\ FreeBio(ptr)
  /\ closing' = (ssl # "none")
  /\ UNCHANGED <<ssl, rxEof, out>> /\ UNCHANGED lua /\ UNCHANGED kernel
  /\ UNCHANGED openssl

-----------------------------------------------------------------------------
(* The BIO callbacks.                                                      *)

(* memcpy of s into the write segment of r, then commit. *)
CopyIn(r, s) ==
  RingCommit([r EXCEPT !.mem = [i \in DOMAIN r.mem |->
                IF i - r.tail \in 0..Len(s) - 1 /\ i >= r.tail
                THEN s[i - r.tail + 1] ELSE r.mem[i]]], Len(s))

(* Mutant of BioRead: consumes what was asked for, which the ring refuses  *)
(* when it had less to give.                                               *)
BioReadAsked(len) ==
  /\ ssl = "attached" /\ LuaRuns
  /\ DataSize(rx) > 0
  /\ got' = got \o SubSeq(DataRegion(rx), 1, Least(len, DataSize(rx)))
  /\ rx' = RingConsume(rx, len)
  /\ UNCHANGED <<tx, rxEof, sslEof, put, out>> /\ UNCHANGED bio /\ UNCHANGED lua
  /\ UNCHANGED kernel

(* bio_rx_read: an empty ring is end of file only if the peer's end of     *)
(* file was read, otherwise a retry.                                       *)
BioRead(len) ==
  /\ ssl = "attached" /\ LuaRuns
  /\ \/ /\ DataSize(rx) > 0
        /\ LET n == Least(len, DataSize(rx)) IN
             /\ got' = got \o SubSeq(DataRegion(rx), 1, n)
             /\ rx' = RingConsume(rx, n)
        /\ sslEof' = sslEof
     \/ /\ DataSize(rx) = 0
        /\ sslEof' = (sslEof \/ rxEof)
        /\ UNCHANGED <<rx, got>>
  /\ UNCHANGED <<tx, rxEof, put, out>> /\ UNCHANGED bio /\ UNCHANGED lua
  /\ UNCHANGED kernel

(* bio_tx_write: as much as fits into one segment, retry when full. *)
BioWrite(len) ==
  /\ ssl = "attached" /\ LuaRuns
  /\ put + len <= MaxOut
  /\ SpaceSize(tx) > 0
  /\ LET n == Least(len, SpaceSize(tx)) IN
       /\ tx' = CopyIn(tx, [i \in 1..n |-> put + i])
       /\ put' = put + n
  /\ UNCHANGED <<rx, rxEof, got, sslEof, out>> /\ UNCHANGED bio /\ UNCHANGED lua
  /\ UNCHANGED kernel

-----------------------------------------------------------------------------
(* The Lua calls.  fill and drain are loops over one system call each: the *)
(* call starts, makes steps between which the kernel and the peer move,    *)
(* and finishes with an answer.                                            *)

Finish(tag, n) ==
  /\ call' = Idle
  /\ ret' = [fn |-> call.fn, tag |-> tag, n |-> n]

Answer(fn, tag) ==
  /\ call' = call
  /\ ret' = [fn |-> fn, tag |-> tag, n |-> 0]

(* What every step of fill leaves alone. *)
FillFrame ==
  UNCHANGED <<tx, out, sent, fin, link, room>> /\ UNCHANGED bio /\ UNCHANGED openssl

FillStart ==
  /\ fd # "unborn" /\ LuaRuns
  /\ \/ fd = "closed" /\ Answer("fill", "einval")
     \/ fd = "open" /\ rxEof /\ Answer("fill", "eof")
     \/ fd = "open" /\ ~rxEof /\ SpaceSize(rx) = 0 /\ Answer("fill", "nobufs")
     \/ /\ fd = "open" /\ ~rxEof /\ SpaceSize(rx) > 0
        /\ call' = [fn |-> "fill", total |-> 0, base |-> rx.count]
        /\ ret' = ret
  /\ UNCHANGED <<rx, rxEof, inq>> /\ FillFrame

(* Mutant of FillAgain: would block is reported although bytes came in. *)
FillAgainAlways ==
  /\ call.fn = "fill"
  /\ inq = <<>> /\ ~fin /\ link = "up"
  /\ Finish("again", 0)
  /\ UNCHANGED <<rx, rxEof, inq>> /\ FillFrame

(* read() found nothing: an answer of "again" makes the caller wait for    *)
(* the socket, so it is only given when this call read nothing at all.     *)
FillAgain ==
  /\ call.fn = "fill"
  /\ inq = <<>> /\ ~fin /\ link = "up"
  /\ IF call.total = 0 THEN Finish("again", 0) ELSE Finish("ok", call.total)
  /\ UNCHANGED <<rx, rxEof, inq>> /\ FillFrame

(* read() failed: what this call read before stays in the ring. *)
FillFatal ==
  /\ call.fn = "fill"
  /\ link = "reset"
  /\ Finish("error", 0)
  /\ UNCHANGED <<rx, rxEof, inq>> /\ FillFrame

(* read() returned 0: no more bytes will come, or there was no room to     *)
(* read into.  The flag is raised for the calls to come; what this call    *)
(* read before is reported along with the end of file.                     *)
FillEof ==
  /\ call.fn = "fill"
  /\ SpaceSize(rx) = 0 \/ (inq = <<>> /\ (fin \/ link = "reset"))
  /\ rxEof' = TRUE
  /\ Finish("eof", call.total)
  /\ UNCHANGED <<rx, inq>> /\ FillFrame

(* After n more bytes the loop goes on only while the ring has room. *)
FillGoesOn(r, n) ==
  IF SpaceSize(r) > 0
  THEN call' = [call EXCEPT !.total = @ + n] /\ ret' = ret
  ELSE Finish("ok", call.total + n)

(* read() returned n bytes into the write segment. *)
FillData(n) ==
  /\ call.fn = "fill"
  /\ n <= SpaceSize(rx) /\ n <= Len(inq)
  /\ rx' = CopyIn(rx, SubSeq(inq, 1, n))
  /\ inq' = SubSeq(inq, n + 1, Len(inq))
  /\ FillGoesOn(rx', n)
  /\ rxEof' = rxEof
  /\ FillFrame

DrainFrame ==
  UNCHANGED <<rx, rxEof, inq, sent, fin, link>> /\ UNCHANGED bio /\ UNCHANGED openssl

DrainStart ==
  /\ fd # "unborn" /\ LuaRuns
  /\ \/ fd = "closed" /\ Answer("drain", "einval")
     \/ /\ fd = "open"
        /\ call' = [fn |-> "drain", total |-> 0, base |-> tx.count]
        /\ ret' = ret
  /\ UNCHANGED <<tx, out, room>> /\ DrainFrame

DrainDone ==
  /\ call.fn = "drain"
  /\ DataSize(tx) = 0
  /\ Finish("ok", call.total)
  /\ UNCHANGED <<tx, out, room>> /\ DrainFrame

(* Mutant of DrainAgain: tries again at once. *)
DrainAgainSpin ==
  /\ call.fn = "drain"
  /\ DataSize(tx) > 0 /\ room = 0 /\ link = "up"
  /\ UNCHANGED <<call, ret, tx, out, room>> /\ DrainFrame

(* send() would block, or accepted nothing. *)
DrainAgain ==
  /\ call.fn = "drain"
  /\ DataSize(tx) > 0 /\ room = 0 /\ link = "up"
  /\ Finish("again", call.total)
  /\ UNCHANGED <<tx, out, room>> /\ DrainFrame

(* send() failed: the count of what this call sent before is not reported. *)
DrainFatal ==
  /\ call.fn = "drain"
  /\ DataSize(tx) > 0 /\ link = "reset"
  /\ Finish("error", 0)
  /\ UNCHANGED <<tx, out, room>> /\ DrainFrame

DrainData(n) ==
  /\ call.fn = "drain"
  /\ link = "up" /\ n <= DataSize(tx) /\ n <= room
  /\ out' = out \o SubSeq(DataRegion(tx), 1, n)
  /\ tx' = RingConsume(tx, n)
  /\ room' = room - n
  /\ call' = [call EXCEPT !.total = @ + n]
  /\ ret' = ret
  /\ DrainFrame

(* space() and commit(n): the caller reads n bytes itself into the segment *)
(* space() returned.  commit refuses a freed BIO and an n out of range.    *)
CommitLua(n) ==
  /\ fd # "unborn" /\ LuaRuns
  /\ \/ fd = "closed" /\ Answer("commit", "einval") /\ UNCHANGED <<rx, inq>>
     \/ fd = "open" /\ ~CommitOk(rx, n) /\ Answer("commit", "error")
        /\ UNCHANGED <<rx, inq>>
     \/ /\ fd = "open" /\ CommitOk(rx, n) /\ n <= Len(inq)
        /\ rx' = CopyIn(rx, SubSeq(inq, 1, n))
        /\ inq' = SubSeq(inq, n + 1, Len(inq))
        /\ Answer("commit", "ok")
  /\ UNCHANGED rxEof /\ FillFrame

(* peek() and consume(n): the caller writes n bytes of the segment itself. *)
ConsumeLua(n) ==
  /\ fd # "unborn" /\ LuaRuns
  /\ \/ fd = "closed" /\ Answer("consume", "einval") /\ UNCHANGED <<tx, out, room>>
     \/ fd = "open" /\ ~ConsumeOk(tx, n) /\ Answer("consume", "error")
        /\ UNCHANGED <<tx, out, room>>
     \/ /\ fd = "open" /\ ConsumeOk(tx, n) /\ n <= room
        /\ out' = out \o SubSeq(DataRegion(tx), 1, n)
        /\ tx' = RingConsume(tx, n)
        /\ room' = room - n
        /\ Answer("consume", "ok")
  /\ DrainFrame

-----------------------------------------------------------------------------
(* The kernel and the peer.                                                *)

KernelFrame ==
  /\ UNCHANGED <<rx, tx, rxEof, out>> /\ UNCHANGED bio /\ UNCHANGED lua
  /\ UNCHANGED openssl

PeerSend ==
  /\ ~fin /\ link = "up" /\ sent < MaxIn
  /\ sent' = sent + 1 /\ inq' = Append(inq, sent + 1)
  /\ UNCHANGED <<fin, link, room>> /\ KernelFrame

PeerClose ==
  /\ ~fin /\ link = "up"
  /\ fin' = TRUE
  /\ UNCHANGED <<inq, sent, link, room>> /\ KernelFrame

(* A reset throws away what was not read yet. *)
Reset ==
  /\ link = "up" /\ fd = "open"
  /\ link' = "reset" /\ inq' = <<>>
  /\ UNCHANGED <<sent, fin, room>> /\ KernelFrame

PeerReceive ==
  /\ link = "up" /\ room < SndBuf
  /\ room' = SndBuf
  /\ UNCHANGED <<inq, sent, fin, link>> /\ KernelFrame

FillStep ==
  \/ FillAgain \/ FillFatal \/ FillEof
  \/ \E n \in 1..Cap : FillData(n)

DrainStep ==
  \/ DrainDone \/ DrainAgain \/ DrainFatal
  \/ \E n \in 1..Cap : DrainData(n)

Next ==
  \/ \E a \in Allocations : New(a)
  \/ Setup \/ CleanupSsl \/ CleanupContext \/ GcBio
  \/ \E n \in 1..Cap : BioRead(n) \/ BioWrite(n)
  \/ FillStart \/ FillStep
  \/ DrainStart \/ DrainStep
  \/ \E n \in 1..Cap + 1 : CommitLua(n) \/ ConsumeLua(n)
  \/ PeerSend \/ PeerClose \/ Reset \/ PeerReceive

(* A call in progress is running C code: it takes its next step. *)
Spec == Init /\ [][Next]_vars /\ WF_vars(FillStep) /\ WF_vars(DrainStep)

-----------------------------------------------------------------------------
RingType(r) ==
  \/ r = NoRing
  \/ r \in [cap: {Cap}, head: 0..Cap - 1, tail: 0..Cap - 1, count: 0..Cap,
           mem: [0..Cap - 1 -> Nat]]

TypeOK ==
  /\ fd \in {"unborn", "open", "closed"} /\ ptr \subseteq Resource
  /\ ssl \in {"none", "attached", "freed"} /\ closing \in BOOLEAN
  /\ RingType(rx) /\ RingType(tx)
  /\ call \in [fn: {"none", "fill", "drain"}, total: 0..MaxIn + MaxOut, base: 0..Cap]
  /\ ret \in [fn: {"none", "fill", "drain", "commit", "consume"},
              tag: {"none", "ok", "again", "eof", "nobufs", "error", "einval"},
              n: 0..MaxIn + MaxOut]
  /\ rxEof \in BOOLEAN /\ sslEof \in BOOLEAN /\ fin \in BOOLEAN
  /\ link \in {"up", "reset"} /\ room \in 0..SndBuf
  /\ put \in 0..MaxOut /\ sent \in 0..MaxIn

(* Ciphertext is neither lost, repeated nor reordered on its way through   *)
(* the rings, whatever the sizes of the reads and writes and wherever the  *)
(* rings wrap: what OpenSSL read, what waits in rx and what waits in the   *)
(* kernel are together what the peer sent; what the kernel took and what   *)
(* waits in tx are together what OpenSSL wrote.  And end of file is never  *)
(* reported early: not to Lua because a ring happened to be full, and not  *)
(* to OpenSSL while bytes of the peer still wait in the ring (a            *)
(* close_notify would be missed).                                          *)
CiphertextIntact ==
  LET in == got \o RingContents(rx)
  IN  /\ in = Positions(Len(in))
      /\ fd = "open" /\ link = "up" => in \o inq = Positions(sent)
      /\ out = Positions(Len(out))
      /\ fd = "open" => out \o RingContents(tx) = Positions(put)
      /\ link = "up" => /\ rxEof => fin /\ inq = <<>>
                        /\ sslEof => fin /\ got = Positions(sent)

(* Every resource is given back at most once, on every path of creation,   *)
(* disposal and finalization; a freed BIO hands out no segment of its      *)
(* rings; and until the Lua state is closed OpenSSL's BIOs never point at  *)
(* freed rings and methods (FreedThroughLiveMethods is about the closing). *)
Freed == fd # "unborn" /\ ptr = {}

MemorySafe ==
  /\ \A r \in Resource : frees[r] <= 1 /\ (frees[r] = 1 => r \notin ptr)
  /\ Freed => /\ fd = "closed"
              /\ \A r \in {rx, tx} : SpaceSize(r) = 0 /\ DataSize(r) = 0
  /\ ssl = "attached" /\ ~closing => fd = "open" /\ ptr = Resource

(* SSL_free calls the methods of the BIOs it frees, so they must still     *)
(* exist then, at the end of the Lua state too: this is what a BIO that    *)
(* stays "reachable while the context is alive" (tls_bio.h) is for.        *)
FreedThroughLiveMethods ==
  [][ssl = "attached" /\ ssl' = "freed" =>
       {"rx_method", "tx_method"} \subseteq ptr]_vars

(* A finished call tells the truth about the bytes it moved.  "again" from *)
(* fill makes the caller wait for the socket, so nothing may have been     *)
(* read; "ok" from fill means progress; "ok" from drain means tx is empty, *)
(* which the handshake and the close rely on.                              *)
AnswersTrue ==
  [][call # Idle /\ call' = Idle /\ ret'.tag # "error" =>
       IF call.fn = "fill"
       THEN /\ ret'.n = rx'.count - call.base
            /\ ret'.tag = "ok" => ret'.n > 0
            /\ ret'.tag = "again" => ret'.n = 0
            /\ ret'.tag = "eof" => rxEof'
       ELSE /\ ret'.n = call.base - tx'.count
            /\ ret'.tag = "ok" => tx'.count = 0
            /\ ret'.tag = "again" => tx'.count > 0 /\ room = 0]_vars

(* fill and drain end: a full ring, a full socket buffer or a peer that    *)
(* sends forever does not keep the loop going.                             *)
CallsFinish == call # Idle ~> call = Idle
=============================================================================
