------------------------------ MODULE TlsSocket ------------------------------
(***************************************************************************)
(* Two TLS sockets (lib/tls.lua over tls_context.c) that talk to each      *)
(* other.  Each call of handshake(), read(), write() or close() is a loop: *)
(* ask OpenSSL, and when it wants to read or write, move ciphertext        *)
(* between the BIO's buffers and the socket, waiting for the socket when   *)
(* it would block, until done or until the deadline.                       *)
(*                                                                         *)
(* OpenSSL is modelled by what it does to the buffers: a handshake is a    *)
(* list of messages to write and to read, a record of application data is  *)
(* two pieces that may be written and read apart, and close_notify is one. *)
(***************************************************************************)
EXTENDS Naturals, Sequences, SequencesExt

CONSTANTS
  Cap,        \* capacity of a BIO's buffers
  WireCap,    \* what the kernels take of one direction
  MaxUnits    \* records of application data each side may send

ASSUME SocketAssumption ==
  Cap \in Nat \ {0} /\ WireCap \in Nat \ {0} /\ MaxUnits \in Nat

Peer == {"client", "server"}
Other(p) == IF p = "client" THEN "server" ELSE "client"

VARIABLES
  hs,          \* handshake steps OpenSSL has left: "w" a message, "t" a
               \* session ticket to write, "r" a message to read
  estab,       \* ctx->handshake_cb is NULL
  wpend,       \* pieces of a record that OpenSSL has not written yet
  alert,       \* our close_notify: "none", "due" or "sent"
  notified,    \* the peer's close_notify was read
  broken,      \* OpenSSL failed
  tx, rx, rxEof,
  wire,        \* wire[p]: on the way from p
  closed,      \* the native socket is closed
  pc,          \* the call in progress: where it is, what follows the drain,
               \* and the rest of the string that write() has to send
  handshaked,  \* the field self.handshaked
  acked,       \* records write() reported as sent
  got,         \* records read() returned
  ret          \* the result of the last call

openssl == <<hs, estab, wpend, alert, notified, broken>>
bio == <<tx, rx, rxEof>>
net == <<wire, closed>>
lua == <<pc, handshaked, acked, got, ret>>
vars == <<hs, estab, wpend, alert, notified, broken, tx, rx, rxEof, wire, closed,
          pc, handshaked, acked, got, ret>>

(* The messages of a handshake of TLS 1.2 and of TLS 1.3.  A flight may be *)
(* longer than the buffers.                                                *)
Flights ==
  {[client |-> <<"w", "r", "r", "r", "w", "r">>, server |-> <<"r", "w", "w", "w", "r", "w">>],
   [client |-> <<"w", "r", "r", "r", "w">>,      server |-> <<"r", "w", "w", "w", "r", "t">>]}

Handshaking == <<"h", 0>>
Ticket == <<"t", 0>>
Notify == <<"c", 0>>
Record(k) == <<<<"d", k>>, <<"e", k>>>>

Idle == [op |-> "none", at |-> "none", then |-> "none", str |-> <<>>]

Init ==
  /\ hs \in Flights
  /\ estab = [p \in Peer |-> FALSE] /\ wpend = [p \in Peer |-> <<>>]
  /\ alert = [p \in Peer |-> "none"]
  /\ notified = [p \in Peer |-> FALSE] /\ broken = [p \in Peer |-> FALSE]
  /\ tx = [p \in Peer |-> <<>>] /\ rx = tx /\ rxEof = [p \in Peer |-> FALSE]
  /\ wire = [p \in Peer |-> <<>>] /\ closed = [p \in Peer |-> FALSE]
  /\ pc = [p \in Peer |-> Idle] /\ handshaked = [p \in Peer |-> FALSE]
  /\ acked = [p \in Peer |-> 0] /\ got = [p \in Peer |-> <<>>]
  /\ ret = [p \in Peer |-> "none"]

-----------------------------------------------------------------------------
(* Where a call goes.                                                      *)

Goto(p, at) == pc' = [pc EXCEPT ![p].at = at]

(* Drain tx, then go on at `then'. *)
DrainThen(p, then) == pc' = [pc EXCEPT ![p].at = "drain", ![p].then = then]

(* The call returns r; a close() disposes of everything on any result. *)
Exit(p, r) ==
  /\ pc' = [pc EXCEPT ![p] = IF @.op = "close" THEN [@ EXCEPT !.at = "dispose"] ELSE Idle]
  /\ ret' = [ret EXCEPT ![p] = r]

(* Mutant of WantRead: waits for the peer without sending what it waits    *)
(* for.                                                                    *)
WantReadOnly(p) == Goto(p, "fill")

(* poll_wait *)
WantRead(p) == DrainThen(p, "fill")
WantWrite(p) == DrainThen(p, "loop")

In(p, op) == pc[p].at = "ssl" /\ pc[p].op = op /\ (op # "close" => handshaked[p])
InHandshake(p) == pc[p].at = "ssl" /\ pc[p].op # "close" /\ ~handshaked[p]

(* Mutant of Room: one piece too many. *)
RoomPlus(p) == Len(tx[p]) <= Cap

(* bio_tx_write finds room. *)
Room(p) == Len(tx[p]) < Cap
Write(p, piece) == tx' = [tx EXCEPT ![p] = Append(@, piece)]
Consume(p) == rx' = [rx EXCEPT ![p] = Tail(@)]

-----------------------------------------------------------------------------
(* The program calls.  After an error it can only close().                 *)

(* A write that timed out is continued with what was not reported sent.    *)
Unsent(p, n) == [i \in 1..n |-> acked[p] + i]

Call(p, op, str) ==
  /\ pc[p] = Idle /\ ~closed[p]
  /\ broken[p] => op = "close"
  /\ op = "handshake" => ~handshaked[p]
  /\ pc' = [pc EXCEPT ![p] = [op |-> op, at |-> "loop", then |-> "none", str |-> str]]
  /\ ret' = [ret EXCEPT ![p] = "none"]
  /\ UNCHANGED <<handshaked, acked, got>> /\ UNCHANGED openssl /\ UNCHANGED bio
  /\ UNCHANGED net

Enter(p) ==
  /\ pc[p].at = "loop"
  /\ Goto(p, "ssl")
  /\ UNCHANGED <<handshaked, acked, got, ret>> /\ UNCHANGED openssl /\ UNCHANGED bio
  /\ UNCHANGED net

(* The deadline is looked at before each drain and fill, when a wait       *)
(* returns, and by read() and write() before each call of OpenSSL.         *)
Deadline(p) ==
  /\ \/ pc[p].at \in {"drain", "fill"}
     \/ pc[p].at = "loop" /\ pc[p].op \in {"read", "write"} /\ handshaked[p]
  /\ Exit(p, "timeout")
  /\ UNCHANGED <<handshaked, acked, got>> /\ UNCHANGED openssl /\ UNCHANGED bio
  /\ UNCHANGED net

-----------------------------------------------------------------------------
(* handshake_lua.                                                          *)

HandshakeFrame == UNCHANGED <<wpend, alert, notified, rxEof, acked, got>> /\ UNCHANGED net

HandshakeWrite(p) ==
  /\ InHandshake(p) /\ hs[p] # <<>> /\ Head(hs[p]) \in {"w", "t"}
  /\ \/ /\ Room(p)
        /\ Write(p, IF Head(hs[p]) = "w" THEN Handshaking ELSE Ticket)
        /\ hs' = [hs EXCEPT ![p] = Tail(@)]
        /\ pc' = pc
     \/ ~Room(p) /\ WantWrite(p) /\ UNCHANGED <<tx, hs>>
  /\ UNCHANGED <<estab, broken, rx, handshaked, ret>> /\ HandshakeFrame

HandshakeRead(p) ==
  /\ InHandshake(p) /\ hs[p] # <<>> /\ Head(hs[p]) = "r"
  /\ \/ /\ rx[p] # <<>> /\ Consume(p)
        /\ hs' = [hs EXCEPT ![p] = Tail(@)]
        /\ UNCHANGED <<pc, ret, broken>>
     \/ /\ rx[p] = <<>> /\ ~rxEof[p] /\ WantRead(p)
        /\ UNCHANGED <<rx, hs, ret, broken>>
     \/ /\ rx[p] = <<>> /\ rxEof[p]
        /\ broken' = [broken EXCEPT ![p] = TRUE]
        /\ Exit(p, "error")
        /\ UNCHANGED <<rx, hs>>
  /\ UNCHANGED <<estab, tx, handshaked>> /\ HandshakeFrame

(* Mutants of HandshakeDone: handshaked is set before the last flight is   *)
(* sent, or without sending it.                                            *)
HandshakeDoneEarly(p) ==
  /\ InHandshake(p) /\ hs[p] = <<>>
  /\ estab' = [estab EXCEPT ![p] = TRUE]
  /\ handshaked' = [handshaked EXCEPT ![p] = TRUE]
  /\ DrainThen(p, "flushed")
  /\ UNCHANGED <<hs, broken, tx, rx, ret>> /\ HandshakeFrame

HandshakeDoneUndrained(p) ==
  /\ InHandshake(p) /\ hs[p] = <<>>
  /\ estab' = [estab EXCEPT ![p] = TRUE]
  /\ handshaked' = [handshaked EXCEPT ![p] = TRUE]
  /\ IF pc[p].op = "handshake" THEN Exit(p, "ok") ELSE Goto(p, "loop") /\ ret' = ret
  /\ UNCHANGED <<hs, broken, tx, rx>> /\ HandshakeFrame

(* OpenSSL is done, now or in an earlier call that timed out: the last     *)
(* flight has to reach the socket before handshaked is set.                *)
HandshakeDone(p) ==
  /\ InHandshake(p) /\ hs[p] = <<>>
  /\ estab' = [estab EXCEPT ![p] = TRUE]
  /\ DrainThen(p, "flushed")
  /\ UNCHANGED <<hs, broken, tx, rx, handshaked, ret>> /\ HandshakeFrame

-----------------------------------------------------------------------------
(* write_lua.  OpenSSL accepts partial writes: one record at a time.       *)

WriteFrame ==
  UNCHANGED <<hs, estab, alert, notified, broken, rx, rxEof, handshaked, got, ret>>
    /\ UNCHANGED net

WriteStart(p) ==
  /\ In(p, "write") /\ wpend[p] = <<>>
  /\ wpend' = [wpend EXCEPT ![p] = Record(Head(pc[p].str))]
  /\ UNCHANGED <<tx, pc, acked>> /\ WriteFrame

(* Mutant of Sent: the string is not shortened by what was sent. *)
SentKept(p) ==
  [pc[p] EXCEPT !.at = "drain",
                !.then = IF Len(pc[p].str) = 1 THEN "done" ELSE "loop"]

(* One more record is sent: the call is done after a last drain, or goes   *)
(* on with the rest of the string.                                         *)
Sent(p) ==
  [pc[p] EXCEPT !.at = "drain",
                !.then = IF Len(pc[p].str) = 1 THEN "done" ELSE "loop",
                !.str = Tail(@)]

WritePiece(p) ==
  /\ In(p, "write") /\ wpend[p] # <<>> /\ Room(p)
  /\ Write(p, Head(wpend[p]))
  /\ wpend' = [wpend EXCEPT ![p] = Tail(@)]
  /\ IF Len(wpend[p]) = 1
     THEN acked' = [acked EXCEPT ![p] = @ + 1] /\ pc' = [pc EXCEPT ![p] = Sent(p)]
     ELSE UNCHANGED <<acked, pc>>
  /\ WriteFrame

WriteFull(p) ==
  /\ In(p, "write") /\ wpend[p] # <<>> /\ ~Room(p)
  /\ WantWrite(p)
  /\ UNCHANGED <<wpend, tx, acked>> /\ WriteFrame

-----------------------------------------------------------------------------
(* read_lua.                                                               *)

ReadFrame ==
  UNCHANGED <<hs, estab, wpend, alert, tx, rxEof, handshaked, acked>> /\ UNCHANGED net

(* A ticket or the first piece of a record is not enough to return. *)
ReadPiece(p) ==
  /\ In(p, "read") /\ ~notified[p] /\ rx[p] # <<>>
  /\ Consume(p)
  /\ LET piece == Head(rx[p]) IN
       \/ piece[1] \in {"t", "d"} /\ UNCHANGED <<notified, got, pc, ret>>
       \/ /\ piece[1] = "e" /\ got' = [got EXCEPT ![p] = Append(@, piece[2])]
          /\ Exit(p, "ok") /\ notified' = notified
       \/ /\ piece[1] = "c" /\ notified' = [notified EXCEPT ![p] = TRUE]
          /\ UNCHANGED <<got, pc, ret>>
  /\ broken' = broken /\ ReadFrame

ReadEnd(p) ==
  /\ In(p, "read") /\ notified[p]
  /\ Exit(p, "eof")
  /\ UNCHANGED <<notified, broken, rx, got>> /\ ReadFrame

(* Mutant of ReadEmpty: any end of the stream is taken for a clean one. *)
ReadEmptyClean(p) ==
  /\ In(p, "read") /\ ~notified[p] /\ rx[p] = <<>>
  /\ \/ ~rxEof[p] /\ WantRead(p) /\ UNCHANGED <<broken, ret>>
     \/ rxEof[p] /\ broken' = broken /\ Exit(p, "eof")
  /\ UNCHANGED <<notified, rx, got>> /\ ReadFrame

(* An end of file without close_notify is an error, not the end. *)
ReadEmpty(p) ==
  /\ In(p, "read") /\ ~notified[p] /\ rx[p] = <<>>
  /\ \/ ~rxEof[p] /\ WantRead(p) /\ UNCHANGED <<broken, ret>>
     \/ rxEof[p] /\ broken' = [broken EXCEPT ![p] = TRUE] /\ Exit(p, "error")
  /\ UNCHANGED <<notified, rx, got>> /\ ReadFrame

-----------------------------------------------------------------------------
(* shutdown_lua.                                                           *)

ShutdownFrame ==
  UNCHANGED <<hs, estab, wpend, rxEof, handshaked, acked, got>> /\ UNCHANGED net

(* Nothing to shut down before the handshake is complete. *)
ShutdownNothing(p) ==
  /\ In(p, "close") /\ ~estab[p] /\ ~broken[p]
  /\ DrainThen(p, "done")
  /\ UNCHANGED <<alert, notified, broken, tx, rx, ret>> /\ ShutdownFrame

(* OpenSSL failed before, or a record is half written and no alert can be. *)
ShutdownFails(p) ==
  /\ In(p, "close")
  /\ broken[p] \/ (estab[p] /\ wpend[p] # <<>>)
  /\ Exit(p, "error")
  /\ UNCHANGED <<alert, notified, broken, tx, rx>> /\ ShutdownFrame

InShutdown(p) == In(p, "close") /\ estab[p] /\ ~broken[p] /\ wpend[p] = <<>>

(* Our close_notify goes to tx; it is complete if the peer's has come.     *)
ShutdownSend(p) ==
  /\ InShutdown(p) /\ alert[p] # "sent"
  /\ \/ /\ Room(p) /\ Write(p, Notify)
        /\ alert' = [alert EXCEPT ![p] = "sent"]
        /\ IF notified[p] THEN DrainThen(p, "done") ELSE WantWrite(p)
     \/ /\ ~Room(p)
        /\ alert' = [alert EXCEPT ![p] = "due"]
        /\ WantWrite(p) /\ tx' = tx
  /\ UNCHANGED <<notified, broken, rx, ret>> /\ ShutdownFrame

(* Then the peer's is waited for.  Application data that still comes is    *)
(* thrown away, or is an error, as OpenSSL sees fit.                       *)
ShutdownPiece(p) ==
  /\ InShutdown(p) /\ alert[p] = "sent" /\ ~notified[p] /\ rx[p] # <<>>
  /\ Consume(p)
  /\ \/ /\ Head(rx[p])[1] = "c"
        /\ notified' = [notified EXCEPT ![p] = TRUE]
        /\ DrainThen(p, "done") /\ UNCHANGED <<broken, ret>>
     \/ Head(rx[p])[1] # "c" /\ UNCHANGED <<notified, broken, pc, ret>>
     \/ /\ Head(rx[p])[1] \in {"d", "e"}
        /\ broken' = [broken EXCEPT ![p] = TRUE]
        /\ Exit(p, "error") /\ notified' = notified
  /\ UNCHANGED <<alert, tx>> /\ ShutdownFrame

ShutdownEmpty(p) ==
  /\ InShutdown(p) /\ alert[p] = "sent" /\ ~notified[p] /\ rx[p] = <<>>
  /\ \/ /\ ~rxEof[p] /\ broken' = broken /\ ret' = ret
        /\ IF tx[p] # <<>> THEN WantWrite(p) ELSE WantRead(p)
     \/ rxEof[p] /\ broken' = [broken EXCEPT ![p] = TRUE] /\ Exit(p, "error")
  /\ UNCHANGED <<alert, notified, tx, rx>> /\ ShutdownFrame

(* tls:close() and the native close().  A close with data unread resets    *)
(* the connection, which may cost the peer what is on the way to it.       *)
Dispose(p) ==
  /\ pc[p].at = "dispose"
  /\ closed' = [closed EXCEPT ![p] = TRUE]
  /\ wire' \in {wire} \union
       (IF wire[Other(p)] # <<>> THEN {[wire EXCEPT ![p] = <<>>]} ELSE {})
  /\ pc' = [pc EXCEPT ![p] = Idle]
  /\ tx' = [tx EXCEPT ![p] = <<>>] /\ rx' = [rx EXCEPT ![p] = <<>>]
  /\ UNCHANGED <<rxEof, handshaked, acked, got, ret>> /\ UNCHANGED openssl

-----------------------------------------------------------------------------
(* bio_drain and bio_fill.                                                 *)

Smaller(a, b) == IF a < b THEN a ELSE b

(* tx is empty: the call goes on. *)
Drained(p) ==
  /\ pc[p].at = "drain" /\ tx[p] = <<>>
  /\ \/ pc[p].then \in {"fill", "loop"} /\ Goto(p, pc[p].then) /\ UNCHANGED <<handshaked, ret>>
     \/ pc[p].then = "done" /\ Exit(p, "ok") /\ handshaked' = handshaked
     \/ /\ pc[p].then = "flushed"
        /\ handshaked' = [handshaked EXCEPT ![p] = TRUE]
        /\ IF pc[p].op = "handshake" THEN Exit(p, "ok")
                                     ELSE Goto(p, "loop") /\ ret' = ret
  /\ UNCHANGED <<acked, got>> /\ UNCHANGED openssl /\ UNCHANGED bio /\ UNCHANGED net

(* The socket is writable and takes a part. *)
DrainSome(p) ==
  /\ pc[p].at = "drain" /\ tx[p] # <<>>
  /\ ~closed[Other(p)] /\ Len(wire[p]) < WireCap
  /\ LET n == Smaller(Len(tx[p]), WireCap - Len(wire[p])) IN
       /\ wire' = [wire EXCEPT ![p] = @ \o SubSeq(tx[p], 1, n)]
       /\ tx' = [tx EXCEPT ![p] = SubSeq(@, n + 1, Len(@))]
  /\ UNCHANGED <<rx, rxEof, closed>> /\ UNCHANGED lua /\ UNCHANGED openssl

(* The peer's socket is closed: the kernel takes the bytes for nothing, or *)
(* reports the reset, and what was on the way may be lost.                 *)
DrainReset(p) ==
  /\ pc[p].at = "drain" /\ tx[p] # <<>> /\ closed[Other(p)]
  /\ wire' \in {wire, [wire EXCEPT ![Other(p)] = <<>>]}
  /\ \/ tx' = [tx EXCEPT ![p] = <<>>] /\ UNCHANGED <<pc, ret>>
     \/ Exit(p, "error") /\ tx' = tx
  /\ UNCHANGED <<rx, rxEof, closed, handshaked, acked, got>> /\ UNCHANGED openssl

Fill(p) ==
  /\ pc[p].at = "fill"
  /\ LET q == Other(p)
         n == Smaller(Len(wire[q]), Cap - Len(rx[p]))
     IN  \/ /\ wire[q] # <<>>
            /\ rx' = [rx EXCEPT ![p] = @ \o SubSeq(wire[q], 1, n)]
            /\ wire' = [wire EXCEPT ![q] = SubSeq(@, n + 1, Len(@))]
            /\ rxEof' = rxEof
         \/ /\ wire[q] = <<>> /\ closed[q]
            /\ rxEof' = [rxEof EXCEPT ![p] = TRUE]
            /\ UNCHANGED <<rx, wire>>
  /\ Goto(p, "loop")
  /\ UNCHANGED <<tx, closed, handshaked, acked, got, ret>> /\ UNCHANGED openssl

Step(p) ==
  \/ Enter(p)
  \/ HandshakeWrite(p) \/ HandshakeRead(p) \/ HandshakeDone(p)
  \/ WriteStart(p) \/ WritePiece(p) \/ WriteFull(p)
  \/ ReadPiece(p) \/ ReadEnd(p) \/ ReadEmpty(p)
  \/ ShutdownNothing(p) \/ ShutdownFails(p) \/ ShutdownSend(p)
  \/ ShutdownPiece(p) \/ ShutdownEmpty(p) \/ Dispose(p)
  \/ Drained(p) \/ DrainSome(p) \/ DrainReset(p) \/ Fill(p)

Next ==
  \E p \in Peer :
    \/ \E op \in {"handshake", "read", "close"} : Call(p, op, <<>>)
    \/ \E n \in 1..MaxUnits - acked[p] : Call(p, "write", Unsent(p, n))
    \/ Step(p) \/ Deadline(p)

(* A call in progress goes on when it can: a coroutine waiting for its     *)
(* socket is resumed when the socket is ready.                             *)
Spec == Init /\ [][Next]_vars /\ \A p \in Peer : WF_vars(Step(p))

-----------------------------------------------------------------------------
Piece == {Handshaking, Ticket, Notify} \union ({"d", "e"} \X (1..MaxUnits))

TypeOK ==
  /\ \A p \in Peer :
       /\ hs[p] \in Seq({"w", "t", "r"}) /\ wpend[p] \in Seq(Piece)
       /\ tx[p] \in Seq(Piece) /\ Len(tx[p]) <= Cap
       /\ rx[p] \in Seq(Piece) /\ Len(rx[p]) <= Cap
       /\ wire[p] \in Seq(Piece) /\ Len(wire[p]) <= WireCap
       /\ acked[p] \in 0..MaxUnits /\ got[p] \in Seq(1..MaxUnits)
       /\ alert[p] \in {"none", "due", "sent"}
       /\ ret[p] \in {"none", "ok", "eof", "error", "timeout"}
       /\ pc[p] \in [op: {"none", "handshake", "read", "write", "close"},
                     at: {"none", "loop", "ssl", "drain", "fill", "dispose"},
                     then: {"none", "fill", "loop", "flushed", "done"},
                     str: Seq(1..MaxUnits)]
  /\ {estab, notified, broken, rxEof, closed, handshaked} \subseteq [Peer -> BOOLEAN]

(* What read() returns is what the peer gave to write(), from the start    *)
(* and in order, however the writes were cut, timed out and were continued *)
(* with the unreported rest; nothing is sent twice.                        *)
StreamIntact ==
  \A p \in Peer :
    /\ got[p] = [i \in 1..Len(got[p]) |-> i]
    /\ Len(got[p]) <= acked[Other(p)]

(* read() reports a clean end only when the peer closed on purpose and     *)
(* everything it had reported as sent was read; a connection that breaks   *)
(* off is an error.                                                        *)
CleanEof ==
  \A p \in Peer : ret[p] = "eof" =>
    /\ alert[Other(p)] = "sent"
    /\ Len(got[p]) = acked[Other(p)]

(* A socket is taken for handshaked only when its own part of the          *)
(* handshake is in the kernel, also when the call that finished it timed   *)
(* out: the peer can finish without another call on this side.             *)
HandshakeFlushed ==
  \A p \in Peer : handshaked[p] =>
    hs[p] = <<>> /\ \A i \in DOMAIN tx[p] : tx[p][i] # Handshaking

(* A socket waits for the peer only when it has nothing left to send and   *)
(* nothing left to process: otherwise the peer could be waiting for that   *)
(* (and fill() would report a full buffer as an error).                    *)
WaitsForNothing ==
  \A p \in Peer : pc[p].at = "fill" => tx[p] = <<>> /\ rx[p] = <<>>

(* Two calls do not wait for each other for ever, though no deadline has   *)
(* to expire: of two sockets that are both in a call, one returns, unless  *)
(* both read what the other's program did not write, or both have more to  *)
(* send than the kernels take and neither reads.  There is no such excuse  *)
(* before the handshakes are done; a side whose last flight ran into its   *)
(* deadline and which only closes has done its own.                        *)
BothRead == \A p \in Peer : handshaked[p] /\ pc[p].op = "read"

BothFull ==
  \A p \in Peer : /\ pc[p].at = "drain" /\ Len(wire[p]) = WireCap
                  /\ handshaked[p] \/ (estab[p] /\ pc[p].op = "close")

NoStandoff == []<>((\E p \in Peer : pc[p] = Idle) \/ BothRead \/ BothFull)

(* When one side is handshaked the other's handshake ends, although the    *)
(* first may make no more calls.                                           *)
LeftBehind(p) == handshaked[Other(p)] /\ pc[p].op = "handshake"
PeerFinishes == (\E p \in Peer : LeftBehind(p)) ~> (\A p \in Peer : ~LeftBehind(p))
=============================================================================
