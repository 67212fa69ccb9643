--------------------------- MODULE TlsSocketProofs ---------------------------
(***************************************************************************)
(* What one program gives to write() is what the other gets from read(),   *)
(* for buffers of any size and any number of records, however calls are    *)
(* cut, time out and are continued (lib/tls.lua, tls_context.c).           *)
(***************************************************************************)
EXTENDS TlsSocket, SequenceTheorems, TLAPS

-----------------------------------------------------------------------------
(* The invariant: what each variable is.                                   *)

Spot == {"none", "loop", "ssl", "drain", "fill", "dispose"}
Sequel == {"none", "fill", "loop", "flushed", "done"}
Op == {"none", "handshake", "read", "write", "close"}
Point == [op: Op, at: Spot, then: Sequel, str: Seq(1..MaxUnits)]

BioTypes ==
  /\ tx \in [Peer -> Seq(Piece)] /\ rx \in [Peer -> Seq(Piece)]
  /\ wire \in [Peer -> Seq(Piece)]

SslTypes ==
  /\ hs \in [Peer -> Seq({"w", "t", "r"})] /\ wpend \in [Peer -> Seq(Piece)]
  /\ alert \in [Peer -> {"none", "due", "sent"}]

LuaTypes ==
  /\ acked \in [Peer -> Nat] /\ got \in [Peer -> Seq(1..MaxUnits)]
  /\ ret \in [Peer -> {"none", "ok", "eof", "error", "timeout"}]
  /\ pc \in [Peer -> Point]

Flags ==
  /\ estab \in [Peer -> BOOLEAN] /\ notified \in [Peer -> BOOLEAN]
  /\ broken \in [Peer -> BOOLEAN] /\ rxEof \in [Peer -> BOOLEAN]
  /\ closed \in [Peer -> BOOLEAN] /\ handshaked \in [Peer -> BOOLEAN]

Typed == BioTypes /\ SslTypes /\ LuaTypes /\ Flags

-----------------------------------------------------------------------------
(* The invariant: what a peer is, by itself.                               *)

Bounded(p) == Len(tx[p]) <= Cap /\ Len(rx[p]) <= Cap

(* A session ticket is the last thing of a handshake. *)
FlightLeft(p) ==
  /\ Len(hs[p]) <= 6
  /\ \A i \in 1..Len(hs[p]) : hs[p][i] = "t" => i = Len(hs[p])

CallInv(p) ==
  /\ pc[p].op = "none" => pc[p] = Idle
  /\ pc[p].at = "none" => pc[p].op = "none"
  /\ pc[p].at = "dispose" => pc[p].op = "close"
  /\ pc[p].at = "drain" => pc[p].then # "none"
  /\ closed[p] => pc[p] = Idle /\ tx[p] = <<>>

HandshakeInv(p) ==
  /\ handshaked[p] => estab[p]
  /\ estab[p] => hs[p] = <<>>
  /\ pc[p].at = "drain" /\ pc[p].then = "flushed" => estab[p]
  /\ handshaked[p] => \A i \in 1..Len(tx[p]) : tx[p][i] # Handshaking
  /\ ~handshaked[p] => acked[p] = 0 /\ wpend[p] = <<>>

(* close_notify is the last thing a peer says. *)
AlertInv(p) ==
  alert[p] # "none" => /\ pc[p].op = "close" \/ closed[p]
                       /\ estab[p] /\ wpend[p] = <<>>

(* The rest of the string starts with the record after the last one that   *)
(* was reported, of which a part may have been written already.            *)
WriteInv(p) ==
  /\ acked[p] <= MaxUnits
  /\ wpend[p] # <<>> => acked[p] < MaxUnits
  /\ \/ wpend[p] = <<>>
     \/ wpend[p] = <<<<"d", acked[p] + 1>>, <<"e", acked[p] + 1>>>>
     \/ wpend[p] = <<<<"e", acked[p] + 1>>>>
  /\ pc[p].op = "write" =>
       /\ \A i \in 1..Len(pc[p].str) : pc[p].str[i] = acked[p] + i
       /\ acked[p] + Len(pc[p].str) <= MaxUnits
       /\ (pc[p].at = "drain" /\ pc[p].then = "done") \/ pc[p].str # <<>>

WaitInv(p) ==
  /\ pc[p].at = "fill" => tx[p] = <<>> /\ rx[p] = <<>>
  /\ pc[p].at = "drain" /\ pc[p].then = "fill" => rx[p] = <<>>

EofInv(p) ==
  /\ pc[p].op = "close" => ret[p] # "eof"
  /\ ret[p] = "eof" => pc[p] = Idle /\ ~closed[p] /\ notified[p]

Local(p) ==
  /\ Bounded(p) /\ FlightLeft(p) /\ CallInv(p) /\ HandshakeInv(p) /\ AlertInv(p)
  /\ WriteInv(p) /\ WaitInv(p) /\ EofInv(p)

-----------------------------------------------------------------------------
(* Where a call goes.                                                      *)

LEMMA Ends ==
  /\ Peer = {"client", "server"}
  /\ \A p \in Peer : Other(p) \in Peer /\ Other(p) # p /\ Other(Other(p)) = p
  /\ \A p, q \in Peer : q = p \/ q = Other(p)
BY DEF Peer, Other

(* A jump changes where the call of p is, and nothing else of it. *)
LEMMA Jump ==
  ASSUME LuaTypes, NEW p \in Peer, NEW at \in Spot, Goto(p, at)
  PROVE  /\ pc' \in [Peer -> Point]
         /\ pc'[p] = [pc[p] EXCEPT !.at = at]
         /\ pc'[p].op = pc[p].op /\ pc'[p].at = at /\ pc'[p].then = pc[p].then
         /\ pc'[p].str = pc[p].str
         /\ \A q \in Peer : q # p => pc'[q] = pc[q]
BY DEF LuaTypes, Goto, Point

LEMMA JumpDrain ==
  ASSUME LuaTypes, NEW p \in Peer, NEW then \in Sequel, DrainThen(p, then)
  PROVE  /\ pc' \in [Peer -> Point]
         /\ pc'[p].op = pc[p].op /\ pc'[p].at = "drain" /\ pc'[p].then = then
         /\ pc'[p].str = pc[p].str
         /\ \A q \in Peer : q # p => pc'[q] = pc[q]
BY DEF LuaTypes, DrainThen, Point, Spot

LEMMA JumpOut ==
  ASSUME LuaTypes, NEW p \in Peer, NEW r \in {"ok", "eof", "error", "timeout"}, Exit(p, r)
  PROVE  /\ pc' \in [Peer -> Point]
         /\ ret' \in [Peer -> {"none", "ok", "eof", "error", "timeout"}]
         /\ ret'[p] = r
         /\ \/ pc[p].op # "close" /\ pc'[p] = Idle
            \/ /\ pc[p].op = "close" /\ pc'[p].op = "close" /\ pc'[p].at = "dispose"
               /\ pc'[p].str = pc[p].str
         /\ \A q \in Peer : q # p => pc'[q] = pc[q] /\ ret'[q] = ret[q]
<1>1. Idle \in Point
  BY DEF Idle, Point, Op, Spot, Sequel
<1>2. [pc[p] EXCEPT !.at = "dispose"] \in Point
  BY DEF LuaTypes, Point, Spot
<1> QED
  BY <1>1, <1>2 DEF LuaTypes, Exit, Point

-----------------------------------------------------------------------------
(* What every step keeps: the types, and what the other peer has.          *)

Stay(q) ==
  /\ hs'[q] = hs[q] /\ estab'[q] = estab[q] /\ wpend'[q] = wpend[q]
  /\ alert'[q] = alert[q] /\ notified'[q] = notified[q]
  /\ tx'[q] = tx[q] /\ rx'[q] = rx[q] /\ closed'[q] = closed[q] /\ pc'[q] = pc[q]
  /\ handshaked'[q] = handshaked[q] /\ acked'[q] = acked[q] /\ got'[q] = got[q]
  /\ ret'[q] = ret[q]

Alone(p) == Typed' /\ \A q \in Peer : q # p => Stay(q)

LEMMA PieceTypes ==
  /\ Handshaking \in Piece /\ Ticket \in Piece /\ Notify \in Piece
  /\ \A k \in 1..MaxUnits : <<"d", k>> \in Piece /\ <<"e", k>> \in Piece
BY DEF Piece

(* The first piece of a buffer and the rest of it, and a piece more.       *)
LEMMA Pieces ==
  ASSUME NEW S, NEW s \in Seq(S)
  PROVE  /\ Len(s) \in Nat /\ (s = <<>> <=> Len(s) = 0)
         /\ \A i \in 1..Len(s) : s[i] \in S
         /\ s # <<>> => /\ Head(s) = s[1] /\ Head(s) \in S /\ Tail(s) \in Seq(S)
                        /\ Len(Tail(s)) = Len(s) - 1
                        /\ \A i \in 1..Len(s) - 1 : Tail(s)[i] = s[i + 1]
         /\ \A x \in S : /\ Append(s, x) \in Seq(S) /\ Len(Append(s, x)) = Len(s) + 1
                         /\ Append(s, x)[Len(s) + 1] = x
                         /\ \A i \in 1..Len(s) : Append(s, x)[i] = s[i]
<1>1. s # <<>> => Len(s) # 0
  BY EmptySeq
<1>2. s # <<>> => /\ Head(s) \in S /\ Tail(s) \in Seq(S) /\ Len(Tail(s)) = Len(s) - 1
                  /\ \A i \in 1..Len(s) - 1 : Tail(s)[i] = s[i + 1]
  BY HeadTailProperties
<1>3. Head(s) = s[1]
  OBVIOUS
<1>4. \A x \in S : /\ Append(s, x) \in Seq(S) /\ Len(Append(s, x)) = Len(s) + 1
                   /\ Append(s, x)[Len(s) + 1] = x
                   /\ \A i \in 1..Len(s) : Append(s, x)[i] = s[i]
  BY AppendProperties
<1>5. Len(s) \in Nat /\ \A i \in 1..Len(s) : s[i] \in S
  BY LenProperties, ElementOfSeq
<1>6. s = <<>> => Len(s) = 0
  OBVIOUS
<1> QED
  BY <1>1, <1>2, <1>3, <1>4, <1>5, <1>6

(* A buffer cut in two. *)
LEMMA Cut ==
  ASSUME NEW S, NEW s \in Seq(S), NEW n \in 0..Len(s)
  PROVE  /\ SubSeq(s, 1, n) \in Seq(S) /\ Len(SubSeq(s, 1, n)) = n
         /\ \A i \in 1..n : SubSeq(s, 1, n)[i] = s[i]
         /\ SubSeq(s, n + 1, Len(s)) \in Seq(S)
         /\ Len(SubSeq(s, n + 1, Len(s))) = Len(s) - n
         /\ \A i \in 1..Len(s) - n : SubSeq(s, n + 1, Len(s))[i] = s[n + i]
<1>1. Len(s) \in Nat /\ \A i \in 1..Len(s) : s[i] \in S
  BY Pieces
<1>2. /\ SubSeq(s, 1, n) \in Seq(S)
      /\ Len(SubSeq(s, 1, n)) = IF 1 <= n THEN n - 1 + 1 ELSE 0
      /\ \A i \in 1..n - 1 + 1 : SubSeq(s, 1, n)[i] = s[1 + i - 1]
  <2>1. \A i \in 1..n : s[i] \in S
    BY <1>1
  <2> QED
    BY <2>1, <1>1, SubSeqProperties
<1>3. /\ SubSeq(s, n + 1, Len(s)) \in Seq(S)
      /\ Len(SubSeq(s, n + 1, Len(s))) = IF n + 1 <= Len(s) THEN Len(s) - (n + 1) + 1 ELSE 0
      /\ \A i \in 1..Len(s) - (n + 1) + 1 : SubSeq(s, n + 1, Len(s))[i] = s[n + 1 + i - 1]
  <2>1. \A i \in n + 1..Len(s) : s[i] \in S
    BY <1>1
  <2>2. n + 1 \in Int /\ Len(s) \in Int
    BY <1>1
  <2> QED
    BY <2>1, <2>2, SubSeqProperties
<1> QED
  BY <1>1, <1>2, <1>3

LEMMA CallAlone ==
  ASSUME Typed, NEW p \in Peer, NEW op \in Op, NEW str \in Seq(1..MaxUnits), Call(p, op, str)
  PROVE  Alone(p)
<1>1. [op |-> op, at |-> "loop", then |-> "none", str |-> str] \in Point
  BY DEF Point, Spot, Sequel
<1>2. LuaTypes' /\ \A q \in Peer : q # p => pc'[q] = pc[q] /\ ret'[q] = ret[q]
  BY <1>1 DEF Call, Typed, LuaTypes
<1> QED
  BY <1>2 DEF Call, Typed, BioTypes, SslTypes, LuaTypes, Flags, Alone, Stay, openssl, bio, net

LEMMA EnterAlone ==
  ASSUME Typed, NEW p \in Peer, Enter(p)
  PROVE  Alone(p)
<1>1. Goto(p, "ssl")
  BY DEF Enter
<1>2. pc' \in [Peer -> Point] /\ \A q \in Peer : q # p => pc'[q] = pc[q]
  BY <1>1, Jump DEF Typed, Spot
<1> QED
  BY <1>2 DEF Enter, Typed, BioTypes, SslTypes, LuaTypes, Flags, Alone, Stay, openssl, bio, net

LEMMA DeadlineAlone ==
  ASSUME Typed, NEW p \in Peer, Deadline(p)
  PROVE  Alone(p)
<1>1. Exit(p, "timeout")
  BY DEF Deadline
<1>2. /\ pc' \in [Peer -> Point] /\ ret' \in [Peer -> {"none", "ok", "eof", "error", "timeout"}]
      /\ \A q \in Peer : q # p => pc'[q] = pc[q] /\ ret'[q] = ret[q]
  BY <1>1, JumpOut DEF Typed
<1> QED
  BY <1>2 DEF Deadline, Typed, BioTypes, SslTypes, LuaTypes, Flags, Alone, Stay, openssl, bio, net

LEMMA HandshakeWriteAlone ==
  ASSUME Typed, NEW p \in Peer, HandshakeWrite(p)
  PROVE  Alone(p)
<1>1. pc' \in [Peer -> Point] /\ \A q \in Peer : q # p => pc'[q] = pc[q]
  BY JumpDrain DEF Typed, LuaTypes, Sequel, HandshakeWrite, WantWrite
<1>2. Append(tx[p], Handshaking) \in Seq(Piece) /\ Append(tx[p], Ticket) \in Seq(Piece)
  BY PieceTypes, Pieces DEF Typed, BioTypes
<1>3. BioTypes' /\ \A q \in Peer : q # p => tx'[q] = tx[q] /\ rx'[q] = rx[q]
  BY <1>2 DEF HandshakeWrite, HandshakeFrame, Write, Typed, BioTypes, net
<1>4. SslTypes' /\ \A q \in Peer : q # p => hs'[q] = hs[q]
  <2>1. hs[p] # <<>> => Tail(hs[p]) \in Seq({"w", "t", "r"})
    BY Pieces DEF Typed, SslTypes
  <2>2. hs' = [hs EXCEPT ![p] = Tail(@)] \/ hs' = hs
    BY DEF HandshakeWrite
  <2> QED
    BY <2>1, <2>2 DEF HandshakeWrite, HandshakeFrame, Typed, SslTypes
<1> QED
  BY <1>1, <1>3, <1>4 DEF HandshakeWrite, HandshakeFrame, Typed, SslTypes, LuaTypes, Flags,
                          Alone, Stay, net

LEMMA HandshakeReadAlone ==
  ASSUME Typed, NEW p \in Peer, HandshakeRead(p)
  PROVE  Alone(p)
<1>1. /\ pc' \in [Peer -> Point] /\ ret' \in [Peer -> {"none", "ok", "eof", "error", "timeout"}]
      /\ \A q \in Peer : q # p => pc'[q] = pc[q] /\ ret'[q] = ret[q]
  <2>1. UNCHANGED <<pc, ret>> \/ (WantRead(p) /\ ret' = ret) \/ Exit(p, "error")
    BY DEF HandshakeRead
  <2> QED
    BY <2>1, JumpDrain, JumpOut DEF Typed, LuaTypes, Sequel, WantRead
<1>2. BioTypes' /\ \A q \in Peer : q # p => tx'[q] = tx[q] /\ rx'[q] = rx[q]
  <2>1. rx[p] # <<>> => Tail(rx[p]) \in Seq(Piece)
    BY Pieces DEF Typed, BioTypes
  <2>2. (rx[p] # <<>> /\ rx' = [rx EXCEPT ![p] = Tail(@)]) \/ rx' = rx
    BY DEF HandshakeRead, Consume
  <2> QED
    BY <2>1, <2>2 DEF HandshakeRead, HandshakeFrame, Typed, BioTypes, net
<1>3. SslTypes' /\ \A q \in Peer : q # p => hs'[q] = hs[q]
  <2>1. hs[p] # <<>> => Tail(hs[p]) \in Seq({"w", "t", "r"})
    BY Pieces DEF Typed, SslTypes
  <2>2. hs' = [hs EXCEPT ![p] = Tail(@)] \/ hs' = hs
    BY DEF HandshakeRead
  <2> QED
    BY <2>1, <2>2 DEF HandshakeRead, HandshakeFrame, Typed, SslTypes
<1>4. broken' \in [Peer -> BOOLEAN]
  <2>1. broken' = broken \/ broken' = [broken EXCEPT ![p] = TRUE]
    BY DEF HandshakeRead
  <2> QED
    BY <2>1 DEF Typed, Flags
<1> QED
  BY <1>1, <1>2, <1>3, <1>4 DEF HandshakeRead, HandshakeFrame, Typed, SslTypes, LuaTypes,
                                Flags, Alone, Stay, net

LEMMA HandshakeDoneAlone ==
  ASSUME Typed, NEW p \in Peer, HandshakeDone(p)
  PROVE  Alone(p)
<1>1. pc' \in [Peer -> Point] /\ \A q \in Peer : q # p => pc'[q] = pc[q]
  BY JumpDrain DEF Typed, Sequel, HandshakeDone
<1>2. estab' \in [Peer -> BOOLEAN] /\ \A q \in Peer : q # p => estab'[q] = estab[q]
  BY DEF HandshakeDone, Typed, Flags
<1> QED
  BY <1>1, <1>2 DEF HandshakeDone, HandshakeFrame, Typed, BioTypes, SslTypes, LuaTypes,
                    Flags, Alone, Stay, net

LEMMA WriteStartAlone ==
  ASSUME Typed, NEW p \in Peer, Local(p), WriteStart(p)
  PROVE  Alone(p)
<1>1. pc[p].str \in Seq(1..MaxUnits) /\ pc[p].str # <<>>
  BY DEF WriteStart, In, Local, WriteInv, Typed, LuaTypes, Point
<1>2. Record(Head(pc[p].str)) \in Seq(Piece)
  <2>1. PICK k \in 1..MaxUnits : k = Head(pc[p].str)
    BY <1>1, Pieces
  <2>2. <<"d", k>> \in Piece /\ <<"e", k>> \in Piece
    BY PieceTypes
  <2> QED
    BY <2>1, <2>2 DEF Record
<1>3. wpend' \in [Peer -> Seq(Piece)] /\ \A q \in Peer : q # p => wpend'[q] = wpend[q]
  BY <1>2 DEF WriteStart, Typed, SslTypes
<1> QED
  BY <1>3 DEF WriteStart, WriteFrame, Typed, BioTypes, SslTypes, LuaTypes, Flags,
              Alone, Stay, net

(* The call of a write that sent one record more. *)
LEMMA SentPoint ==
  ASSUME Typed, NEW p \in Peer, Local(p), pc[p].op = "write", pc[p].at = "ssl"
  PROVE  /\ Sent(p) \in Point /\ Sent(p).op = "write" /\ Sent(p).at = "drain"
         /\ Sent(p).then = (IF Len(pc[p].str) = 1 THEN "done" ELSE "loop")
         /\ Sent(p).str = Tail(pc[p].str)
<1>1. pc[p] \in Point /\ pc[p].str # <<>>
  BY DEF Local, WriteInv, Typed, LuaTypes
<1>2. Tail(pc[p].str) \in Seq(1..MaxUnits)
  BY <1>1, Pieces DEF Point
<1> QED
  BY <1>1, <1>2 DEF Sent, Point, Spot, Sequel

LEMMA WritePieceAlone ==
  ASSUME Typed, NEW p \in Peer, Local(p), WritePiece(p)
  PROVE  Alone(p)
<1>1. wpend[p] \in Seq(Piece) /\ wpend[p] # <<>>
  BY DEF WritePiece, Typed, SslTypes
<1>2. Head(wpend[p]) \in Piece /\ Tail(wpend[p]) \in Seq(Piece)
  BY <1>1, Pieces
<1>3. Append(tx[p], Head(wpend[p])) \in Seq(Piece)
  BY <1>2, Pieces DEF Typed, BioTypes
<1>4. BioTypes' /\ \A q \in Peer : q # p => tx'[q] = tx[q] /\ rx'[q] = rx[q]
  BY <1>3 DEF WritePiece, WriteFrame, Write, Typed, BioTypes, net
<1>5. SslTypes' /\ \A q \in Peer : q # p => wpend'[q] = wpend[q]
  BY <1>2 DEF WritePiece, WriteFrame, Typed, SslTypes
<1>6. /\ pc' \in [Peer -> Point] /\ acked' \in [Peer -> Nat]
      /\ \A q \in Peer : q # p => pc'[q] = pc[q] /\ acked'[q] = acked[q]
  <2>1. Sent(p) \in Point
    BY SentPoint DEF WritePiece, In
  <2>2. \/ acked' = [acked EXCEPT ![p] = @ + 1] /\ pc' = [pc EXCEPT ![p] = Sent(p)]
        \/ UNCHANGED <<acked, pc>>
    BY DEF WritePiece
  <2> QED
    BY <2>1, <2>2 DEF Typed, LuaTypes
<1> QED
  BY <1>4, <1>5, <1>6 DEF WritePiece, WriteFrame, Typed, SslTypes, LuaTypes, Flags,
                          Alone, Stay, net

LEMMA WriteFullAlone ==
  ASSUME Typed, NEW p \in Peer, WriteFull(p)
  PROVE  Alone(p)
<1>1. pc' \in [Peer -> Point] /\ \A q \in Peer : q # p => pc'[q] = pc[q]
  BY JumpDrain DEF Typed, Sequel, WriteFull, WantWrite
<1> QED
  BY <1>1 DEF WriteFull, WriteFrame, Typed, BioTypes, SslTypes, LuaTypes, Flags,
              Alone, Stay, net

LEMMA ReadPieceAlone ==
  ASSUME Typed, NEW p \in Peer, ReadPiece(p)
  PROVE  Alone(p)
<1>1. rx[p] \in Seq(Piece) /\ rx[p] # <<>>
  BY DEF ReadPiece, Typed, BioTypes
<1>2. Head(rx[p]) \in Piece /\ Tail(rx[p]) \in Seq(Piece)
  BY <1>1, Pieces
<1>3. BioTypes' /\ \A q \in Peer : q # p => tx'[q] = tx[q] /\ rx'[q] = rx[q]
  BY <1>2 DEF ReadPiece, ReadFrame, Consume, Typed, BioTypes, net
<1>4. /\ pc' \in [Peer -> Point] /\ ret' \in [Peer -> {"none", "ok", "eof", "error", "timeout"}]
      /\ \A q \in Peer : q # p => pc'[q] = pc[q] /\ ret'[q] = ret[q]
  <2>1. UNCHANGED <<pc, ret>> \/ Exit(p, "ok")
    BY DEF ReadPiece
  <2> QED
    BY <2>1, JumpOut DEF Typed, LuaTypes
<1>5. got' \in [Peer -> Seq(1..MaxUnits)] /\ \A q \in Peer : q # p => got'[q] = got[q]
  <2>1. \/ got' = got
        \/ Head(rx[p])[1] = "e" /\ got' = [got EXCEPT ![p] = Append(@, Head(rx[p])[2])]
    BY DEF ReadPiece
  <2>2. Head(rx[p])[1] = "e" => Head(rx[p])[2] \in 1..MaxUnits
    BY <1>2 DEF Piece, Handshaking, Ticket, Notify
  <2>3. Head(rx[p])[1] = "e" => Append(got[p], Head(rx[p])[2]) \in Seq(1..MaxUnits)
    BY <2>2, Pieces DEF Typed, LuaTypes
  <2> QED
    BY <2>1, <2>3 DEF Typed, LuaTypes
<1>6. notified' \in [Peer -> BOOLEAN] /\ \A q \in Peer : q # p => notified'[q] = notified[q]
  <2>1. notified' = notified \/ notified' = [notified EXCEPT ![p] = TRUE]
    BY DEF ReadPiece
  <2> QED
    BY <2>1 DEF Typed, Flags
<1> QED
  BY <1>3, <1>4, <1>5, <1>6 DEF ReadPiece, ReadFrame, Typed, SslTypes, LuaTypes, Flags,
                                Alone, Stay, net

LEMMA ReadEndAlone ==
  ASSUME Typed, NEW p \in Peer, ReadEnd(p)
  PROVE  Alone(p)
<1>1. /\ pc' \in [Peer -> Point] /\ ret' \in [Peer -> {"none", "ok", "eof", "error", "timeout"}]
      /\ \A q \in Peer : q # p => pc'[q] = pc[q] /\ ret'[q] = ret[q]
  BY JumpOut DEF Typed, ReadEnd
<1> QED
  BY <1>1 DEF ReadEnd, ReadFrame, Typed, BioTypes, SslTypes, LuaTypes, Flags,
              Alone, Stay, net

LEMMA ReadEmptyAlone ==
  ASSUME Typed, NEW p \in Peer, ReadEmpty(p)
  PROVE  Alone(p)
<1>1. /\ pc' \in [Peer -> Point] /\ ret' \in [Peer -> {"none", "ok", "eof", "error", "timeout"}]
      /\ \A q \in Peer : q # p => pc'[q] = pc[q] /\ ret'[q] = ret[q]
  <2>1. (WantRead(p) /\ ret' = ret) \/ Exit(p, "error")
    BY DEF ReadEmpty
  <2> QED
    BY <2>1, JumpDrain, JumpOut DEF Typed, LuaTypes, Sequel, WantRead
<1>2. broken' \in [Peer -> BOOLEAN]
  <2>1. broken' = broken \/ broken' = [broken EXCEPT ![p] = TRUE]
    BY DEF ReadEmpty
  <2> QED
    BY <2>1 DEF Typed, Flags
<1> QED
  BY <1>1, <1>2 DEF ReadEmpty, ReadFrame, Typed, BioTypes, SslTypes, LuaTypes, Flags,
                    Alone, Stay, net

LEMMA ShutdownNothingAlone ==
  ASSUME Typed, NEW p \in Peer, ShutdownNothing(p)
  PROVE  Alone(p)
<1>1. pc' \in [Peer -> Point] /\ \A q \in Peer : q # p => pc'[q] = pc[q]
  BY JumpDrain DEF Typed, Sequel, ShutdownNothing
<1> QED
  BY <1>1 DEF ShutdownNothing, ShutdownFrame, Typed, BioTypes, SslTypes, LuaTypes, Flags,
              Alone, Stay, net

LEMMA ShutdownFailsAlone ==
  ASSUME Typed, NEW p \in Peer, ShutdownFails(p)
  PROVE  Alone(p)
<1>1. /\ pc' \in [Peer -> Point] /\ ret' \in [Peer -> {"none", "ok", "eof", "error", "timeout"}]
      /\ \A q \in Peer : q # p => pc'[q] = pc[q] /\ ret'[q] = ret[q]
  BY JumpOut DEF Typed, ShutdownFails
<1> QED
  BY <1>1 DEF ShutdownFails, ShutdownFrame, Typed, BioTypes, SslTypes, LuaTypes, Flags,
              Alone, Stay, net

LEMMA ShutdownSendAlone ==
  ASSUME Typed, NEW p \in Peer, ShutdownSend(p)
  PROVE  Alone(p)
<1>1. pc' \in [Peer -> Point] /\ \A q \in Peer : q # p => pc'[q] = pc[q]
  <2>1. DrainThen(p, "done") \/ DrainThen(p, "loop")
    BY DEF ShutdownSend, WantWrite
  <2> QED
    BY <2>1, JumpDrain DEF Typed, Sequel
<1>2. BioTypes' /\ \A q \in Peer : q # p => tx'[q] = tx[q] /\ rx'[q] = rx[q]
  <2>1. Append(tx[p], Notify) \in Seq(Piece)
    BY PieceTypes, Pieces DEF Typed, BioTypes
  <2>2. tx' = [tx EXCEPT ![p] = Append(@, Notify)] \/ tx' = tx
    BY DEF ShutdownSend, Write
  <2> QED
    BY <2>1, <2>2 DEF ShutdownSend, ShutdownFrame, Typed, BioTypes, net
<1>3. SslTypes' /\ \A q \in Peer : q # p => alert'[q] = alert[q]
  BY DEF ShutdownSend, ShutdownFrame, Typed, SslTypes
<1> QED
  BY <1>1, <1>2, <1>3 DEF ShutdownSend, ShutdownFrame, Typed, SslTypes, LuaTypes, Flags,
                          Alone, Stay, net

LEMMA ShutdownPieceAlone ==
  ASSUME Typed, NEW p \in Peer, ShutdownPiece(p)
  PROVE  Alone(p)
<1>1. /\ pc' \in [Peer -> Point] /\ ret' \in [Peer -> {"none", "ok", "eof", "error", "timeout"}]
      /\ \A q \in Peer : q # p => pc'[q] = pc[q] /\ ret'[q] = ret[q]
  <2>1. (DrainThen(p, "done") /\ ret' = ret) \/ UNCHANGED <<pc, ret>> \/ Exit(p, "error")
    BY DEF ShutdownPiece
  <2> QED
    BY <2>1, JumpDrain, JumpOut DEF Typed, LuaTypes, Sequel
<1>2. BioTypes' /\ \A q \in Peer : q # p => tx'[q] = tx[q] /\ rx'[q] = rx[q]
  <2>1. Tail(rx[p]) \in Seq(Piece)
    BY Pieces DEF Typed, BioTypes, ShutdownPiece
  <2> QED
    BY <2>1 DEF ShutdownPiece, ShutdownFrame, Consume, Typed, BioTypes, net
<1>3. /\ notified' \in [Peer -> BOOLEAN] /\ broken' \in [Peer -> BOOLEAN]
      /\ \A q \in Peer : q # p => notified'[q] = notified[q]
  <2>1. /\ notified' = notified \/ notified' = [notified EXCEPT ![p] = TRUE]
        /\ broken' = broken \/ broken' = [broken EXCEPT ![p] = TRUE]
    BY DEF ShutdownPiece
  <2> QED
    BY <2>1 DEF Typed, Flags
<1> QED
  BY <1>1, <1>2, <1>3 DEF ShutdownPiece, ShutdownFrame, Typed, SslTypes, LuaTypes, Flags,
                          Alone, Stay, net

LEMMA ShutdownEmptyAlone ==
  ASSUME Typed, NEW p \in Peer, ShutdownEmpty(p)
  PROVE  Alone(p)
<1>1. /\ pc' \in [Peer -> Point] /\ ret' \in [Peer -> {"none", "ok", "eof", "error", "timeout"}]
      /\ \A q \in Peer : q # p => pc'[q] = pc[q] /\ ret'[q] = ret[q]
  <2>1. \/ (DrainThen(p, "loop") \/ DrainThen(p, "fill")) /\ ret' = ret
        \/ Exit(p, "error")
    BY DEF ShutdownEmpty, WantRead, WantWrite
  <2> QED
    BY <2>1, JumpDrain, JumpOut DEF Typed, LuaTypes, Sequel
<1>2. broken' \in [Peer -> BOOLEAN]
  <2>1. broken' = broken \/ broken' = [broken EXCEPT ![p] = TRUE]
    BY DEF ShutdownEmpty
  <2> QED
    BY <2>1 DEF Typed, Flags
<1> QED
  BY <1>1, <1>2 DEF ShutdownEmpty, ShutdownFrame, Typed, BioTypes, SslTypes, LuaTypes, Flags,
                    Alone, Stay, net

LEMMA DisposeAlone ==
  ASSUME Typed, NEW p \in Peer, Dispose(p)
  PROVE  Alone(p)
<1>1. Idle \in Point
  BY DEF Idle, Point, Op, Spot, Sequel
<1>2. /\ pc' \in [Peer -> Point] /\ \A q \in Peer : q # p => pc'[q] = pc[q]
  BY <1>1 DEF Dispose, Typed, LuaTypes
<1>3. BioTypes' /\ \A q \in Peer : q # p => tx'[q] = tx[q] /\ rx'[q] = rx[q]
  <2>1. <<>> \in Seq(Piece)
    OBVIOUS
  <2>2. wire' = wire \/ wire' = [wire EXCEPT ![p] = <<>>]
    BY DEF Dispose
  <2> QED
    BY <2>1, <2>2 DEF Dispose, Typed, BioTypes
<1>4. closed' \in [Peer -> BOOLEAN] /\ \A q \in Peer : q # p => closed'[q] = closed[q]
  BY DEF Dispose, Typed, Flags
<1> QED
  BY <1>2, <1>3, <1>4 DEF Dispose, Typed, SslTypes, LuaTypes, Flags, Alone, Stay, openssl

LEMMA DrainedAlone ==
  ASSUME Typed, NEW p \in Peer, Drained(p)
  PROVE  Alone(p)
<1>1. /\ pc' \in [Peer -> Point] /\ ret' \in [Peer -> {"none", "ok", "eof", "error", "timeout"}]
      /\ \A q \in Peer : q # p => pc'[q] = pc[q] /\ ret'[q] = ret[q]
  <2>1. ((Goto(p, "fill") \/ Goto(p, "loop")) /\ ret' = ret) \/ Exit(p, "ok")
    BY DEF Drained
  <2> QED
    BY <2>1, Jump, JumpOut DEF Typed, LuaTypes, Spot
<1>2. handshaked' \in [Peer -> BOOLEAN] /\ \A q \in Peer : q # p => handshaked'[q] = handshaked[q]
  <2>1. handshaked' = handshaked \/ handshaked' = [handshaked EXCEPT ![p] = TRUE]
    BY DEF Drained
  <2> QED
    BY <2>1 DEF Typed, Flags
<1> QED
  BY <1>1, <1>2 DEF Drained, Typed, BioTypes, SslTypes, LuaTypes, Flags, Alone, Stay,
                    openssl, bio, net

LEMMA DrainSomeAlone ==
  ASSUME Typed, NEW p \in Peer, DrainSome(p)
  PROVE  Alone(p)
<1>1. tx[p] \in Seq(Piece) /\ wire[p] \in Seq(Piece) /\ Len(tx[p]) \in Nat /\ Len(wire[p]) \in Nat
  BY Pieces DEF Typed, BioTypes
<1>2. PICK n : n = Smaller(Len(tx[p]), WireCap - Len(wire[p]))
  OBVIOUS
<1>3. n \in 0..Len(tx[p])
  <2>1. WireCap - Len(wire[p]) \in Nat
    BY <1>1, SocketAssumption DEF DrainSome
  <2> QED
    BY <1>1, <1>2, <2>1 DEF Smaller
<1>4. SubSeq(tx[p], 1, n) \in Seq(Piece) /\ SubSeq(tx[p], n + 1, Len(tx[p])) \in Seq(Piece)
  BY <1>1, <1>3, Cut
<1>5. wire[p] \o SubSeq(tx[p], 1, n) \in Seq(Piece)
  BY <1>1, <1>4, ConcatProperties
<1>6. /\ wire' = [wire EXCEPT ![p] = wire[p] \o SubSeq(tx[p], 1, n)]
      /\ tx' = [tx EXCEPT ![p] = SubSeq(tx[p], n + 1, Len(tx[p]))]
  BY <1>2 DEF DrainSome, Typed, BioTypes
<1>7. BioTypes' /\ \A q \in Peer : q # p => tx'[q] = tx[q] /\ rx'[q] = rx[q]
  BY <1>4, <1>5, <1>6 DEF DrainSome, Typed, BioTypes
<1> QED
  BY <1>7 DEF DrainSome, Typed, SslTypes, LuaTypes, Flags, Alone, Stay, openssl, lua

LEMMA DrainResetAlone ==
  ASSUME Typed, NEW p \in Peer, DrainReset(p)
  PROVE  Alone(p)
<1>1. /\ pc' \in [Peer -> Point] /\ ret' \in [Peer -> {"none", "ok", "eof", "error", "timeout"}]
      /\ \A q \in Peer : q # p => pc'[q] = pc[q] /\ ret'[q] = ret[q]
  <2>1. UNCHANGED <<pc, ret>> \/ Exit(p, "error")
    BY DEF DrainReset
  <2> QED
    BY <2>1, JumpOut DEF Typed, LuaTypes
<1>2. BioTypes' /\ \A q \in Peer : q # p => tx'[q] = tx[q] /\ rx'[q] = rx[q]
  <2>1. <<>> \in Seq(Piece)
    OBVIOUS
  <2>2. /\ wire' = wire \/ wire' = [wire EXCEPT ![Other(p)] = <<>>]
        /\ tx' = tx \/ tx' = [tx EXCEPT ![p] = <<>>]
    BY DEF DrainReset
  <2> QED
    BY <2>1, <2>2 DEF DrainReset, Typed, BioTypes
<1> QED
  BY <1>1, <1>2 DEF DrainReset, Typed, SslTypes, LuaTypes, Flags, Alone, Stay, openssl

LEMMA FillAlone ==
  ASSUME Typed, NEW p \in Peer, Bounded(p), Fill(p)
  PROVE  Alone(p)
<1>1. pc' \in [Peer -> Point] /\ \A q \in Peer : q # p => pc'[q] = pc[q]
  BY Jump DEF Typed, Spot, Fill
<1>2. BioTypes' /\ \A q \in Peer : q # p => tx'[q] = tx[q] /\ rx'[q] = rx[q]
  <2>1. PICK q \in Peer : q = Other(p)
    BY Ends
  <2>2. /\ rx[p] \in Seq(Piece) /\ wire[q] \in Seq(Piece) /\ Len(rx[p]) \in Nat
        /\ Len(wire[q]) \in Nat
    BY Pieces DEF Typed, BioTypes
  <2>3. PICK n : n = Smaller(Len(wire[q]), Cap - Len(rx[p]))
    OBVIOUS
  <2>4. n \in 0..Len(wire[q])
    <3>1. Cap - Len(rx[p]) \in Nat
      BY <2>2, SocketAssumption DEF Bounded
    <3> QED
      BY <2>2, <2>3, <3>1 DEF Smaller
  <2>5. SubSeq(wire[q], 1, n) \in Seq(Piece) /\ SubSeq(wire[q], n + 1, Len(wire[q])) \in Seq(Piece)
    BY <2>2, <2>4, Cut
  <2>6. rx[p] \o SubSeq(wire[q], 1, n) \in Seq(Piece)
    BY <2>2, <2>5, ConcatProperties
  <2>7. \/ /\ rx' = [rx EXCEPT ![p] = rx[p] \o SubSeq(wire[q], 1, n)]
           /\ wire' = [wire EXCEPT ![q] = SubSeq(wire[q], n + 1, Len(wire[q]))]
        \/ UNCHANGED <<rx, wire>>
    BY <2>1, <2>3 DEF Fill, Typed, BioTypes
  <2> QED
    BY <2>5, <2>6, <2>7 DEF Fill, Typed, BioTypes
<1>3. rxEof' \in [Peer -> BOOLEAN]
  <2>1. rxEof' = rxEof \/ rxEof' = [rxEof EXCEPT ![p] = TRUE]
    BY DEF Fill
  <2> QED
    BY <2>1 DEF Typed, Flags
<1> QED
  BY <1>1, <1>2, <1>3 DEF Fill, Typed, SslTypes, LuaTypes, Flags, Alone, Stay, openssl

-----------------------------------------------------------------------------
(* What a step does to the peer that goes on.                              *)

LEMMA CallLocal ==
  ASSUME Typed, NEW p \in Peer, Local(p), NEW op \in Op \ {"none"}, NEW str \in Seq(1..MaxUnits),
         op = "write" => /\ \A i \in 1..Len(str) : str[i] = acked[p] + i
                         /\ acked[p] + Len(str) <= MaxUnits /\ str # <<>>,
         Call(p, op, str)
  PROVE  Local(p)'
<1>1. /\ pc'[p].op = op /\ pc'[p].at = "loop" /\ pc'[p].str = str
      /\ ret'[p] = "none" /\ ~closed[p]
  BY DEF Call, Typed, LuaTypes
<1>2. UNCHANGED <<hs, estab, wpend, alert, notified, tx, rx, closed, handshaked, acked>>
  BY DEF Call, openssl, bio, net
<1>3. alert[p] = "none"
  BY <1>1 DEF Local, AlertInv, Call, Idle
<1>4. Bounded(p)' /\ FlightLeft(p)'
  BY <1>2 DEF Local, Bounded, FlightLeft
<1>5. CallInv(p)' /\ WaitInv(p)' /\ EofInv(p)'
  BY <1>1, <1>2 DEF Local, CallInv, WaitInv, EofInv, Op
<1>6. HandshakeInv(p)' /\ AlertInv(p)'
  BY <1>1, <1>2, <1>3 DEF Local, HandshakeInv, AlertInv
<1>7. WriteInv(p)'
  BY <1>1, <1>2 DEF Local, WriteInv
<1> QED
  BY <1>4, <1>5, <1>6, <1>7 DEF Local

LEMMA EnterLocal ==
  ASSUME Typed, NEW p \in Peer, Local(p), Enter(p)
  PROVE  Local(p)'
<1>1. pc'[p].op = pc[p].op /\ pc'[p].at = "ssl" /\ pc'[p].str = pc[p].str /\ pc[p].at = "loop"
  BY Jump DEF Enter, Typed, Spot
<1>2. UNCHANGED <<hs, estab, wpend, alert, notified, tx, rx, closed, handshaked, acked, ret>>
  BY DEF Enter, openssl, bio, net
<1>3. pc[p].op # "none" /\ ~closed[p] /\ pc[p] # Idle
  BY <1>1 DEF Local, CallInv, Idle
<1>4. Bounded(p)' /\ FlightLeft(p)'
  BY <1>2 DEF Local, Bounded, FlightLeft
<1>5. CallInv(p)' /\ WaitInv(p)' /\ EofInv(p)'
  BY <1>1, <1>2, <1>3 DEF Local, CallInv, WaitInv, EofInv
<1>6. HandshakeInv(p)' /\ AlertInv(p)'
  BY <1>1, <1>2 DEF Local, HandshakeInv, AlertInv
<1>7. WriteInv(p)'
  BY <1>1, <1>2 DEF Local, WriteInv
<1> QED
  BY <1>4, <1>5, <1>6, <1>7 DEF Local

(* A call that ends, or goes on to dispose of the socket. *)
LEMMA LeaveLocal ==
  ASSUME Typed, NEW p \in Peer, Local(p), NEW r \in {"ok", "error", "timeout"}, Exit(p, r),
         pc[p].op # "none", Len(rx'[p]) <= Cap,
         UNCHANGED <<hs, estab, wpend, alert, tx, closed, handshaked, acked>>
  PROVE  Local(p)'
<1>1. /\ ret'[p] = r
      /\ \/ pc[p].op # "close" /\ pc'[p] = Idle
         \/ /\ pc[p].op = "close" /\ pc'[p].op = "close" /\ pc'[p].at = "dispose"
  BY JumpOut DEF Typed
<1>2. ~closed[p]
  BY DEF Local, CallInv, Idle
<1>3. pc'[p] = Idle => pc'[p].op = "none" /\ pc'[p].at = "none"
  BY DEF Idle
<1>4. Bounded(p)' /\ FlightLeft(p)'
  BY DEF Local, Bounded, FlightLeft
<1>5. CallInv(p)' /\ WaitInv(p)' /\ EofInv(p)'
  BY <1>1, <1>2, <1>3 DEF Local, CallInv, WaitInv, EofInv
<1>6. HandshakeInv(p)' /\ AlertInv(p)'
  BY <1>1, <1>2, <1>3 DEF Local, HandshakeInv, AlertInv
<1>7. WriteInv(p)'
  BY <1>1, <1>3 DEF Local, WriteInv
<1> QED
  BY <1>4, <1>5, <1>6, <1>7 DEF Local

(* A call that is going to drain the buffer. *)
LEMMA DrainLocal ==
  ASSUME Typed, NEW p \in Peer, Local(p), NEW then \in {"fill", "loop", "done"},
         DrainThen(p, then), pc[p].at = "ssl",
         then = "fill" => rx[p] = <<>>, then = "done" => pc[p].op # "write",
         UNCHANGED <<hs, estab, wpend, alert, tx, closed, handshaked, acked, ret>>,
         Len(rx'[p]) <= Cap, rx[p] = <<>> => rx'[p] = <<>>
  PROVE  Local(p)'
<1>1. /\ pc'[p].op = pc[p].op /\ pc'[p].at = "drain" /\ pc'[p].then = then
      /\ pc'[p].str = pc[p].str
  BY JumpDrain DEF Typed, Sequel
<1>2. pc[p].op # "none" /\ ~closed[p] /\ pc[p] # Idle
  BY DEF Local, CallInv, Idle
<1>4. Bounded(p)' /\ FlightLeft(p)'
  BY DEF Local, Bounded, FlightLeft
<1>5. CallInv(p)' /\ WaitInv(p)' /\ EofInv(p)'
  BY <1>1, <1>2 DEF Local, CallInv, WaitInv, EofInv
<1>6. HandshakeInv(p)' /\ AlertInv(p)'
  BY <1>1 DEF Local, HandshakeInv, AlertInv
<1>7. WriteInv(p)'
  BY <1>1 DEF Local, WriteInv
<1> QED
  BY <1>4, <1>5, <1>6, <1>7 DEF Local

(* What is left of a flight after its first message. *)
LEMMA FlightTail ==
  ASSUME Typed, NEW p \in Peer, FlightLeft(p), hs[p] # <<>>, hs'[p] = Tail(hs[p])
  PROVE  FlightLeft(p)'
<1>1. hs[p] \in Seq({"w", "t", "r"})
  BY DEF Typed, SslTypes
<1>2. /\ Len(hs[p]) \in Nat /\ Len(hs'[p]) = Len(hs[p]) - 1
      /\ \A i \in 1..Len(hs[p]) - 1 : hs'[p][i] = hs[p][i + 1]
  BY <1>1, Pieces
<1> QED
  BY <1>2 DEF FlightLeft

(* A call that stays in OpenSSL. *)
LEMMA OnLocal ==
  ASSUME Typed, NEW p \in Peer, Local(p), pc' = pc, pc[p].at = "ssl",
         UNCHANGED <<estab, wpend, alert, closed, handshaked, acked, ret>>,
         tx' = tx \/ (~handshaked[p] /\ Len(tx'[p]) <= Cap), Len(rx'[p]) <= Cap,
         hs' = hs \/ (hs[p] # <<>> /\ hs'[p] = Tail(hs[p]))
  PROVE  Local(p)'
<1>1. pc[p].op # "none" /\ ~closed[p] /\ pc[p] # Idle
  BY DEF Local, CallInv, Idle
<1>2. Bounded(p)'
  BY DEF Local, Bounded
<1>3. FlightLeft(p)'
  BY FlightTail DEF Local, FlightLeft
<1>4. CallInv(p)' /\ WaitInv(p)' /\ EofInv(p)'
  BY <1>1 DEF Local, CallInv, WaitInv, EofInv
<1>5. HandshakeInv(p)' /\ AlertInv(p)' /\ WriteInv(p)'
  BY DEF Local, HandshakeInv, AlertInv, WriteInv
<1> QED
  BY <1>2, <1>3, <1>4, <1>5 DEF Local

(* The buffers after one piece was taken out of them, or put in. *)
LEMMA BufferLens ==
  ASSUME Typed, NEW p \in Peer, Local(p)
  PROVE  /\ Len(tx[p]) \in Nat /\ Len(rx[p]) \in Nat
         /\ rx[p] # <<>> => Len(Tail(rx[p])) <= Cap
         /\ Room(p) => \A x \in Piece : Len(Append(tx[p], x)) <= Cap
<1>1. tx[p] \in Seq(Piece) /\ rx[p] \in Seq(Piece) /\ Len(tx[p]) <= Cap /\ Len(rx[p]) <= Cap
  BY DEF Typed, BioTypes, Local, Bounded
<1>2. Len(tx[p]) \in Nat /\ Len(rx[p]) \in Nat
  BY <1>1, Pieces
<1>3. rx[p] # <<>> => Len(Tail(rx[p])) = Len(rx[p]) - 1
  BY <1>1, Pieces
<1>4. \A x \in Piece : Len(Append(tx[p], x)) = Len(tx[p]) + 1
  BY <1>1, Pieces
<1> QED
  BY <1>1, <1>2, <1>3, <1>4, SocketAssumption DEF Room

LEMMA DeadlineLocal ==
  ASSUME Typed, NEW p \in Peer, Local(p), Deadline(p)
  PROVE  Local(p)'
<1>1. pc[p].at # "none"
  BY DEF Deadline
<1>2. pc[p].op # "none"
  BY <1>1 DEF Local, CallInv, Idle
<1>3. Len(rx'[p]) <= Cap
  BY DEF Deadline, bio, Local, Bounded
<1> QED
  BY <1>2, <1>3, LeaveLocal DEF Deadline, openssl, bio, net

LEMMA HandshakeWriteLocal ==
  ASSUME Typed, NEW p \in Peer, Local(p), HandshakeWrite(p)
  PROVE  Local(p)'
<1>1. /\ pc[p].at = "ssl" /\ ~handshaked[p] /\ hs[p] # <<>> /\ UNCHANGED rx
      /\ UNCHANGED <<estab, wpend, alert, closed, handshaked, acked, ret>>
  BY DEF HandshakeWrite, InHandshake, HandshakeFrame, net
<1>2. Len(rx'[p]) <= Cap
  BY <1>1 DEF Local, Bounded
<1>3. CASE Room(p) /\ pc' = pc /\ hs' = [hs EXCEPT ![p] = Tail(@)]
           /\ Write(p, IF Head(hs[p]) = "w" THEN Handshaking ELSE Ticket)
  <2>1. PICK x \in Piece : tx' = [tx EXCEPT ![p] = Append(@, x)]
    BY <1>3, PieceTypes DEF Write
  <2>2. tx'[p] = Append(tx[p], x) /\ hs'[p] = Tail(hs[p])
    BY <1>3, <2>1 DEF Typed, BioTypes, SslTypes
  <2>3. Len(tx'[p]) <= Cap
    BY <1>3, <2>2, BufferLens
  <2> QED
    BY <1>1, <1>2, <1>3, <2>2, <2>3, OnLocal
<1>4. CASE ~Room(p) /\ WantWrite(p) /\ UNCHANGED <<tx, hs>>
  BY <1>1, <1>2, <1>4, DrainLocal DEF WantWrite
<1> QED
  BY <1>3, <1>4 DEF HandshakeWrite

LEMMA HandshakeReadLocal ==
  ASSUME Typed, NEW p \in Peer, Local(p), HandshakeRead(p)
  PROVE  Local(p)'
<1>1. /\ pc[p].at = "ssl" /\ ~handshaked[p] /\ hs[p] # <<>>
      /\ UNCHANGED <<estab, wpend, alert, closed, handshaked, acked, tx>>
  BY DEF HandshakeRead, InHandshake, HandshakeFrame, net
<1>2. pc[p].op # "none"
  BY <1>1 DEF Local, CallInv, Idle
<1>3. Len(rx[p]) <= Cap
  BY DEF Local, Bounded
<1>4. CASE /\ rx[p] # <<>> /\ Consume(p) /\ hs' = [hs EXCEPT ![p] = Tail(@)]
           /\ UNCHANGED <<pc, ret, broken>>
  <2>1. rx'[p] = Tail(rx[p]) /\ hs'[p] = Tail(hs[p])
    BY <1>4 DEF Consume, Typed, BioTypes, SslTypes
  <2>2. Len(rx'[p]) <= Cap
    BY <1>4, <2>1, BufferLens
  <2> QED
    BY <1>1, <1>4, <2>1, <2>2, OnLocal
<1>5. CASE rx[p] = <<>> /\ WantRead(p) /\ UNCHANGED <<rx, hs, ret, broken>>
  BY <1>1, <1>3, <1>5, DrainLocal DEF WantRead
<1>6. CASE Exit(p, "error") /\ UNCHANGED <<rx, hs>>
  BY <1>1, <1>2, <1>3, <1>6, LeaveLocal
<1> QED
  BY <1>4, <1>5, <1>6 DEF HandshakeRead

LEMMA HandshakeDoneLocal ==
  ASSUME Typed, NEW p \in Peer, Local(p), HandshakeDone(p)
  PROVE  Local(p)'
<1>1. /\ pc'[p].op = pc[p].op /\ pc'[p].at = "drain" /\ pc'[p].then = "flushed"
      /\ pc'[p].str = pc[p].str
  BY JumpDrain DEF HandshakeDone, Typed, Sequel
<1>2. /\ estab'[p] = TRUE /\ hs[p] = <<>> /\ pc[p].at = "ssl" /\ pc[p].op # "close"
      /\ UNCHANGED <<hs, wpend, alert, tx, rx, closed, handshaked, acked, ret, notified>>
  BY DEF HandshakeDone, InHandshake, HandshakeFrame, net, Typed, Flags
<1>3. pc[p].op # "none" /\ ~closed[p] /\ pc[p] # Idle
  BY <1>2 DEF Local, CallInv, Idle
<1>4. Bounded(p)' /\ FlightLeft(p)'
  BY <1>2 DEF Local, Bounded, FlightLeft
<1>5. CallInv(p)' /\ WaitInv(p)' /\ EofInv(p)'
  BY <1>1, <1>2, <1>3 DEF Local, CallInv, WaitInv, EofInv
<1>6. HandshakeInv(p)' /\ AlertInv(p)'
  BY <1>1, <1>2 DEF Local, HandshakeInv, AlertInv
<1>7. WriteInv(p)'
  BY <1>1, <1>2 DEF Local, WriteInv
<1> QED
  BY <1>4, <1>5, <1>6, <1>7 DEF Local

LEMMA WriteStartLocal ==
  ASSUME Typed, NEW p \in Peer, Local(p), WriteStart(p)
  PROVE  Local(p)'
<1>1. /\ pc[p].at = "ssl" /\ pc[p].op = "write" /\ handshaked[p]
      /\ UNCHANGED <<hs, estab, alert, tx, rx, closed, handshaked, acked, ret, notified, pc>>
  BY DEF WriteStart, In, WriteFrame, net
<1>2. pc[p].str \in Seq(1..MaxUnits) /\ pc[p].str # <<>>
  BY <1>1 DEF Local, WriteInv, Typed, LuaTypes, Point
<1>3. Len(pc[p].str) \in Nat \ {0} /\ Head(pc[p].str) = pc[p].str[1]
  BY <1>2, Pieces
<1>4. acked[p] \in Nat /\ acked[p] < MaxUnits /\ Head(pc[p].str) = acked[p] + 1
  <2>1. /\ \A i \in 1..Len(pc[p].str) : pc[p].str[i] = acked[p] + i
        /\ acked[p] + Len(pc[p].str) <= MaxUnits
    BY <1>1 DEF Local, WriteInv
  <2>2. acked[p] \in Nat
    BY DEF Typed, LuaTypes
  <2>3. 1 \in 1..Len(pc[p].str)
    BY <1>3
  <2> QED
    BY <1>3, <2>1, <2>2, <2>3, SocketAssumption
<1>5. wpend'[p] = <<<<"d", acked[p] + 1>>, <<"e", acked[p] + 1>>>>
  BY <1>4 DEF WriteStart, Record, Typed, SslTypes
<1>6. alert[p] = "none" /\ ~closed[p]
  BY <1>1 DEF Local, AlertInv, CallInv, Idle
<1>7. Bounded(p)' /\ FlightLeft(p)' /\ CallInv(p)' /\ WaitInv(p)' /\ EofInv(p)'
  BY <1>1 DEF Local, Bounded, FlightLeft, CallInv, WaitInv, EofInv
<1>8. HandshakeInv(p)' /\ AlertInv(p)'
  BY <1>1, <1>6 DEF Local, HandshakeInv, AlertInv
<1>9. WriteInv(p)'
  BY <1>1, <1>4, <1>5 DEF Local, WriteInv
<1> QED
  BY <1>7, <1>8, <1>9 DEF Local

(* What is left of a record: both pieces, or the second one. *)
LEMMA RecordLeft ==
  ASSUME Typed, NEW p \in Peer, Local(p), wpend[p] # <<>>
  PROVE  /\ acked[p] \in Nat /\ acked[p] < MaxUnits /\ acked[p] + 1 \in 1..MaxUnits
         /\ \/ /\ Len(wpend[p]) = 2 /\ Head(wpend[p]) = <<"d", acked[p] + 1>>
               /\ Tail(wpend[p]) = <<<<"e", acked[p] + 1>>>>
            \/ /\ Len(wpend[p]) = 1 /\ Head(wpend[p]) = <<"e", acked[p] + 1>>
               /\ Tail(wpend[p]) = <<>>
<1>1. acked[p] \in Nat /\ acked[p] < MaxUnits
  BY DEF Local, WriteInv, Typed, LuaTypes
<1>2. \A x, y : /\ Len(<<x, y>>) = 2 /\ Head(<<x, y>>) = x /\ Tail(<<x, y>>) = <<y>>
                /\ Len(<<x>>) = 1 /\ Head(<<x>>) = x /\ Tail(<<x>>) = <<>>
  OBVIOUS
<1>3. \/ wpend[p] = <<<<"d", acked[p] + 1>>, <<"e", acked[p] + 1>>>>
      \/ wpend[p] = <<<<"e", acked[p] + 1>>>>
  BY DEF Local, WriteInv
<1>4. acked[p] + 1 \in 1..MaxUnits
  BY <1>1, SocketAssumption
<1> QED
  BY <1>1, <1>2, <1>3, <1>4, Zenon

LEMMA WritePieceLocal ==
  ASSUME Typed, NEW p \in Peer, Local(p), WritePiece(p)
  PROVE  Local(p)'
<1>1. /\ pc[p].at = "ssl" /\ pc[p].op = "write" /\ handshaked[p] /\ wpend[p] # <<>>
      /\ UNCHANGED <<hs, estab, alert, rx, closed, handshaked, ret, notified>>
  BY DEF WritePiece, In, WriteFrame, net
<1>2. /\ tx'[p] = Append(tx[p], Head(wpend[p])) /\ wpend'[p] = Tail(wpend[p])
  BY DEF WritePiece, Write, Typed, BioTypes, SslTypes
<1>3. /\ acked[p] \in Nat /\ acked[p] < MaxUnits /\ acked[p] + 1 \in 1..MaxUnits
      /\ \/ /\ Len(wpend[p]) = 2 /\ Head(wpend[p]) = <<"d", acked[p] + 1>>
            /\ Tail(wpend[p]) = <<<<"e", acked[p] + 1>>>>
         \/ /\ Len(wpend[p]) = 1 /\ Head(wpend[p]) = <<"e", acked[p] + 1>>
            /\ Tail(wpend[p]) = <<>>
  BY <1>1, RecordLeft
<1>4. Head(wpend[p]) \in Piece /\ Head(wpend[p]) # Handshaking
  <2>1. PICK k \in 1..MaxUnits : k = acked[p] + 1
    BY <1>3
  <2>2. /\ <<"d", k>> \in Piece /\ <<"e", k>> \in Piece
        /\ <<"d", k>> # Handshaking /\ <<"e", k>> # Handshaking
    BY PieceTypes DEF Handshaking
  <2> QED
    BY <1>3, <2>1, <2>2, Zenon
<1>5. alert[p] = "none" /\ ~closed[p] /\ estab[p] /\ hs[p] = <<>> /\ ret[p] # "eof"
  BY <1>1 DEF Local, AlertInv, CallInv, HandshakeInv, EofInv, Idle
<1>6. Bounded(p)'
  <2>1. Len(tx'[p]) <= Cap
    BY <1>2, <1>4, BufferLens DEF WritePiece
  <2> QED
    BY <1>1, <2>1 DEF Local, Bounded
<1>7. FlightLeft(p)'
  BY <1>1 DEF Local, FlightLeft
<1>8. \A i \in 1..Len(tx'[p]) : tx'[p][i] # Handshaking
  <2>1. tx[p] \in Seq(Piece) /\ \A i \in 1..Len(tx[p]) : tx[p][i] # Handshaking
    BY <1>1 DEF Typed, BioTypes, Local, HandshakeInv
  <2>2. /\ Len(tx[p]) \in Nat /\ Len(tx'[p]) = Len(tx[p]) + 1
        /\ tx'[p][Len(tx[p]) + 1] = Head(wpend[p])
        /\ \A i \in 1..Len(tx[p]) : tx'[p][i] = tx[p][i]
    BY <1>2, <1>4, <2>1, Pieces
  <2> QED
    BY <1>4, <2>1, <2>2
<1>9. CASE Len(wpend[p]) = 2
  <2>1. UNCHANGED <<acked, pc>>
    BY <1>9 DEF WritePiece
  <2>2. wpend'[p] = <<<<"e", acked[p] + 1>>>>
    BY <1>2, <1>3, <1>9
  <2>3. CallInv(p)' /\ WaitInv(p)' /\ EofInv(p)' /\ HandshakeInv(p)' /\ AlertInv(p)'
    BY <1>1, <1>5, <1>8, <2>1 DEF Local, CallInv, WaitInv, EofInv, HandshakeInv, AlertInv, Idle
  <2>4. WriteInv(p)'
    BY <1>3, <2>1, <2>2 DEF Local, WriteInv
  <2> QED
    BY <1>6, <1>7, <2>3, <2>4 DEF Local
<1>10. CASE Len(wpend[p]) = 1
  <2>1. acked'[p] = acked[p] + 1 /\ pc'[p] = Sent(p) /\ wpend'[p] = <<>>
    <3>1. acked' = [acked EXCEPT ![p] = @ + 1] /\ pc' = [pc EXCEPT ![p] = Sent(p)]
      BY <1>10 DEF WritePiece
    <3>2. acked'[p] = acked[p] + 1 /\ pc'[p] = Sent(p)
      BY <3>1 DEF Typed, LuaTypes
    <3>3. wpend'[p] = <<>>
      BY <1>2, <1>3, <1>10
    <3> QED
      BY <3>2, <3>3
  <2>2. /\ pc'[p].op = "write" /\ pc'[p].at = "drain"
        /\ pc'[p].then = (IF Len(pc[p].str) = 1 THEN "done" ELSE "loop")
        /\ pc'[p].str = Tail(pc[p].str)
    BY <1>1, <2>1, SentPoint
  <2>3. CallInv(p)' /\ WaitInv(p)' /\ EofInv(p)' /\ HandshakeInv(p)' /\ AlertInv(p)'
    BY <1>1, <1>5, <1>8, <2>2 DEF Local, CallInv, WaitInv, EofInv, HandshakeInv, AlertInv
  <2>4. pc[p].str \in Seq(1..MaxUnits) /\ pc[p].str # <<>>
    BY <1>1 DEF Local, WriteInv, Typed, LuaTypes, Point
  <2>5. /\ \A i \in 1..Len(pc[p].str) : pc[p].str[i] = acked[p] + i
        /\ acked[p] + Len(pc[p].str) <= MaxUnits
    BY <1>1 DEF Local, WriteInv
  <2>6. /\ Len(pc[p].str) \in Nat \ {0} /\ Len(pc'[p].str) = Len(pc[p].str) - 1
        /\ \A i \in 1..Len(pc[p].str) - 1 : pc'[p].str[i] = pc[p].str[i + 1]
    BY <2>2, <2>4, Pieces
  <2>7. Len(pc[p].str) # 1 => pc'[p].str # <<>>
    <3>1. pc'[p].str = <<>> => Len(pc'[p].str) = 0
      OBVIOUS
    <3>2. PICK n \in Nat \ {0} : n = Len(pc[p].str)
      BY <2>6
    <3> QED
      BY <2>6, <3>1, <3>2
  <2>8. /\ \A i \in 1..Len(pc'[p].str) : pc'[p].str[i] = acked'[p] + i
        /\ acked'[p] + Len(pc'[p].str) <= MaxUnits /\ acked'[p] <= MaxUnits
    <3>names. PICK old, new : old = pc[p].str /\ new = pc'[p].str
      OBVIOUS
    <3>1. PICK n \in Nat \ {0}, k \in Nat :
            n = Len(pc[p].str) /\ k = acked[p] /\ old = pc[p].str /\ new = pc'[p].str
      BY <1>3, <2>6, <3>names
    <3>2. Len(new) = n - 1 /\ \A i \in 1..n - 1 : new[i] = old[i + 1]
      BY <2>6, <3>1
    <3>3. k + n <= MaxUnits /\ \A i \in 1..n : old[i] = k + i
      BY <2>5, <3>1
    <3>4. \A i \in 1..n - 1 : new[i] = k + 1 + i
      BY <3>2, <3>3
    <3> QED
      BY <2>1, <3>1, <3>2, <3>3, <3>4, SocketAssumption
  <2>9. WriteInv(p)'
    BY <2>1, <2>2, <2>7, <2>8 DEF WriteInv
  <2> QED
    BY <1>6, <1>7, <2>3, <2>9 DEF Local
<1> QED
  BY <1>3, <1>9, <1>10

LEMMA WriteFullLocal ==
  ASSUME Typed, NEW p \in Peer, Local(p), WriteFull(p)
  PROVE  Local(p)'
<1>1. Len(rx'[p]) <= Cap
  BY DEF WriteFull, WriteFrame, Local, Bounded
<1> QED
  BY <1>1, DrainLocal DEF WriteFull, In, WantWrite, WriteFrame, net

LEMMA ReadPieceLocal ==
  ASSUME Typed, NEW p \in Peer, Local(p), ReadPiece(p)
  PROVE  Local(p)'
<1>1. /\ pc[p].at = "ssl" /\ pc[p].op = "read" /\ rx'[p] = Tail(rx[p]) /\ rx[p] # <<>>
      /\ UNCHANGED <<hs, estab, wpend, alert, tx, closed, handshaked, acked>>
  BY DEF ReadPiece, In, Consume, ReadFrame, net, Typed, BioTypes
<1>2. Len(rx'[p]) <= Cap
  BY <1>1, BufferLens
<1>3. CASE UNCHANGED <<pc, ret>>
  BY <1>1, <1>2, <1>3, OnLocal
<1>4. CASE Exit(p, "ok")
  BY <1>1, <1>2, <1>4, LeaveLocal
<1> QED
  BY <1>3, <1>4 DEF ReadPiece

(* The only call that may answer "eof". *)
LEMMA ReadEndLocal ==
  ASSUME Typed, NEW p \in Peer, Local(p), ReadEnd(p)
  PROVE  Local(p)'
<1>1. /\ pc[p].op = "read" /\ pc[p].at = "ssl" /\ notified[p] /\ Exit(p, "eof")
      /\ UNCHANGED <<hs, estab, wpend, alert, tx, rx, closed, handshaked, acked, notified>>
  BY DEF ReadEnd, In, ReadFrame, net
<1>2. pc'[p] = Idle
  BY <1>1, JumpOut DEF Typed
<1>3. ~closed[p]
  BY <1>1 DEF Local, CallInv, Idle
<1>4. pc'[p].op = "none" /\ pc'[p].at = "none"
  BY <1>2 DEF Idle
<1>5. Bounded(p)' /\ FlightLeft(p)'
  BY <1>1 DEF Local, Bounded, FlightLeft
<1>6. CallInv(p)' /\ WaitInv(p)' /\ EofInv(p)'
  BY <1>1, <1>2, <1>3, <1>4 DEF Local, CallInv, WaitInv, EofInv
<1>7. HandshakeInv(p)' /\ AlertInv(p)'
  BY <1>1, <1>3, <1>4 DEF Local, HandshakeInv, AlertInv
<1>8. WriteInv(p)'
  BY <1>1, <1>4 DEF Local, WriteInv
<1> QED
  BY <1>5, <1>6, <1>7, <1>8 DEF Local

LEMMA ReadEmptyLocal ==
  ASSUME Typed, NEW p \in Peer, Local(p), ReadEmpty(p)
  PROVE  Local(p)'
<1>1. /\ pc[p].at = "ssl" /\ pc[p].op = "read" /\ rx[p] = <<>> /\ rx'[p] = rx[p]
      /\ UNCHANGED <<hs, estab, wpend, alert, tx, closed, handshaked, acked>>
  BY DEF ReadEmpty, In, ReadFrame, net
<1>2. Len(rx'[p]) <= Cap
  BY <1>1 DEF Local, Bounded
<1>3. CASE WantRead(p) /\ UNCHANGED ret
  BY <1>1, <1>2, <1>3, DrainLocal DEF WantRead
<1>4. CASE Exit(p, "error")
  BY <1>1, <1>2, <1>4, LeaveLocal
<1> QED
  BY <1>3, <1>4 DEF ReadEmpty

LEMMA ShutdownNothingLocal ==
  ASSUME Typed, NEW p \in Peer, Local(p), ShutdownNothing(p)
  PROVE  Local(p)'
<1>1. Len(rx'[p]) <= Cap
  BY DEF ShutdownNothing, Local, Bounded
<1> QED
  BY <1>1, DrainLocal DEF ShutdownNothing, In, ShutdownFrame, net

LEMMA ShutdownFailsLocal ==
  ASSUME Typed, NEW p \in Peer, Local(p), ShutdownFails(p)
  PROVE  Local(p)'
<1>1. Len(rx'[p]) <= Cap
  BY DEF ShutdownFails, Local, Bounded
<1> QED
  BY <1>1, LeaveLocal DEF ShutdownFails, In, ShutdownFrame, net

LEMMA ShutdownSendLocal ==
  ASSUME Typed, NEW p \in Peer, Local(p), ShutdownSend(p)
  PROVE  Local(p)'
<1>1. /\ pc[p].at = "ssl" /\ pc[p].op = "close" /\ estab[p] /\ wpend[p] = <<>>
      /\ UNCHANGED <<hs, estab, wpend, rx, closed, handshaked, acked, ret, notified>>
  BY DEF ShutdownSend, InShutdown, In, ShutdownFrame, net
<1>2. /\ pc'[p].op = "close" /\ pc'[p].at = "drain" /\ pc'[p].then \in {"done", "loop"}
  <2>1. DrainThen(p, "done") \/ DrainThen(p, "loop")
    BY DEF ShutdownSend, WantWrite
  <2> QED
    BY <1>1, <2>1, JumpDrain DEF Typed, Sequel
<1>3. \/ tx'[p] = tx[p]
      \/ Room(p) /\ tx'[p] = Append(tx[p], Notify)
  BY DEF ShutdownSend, Write, Typed, BioTypes
<1>4. Bounded(p)'
  <2>1. Len(tx'[p]) <= Cap
    BY <1>3, BufferLens, PieceTypes DEF Local, Bounded
  <2> QED
    BY <1>1, <2>1 DEF Local, Bounded
<1>5. FlightLeft(p)' /\ WriteInv(p)'
  BY <1>1, <1>2 DEF Local, FlightLeft, WriteInv
<1>6. ~closed[p] /\ pc'[p] # Idle /\ ret[p] # "eof"
  BY <1>1, <1>2 DEF Local, CallInv, EofInv, Idle
<1>7. CallInv(p)' /\ WaitInv(p)' /\ EofInv(p)' /\ AlertInv(p)'
  BY <1>1, <1>2, <1>6 DEF Local, CallInv, WaitInv, EofInv, AlertInv
<1>8. HandshakeInv(p)'
  <2>1. handshaked[p] => \A i \in 1..Len(tx'[p]) : tx'[p][i] # Handshaking
    <3>1. tx[p] \in Seq(Piece) /\ (handshaked[p] => \A i \in 1..Len(tx[p]) : tx[p][i] # Handshaking)
      BY DEF Typed, BioTypes, Local, HandshakeInv
    <3>2. Notify # Handshaking /\ Notify \in Piece
      BY PieceTypes DEF Notify, Handshaking
    <3>3. /\ Len(tx[p]) \in Nat /\ Len(Append(tx[p], Notify)) = Len(tx[p]) + 1
          /\ Append(tx[p], Notify)[Len(tx[p]) + 1] = Notify
          /\ \A i \in 1..Len(tx[p]) : Append(tx[p], Notify)[i] = tx[p][i]
      BY <3>1, <3>2, Pieces
    <3> QED
      BY <1>3, <3>1, <3>2, <3>3
  <2> QED
    BY <1>1, <1>2, <2>1 DEF Local, HandshakeInv
<1> QED
  BY <1>4, <1>5, <1>7, <1>8 DEF Local

LEMMA ShutdownPieceLocal ==
  ASSUME Typed, NEW p \in Peer, Local(p), ShutdownPiece(p)
  PROVE  Local(p)'
<1>1. /\ pc[p].at = "ssl" /\ pc[p].op = "close" /\ rx'[p] = Tail(rx[p]) /\ rx[p] # <<>>
      /\ UNCHANGED <<hs, estab, wpend, alert, tx, closed, handshaked, acked>>
  BY DEF ShutdownPiece, InShutdown, In, Consume, ShutdownFrame, net, Typed, BioTypes
<1>2. Len(rx'[p]) <= Cap
  BY <1>1, BufferLens
<1>3. CASE DrainThen(p, "done") /\ UNCHANGED ret
  BY <1>1, <1>2, <1>3, DrainLocal
<1>4. CASE UNCHANGED <<pc, ret>>
  BY <1>1, <1>2, <1>4, OnLocal
<1>5. CASE Exit(p, "error")
  BY <1>1, <1>2, <1>5, LeaveLocal
<1> QED
  BY <1>3, <1>4, <1>5 DEF ShutdownPiece

LEMMA ShutdownEmptyLocal ==
  ASSUME Typed, NEW p \in Peer, Local(p), ShutdownEmpty(p)
  PROVE  Local(p)'
<1>1. /\ pc[p].at = "ssl" /\ pc[p].op = "close" /\ rx[p] = <<>> /\ rx'[p] = rx[p]
      /\ UNCHANGED <<hs, estab, wpend, alert, tx, closed, handshaked, acked>>
  BY DEF ShutdownEmpty, InShutdown, In, ShutdownFrame, net
<1>2. Len(rx'[p]) <= Cap
  BY <1>1 DEF Local, Bounded
<1>3. CASE (WantWrite(p) \/ WantRead(p)) /\ UNCHANGED ret
  BY <1>1, <1>2, <1>3, DrainLocal DEF WantRead, WantWrite
<1>4. CASE Exit(p, "error")
  BY <1>1, <1>2, <1>4, LeaveLocal
<1> QED
  BY <1>3, <1>4 DEF ShutdownEmpty

LEMMA DisposeLocal ==
  ASSUME Typed, NEW p \in Peer, Local(p), Dispose(p)
  PROVE  Local(p)'
<1>1. /\ pc[p].op = "close" /\ pc'[p] = Idle /\ closed'[p] = TRUE
      /\ tx'[p] = <<>> /\ rx'[p] = <<>>
      /\ UNCHANGED <<hs, estab, wpend, alert, handshaked, acked, ret>>
  BY DEF Dispose, openssl, Local, CallInv, Typed, BioTypes, LuaTypes, Flags
<1>2. pc'[p].op = "none" /\ pc'[p].at = "none" /\ Len(tx'[p]) = 0 /\ Len(rx'[p]) = 0
  BY <1>1 DEF Idle
<1>3. Bounded(p)' /\ FlightLeft(p)' /\ CallInv(p)' /\ WaitInv(p)'
  BY <1>1, <1>2, SocketAssumption DEF Local, Bounded, FlightLeft, CallInv, WaitInv
<1>4. HandshakeInv(p)' /\ AlertInv(p)' /\ EofInv(p)'
  BY <1>1, <1>2 DEF Local, HandshakeInv, AlertInv, EofInv
<1>5. WriteInv(p)'
  BY <1>1, <1>2 DEF Local, WriteInv
<1> QED
  BY <1>3, <1>4, <1>5 DEF Local

LEMMA DrainedLocal ==
  ASSUME Typed, NEW p \in Peer, Local(p), Drained(p)
  PROVE  Local(p)'
<1>1. /\ pc[p].at = "drain" /\ tx[p] = <<>>
      /\ UNCHANGED <<hs, estab, wpend, alert, tx, rx, closed, acked, notified>>
  BY DEF Drained, openssl, bio, net
<1>2. pc[p].op # "none" /\ ~closed[p] /\ pc[p] # Idle /\ ret[p] # "eof"
  BY <1>1 DEF Local, CallInv, EofInv, Idle
<1>3. Bounded(p)' /\ FlightLeft(p)'
  BY <1>1 DEF Local, Bounded, FlightLeft
<1>4. CASE /\ pc[p].then \in {"fill", "loop"} /\ Goto(p, pc[p].then)
           /\ UNCHANGED <<handshaked, ret>>
  <2>1. /\ pc'[p].op = pc[p].op /\ pc'[p].at = pc[p].then /\ pc'[p].str = pc[p].str
    BY <1>4, Jump DEF Typed, Spot
  <2>2. CallInv(p)' /\ WaitInv(p)' /\ EofInv(p)'
    BY <1>1, <1>2, <1>4, <2>1 DEF Local, CallInv, WaitInv, EofInv
  <2>3. HandshakeInv(p)' /\ AlertInv(p)'
    BY <1>1, <1>4, <2>1 DEF Local, HandshakeInv, AlertInv
  <2>4. WriteInv(p)'
    BY <1>1, <1>4, <2>1 DEF Local, WriteInv
  <2> QED
    BY <1>3, <2>2, <2>3, <2>4 DEF Local
<1>5. CASE Exit(p, "ok") /\ handshaked' = handshaked
  <2>1. Len(rx'[p]) <= Cap
    BY <1>1 DEF Local, Bounded
  <2> QED
    BY <1>1, <1>2, <1>5, <2>1, LeaveLocal
<1>6. CASE /\ pc[p].then = "flushed" /\ handshaked' = [handshaked EXCEPT ![p] = TRUE]
           /\ Exit(p, "ok") \/ (Goto(p, "loop") /\ ret' = ret)
  <2>1. /\ handshaked'[p] = TRUE /\ estab[p]
    BY <1>1, <1>6 DEF Local, HandshakeInv, Typed, Flags
  <2>2. \/ pc'[p] = Idle /\ ret'[p] = "ok"
        \/ pc'[p].op = "close" /\ pc'[p].at = "dispose" /\ ret'[p] = "ok" /\ pc[p].op = "close"
        \/ pc'[p].op = pc[p].op /\ pc'[p].at = "loop" /\ pc'[p].str = pc[p].str /\ ret'[p] = ret[p]
    BY <1>6, Jump, JumpOut DEF Typed, Spot
  <2>3. pc'[p] = Idle => pc'[p].op = "none" /\ pc'[p].at = "none"
    BY DEF Idle
  <2>4. CallInv(p)' /\ WaitInv(p)' /\ EofInv(p)'
    BY <1>1, <1>2, <2>2, <2>3 DEF Local, CallInv, WaitInv, EofInv
  <2>5. \A i \in 1..Len(tx'[p]) : tx'[p][i] # Handshaking
    BY <1>1
  <2>6. alert[p] # "none" => pc'[p].op = "close" \/ closed'[p]
    <3>1. alert[p] # "none" => pc[p].op = "close"
      BY <1>2 DEF Local, AlertInv
    <3>2. pc[p].op = "close" => pc'[p].op = "close"
      BY <1>6, Jump, JumpOut DEF Typed, Spot
    <3> QED
      BY <3>1, <3>2
  <2>7. HandshakeInv(p)' /\ AlertInv(p)'
    BY <1>1, <2>1, <2>2, <2>3, <2>5, <2>6 DEF Local, HandshakeInv, AlertInv
  <2>8. WriteInv(p)'
    BY <1>1, <1>6, <2>2, <2>3 DEF Local, WriteInv
  <2> QED
    BY <1>3, <2>4, <2>7, <2>8 DEF Local
<1> QED
  BY <1>4, <1>5, <1>6 DEF Drained

(* Pieces that go from the buffer to the kernel, or are lost. *)
LEMMA LessLocal ==
  ASSUME Typed, NEW p \in Peer, Local(p), pc[p].at = "drain",
         UNCHANGED <<hs, estab, wpend, alert, notified, rx, closed, pc, handshaked, acked, ret>>,
         Len(tx'[p]) <= Cap,
         \A i \in 1..Len(tx'[p]) : \E j \in 1..Len(tx[p]) : tx'[p][i] = tx[p][j]
  PROVE  Local(p)'
<1>1. ~closed[p]
  BY DEF Local, CallInv, Idle
<1>2. Bounded(p)' /\ FlightLeft(p)'
  BY DEF Local, Bounded, FlightLeft
<1>3. CallInv(p)' /\ WaitInv(p)' /\ EofInv(p)'
  BY <1>1 DEF Local, CallInv, WaitInv, EofInv
<1>4. HandshakeInv(p)'
  <2>1. handshaked[p] => \A i \in 1..Len(tx'[p]) : tx'[p][i] # Handshaking
    BY DEF Local, HandshakeInv
  <2> QED
    BY <2>1 DEF Local, HandshakeInv
<1>5. AlertInv(p)' /\ WriteInv(p)'
  BY DEF Local, AlertInv, WriteInv
<1> QED
  BY <1>2, <1>3, <1>4, <1>5 DEF Local

LEMMA DrainSomeLocal ==
  ASSUME Typed, NEW p \in Peer, Local(p), wire[p] \in Seq(Piece), Len(wire[p]) <= WireCap,
         DrainSome(p)
  PROVE  Local(p)'
<1>1. tx[p] \in Seq(Piece) /\ Len(tx[p]) \in Nat /\ Len(wire[p]) \in Nat /\ Len(tx[p]) <= Cap
  BY Pieces DEF Typed, BioTypes, Local, Bounded
<1>2. PICK n : n = Smaller(Len(tx[p]), WireCap - Len(wire[p]))
  OBVIOUS
<1>3. n \in 0..Len(tx[p])
  <2>1. WireCap - Len(wire[p]) \in Nat
    BY <1>1, SocketAssumption
  <2> QED
    BY <1>1, <1>2, <2>1 DEF Smaller
<1>4. tx'[p] = SubSeq(tx[p], n + 1, Len(tx[p]))
  BY <1>2 DEF DrainSome, Typed, BioTypes
<1>5. /\ Len(tx'[p]) = Len(tx[p]) - n
      /\ \A i \in 1..Len(tx[p]) - n : tx'[p][i] = tx[p][n + i]
  BY <1>1, <1>3, <1>4, Cut
<1>6. Len(tx'[p]) <= Cap
  BY <1>1, <1>3, <1>5, SocketAssumption
<1>7. ASSUME NEW i \in 1..Len(tx'[p])
      PROVE  \E j \in 1..Len(tx[p]) : tx'[p][i] = tx[p][j]
  <2>1. n + i \in 1..Len(tx[p]) /\ i \in 1..Len(tx[p]) - n
    BY <1>1, <1>3, <1>5, <1>7
  <2> QED
    BY <1>5, <2>1
<1>8. /\ pc[p].at = "drain"
      /\ UNCHANGED <<hs, estab, wpend, alert, notified, rx, closed, pc, handshaked, acked, ret>>
  BY DEF DrainSome, lua, openssl
<1> QED
  BY <1>6, <1>7, <1>8, LessLocal

LEMMA DrainResetLocal ==
  ASSUME Typed, NEW p \in Peer, Local(p), DrainReset(p)
  PROVE  Local(p)'
<1>1. /\ pc[p].at = "drain"
      /\ UNCHANGED <<hs, estab, wpend, alert, notified, rx, closed, handshaked, acked>>
  BY DEF DrainReset, openssl
<1>2. CASE tx' = [tx EXCEPT ![p] = <<>>] /\ UNCHANGED <<pc, ret>>
  <2>1. tx'[p] = <<>> /\ Len(tx'[p]) = 0
    BY <1>2 DEF Typed, BioTypes
  <2>2. Len(tx'[p]) <= Cap
    BY <2>1, SocketAssumption
  <2> QED
    BY <1>1, <1>2, <2>1, <2>2, LessLocal
<1>3. CASE Exit(p, "error") /\ tx' = tx
  <2>1. Len(rx'[p]) <= Cap /\ pc[p].op # "none"
    BY <1>1 DEF Local, Bounded, CallInv, Idle
  <2> QED
    BY <1>1, <1>3, <2>1, LeaveLocal
<1> QED
  BY <1>2, <1>3 DEF DrainReset

LEMMA FillLocal ==
  ASSUME Typed, NEW p \in Peer, Local(p), Fill(p)
  PROVE  Local(p)'
<1>1. /\ pc'[p].op = pc[p].op /\ pc'[p].at = "loop" /\ pc'[p].str = pc[p].str /\ pc[p].at = "fill"
      /\ UNCHANGED <<hs, estab, wpend, alert, notified, tx, closed, handshaked, acked, ret>>
  BY Jump DEF Fill, Typed, Spot, openssl
<1>2. pc[p].op # "none" /\ ~closed[p] /\ pc[p] # Idle
  BY <1>1 DEF Local, CallInv, Idle
<1>3. Len(rx'[p]) <= Cap
  <2>1. PICK q \in Peer : q = Other(p)
    BY Ends
  <2>2. PICK r, w : r = rx[p] /\ w = wire[q]
    OBVIOUS
  <2>3. r \in Seq(Piece) /\ w \in Seq(Piece) /\ Len(r) \in Nat /\ Len(w) \in Nat /\ Len(r) <= Cap
    BY <2>2, Pieces DEF Typed, BioTypes, Local, Bounded
  <2>4. PICK n : n = Smaller(Len(w), Cap - Len(r))
    OBVIOUS
  <2>5. n \in 0..Len(w) /\ n <= Cap - Len(r)
    <3>1. Cap - Len(r) \in Nat
      BY <2>3, SocketAssumption
    <3> QED
      BY <2>3, <2>4, <3>1 DEF Smaller
  <2>6. SubSeq(w, 1, n) \in Seq(Piece) /\ Len(SubSeq(w, 1, n)) = n
    BY <2>3, <2>5, Cut
  <2>7. Len(r \o SubSeq(w, 1, n)) = Len(r) + n
    BY <2>3, <2>6, ConcatProperties
  <2>8. rx' = [rx EXCEPT ![p] = r \o SubSeq(w, 1, n)] \/ rx' = rx
    BY <2>1, <2>2, <2>4 DEF Fill
  <2>9. rx'[p] = r \o SubSeq(w, 1, n) \/ rx'[p] = r
    BY <2>2, <2>8 DEF Typed, BioTypes
  <2> QED
    BY <2>3, <2>5, <2>7, <2>9, SocketAssumption
<1>4. Bounded(p)' /\ FlightLeft(p)'
  BY <1>1, <1>3 DEF Local, Bounded, FlightLeft
<1>5. CallInv(p)' /\ WaitInv(p)' /\ EofInv(p)'
  BY <1>1, <1>2 DEF Local, CallInv, WaitInv, EofInv
<1>6. HandshakeInv(p)' /\ AlertInv(p)'
  BY <1>1 DEF Local, HandshakeInv, AlertInv
<1>7. WriteInv(p)'
  BY <1>1 DEF Local, WriteInv
<1> QED
  BY <1>4, <1>5, <1>6, <1>7 DEF Local

-----------------------------------------------------------------------------
(* Both peers, and the wire between them.                                  *)

WireBounded == \A p \in Peer : Len(wire[p]) <= WireCap

PeersInv == Typed /\ WireBounded /\ \A p \in Peer : Local(p)

(* Who does not go on stays as it is. *)
LEMMA StayLocal ==
  ASSUME NEW q \in Peer, Local(q), Stay(q)
  PROVE  Local(q)'
<1>1. Bounded(q)' /\ FlightLeft(q)' /\ CallInv(q)' /\ HandshakeInv(q)'
  BY DEF Stay, Local, Bounded, FlightLeft, CallInv, HandshakeInv
<1>2. AlertInv(q)' /\ WriteInv(q)' /\ WaitInv(q)' /\ EofInv(q)'
  BY DEF Stay, Local, AlertInv, WriteInv, WaitInv, EofInv
<1> QED
  BY <1>1, <1>2 DEF Local

(* The steps of p, a new call included. *)
Goes(p) ==
  \/ \E op \in {"handshake", "read", "close"} : Call(p, op, <<>>)
  \/ \E n \in 1..MaxUnits - acked[p] : Call(p, "write", Unsent(p, n))
  \/ Step(p) \/ Deadline(p)

LEMMA GoesLocal ==
  ASSUME PeersInv, NEW p \in Peer, Goes(p)
  PROVE  Alone(p) /\ Local(p)'
<1>1. Typed /\ Local(p) /\ Len(wire[p]) <= WireCap /\ wire[p] \in Seq(Piece) /\ Bounded(p)
  BY DEF PeersInv, WireBounded, Typed, BioTypes, Local
<1>2. ASSUME NEW op \in {"handshake", "read", "close"}, Call(p, op, <<>>)
      PROVE  Alone(p) /\ Local(p)'
  <2>1. op \in Op \ {"none"} /\ op # "write" /\ <<>> \in Seq(1..MaxUnits)
    BY DEF Op
  <2> QED
    BY <1>1, <1>2, <2>1, CallAlone, CallLocal
<1>3. ASSUME NEW n \in 1..MaxUnits - acked[p], Call(p, "write", Unsent(p, n))
      PROVE  Alone(p) /\ Local(p)'
  <2>1. acked[p] \in Nat /\ acked[p] <= MaxUnits
    BY <1>1 DEF Typed, LuaTypes, Local, WriteInv
  <2>2. /\ Unsent(p, n) \in Seq(1..MaxUnits) /\ Len(Unsent(p, n)) = n /\ Unsent(p, n) # <<>>
        /\ \A i \in 1..n : Unsent(p, n)[i] = acked[p] + i
    <3>1. n \in Nat \ {0} /\ n + acked[p] <= MaxUnits /\ MaxUnits \in Nat
      BY <2>1, SocketAssumption
    <3>2. Unsent(p, n) = [i \in 1..n |-> acked[p] + i]
      BY DEF Unsent
    <3>3. \A i \in 1..n : acked[p] + i \in 1..MaxUnits
      BY <2>1, <3>1
    <3>4. Unsent(p, n) \in [1..n -> 1..MaxUnits]
      BY <3>2, <3>3
    <3>5. Unsent(p, n) \in Seq(1..MaxUnits) /\ Len(Unsent(p, n)) = n
      BY <3>1, <3>4
    <3> QED
      BY <3>1, <3>2, <3>5
  <2>3. "write" \in Op \ {"none"} /\ acked[p] + Len(Unsent(p, n)) <= MaxUnits
    BY <2>1, <2>2, SocketAssumption DEF Op
  <2> QED
    BY <1>1, <1>3, <2>2, <2>3, CallAlone, CallLocal
<1>4. CASE Enter(p) \/ Deadline(p)
  BY <1>1, <1>4, EnterAlone, EnterLocal, DeadlineAlone, DeadlineLocal
<1>5. CASE HandshakeWrite(p) \/ HandshakeRead(p) \/ HandshakeDone(p)
  BY <1>1, <1>5, HandshakeWriteAlone, HandshakeWriteLocal, HandshakeReadAlone,
     HandshakeReadLocal, HandshakeDoneAlone, HandshakeDoneLocal
<1>6. CASE WriteStart(p) \/ WritePiece(p) \/ WriteFull(p)
  BY <1>1, <1>6, WriteStartAlone, WriteStartLocal, WritePieceAlone, WritePieceLocal,
     WriteFullAlone, WriteFullLocal
<1>7. CASE ReadPiece(p) \/ ReadEnd(p) \/ ReadEmpty(p)
  BY <1>1, <1>7, ReadPieceAlone, ReadPieceLocal, ReadEndAlone, ReadEndLocal,
     ReadEmptyAlone, ReadEmptyLocal
<1>8. CASE ShutdownNothing(p) \/ ShutdownFails(p) \/ ShutdownSend(p)
  BY <1>1, <1>8, ShutdownNothingAlone, ShutdownNothingLocal, ShutdownFailsAlone,
     ShutdownFailsLocal, ShutdownSendAlone, ShutdownSendLocal
<1>9. CASE ShutdownPiece(p) \/ ShutdownEmpty(p) \/ Dispose(p)
  BY <1>1, <1>9, ShutdownPieceAlone, ShutdownPieceLocal, ShutdownEmptyAlone,
     ShutdownEmptyLocal, DisposeAlone, DisposeLocal
<1>10. CASE Drained(p) \/ DrainSome(p) \/ DrainReset(p) \/ Fill(p)
  BY <1>1, <1>10, DrainedAlone, DrainedLocal, DrainSomeAlone, DrainSomeLocal,
     DrainResetAlone, DrainResetLocal, FillAlone, FillLocal
<1> QED
  BY <1>2, <1>3, <1>4, <1>5, <1>6, <1>7, <1>8, <1>9, <1>10 DEF Goes, Step

(* The kernel's buffers: only DrainSome puts something in. *)
LEMMA WireStep ==
  ASSUME PeersInv, NEW p \in Peer, Goes(p)
  PROVE  WireBounded'
<1>1. /\ \A q \in Peer : wire[q] \in Seq(Piece) /\ Len(wire[q]) \in Nat /\ Len(wire[q]) <= WireCap
      /\ tx[p] \in Seq(Piece) /\ Len(tx[p]) \in Nat /\ rx[p] \in Seq(Piece)
      /\ Len(rx[p]) \in Nat /\ Len(rx[p]) <= Cap /\ wire \in [Peer -> Seq(Piece)]
  BY Pieces DEF PeersInv, WireBounded, Typed, BioTypes, Local, Bounded
<1>2. CASE UNCHANGED wire
  BY <1>1, <1>2 DEF WireBounded
<1>3. CASE \E q \in Peer : wire' = [wire EXCEPT ![q] = <<>>]
  <2>1. PICK q \in Peer : wire' = [wire EXCEPT ![q] = <<>>]
    BY <1>3
  <2>2. wire'[q] = <<>> /\ \A r \in Peer : r # q => wire'[r] = wire[r]
    BY <1>1, <2>1
  <2>3. Len(wire'[q]) = 0
    BY <2>2
  <2> QED
    BY <1>1, <2>2, <2>3, SocketAssumption DEF WireBounded
<1>4. CASE DrainSome(p)
  <2>1. PICK n : n = Smaller(Len(tx[p]), WireCap - Len(wire[p]))
    OBVIOUS
  <2>2. n \in 0..Len(tx[p]) /\ n <= WireCap - Len(wire[p])
    <3>1. WireCap - Len(wire[p]) \in Nat
      BY <1>1, SocketAssumption
    <3> QED
      BY <1>1, <2>1, <3>1 DEF Smaller
  <2>3. wire' = [wire EXCEPT ![p] = wire[p] \o SubSeq(tx[p], 1, n)]
    BY <1>4, <2>1 DEF DrainSome
  <2>4. SubSeq(tx[p], 1, n) \in Seq(Piece) /\ Len(SubSeq(tx[p], 1, n)) = n
    BY <1>1, <2>2, Cut
  <2>5. Len(wire[p] \o SubSeq(tx[p], 1, n)) = Len(wire[p]) + n
    BY <1>1, <2>4, ConcatProperties
  <2>6. Len(wire'[p]) <= WireCap /\ \A q \in Peer : q # p => wire'[q] = wire[q]
    BY <1>1, <2>2, <2>3, <2>5, SocketAssumption
  <2> QED
    BY <1>1, <2>6 DEF WireBounded
<1>5. CASE Fill(p)
  <2>1. PICK q \in Peer : q = Other(p)
    BY Ends
  <2>2. PICK n : n = Smaller(Len(wire[q]), Cap - Len(rx[p]))
    OBVIOUS
  <2>3. n \in 0..Len(wire[q])
    <3>1. Cap - Len(rx[p]) \in Nat
      BY <1>1, SocketAssumption
    <3> QED
      BY <1>1, <2>2, <3>1 DEF Smaller
  <2>4. \/ UNCHANGED wire
        \/ wire' = [wire EXCEPT ![q] = SubSeq(wire[q], n + 1, Len(wire[q]))]
    BY <1>5, <2>1, <2>2 DEF Fill
  <2>5. Len(SubSeq(wire[q], n + 1, Len(wire[q]))) = Len(wire[q]) - n
    BY <1>1, <2>3, Cut
  <2>6. Len(SubSeq(wire[q], n + 1, Len(wire[q]))) <= WireCap
    BY <1>1, <2>3, <2>5, SocketAssumption
  <2> QED
    BY <1>1, <2>4, <2>6 DEF WireBounded
<1>6. CASE Step(p)
  <2>1. CASE Dispose(p)
    BY <1>2, <1>3, <2>1 DEF Dispose
  <2>2. CASE DrainReset(p)
    BY <1>2, <1>3, <2>2, Ends DEF DrainReset
  <2>3. CASE Enter(p) \/ HandshakeWrite(p) \/ HandshakeRead(p) \/ HandshakeDone(p)
             \/ WriteStart(p) \/ WritePiece(p) \/ WriteFull(p)
    BY <1>2, <2>3 DEF Enter, HandshakeWrite, HandshakeRead, HandshakeDone, HandshakeFrame,
                      WriteStart, WritePiece, WriteFull, WriteFrame, net
  <2>4. CASE ReadPiece(p) \/ ReadEnd(p) \/ ReadEmpty(p) \/ ShutdownNothing(p)
             \/ ShutdownFails(p) \/ ShutdownSend(p) \/ ShutdownPiece(p) \/ ShutdownEmpty(p)
    BY <1>2, <2>4 DEF ReadPiece, ReadEnd, ReadEmpty, ReadFrame, ShutdownNothing, ShutdownFails,
                      ShutdownSend, ShutdownPiece, ShutdownEmpty, ShutdownFrame, net
  <2>5. CASE Drained(p)
    BY <1>2, <2>5 DEF Drained, net
  <2> QED
    BY <1>4, <1>5, <1>6, <2>1, <2>2, <2>3, <2>4, <2>5 DEF Step
<1>7. CASE ~Step(p)
  <2>1. UNCHANGED wire
    BY <1>7 DEF Goes, Call, Deadline, net
  <2> QED
    BY <1>2, <2>1
<1> QED
  BY <1>6, <1>7

LEMMA InitTyped == Init => Typed
<1> SUFFICES ASSUME Init PROVE Typed
  OBVIOUS
<1>1. \A S : <<>> \in Seq(S)
  OBVIOUS
<1>2. hs \in [Peer -> Seq({"w", "t", "r"})]
  <2>1. PICK a, b, c, d : /\ a = <<"w", "r", "r", "r", "w", "r">>
                          /\ b = <<"r", "w", "w", "w", "r", "w">>
                          /\ c = <<"w", "r", "r", "r", "w">>
                          /\ d = <<"r", "w", "w", "w", "r", "t">>
    OBVIOUS
  <2>2. PICK S : S = Seq({"w", "t", "r"})
    OBVIOUS
  <2>3. a \in S /\ b \in S /\ c \in S /\ d \in S
    BY <2>1, <2>2
  <2>4. hs = [client |-> a, server |-> b] \/ hs = [client |-> c, server |-> d]
    BY <2>1 DEF Init, Flights
  <2>5. hs \in [Peer -> S]
    BY <2>3, <2>4 DEF Peer
  <2> QED
    BY <2>2, <2>5
<1>3. Idle \in Point
  BY <1>1 DEF Idle, Point, Op, Spot, Sequel
<1>4. BioTypes /\ SslTypes /\ Flags
  BY <1>1, <1>2 DEF Init, BioTypes, SslTypes, Flags
<1>5. LuaTypes
  BY <1>1, <1>3 DEF Init, LuaTypes
<1> QED
  BY <1>4, <1>5 DEF Typed

LEMMA InitLocal ==
  ASSUME Init, NEW p \in Peer
  PROVE  Local(p)
<1>1. /\ pc[p] = Idle /\ tx[p] = <<>> /\ rx[p] = <<>> /\ wpend[p] = <<>> /\ acked[p] = 0
      /\ ~closed[p] /\ ~estab[p] /\ ~handshaked[p] /\ alert[p] = "none" /\ ret[p] = "none"
  BY DEF Init
<1>2. /\ pc[p].op = "none" /\ pc[p].at = "none" /\ Len(tx[p]) = 0 /\ Len(rx[p]) = 0
  BY <1>1 DEF Idle
<1>3. FlightLeft(p)
  <2>1. \/ hs[p] = <<"w", "r", "r", "r", "w", "r">> \/ hs[p] = <<"r", "w", "w", "w", "r", "w">>
        \/ hs[p] = <<"w", "r", "r", "r", "w">> \/ hs[p] = <<"r", "w", "w", "w", "r", "t">>
    BY DEF Init, Flights, Peer
  <2>2. CASE hs[p] = <<"w", "r", "r", "r", "w", "r">>
    <3>1. Len(hs[p]) = 6 /\ \A i \in 1..6 : hs[p][i] # "t"
      BY <2>2
    <3> QED
      BY <3>1 DEF FlightLeft
  <2>3. CASE hs[p] = <<"r", "w", "w", "w", "r", "w">>
    <3>1. Len(hs[p]) = 6 /\ \A i \in 1..6 : hs[p][i] # "t"
      BY <2>3
    <3> QED
      BY <3>1 DEF FlightLeft
  <2>4. CASE hs[p] = <<"w", "r", "r", "r", "w">>
    <3>1. Len(hs[p]) = 5 /\ \A i \in 1..5 : hs[p][i] # "t"
      BY <2>4
    <3> QED
      BY <3>1 DEF FlightLeft
  <2>5. CASE hs[p] = <<"r", "w", "w", "w", "r", "t">>
    <3>1. Len(hs[p]) = 6 /\ \A i \in 1..5 : hs[p][i] # "t"
      BY <2>5
    <3> QED
      BY <3>1 DEF FlightLeft
  <2> QED
    BY <2>1, <2>2, <2>3, <2>4, <2>5
<1>4. Bounded(p) /\ CallInv(p) /\ HandshakeInv(p) /\ AlertInv(p)
  BY <1>1, <1>2, SocketAssumption DEF Bounded, CallInv, HandshakeInv, AlertInv
<1>5. WriteInv(p) /\ WaitInv(p) /\ EofInv(p)
  BY <1>1, <1>2, SocketAssumption DEF WriteInv, WaitInv, EofInv
<1> QED
  BY <1>3, <1>4, <1>5 DEF Local

LEMMA NextGoes == Next <=> \E p \in Peer : Goes(p)
BY DEF Next, Goes

LEMMA PeersStep == PeersInv /\ [Next]_vars => PeersInv'
<1> SUFFICES ASSUME PeersInv, [Next]_vars PROVE PeersInv'
  OBVIOUS
<1>1. ASSUME NEW p \in Peer, Goes(p)
      PROVE  PeersInv'
  <2>1. Alone(p) /\ Local(p)' /\ WireBounded'
    BY <1>1, GoesLocal, WireStep
  <2>2. ASSUME NEW q \in Peer, q # p
        PROVE  Local(q)'
    BY <2>1, <2>2, StayLocal DEF Alone, PeersInv
  <2> QED
    BY <2>1, <2>2 DEF Alone, PeersInv
<1>2. CASE UNCHANGED vars
  <2>1. Typed' /\ WireBounded'
    BY <1>2 DEF vars, PeersInv, Typed, BioTypes, SslTypes, LuaTypes, Flags, WireBounded
  <2>2. ASSUME NEW q \in Peer
        PROVE  Local(q)'
    <3>1. Stay(q)
      BY <1>2 DEF vars, Stay
    <3> QED
      BY <3>1, StayLocal DEF PeersInv
  <2> QED
    BY <2>1, <2>2 DEF PeersInv
<1> QED
  BY <1>1, <1>2, NextGoes

LEMMA PeersAlways == Spec => []PeersInv
<1>1. Init => PeersInv
  <2> SUFFICES ASSUME Init PROVE PeersInv
    OBVIOUS
  <2>1. \A p \in Peer : wire[p] = <<>> /\ Len(<<>>) = 0
    BY DEF Init
  <2>2. WireBounded
    BY <2>1, SocketAssumption DEF WireBounded
  <2> QED
    BY <2>2, InitTyped, InitLocal DEF PeersInv
<1> QED
  BY <1>1, PeersStep, PTL DEF Spec

(* Every variable keeps its type, and no buffer of the library or of the   *)
(* kernel takes more than it holds.                                        *)
THEOREM SocketTypes == Spec => []TypeOK
<1>1. PeersInv => TypeOK
  <2> SUFFICES ASSUME PeersInv PROVE TypeOK
    OBVIOUS
  <2>1. ASSUME NEW p \in Peer
        PROVE  /\ hs[p] \in Seq({"w", "t", "r"}) /\ wpend[p] \in Seq(Piece)
               /\ tx[p] \in Seq(Piece) /\ Len(tx[p]) <= Cap
               /\ rx[p] \in Seq(Piece) /\ Len(rx[p]) <= Cap
               /\ wire[p] \in Seq(Piece) /\ Len(wire[p]) <= WireCap
               /\ got[p] \in Seq(1..MaxUnits) /\ alert[p] \in {"none", "due", "sent"}
               /\ ret[p] \in {"none", "ok", "eof", "error", "timeout"}
    BY DEF PeersInv, Typed, BioTypes, SslTypes, LuaTypes, WireBounded, Local, Bounded
  <2>2. ASSUME NEW p \in Peer
        PROVE  acked[p] \in 0..MaxUnits
    <3>1. acked[p] \in Nat /\ acked[p] <= MaxUnits
      BY DEF PeersInv, Typed, LuaTypes, Local, WriteInv
    <3> QED
      BY <3>1, SocketAssumption
  <2>3. ASSUME NEW p \in Peer
        PROVE  pc[p] \in [op: {"none", "handshake", "read", "write", "close"},
                          at: {"none", "loop", "ssl", "drain", "fill", "dispose"},
                          then: {"none", "fill", "loop", "flushed", "done"},
                          str: Seq(1..MaxUnits)]
    BY DEF PeersInv, Typed, LuaTypes, Point, Op, Spot, Sequel
  <2>4. {estab, notified, broken, rxEof, closed, handshaked} \subseteq [Peer -> BOOLEAN]
    BY DEF PeersInv, Typed, Flags
  <2> QED
    BY <2>1, <2>2, <2>3, <2>4 DEF TypeOK
<1> QED
  BY <1>1, PeersAlways, PTL

(* A side that says it is handshaked has put its whole part of the         *)
(* handshake into the kernel.                                              *)
THEOREM HandshakesReachThePeer == Spec => []HandshakeFlushed
<1>1. PeersInv => HandshakeFlushed
  <2> SUFFICES ASSUME PeersInv, NEW p \in Peer, handshaked[p]
               PROVE  hs[p] = <<>> /\ \A i \in DOMAIN tx[p] : tx[p][i] # Handshaking
    BY DEF HandshakeFlushed
  <2>1. tx[p] \in Seq(Piece)
    BY DEF PeersInv, Typed, BioTypes
  <2>2. DOMAIN tx[p] = 1..Len(tx[p])
    BY <2>1, LenProperties
  <2> QED
    BY <2>2 DEF PeersInv, Local, HandshakeInv
<1> QED
  BY <1>1, PeersAlways, PTL

(* Who waits for the peer has sent all it had and read all that came.      *)
THEOREM NothingIsHeldBack == Spec => []WaitsForNothing
<1>1. PeersInv => WaitsForNothing
  BY DEF PeersInv, WaitsForNothing, Local, WaitInv
<1> QED
  BY <1>1, PeersAlways, PTL

-----------------------------------------------------------------------------
(* What is on the way from one peer to the other.                          *)

(* Is(h, i, m) is 1 where message i of h is m; flights have 6 at most. *)
Is(h, i, m) == IF i <= Len(h) /\ h[i] = m THEN 1 ELSE 0
Count(h, m) == Is(h, 1, m) + Is(h, 2, m) + Is(h, 3, m) + Is(h, 4, m) + Is(h, 5, m) + Is(h, 6, m)

(* The pieces p wrote that its peer has not read. *)
Chan(p) == rx[Other(p)] \o (wire[p] \o tx[p])

(* The messages of the handshake among them, the pieces of records that p  *)
(* ever wrote, and whether its close_notify is among them.                 *)
Under(p) == Count(hs[Other(p)], "r") - Count(hs[p], "w")
Emitted(p) == 2 * acked[p] + (IF Len(wpend[p]) = 1 THEN 1 ELSE 0)
Closing(p) == IF alert[p] = "sent" /\ ~notified[Other(p)] THEN 1 ELSE 0

(* Piece x is the n-th of all the pieces of records. *)
IsAt(x, n) == (x[1] = "d" /\ 2 * x[2] = n + 1) \/ (x[1] = "e" /\ 2 * x[2] = n)

(* s is, or starts, with h messages of a handshake, t tickets, the pieces  *)
(* of records after the r-th up to the e-th, and a close_notifies.         *)
Carries(s, h, t, r, e, a) ==
  /\ Len(s) <= h + t + (e - r) + a
  /\ \A i \in 1..Len(s) :
       /\ i <= h => s[i] = Handshaking
       /\ h < i /\ i <= h + t => s[i] = Ticket
       /\ h + t < i /\ i <= h + t + (e - r) => IsAt(s[i], r + i - h - t)
       /\ h + t + (e - r) < i => s[i] = Notify

(* The program of p may read, or come to read, what is on the way to it. *)
Reads(p) == ~closed[p] /\ pc[p].op # "close"

(* With t tickets on the way to a peer that has read r pieces of records,  *)
(* the last one perhaps not returned yet: what is on the way is all that   *)
(* was written and not read, or the start of it if p closed its socket.    *)
Flow(p, t, r) ==
  /\ r = 2 * Len(got[Other(p)]) \/ r = 2 * Len(got[Other(p)]) + 1
  /\ Under(p) >= 0 /\ r <= Emitted(p)
  /\ Carries(Chan(p), Under(p), t, r, Emitted(p), Closing(p))
  /\ ~closed[p] => Len(Chan(p)) = Under(p) + t + (Emitted(p) - r) + Closing(p)
  /\ t = 1 => hs[p] = <<>>
  /\ notified[Other(p)] => alert[p] = "sent" /\ t = 0 /\ r = Emitted(p) /\ Under(p) = 0

StreamInv(p) == Reads(Other(p)) => \E t \in {0, 1}, r \in Nat : Flow(p, t, r)

(* What read() returned. *)
GotInv(p) ==
  /\ \A i \in 1..Len(got[p]) : got[p][i] = i
  /\ Len(got[p]) <= acked[Other(p)]

SocketInv == PeersInv /\ \A p \in Peer : StreamInv(p) /\ GotInv(p)

-----------------------------------------------------------------------------
(* Sequences that carry a stream, when a piece is put in or taken out.     *)

LEMMA CarriesPrefix ==
  ASSUME NEW s \in Seq(Piece), NEW u \in Seq(Piece), NEW h \in Nat, NEW t \in {0, 1},
         NEW r \in Nat, NEW e \in Nat, NEW a \in {0, 1}, Carries(s, h, t, r, e, a),
         Len(u) <= Len(s), \A i \in 1..Len(u) : u[i] = s[i]
  PROVE  Carries(u, h, t, r, e, a)
<1>1. Len(s) \in Nat /\ Len(u) \in Nat
  BY Pieces
<1> QED
  BY <1>1 DEF Carries

LEMMA PutHandshake ==
  ASSUME NEW s \in Seq(Piece), NEW h \in Nat, NEW r \in Nat,
         Carries(s, h, 0, r, r, 0), Len(s) = h
  PROVE  Carries(Append(s, Handshaking), h + 1, 0, r, r, 0)
<1>1. /\ Len(Append(s, Handshaking)) = h + 1 /\ Append(s, Handshaking)[h + 1] = Handshaking
      /\ \A i \in 1..h : Append(s, Handshaking)[i] = s[i]
  BY Pieces, PieceTypes
<1>2. \A i \in 1..h : s[i] = Handshaking
  BY DEF Carries
<1> QED
  BY <1>1, <1>2 DEF Carries

LEMMA PutTicket ==
  ASSUME NEW s \in Seq(Piece), NEW h \in Nat, NEW r \in Nat,
         Carries(s, h, 0, r, r, 0), Len(s) = h
  PROVE  Carries(Append(s, Ticket), h, 1, r, r, 0)
<1>1. /\ Len(Append(s, Ticket)) = h + 1 /\ Append(s, Ticket)[h + 1] = Ticket
      /\ \A i \in 1..h : Append(s, Ticket)[i] = s[i]
  BY Pieces, PieceTypes
<1>2. \A i \in 1..h : s[i] = Handshaking
  BY DEF Carries
<1> QED
  BY <1>1, <1>2 DEF Carries

LEMMA PutData ==
  ASSUME NEW s \in Seq(Piece), NEW h \in Nat, NEW t \in {0, 1}, NEW r \in Nat, NEW e \in Nat,
         r <= e, Carries(s, h, t, r, e, 0), Len(s) = h + t + (e - r),
         NEW x \in Piece, IsAt(x, e + 1)
  PROVE  Carries(Append(s, x), h, t, r, e + 1, 0)
<1>1. /\ Len(Append(s, x)) = h + t + (e - r) + 1
      /\ Append(s, x)[h + t + (e - r) + 1] = x
      /\ \A i \in 1..h + t + (e - r) : Append(s, x)[i] = s[i]
  BY Pieces
<1>2. ASSUME NEW i \in 1..h + t + (e - r)
      PROVE  /\ i <= h => Append(s, x)[i] = Handshaking
             /\ h < i /\ i <= h + t => Append(s, x)[i] = Ticket
             /\ h + t < i => IsAt(Append(s, x)[i], r + i - h - t)
  <2>1. Append(s, x)[i] = s[i] /\ i \in 1..Len(s)
    BY <1>1
  <2> QED
    BY <2>1 DEF Carries
<1>3. r + (h + t + (e - r) + 1) - h - t = e + 1
  OBVIOUS
<1>4. ASSUME NEW i \in 1..h + t + (e - r) + 1
      PROVE  /\ i <= h => Append(s, x)[i] = Handshaking
             /\ h < i /\ i <= h + t => Append(s, x)[i] = Ticket
             /\ h + t < i => IsAt(Append(s, x)[i], r + i - h - t)
  <2>1. CASE i \in 1..h + t + (e - r)
    BY <1>2, <2>1
  <2>2. CASE i = h + t + (e - r) + 1
    BY <1>1, <1>3, <2>2
  <2> QED
    BY <2>1, <2>2
<1> QED
  BY <1>1, <1>4 DEF Carries

LEMMA PutNotify ==
  ASSUME NEW s \in Seq(Piece), NEW h \in Nat, NEW t \in {0, 1}, NEW r \in Nat, NEW e \in Nat,
         r <= e, Carries(s, h, t, r, e, 0), Len(s) = h + t + (e - r)
  PROVE  Carries(Append(s, Notify), h, t, r, e, 1)
<1>1. /\ Len(Append(s, Notify)) = h + t + (e - r) + 1
      /\ Append(s, Notify)[h + t + (e - r) + 1] = Notify
      /\ \A i \in 1..h + t + (e - r) : Append(s, Notify)[i] = s[i]
  BY Pieces, PieceTypes
<1> QED
  BY <1>1 DEF Carries

LEMMA TakeHandshake ==
  ASSUME NEW s \in Seq(Piece), NEW h \in Nat \ {0}, NEW t \in {0, 1}, NEW r \in Nat,
         NEW e \in Nat, r <= e, NEW a \in {0, 1}, Carries(s, h, t, r, e, a), s # <<>>
  PROVE  Carries(Tail(s), h - 1, t, r, e, a)
<1>1. /\ Len(s) \in Nat \ {0} /\ Len(Tail(s)) = Len(s) - 1
      /\ \A i \in 1..Len(s) - 1 : Tail(s)[i] = s[i + 1]
  BY Pieces
<1>2. ASSUME NEW i \in 1..Len(s) - 1
      PROVE  /\ i <= h - 1 => Tail(s)[i] = Handshaking
             /\ h - 1 < i /\ i <= h - 1 + t => Tail(s)[i] = Ticket
             /\ h - 1 + t < i /\ i <= h - 1 + t + (e - r) => IsAt(Tail(s)[i], r + i - (h - 1) - t)
             /\ h - 1 + t + (e - r) < i => Tail(s)[i] = Notify
  <2>1. PICK j \in 1..Len(s) : j = i + 1
    BY <1>1
  <2>2. Tail(s)[i] = s[j] /\ r + i - (h - 1) - t = r + j - h - t
    BY <1>1, <2>1
  <2> QED
    BY <2>1, <2>2 DEF Carries
<1>3. Len(Tail(s)) <= h - 1 + t + (e - r) + a
  BY <1>1 DEF Carries
<1> QED
  BY <1>1, <1>2, <1>3 DEF Carries

LEMMA TakeTicket ==
  ASSUME NEW s \in Seq(Piece), NEW r \in Nat, NEW e \in Nat, r <= e, NEW a \in {0, 1},
         Carries(s, 0, 1, r, e, a), s # <<>>
  PROVE  s[1] = Ticket /\ Carries(Tail(s), 0, 0, r, e, a)
<1>1. /\ Len(s) \in Nat \ {0} /\ Len(Tail(s)) = Len(s) - 1
      /\ \A i \in 1..Len(s) - 1 : Tail(s)[i] = s[i + 1]
  BY Pieces
<1>2. ASSUME NEW i \in 1..Len(s) - 1
      PROVE  /\ i <= e - r => IsAt(Tail(s)[i], r + i)
             /\ e - r < i => Tail(s)[i] = Notify
  <2>1. PICK j \in 1..Len(s) : j = i + 1
    BY <1>1
  <2>2. Tail(s)[i] = s[j] /\ r + j - 0 - 1 = r + i
    BY <1>1, <2>1
  <2> QED
    BY <2>1, <2>2 DEF Carries
<1>3. \A i \in 1..Len(s) - 1 : r + i - 0 - 0 = r + i
  BY <1>1
<1>4. s[1] = Ticket
  BY <1>1 DEF Carries
<1>5. Len(Tail(s)) <= 0 + 0 + (e - r) + a
  BY <1>1 DEF Carries
<1> QED
  BY <1>1, <1>2, <1>3, <1>4, <1>5 DEF Carries

LEMMA TakeData ==
  ASSUME NEW s \in Seq(Piece), NEW r \in Nat, NEW e \in Nat, r < e, NEW a \in {0, 1},
         Carries(s, 0, 0, r, e, a), s # <<>>
  PROVE  IsAt(s[1], r + 1) /\ Carries(Tail(s), 0, 0, r + 1, e, a)
<1>1. /\ Len(s) \in Nat \ {0} /\ Len(Tail(s)) = Len(s) - 1
      /\ \A i \in 1..Len(s) - 1 : Tail(s)[i] = s[i + 1]
  BY Pieces
<1>2. \A i \in 1..Len(s) : /\ i <= e - r => IsAt(s[i], r + i)
                           /\ e - r < i => s[i] = Notify
  <2>1. \A i \in 1..Len(s) : r + i - 0 - 0 = r + i
    BY <1>1
  <2> QED
    BY <1>1, <2>1 DEF Carries
<1>3. ASSUME NEW i \in 1..Len(s) - 1
      PROVE  /\ i <= e - (r + 1) => IsAt(Tail(s)[i], r + 1 + i)
             /\ e - (r + 1) < i => Tail(s)[i] = Notify
  <2>1. PICK j \in 1..Len(s) : j = i + 1
    BY <1>1
  <2>2. Tail(s)[i] = s[j] /\ r + j = r + 1 + i
    BY <1>1, <2>1
  <2> QED
    BY <1>2, <2>1, <2>2
<1>4. \A i \in 1..Len(s) - 1 : r + 1 + i - 0 - 0 = r + 1 + i
  BY <1>1
<1>5. IsAt(s[1], r + 1)
  BY <1>1, <1>2
<1>6. Len(Tail(s)) <= 0 + 0 + (e - (r + 1)) + a
  BY <1>1 DEF Carries
<1> QED
  BY <1>1, <1>3, <1>4, <1>5, <1>6 DEF Carries

LEMMA TakeNotify ==
  ASSUME NEW s \in Seq(Piece), NEW r \in Nat, NEW a \in {0, 1},
         Carries(s, 0, 0, r, r, a), s # <<>>
  PROVE  /\ a = 1 /\ s[1] = Notify /\ Len(Tail(s)) = 0 /\ Carries(Tail(s), 0, 0, r, r, 0)
<1>1. Len(s) \in Nat \ {0} /\ Len(Tail(s)) = Len(s) - 1
  BY Pieces
<1>2. Len(s) <= a /\ s[1] = Notify
  BY <1>1 DEF Carries
<1>3. a = 1 /\ Len(Tail(s)) = 0
  BY <1>1, <1>2
<1> QED
  BY <1>2, <1>3 DEF Carries

LEMMA CountTail ==
  ASSUME NEW h \in Seq({"w", "t", "r"}), NEW m \in {"w", "t", "r"}, Len(h) <= 6
  PROVE  /\ Count(h, m) \in Nat /\ (h = <<>> => Count(h, m) = 0)
         /\ h # <<>> => Count(Tail(h), m) = Count(h, m) - (IF h[1] = m THEN 1 ELSE 0)
<1>1. /\ Len(h) \in Nat /\ (h = <<>> <=> Len(h) = 0)
      /\ h # <<>> => /\ Len(Tail(h)) = Len(h) - 1
                     /\ \A i \in 1..Len(h) - 1 : Tail(h)[i] = h[i + 1]
  BY Pieces
<1>2. \A i \in 1..6 : Is(h, i, m) \in {0, 1}
  BY DEF Is
<1>3. Is(h, 1, m) \in {0, 1} /\ Is(h, 2, m) \in {0, 1} /\ Is(h, 3, m) \in {0, 1}
      /\ Is(h, 4, m) \in {0, 1} /\ Is(h, 5, m) \in {0, 1} /\ Is(h, 6, m) \in {0, 1}
  BY <1>2
<1>4. h = <<>> => Count(h, m) = 0
  BY <1>1 DEF Count, Is
<1>5. ASSUME h # <<>>
      PROVE  Count(Tail(h), m) = Count(h, m) - (IF h[1] = m THEN 1 ELSE 0)
  <2>1. ASSUME NEW i \in 1..5
        PROVE  Is(Tail(h), i, m) = Is(h, i + 1, m)
    <3>1. CASE i + 1 <= Len(h)
      <4>1. i \in 1..Len(h) - 1 /\ i <= Len(Tail(h))
        BY <1>1, <1>5, <3>1
      <4>2. Tail(h)[i] = h[i + 1]
        BY <1>1, <1>5, <4>1
      <4> QED
        BY <3>1, <4>1, <4>2 DEF Is
    <3>2. CASE ~(i + 1 <= Len(h))
      <4>1. ~(i <= Len(Tail(h)))
        BY <1>1, <1>5, <3>2
      <4> QED
        BY <3>2, <4>1 DEF Is
    <3> QED
      BY <3>1, <3>2
  <2>2. /\ Is(Tail(h), 1, m) = Is(h, 2, m) /\ Is(Tail(h), 2, m) = Is(h, 3, m)
        /\ Is(Tail(h), 3, m) = Is(h, 4, m) /\ Is(Tail(h), 4, m) = Is(h, 5, m)
        /\ Is(Tail(h), 5, m) = Is(h, 6, m)
    BY <2>1
  <2>3. Is(Tail(h), 6, m) = 0
    BY <1>1, <1>5 DEF Is
  <2>4. Is(h, 1, m) = (IF h[1] = m THEN 1 ELSE 0)
    BY <1>1, <1>5 DEF Is
  <2> QED
    BY <1>3, <2>2, <2>3, <2>4 DEF Count
<1> QED
  BY <1>3, <1>4, <1>5 DEF Count

-----------------------------------------------------------------------------
(* What is on the way, when a piece or a part of it moves.                 *)

LEMMA Three ==
  ASSUME NEW a \in Seq(Piece), NEW b \in Seq(Piece), NEW c \in Seq(Piece)
  PROVE  /\ a \o (b \o c) \in Seq(Piece)
         /\ Len(a \o (b \o c)) = Len(a) + (Len(b) + Len(c))
         /\ \A i \in 1..Len(a) + (Len(b) + Len(c)) :
              (a \o (b \o c))[i] = IF i <= Len(a) THEN a[i]
                                   ELSE IF i <= Len(a) + Len(b) THEN b[i - Len(a)]
                                   ELSE c[i - Len(a) - Len(b)]
<1>1. PICK bc \in Seq(Piece) : bc = b \o c
  BY ConcatProperties
<1>2. /\ Len(bc) = Len(b) + Len(c)
      /\ \A i \in 1..Len(b) + Len(c) : bc[i] = IF i <= Len(b) THEN b[i] ELSE c[i - Len(b)]
  BY <1>1, ConcatProperties
<1>3. /\ a \o bc \in Seq(Piece) /\ Len(a \o bc) = Len(a) + Len(bc)
      /\ \A i \in 1..Len(a) + Len(bc) :
           (a \o bc)[i] = IF i <= Len(a) THEN a[i] ELSE bc[i - Len(a)]
  BY ConcatProperties
<1>4. Len(a) \in Nat /\ Len(b) \in Nat /\ Len(c) \in Nat
  BY Pieces
<1>5. ASSUME NEW i \in 1..Len(a) + (Len(b) + Len(c)), ~(i <= Len(a))
      PROVE  bc[i - Len(a)] = IF i <= Len(a) + Len(b) THEN b[i - Len(a)]
                              ELSE c[i - Len(a) - Len(b)]
  <2>0. i - Len(a) \in 1..Len(b) + Len(c)
    BY <1>4, <1>5
  <2>1. PICK j \in 1..Len(b) + Len(c) : j = i - Len(a)
    BY <2>0
  <2>2. (j <= Len(b) <=> i <= Len(a) + Len(b)) /\ i - Len(a) - Len(b) = j - Len(b)
    BY <1>4, <2>1
  <2>3. bc[j] = IF j <= Len(b) THEN b[j] ELSE c[j - Len(b)]
    BY <1>2, <2>1
  <2>4. j <= Len(b) => bc[i - Len(a)] = b[i - Len(a)]
    BY <2>1, <2>3
  <2>5. ~(j <= Len(b)) => bc[i - Len(a)] = c[i - Len(a) - Len(b)]
    BY <2>1, <2>2, <2>3
  <2> QED
    BY <2>2, <2>4, <2>5
<1>6. ASSUME NEW i \in 1..Len(a) + (Len(b) + Len(c))
      PROVE  (a \o bc)[i] = IF i <= Len(a) THEN a[i]
                            ELSE IF i <= Len(a) + Len(b) THEN b[i - Len(a)]
                            ELSE c[i - Len(a) - Len(b)]
  BY <1>2, <1>3, <1>5
<1> QED
  BY <1>1, <1>2, <1>3, <1>6

LEMMA Joined ==
  ASSUME NEW a \in Seq(Piece), NEW b \in Seq(Piece), NEW c \in Seq(Piece)
  PROVE  (a \o b) \o c = a \o (b \o c)
BY ConcatAssociative, SMT

(* A piece is put in at the end. *)
LEMMA ThreeAppend ==
  ASSUME NEW a \in Seq(Piece), NEW b \in Seq(Piece), NEW c \in Seq(Piece), NEW x \in Piece
  PROVE  a \o (b \o Append(c, x)) = Append(a \o (b \o c), x)
<1>1. <<x>> \in Seq(Piece) /\ b \o c \in Seq(Piece) /\ a \o (b \o c) \in Seq(Piece)
  BY ConcatProperties
<1>2. a \o (b \o Append(c, x)) = a \o (b \o (c \o <<x>>))
  BY AppendIsConcat
<1>3. b \o (c \o <<x>>) = (b \o c) \o <<x>>
  BY <1>1, Joined
<1>4. a \o ((b \o c) \o <<x>>) = (a \o (b \o c)) \o <<x>>
  BY <1>1, Joined
<1>5. (a \o (b \o c)) \o <<x>> = Append(a \o (b \o c), x)
  BY <1>1, AppendIsConcat
<1> QED
  BY <1>2, <1>3, <1>4, <1>5

(* The first piece is taken out. *)
LEMMA ThreeTail ==
  ASSUME NEW a \in Seq(Piece), NEW b \in Seq(Piece), NEW c \in Seq(Piece), a # <<>>
  PROVE  /\ a \o (b \o c) # <<>> /\ (a \o (b \o c))[1] = a[1]
         /\ Tail(a) \o (b \o c) = Tail(a \o (b \o c))
<1>1. PICK s \in Seq(Piece) : s = a \o (b \o c)
  BY Three
<1>2. /\ Len(a) \in Nat \ {0} /\ Len(b) \in Nat /\ Len(c) \in Nat /\ Tail(a) \in Seq(Piece)
      /\ Len(Tail(a)) = Len(a) - 1 /\ \A i \in 1..Len(a) - 1 : Tail(a)[i] = a[i + 1]
  BY Pieces
<1>3. /\ Len(s) = Len(a) + (Len(b) + Len(c))
      /\ \A i \in 1..Len(a) + (Len(b) + Len(c)) :
           s[i] = IF i <= Len(a) THEN a[i]
                  ELSE IF i <= Len(a) + Len(b) THEN b[i - Len(a)] ELSE c[i - Len(a) - Len(b)]
  BY <1>1, Three
<1>4. s # <<>> /\ s[1] = a[1]
  BY <1>2, <1>3
<1>5. /\ Tail(s) \in Seq(Piece) /\ Len(Tail(s)) = Len(s) - 1
      /\ \A i \in 1..Len(s) - 1 : Tail(s)[i] = s[i + 1]
  BY <1>4, Pieces
<1>6. PICK u \in Seq(Piece) : u = Tail(a) \o (b \o c)
  BY <1>2, Three
<1>7. /\ Len(u) = Len(a) - 1 + (Len(b) + Len(c))
      /\ \A i \in 1..Len(a) - 1 + (Len(b) + Len(c)) :
           u[i] = IF i <= Len(a) - 1 THEN Tail(a)[i]
                  ELSE IF i <= Len(a) - 1 + Len(b) THEN b[i - (Len(a) - 1)]
                  ELSE c[i - (Len(a) - 1) - Len(b)]
  BY <1>2, <1>6, Three
<1>8. ASSUME NEW i \in 1..Len(u)
      PROVE  u[i] = Tail(s)[i]
  <2>1. PICK j \in 1..Len(s) : j = i + 1
    BY <1>2, <1>3, <1>7
  <2>2. i \in 1..Len(s) - 1 /\ Tail(s)[i] = s[j]
    BY <1>2, <1>3, <1>5, <1>7, <2>1
  <2>3. /\ j - Len(a) = i - (Len(a) - 1)
        /\ j - Len(a) - Len(b) = i - (Len(a) - 1) - Len(b)
        /\ i <= Len(a) - 1 <=> j <= Len(a)
        /\ i <= Len(a) - 1 + Len(b) <=> j <= Len(a) + Len(b)
    BY <1>2, <2>1
  <2>4. i <= Len(a) - 1 => Tail(a)[i] = a[j]
    BY <1>2, <2>1
  <2> QED
    BY <1>2, <1>3, <1>7, <2>1, <2>2, <2>3, <2>4
<1>9. u = Tail(s)
  BY <1>2, <1>3, <1>5, <1>7, <1>8, SeqEqual
<1> QED
  BY <1>1, <1>4, <1>6, <1>9

(* The first n pieces of c go to the end of b. *)
LEMMA TwoMove ==
  ASSUME NEW b \in Seq(Piece), NEW c \in Seq(Piece), NEW n \in 0..Len(c)
  PROVE  (b \o SubSeq(c, 1, n)) \o SubSeq(c, n + 1, Len(c)) = b \o c
<1>1. SubSeq(c, 1, n) \in Seq(Piece) /\ SubSeq(c, n + 1, Len(c)) \in Seq(Piece)
  BY Cut
<1>2. SubSeq(c, 1, n) \o SubSeq(c, n + 1, Len(c)) = SubSeq(c, 1, Len(c))
  <2>1. PICK l \in Nat : l = Len(c)
    BY Pieces
  <2>2. 1 \in 1..l + 1 /\ n \in 1 - 1..l /\ l \in n..l
    BY <2>1
  <2> QED
    BY <2>1, <2>2, ConcatAdjacentSubSeq
<1>3. SubSeq(c, 1, Len(c)) = c
  BY SubSeqFull
<1>4. PICK d, e \in Seq(Piece) : d = SubSeq(c, 1, n) /\ e = SubSeq(c, n + 1, Len(c))
  BY <1>1
<1>5. (b \o d) \o e = b \o (d \o e)
  BY Joined
<1> QED
  BY <1>2, <1>3, <1>4, <1>5

(* The first n pieces of b go to the end of a. *)
LEMMA ThreeMove ==
  ASSUME NEW a \in Seq(Piece), NEW b \in Seq(Piece), NEW c \in Seq(Piece), NEW n \in 0..Len(b)
  PROVE  (a \o SubSeq(b, 1, n)) \o (SubSeq(b, n + 1, Len(b)) \o c) = a \o (b \o c)
<1>1. (a \o b) \o c = a \o (b \o c)
  BY Joined, Zenon
<1>2. PICK d, e \in Seq(Piece) : d = SubSeq(b, 1, n) /\ e = SubSeq(b, n + 1, Len(b))
  BY Cut
<1>3. PICK f \in Seq(Piece) : f = a \o d
  BY ConcatProperties
<1>4. f \o e = a \o b
  BY <1>2, <1>3, TwoMove
<1>5. (f \o e) \o c = f \o (e \o c)
  BY Joined, Zenon
<1>6. a \o (b \o c) = f \o (e \o c)
  BY <1>1, <1>4, <1>5, Zenon
<1> QED
  BY <1>2, <1>3, <1>6, Zenon

-----------------------------------------------------------------------------
(* What a step does to a stream.                                           *)

(* u is s or the start of it. *)
Starts(u, s) == Len(u) <= Len(s) /\ \A i \in 1..Len(u) : u[i] = s[i]

LEMMA ChanTypes ==
  ASSUME Typed, NEW p \in Peer
  PROVE  /\ rx[Other(p)] \in Seq(Piece) /\ wire[p] \in Seq(Piece) /\ tx[p] \in Seq(Piece)
         /\ Chan(p) \in Seq(Piece)
<1>1. rx[Other(p)] \in Seq(Piece) /\ wire[p] \in Seq(Piece) /\ tx[p] \in Seq(Piece)
  BY Ends DEF Typed, BioTypes
<1> QED
  BY <1>1, Three DEF Chan

LEMMA FlowTypes ==
  ASSUME PeersInv, NEW p \in Peer
  PROVE  /\ Under(p) \in Int /\ Emitted(p) \in Nat /\ Closing(p) \in {0, 1}
         /\ Count(hs[p], "w") \in Nat /\ Count(hs[Other(p)], "r") \in Nat
         /\ hs[p] = <<>> => Count(hs[p], "w") = 0
         /\ hs[Other(p)] = <<>> => Count(hs[Other(p)], "r") = 0
<1>1. /\ \A q \in Peer : hs[q] \in Seq({"w", "t", "r"}) /\ Len(hs[q]) <= 6
      /\ acked[p] \in Nat /\ Other(p) \in Peer
  BY Ends DEF PeersInv, Typed, SslTypes, LuaTypes, Local, FlightLeft
<1>2. /\ Count(hs[p], "w") \in Nat /\ Count(hs[Other(p)], "r") \in Nat
      /\ hs[p] = <<>> => Count(hs[p], "w") = 0
      /\ hs[Other(p)] = <<>> => Count(hs[Other(p)], "r") = 0
  BY <1>1, CountTail
<1>3. Emitted(p) \in Nat
  BY <1>1 DEF Emitted
<1> QED
  BY <1>2, <1>3 DEF Under, Closing

(* Nothing is put in or taken out by OpenSSL, and what is on the way stays *)
(* or is lost from some piece on.                                          *)
LEMMA Kept ==
  ASSUME PeersInv, Typed', NEW p \in Peer, NEW q \in Peer, q = Other(p), StreamInv(p),
         Reads(q)' => Reads(q), hs[p] = <<>> => hs'[p] = <<>>, Under(p)' = Under(p),
         Emitted(p)' = Emitted(p), alert'[p] = "sent" <=> alert[p] = "sent",
         notified'[q] = notified[q], got'[q] = got[q], closed[p] => closed'[p],
         closed'[p] \/ Chan(p)' = Chan(p), Starts(Chan(p)', Chan(p))
  PROVE  StreamInv(p)'
<1> SUFFICES ASSUME Reads(q)' PROVE \E t \in {0, 1}, r \in Nat : Flow(p, t, r)'
  BY DEF StreamInv
<1>1. PICK t \in {0, 1}, r \in Nat : Flow(p, t, r)
  BY DEF StreamInv
<1>2. Closing(p)' = Closing(p)
  BY DEF Closing
<1>3. Chan(p) \in Seq(Piece) /\ Chan(p)' \in Seq(Piece)
  <2>1. rx'[q] \in Seq(Piece) /\ wire'[p] \in Seq(Piece) /\ tx'[p] \in Seq(Piece)
    BY DEF Typed, BioTypes
  <2> QED
    BY <2>1, ChanTypes, Three DEF PeersInv, Chan
<1>4. Carries(Chan(p)', Under(p), t, r, Emitted(p), Closing(p))
  <2>1. Under(p) \in Nat /\ Emitted(p) \in Nat /\ Closing(p) \in {0, 1}
    BY <1>1, FlowTypes DEF Flow
  <2>2. Carries(Chan(p), Under(p), t, r, Emitted(p), Closing(p))
    BY <1>1 DEF Flow
  <2> QED
    BY <1>3, <2>1, <2>2, CarriesPrefix DEF Starts
<1>5. ~closed'[p] => Len(Chan(p)') = Under(p) + t + (Emitted(p) - r) + Closing(p)
  BY <1>1 DEF Flow
<1>6. /\ r = 2 * Len(got'[q]) \/ r = 2 * Len(got'[q]) + 1
      /\ Under(p) >= 0 /\ r <= Emitted(p)
      /\ t = 1 => hs'[p] = <<>>
      /\ notified'[q] => alert'[p] = "sent" /\ t = 0 /\ r = Emitted(p) /\ Under(p) = 0
  BY <1>1 DEF Flow
<1>7. Flow(p, t, r)'
  BY <1>2, <1>4, <1>5, <1>6 DEF Flow
<1> QED
  BY <1>7

LEMMA Same ==
  ASSUME NEW s \in Seq(Piece)
  PROVE  Starts(s, s) /\ Starts(<<>>, s)
<1>1. Len(s) \in Nat /\ Len(<<>>) = 0
  BY Pieces
<1> QED
  BY <1>1 DEF Starts

(* The step of a peer neither opens its socket again nor takes back its    *)
(* close().                                                                *)
LEMMA ReadsLess ==
  ASSUME PeersInv, NEW p \in Peer, Goes(p)
  PROVE  (Reads(p)' => Reads(p)) /\ (closed[p] => closed'[p])
<1>1. LuaTypes /\ (closed[p] => pc[p] = Idle) /\ Idle.op = "none" /\ Idle.at = "none"
      /\ (pc[p].at = "dispose" => pc[p].op = "close")
  BY DEF PeersInv, Typed, Local, CallInv, Idle
<1>2. ASSUME UNCHANGED closed,
             \/ UNCHANGED pc
             \/ \E at \in Spot : Goto(p, at)
             \/ \E then \in Sequel : DrainThen(p, then)
             \/ \E r \in {"ok", "eof", "error", "timeout"} : Exit(p, r)
      PROVE  (Reads(p)' => Reads(p)) /\ (closed[p] => closed'[p])
  <2>1. pc[p].op = "close" => pc'[p].op = "close"
    BY <1>1, <1>2, Jump, JumpDrain, JumpOut
  <2> QED
    BY <1>2, <2>1 DEF Reads
<1>3. CASE \E op, str : Call(p, op, str)
  BY <1>1, <1>3 DEF Call, Reads, net
<1>4. CASE Dispose(p)
  BY <1>4 DEF Dispose, Reads, PeersInv, Typed, Flags
<1>5. CASE Enter(p) \/ Deadline(p)
  BY <1>2, <1>5 DEF Enter, Deadline, net, Spot
<1>6. CASE HandshakeWrite(p) \/ HandshakeRead(p) \/ HandshakeDone(p)
  <2>1. UNCHANGED closed
    BY <1>6 DEF HandshakeWrite, HandshakeRead, HandshakeDone, HandshakeFrame, net
  <2>2. \/ UNCHANGED pc
        \/ DrainThen(p, "loop") \/ DrainThen(p, "fill") \/ DrainThen(p, "flushed")
        \/ Exit(p, "error")
    BY <1>6 DEF HandshakeWrite, HandshakeRead, HandshakeDone, WantWrite, WantRead
  <2> QED
    BY <1>2, <2>1, <2>2 DEF Sequel
<1>7. CASE WriteStart(p) \/ WritePiece(p) \/ WriteFull(p)
  <2>1. UNCHANGED closed /\ pc[p].op = "write"
    BY <1>7 DEF WriteStart, WritePiece, WriteFull, WriteFrame, net, In
  <2> QED
    BY <2>1 DEF Reads
<1>8. CASE ReadPiece(p) \/ ReadEnd(p) \/ ReadEmpty(p)
  <2>1. UNCHANGED closed /\ pc[p].op = "read"
    BY <1>8 DEF ReadPiece, ReadEnd, ReadEmpty, ReadFrame, net, In
  <2> QED
    BY <2>1 DEF Reads
<1>9. CASE \/ ShutdownNothing(p) \/ ShutdownFails(p) \/ ShutdownSend(p) \/ ShutdownPiece(p)
           \/ ShutdownEmpty(p)
  <2>1. UNCHANGED closed
    BY <1>9 DEF ShutdownNothing, ShutdownFails, ShutdownSend, ShutdownPiece, ShutdownEmpty,
                ShutdownFrame, net
  <2>2. \/ UNCHANGED pc
        \/ DrainThen(p, "loop") \/ DrainThen(p, "fill") \/ DrainThen(p, "done")
        \/ Exit(p, "error")
    BY <1>9 DEF ShutdownNothing, ShutdownFails, ShutdownSend, ShutdownPiece, ShutdownEmpty,
                WantWrite, WantRead
  <2> QED
    BY <1>2, <2>1, <2>2 DEF Sequel
<1>10. CASE Drained(p)
  <2>1. \/ Goto(p, "fill") \/ Goto(p, "loop") \/ Exit(p, "ok")
    BY <1>10 DEF Drained
  <2> QED
    BY <1>2, <1>10, <2>1 DEF Drained, net, Spot
<1>11. CASE DrainSome(p) \/ DrainReset(p) \/ Fill(p)
  <2>1. UNCHANGED closed
    BY <1>11 DEF DrainSome, DrainReset, Fill
  <2>2. UNCHANGED pc \/ Exit(p, "error") \/ Goto(p, "loop")
    BY <1>11 DEF DrainSome, DrainReset, Fill, lua
  <2> QED
    BY <1>2, <2>1, <2>2 DEF Spot
<1> QED
  BY <1>3, <1>4, <1>5, <1>6, <1>7, <1>8, <1>9, <1>10, <1>11 DEF Goes, Step

(* What p sends, and what p reads, when its step leaves that as it is.     *)
LEMMA KeptOut ==
  ASSUME PeersInv, NEW p \in Peer, Goes(p), StreamInv(p), hs[p] = <<>> => hs'[p] = <<>>,
         Count(hs'[p], "w") = Count(hs[p], "w"), Emitted(p)' = Emitted(p),
         alert'[p] = "sent" <=> alert[p] = "sent",
         \/ Chan(p)' = Chan(p)
         \/ closed'[p] /\ Starts(Chan(p)', Chan(p))
  PROVE  StreamInv(p)'
<1>1. PICK q \in Peer : q = Other(p) /\ q # p
  BY Ends
<1>2. Typed' /\ Stay(q)
  BY <1>1, GoesLocal DEF Alone
<1>3. Starts(Chan(p)', Chan(p))
  BY ChanTypes, Same DEF PeersInv
<1>4. Reads(q)' => Reads(q)
  BY <1>2 DEF Stay, Reads
<1>5. Under(p)' = Under(p)
  BY <1>1, <1>2 DEF Stay, Under
<1>6. notified'[q] = notified[q] /\ got'[q] = got[q] /\ (closed[p] => closed'[p])
  BY <1>2, ReadsLess DEF Stay
<1> QED
  BY <1>1, <1>2, <1>3, <1>4, <1>5, <1>6, Kept

LEMMA KeptIn ==
  ASSUME PeersInv, NEW p \in Peer, NEW q \in Peer, q = Other(p), Goes(p), StreamInv(q),
         Count(hs'[p], "r") = Count(hs[p], "r"), notified'[p] = notified[p], got'[p] = got[p],
         \/ Chan(q)' = Chan(q)
         \/ closed[q] /\ Starts(Chan(q)', Chan(q))
  PROVE  StreamInv(q)'
<1>1. q # p /\ p = Other(q)
  BY Ends
<1>2. Typed' /\ Stay(q)
  BY <1>1, GoesLocal DEF Alone
<1>3. Starts(Chan(q)', Chan(q))
  BY ChanTypes, Same DEF PeersInv
<1>4. Reads(p)' => Reads(p)
  BY ReadsLess
<1>5. Under(q)' = Under(q)
  BY <1>1, <1>2 DEF Stay, Under
<1>6. /\ Emitted(q)' = Emitted(q) /\ closed'[q] = closed[q]
      /\ hs'[q] = hs[q] /\ alert'[q] = alert[q]
  BY <1>2 DEF Stay, Emitted
<1> QED
  BY <1>1, <1>2, <1>3, <1>4, <1>5, <1>6, Kept

(* A step that neither writes nor reads a piece. *)
LEMMA Quiet ==
  ASSUME PeersInv, NEW p \in Peer, Goes(p), UNCHANGED <<hs, acked, notified, got, tx, rx, wire>>,
         Len(wpend'[p]) = 1 <=> Len(wpend[p]) = 1, alert'[p] = "sent" <=> alert[p] = "sent",
         \A d \in Peer : StreamInv(d)
  PROVE  \A d \in Peer : StreamInv(d)'
<1>1. PICK q \in Peer : q = Other(p) /\ \A d \in Peer : d = p \/ d = q
  BY Ends
<1>2. Chan(p)' = Chan(p) /\ Chan(q)' = Chan(q) /\ Emitted(p)' = Emitted(p)
  BY DEF Chan, Emitted
<1>3. StreamInv(p)'
  BY <1>2, KeptOut
<1>4. StreamInv(q)'
  BY <1>1, <1>2, KeptIn
<1> QED
  BY <1>1, <1>3, <1>4

(* A piece goes into a BIO, or out of one. *)
LEMMA PutChan ==
  ASSUME Typed, NEW p \in Peer, NEW q \in Peer, q = Other(p), NEW x \in Piece, Write(p, x),
         UNCHANGED <<rx, wire>>
  PROVE  Chan(p)' = Append(Chan(p), x) /\ Chan(q)' = Chan(q)
<1>1. tx'[p] = Append(tx[p], x) /\ tx'[q] = tx[q]
  BY Ends DEF Write, Typed, BioTypes
<1>2. PICK a, b, c \in Seq(Piece) : a = rx[q] /\ b = wire[p] /\ c = tx[p]
  BY ChanTypes
<1>3. a \o (b \o Append(c, x)) = Append(a \o (b \o c), x)
  BY ThreeAppend
<1>4. Chan(p)' = Append(Chan(p), x)
  BY <1>1, <1>2, <1>3 DEF Chan
<1>5. Chan(q)' = Chan(q)
  BY <1>1 DEF Chan
<1> QED
  BY <1>4, <1>5

LEMMA TakeChan ==
  ASSUME Typed, NEW p \in Peer, NEW q \in Peer, q = Other(p), rx[p] # <<>>, Consume(p),
         UNCHANGED <<tx, wire>>
  PROVE  /\ Chan(q) # <<>> /\ Head(rx[p]) = Chan(q)[1] /\ Chan(q)' = Tail(Chan(q))
         /\ Chan(p)' = Chan(p)
<1>1. p = Other(q) /\ rx[p] \in Seq(Piece) /\ wire[q] \in Seq(Piece) /\ tx[q] \in Seq(Piece)
  BY Ends DEF Typed, BioTypes
<1>2. rx'[p] = Tail(rx[p]) /\ rx'[q] = rx[q]
  BY Ends DEF Consume, Typed, BioTypes
<1>3. PICK a, b, c \in Seq(Piece) : a = rx[p] /\ b = wire[q] /\ c = tx[q]
  BY <1>1
<1>4. PICK s, u : s = a \o (b \o c) /\ u = Tail(a) \o (b \o c)
  OBVIOUS
<1>5. s # <<>> /\ s[1] = a[1] /\ u = Tail(s) /\ Head(a) = a[1]
  <2>1. a # <<>> /\ Head(a) = a[1]
    BY <1>3
  <2>2. s # <<>> /\ s[1] = a[1]
    BY <1>4, <2>1, ThreeTail
  <2>3. u = Tail(s)
    BY <1>4, <2>1, ThreeTail
  <2> QED
    BY <2>1, <2>2, <2>3
<1>6. Chan(q) = s /\ Chan(q)' = Tail(s)
  BY <1>1, <1>2, <1>3, <1>4, <1>5 DEF Chan
<1>7. Chan(p)' = Chan(p)
  BY <1>2 DEF Chan
<1> QED
  BY <1>3, <1>5, <1>6, <1>7

-----------------------------------------------------------------------------
(* The steps that put a piece in.                                          *)

LEMMA HandshakeWriteStream ==
  ASSUME PeersInv, NEW p \in Peer, Goes(p), HandshakeWrite(p), \A d \in Peer : StreamInv(d)
  PROVE  \A d \in Peer : StreamInv(d)'
<1>1. PICK q \in Peer : q = Other(p) /\ p = Other(q) /\ q # p /\ \A d \in Peer : d = p \/ d = q
  BY Ends
<1>2. /\ pc[p].at = "ssl" /\ pc[p].op # "close" /\ hs[p] # <<>> /\ Head(hs[p]) \in {"w", "t"}
      /\ UNCHANGED <<wpend, alert, notified, acked, got, rx, wire, closed>>
  BY DEF HandshakeWrite, InHandshake, HandshakeFrame, net
<1>3. hs[p] \in Seq({"w", "t", "r"}) /\ Len(hs[p]) <= 6 /\ Head(hs[p]) = hs[p][1]
  BY DEF PeersInv, Typed, SslTypes, Local, FlightLeft
<1>4. CASE UNCHANGED <<tx, hs>>
  BY <1>2, <1>4, Quiet
<1>5. ASSUME hs' = [hs EXCEPT ![p] = Tail(@)],
             Write(p, IF Head(hs[p]) = "w" THEN Handshaking ELSE Ticket)
      PROVE  \A d \in Peer : StreamInv(d)'
  <2>1. PICK x \in Piece : x = IF Head(hs[p]) = "w" THEN Handshaking ELSE Ticket
    BY PieceTypes
  <2>2. Typed /\ Write(p, x) /\ UNCHANGED <<rx, wire>>
    BY <1>2, <1>5, <2>1 DEF PeersInv
  <2>3. Chan(p)' = Append(Chan(p), x) /\ Chan(q)' = Chan(q)
    BY <1>1, <2>2, PutChan
  <2>4. hs'[p] = Tail(hs[p]) /\ hs'[q] = hs[q]
    BY <1>1, <1>5 DEF PeersInv, Typed, SslTypes
  <2>5. /\ Count(hs'[p], "r") = Count(hs[p], "r")
        /\ Count(hs'[p], "w") = Count(hs[p], "w") - (IF Head(hs[p]) = "w" THEN 1 ELSE 0)
    BY <1>2, <1>3, <2>4, CountTail
  <2>6. StreamInv(q)'
    BY <1>1, <1>2, <2>3, <2>5, KeptIn
  <2>7. /\ ~handshaked[p] /\ ~closed[p] /\ alert[p] = "none" /\ acked[p] = 0 /\ wpend[p] = <<>>
        /\ Len(wpend[p]) = 0
    BY <1>2 DEF HandshakeWrite, InHandshake, PeersInv, Local, HandshakeInv, AlertInv, CallInv, Idle
  <2>8. /\ Emitted(p) = 0 /\ Emitted(p)' = 0 /\ Closing(p) = 0 /\ Closing(p)' = 0
    BY <1>2, <2>7 DEF Emitted, Closing
  <2>9. Under(p)' = Under(p) + (IF Head(hs[p]) = "w" THEN 1 ELSE 0)
    BY <1>1, <2>4, <2>5, FlowTypes DEF Under
  <2>10. StreamInv(p)'
    <3> SUFFICES ASSUME Reads(q)' PROVE \E t \in {0, 1}, r \in Nat : Flow(p, t, r)'
      BY <1>1 DEF StreamInv
    <3>1. Reads(q)
      BY <1>1, GoesLocal DEF Alone, Stay, Reads
    <3>2. PICK t \in {0, 1}, r \in Nat : Flow(p, t, r)
      BY <1>1, <3>1 DEF StreamInv
    <3>3. /\ t = 0 /\ r = 0 /\ Under(p) \in Nat /\ ~notified[q]
          /\ r = 2 * Len(got[q]) \/ r = 2 * Len(got[q]) + 1
          /\ Carries(Chan(p), Under(p), 0, 0, 0, 0) /\ Len(Chan(p)) = Under(p)
      <4>1. t = 0 /\ ~notified[q]
        BY <1>1, <1>2, <2>7, <3>2 DEF Flow
      <4>2. r <= 0 /\ Under(p) >= 0 /\ Under(p) \in Int
        BY <2>8, <3>2, FlowTypes DEF Flow
      <4>3. r = 0 /\ Under(p) \in Nat
        BY <4>2
      <4>4. /\ Carries(Chan(p), Under(p), t, r, 0, 0) /\ Len(Chan(p)) = Under(p) + t + (0 - r) + 0
            /\ r = 2 * Len(got[q]) \/ r = 2 * Len(got[q]) + 1
        BY <1>1, <2>7, <2>8, <3>2 DEF Flow
      <4>5. Len(Chan(p)) = Under(p)
        BY <4>1, <4>3, <4>4
      <4> QED
        BY <4>1, <4>3, <4>4, <4>5
    <3>4. Chan(p) \in Seq(Piece)
      BY ChanTypes DEF PeersInv
    <3>5. CASE Head(hs[p]) = "w"
      <4>1. Chan(p)' = Append(Chan(p), Handshaking) /\ Under(p)' = Under(p) + 1
        BY <2>1, <2>3, <2>9, <3>5
      <4>2. Carries(Append(Chan(p), Handshaking), Under(p) + 1, 0, 0, 0, 0)
        BY <3>3, <3>4, PutHandshake
      <4>3. Len(Append(Chan(p), Handshaking)) = Under(p) + 1
        BY <3>3, <3>4, PieceTypes, Pieces
      <4>4. Flow(p, 0, 0)'
        BY <1>1, <1>2, <2>8, <3>3, <4>1, <4>2, <4>3 DEF Flow
      <4> QED
        BY <4>4
    <3>6. CASE Head(hs[p]) = "t"
      <4>1. Chan(p)' = Append(Chan(p), Ticket) /\ Under(p)' = Under(p)
        BY <2>1, <2>3, <2>9, <3>3, <3>6
      <4>2. Carries(Append(Chan(p), Ticket), Under(p), 1, 0, 0, 0)
        BY <3>3, <3>4, PutTicket
      <4>3. Len(Append(Chan(p), Ticket)) = Under(p) + 1
        BY <3>3, <3>4, PieceTypes, Pieces
      <4>4. hs'[p] = <<>>
        <5>1. Len(hs[p]) \in Nat \ {0} /\ Len(Tail(hs[p])) = Len(hs[p]) - 1
              /\ Tail(hs[p]) \in Seq({"w", "t", "r"})
          BY <1>2, <1>3, Pieces
        <5>2. FlightLeft(p) /\ 1 \in 1..Len(hs[p]) /\ hs[p][1] = "t"
          BY <1>3, <3>6, <5>1 DEF PeersInv, Local
        <5>3. Len(hs[p]) = 1
          BY <5>2 DEF FlightLeft
        <5> QED
          BY <2>4, <5>1, <5>3, Pieces
      <4>5. Flow(p, 1, 0)'
        BY <1>1, <1>2, <2>8, <3>3, <4>1, <4>2, <4>3, <4>4 DEF Flow
      <4> QED
        BY <4>5
    <3> QED
      BY <1>2, <3>5, <3>6
  <2> QED
    BY <1>1, <2>6, <2>10
<1> QED
  BY <1>2, <1>4, <1>5 DEF HandshakeWrite

LEMMA WritePieceStream ==
  ASSUME PeersInv, NEW p \in Peer, Goes(p), WritePiece(p), \A d \in Peer : StreamInv(d)
  PROVE  \A d \in Peer : StreamInv(d)'
<1>1. PICK q \in Peer : q = Other(p) /\ p = Other(q) /\ q # p /\ \A d \in Peer : d = p \/ d = q
  BY Ends
<1>2. /\ pc[p].at = "ssl" /\ pc[p].op = "write" /\ wpend[p] # <<>> /\ Write(p, Head(wpend[p]))
      /\ wpend' = [wpend EXCEPT ![p] = Tail(@)]
      /\ UNCHANGED <<hs, alert, notified, got, rx, wire, closed>>
  BY DEF WritePiece, In, WriteFrame, net
<1>3. Typed /\ Local(p)
  BY DEF PeersInv
<1>4. PICK x \in Piece : x = Head(wpend[p])
  BY <1>2, <1>3, Pieces DEF Typed, SslTypes
<1>5. Chan(p)' = Append(Chan(p), x) /\ Chan(q)' = Chan(q)
  BY <1>1, <1>2, <1>3, <1>4, PutChan
<1>6. StreamInv(q)'
  BY <1>1, <1>2, <1>5, KeptIn
<1>7. alert[p] = "none" /\ Closing(p) = 0 /\ Closing(p)' = 0
  <2>1. alert[p] = "none"
    BY <1>2, <1>3 DEF Local, AlertInv, CallInv, Idle, Typed, SslTypes
  <2> QED
    BY <1>2, <2>1 DEF Closing
<1>8. Emitted(p)' = Emitted(p) + 1 /\ IsAt(x, Emitted(p) + 1)
  <2>1. wpend'[p] = Tail(wpend[p])
    BY <1>2, <1>3 DEF Typed, SslTypes
  <2>2. PICK k \in Nat : k = acked[p]
    BY <1>3 DEF Typed, LuaTypes
  <2>3. CASE /\ Len(wpend[p]) = 2 /\ Head(wpend[p]) = <<"d", k + 1>>
             /\ Tail(wpend[p]) = <<<<"e", k + 1>>>>
    <3>1. acked'[p] = k /\ Len(wpend'[p]) = 1
      BY <2>1, <2>2, <2>3 DEF WritePiece
    <3>2. x[1] = "d" /\ x[2] = k + 1
      BY <1>4, <2>3
    <3>3. Emitted(p) = 2 * k /\ Emitted(p)' = 2 * k + 1
      BY <2>2, <2>3, <3>1 DEF Emitted
    <3> QED
      BY <3>2, <3>3 DEF IsAt
  <2>4. CASE Len(wpend[p]) = 1 /\ Head(wpend[p]) = <<"e", k + 1>> /\ Tail(wpend[p]) = <<>>
    <3>1. acked'[p] = k + 1 /\ Len(wpend'[p]) = 0
      <4>1. acked' = [acked EXCEPT ![p] = @ + 1]
        BY <2>4 DEF WritePiece
      <4>2. wpend'[p] = <<>>
        BY <2>1, <2>4
      <4>3. acked'[p] = k + 1
        BY <1>3, <2>2, <4>1 DEF Typed, LuaTypes
      <4> QED
        BY <4>2, <4>3
    <3>2. x[1] = "e" /\ x[2] = k + 1
      BY <1>4, <2>4
    <3>3. Emitted(p) = 2 * k + 1 /\ Emitted(p)' = 2 * (k + 1)
      BY <2>2, <2>4, <3>1 DEF Emitted
    <3> QED
      BY <3>2, <3>3 DEF IsAt
  <2> QED
    BY <1>2, <1>3, <2>2, <2>3, <2>4, RecordLeft
<1>9. StreamInv(p)'
  <2> SUFFICES ASSUME Reads(q)' PROVE \E t \in {0, 1}, r \in Nat : Flow(p, t, r)'
    BY <1>1 DEF StreamInv
  <2>1. Reads(q) /\ hs'[q] = hs[q]
    BY <1>1, GoesLocal DEF Alone, Stay, Reads
  <2>2. PICK t \in {0, 1}, r \in Nat : Flow(p, t, r)
    BY <1>1, <2>1 DEF StreamInv
  <2>3. Under(p)' = Under(p) /\ Under(p) \in Nat /\ Emitted(p) \in Nat /\ r <= Emitted(p)
    BY <1>2, <2>2, FlowTypes DEF Flow, Under
  <2>4. ~closed[p]
    BY <1>2, <1>3 DEF Local, CallInv, Idle
  <2>5. /\ r = 2 * Len(got[q]) \/ r = 2 * Len(got[q]) + 1
        /\ Carries(Chan(p), Under(p), t, r, Emitted(p), 0)
        /\ Len(Chan(p)) = Under(p) + t + (Emitted(p) - r)
        /\ t = 1 => hs[p] = <<>>
        /\ ~notified[q]
    BY <1>1, <1>7, <2>2, <2>3, <2>4 DEF Flow
  <2>6. Chan(p) \in Seq(Piece)
    BY <1>3, ChanTypes
  <2>7. Carries(Chan(p)', Under(p), t, r, Emitted(p) + 1, 0)
    BY <1>5, <1>8, <2>3, <2>5, <2>6, PutData
  <2>8. Len(Chan(p)') = Len(Chan(p)) + 1
    BY <1>5, <2>6, Pieces
  <2>9. Len(Chan(p)') = Under(p) + t + ((Emitted(p) + 1) - r) + 0 /\ r <= Emitted(p) + 1
    BY <2>3, <2>5, <2>8
  <2>10. Flow(p, t, r)'
    BY <1>1, <1>2, <1>7, <1>8, <2>3, <2>5, <2>7, <2>9 DEF Flow
  <2> QED
    BY <2>10
<1> QED
  BY <1>1, <1>6, <1>9

LEMMA ShutdownSendStream ==
  ASSUME PeersInv, NEW p \in Peer, Goes(p), ShutdownSend(p), \A d \in Peer : StreamInv(d)
  PROVE  \A d \in Peer : StreamInv(d)'
<1>1. PICK q \in Peer : q = Other(p) /\ p = Other(q) /\ q # p /\ \A d \in Peer : d = p \/ d = q
  BY Ends
<1>2. /\ pc[p].at = "ssl" /\ alert[p] # "sent"
      /\ UNCHANGED <<hs, wpend, acked, notified, got, rx, wire, closed>>
  BY DEF ShutdownSend, InShutdown, In, ShutdownFrame, net
<1>3. Typed /\ Local(p)
  BY DEF PeersInv
<1>4. CASE alert' = [alert EXCEPT ![p] = "due"] /\ tx' = tx
  <2>1. alert'[p] # "sent"
    BY <1>3, <1>4 DEF Typed, SslTypes
  <2> QED
    BY <1>2, <1>4, <2>1, Quiet
<1>5. ASSUME alert' = [alert EXCEPT ![p] = "sent"], Write(p, Notify)
      PROVE  \A d \in Peer : StreamInv(d)'
  <2>1. alert'[p] = "sent"
    BY <1>3, <1>5 DEF Typed, SslTypes
  <2>2. Chan(p)' = Append(Chan(p), Notify) /\ Chan(q)' = Chan(q)
    BY <1>1, <1>2, <1>3, <1>5, PieceTypes, PutChan
  <2>3. StreamInv(q)'
    BY <1>1, <1>2, <2>2, KeptIn
  <2>4. Emitted(p)' = Emitted(p) /\ Under(p)' = Under(p) /\ Closing(p) = 0
    BY <1>2 DEF Emitted, Under, Closing
  <2>5. StreamInv(p)'
    <3> SUFFICES ASSUME Reads(q)' PROVE \E t \in {0, 1}, r \in Nat : Flow(p, t, r)'
      BY <1>1 DEF StreamInv
    <3>1. Reads(q)
      BY <1>1, GoesLocal DEF Alone, Stay, Reads
    <3>2. PICK t \in {0, 1}, r \in Nat : Flow(p, t, r)
      BY <1>1, <3>1 DEF StreamInv
    <3>3. Under(p) \in Nat /\ Emitted(p) \in Nat /\ r <= Emitted(p) /\ ~closed[p]
      BY <1>2, <1>3, <3>2, FlowTypes DEF Flow, Local, CallInv, Idle
    <3>4. /\ r = 2 * Len(got[q]) \/ r = 2 * Len(got[q]) + 1
          /\ Carries(Chan(p), Under(p), t, r, Emitted(p), 0)
          /\ Len(Chan(p)) = Under(p) + t + (Emitted(p) - r)
          /\ t = 1 => hs[p] = <<>>
          /\ ~notified[q]
      <4>1. /\ r = 2 * Len(got[q]) \/ r = 2 * Len(got[q]) + 1
            /\ Carries(Chan(p), Under(p), t, r, Emitted(p), 0)
            /\ Len(Chan(p)) = Under(p) + t + (Emitted(p) - r) + 0
        BY <1>1, <2>4, <3>2, <3>3 DEF Flow
      <4>2. (t = 1 => hs[p] = <<>>) /\ ~notified[q]
        BY <1>1, <1>2, <3>2 DEF Flow
      <4> QED
        BY <3>3, <4>1, <4>2
    <3>5. Chan(p) \in Seq(Piece)
      BY <1>3, ChanTypes
    <3>6. Closing(p)' = 1
      BY <1>1, <1>2, <2>1, <3>4 DEF Closing
    <3>7. Carries(Chan(p)', Under(p), t, r, Emitted(p), 1)
      BY <2>2, <3>3, <3>4, <3>5, PutNotify
    <3>8. Len(Chan(p)') = Len(Chan(p)) + 1
      BY <2>2, <3>5, PieceTypes, Pieces
    <3>9. Len(Chan(p)') = Under(p) + t + (Emitted(p) - r) + 1
      BY <3>3, <3>4, <3>8
    <3>10. Flow(p, t, r)'
      BY <1>1, <1>2, <2>4, <3>3, <3>4, <3>6, <3>7, <3>9 DEF Flow
    <3> QED
      BY <3>10
  <2> QED
    BY <1>1, <2>3, <2>5
<1> QED
  BY <1>4, <1>5 DEF ShutdownSend

-----------------------------------------------------------------------------
(* The steps that take a piece out.                                        *)

LEMMA FlowNext ==
  ASSUME NEW q \in Peer, NEW p \in Peer, p = Other(q), NEW u, NEW t, NEW r, NEW e, NEW a,
         Under(q)' = u, Emitted(q)' = e, Closing(q)' = a,
         r = 2 * Len(got'[p]) \/ r = 2 * Len(got'[p]) + 1, u >= 0, r <= e,
         Carries(Chan(q)', u, t, r, e, a),
         ~closed'[q] => Len(Chan(q)') = u + t + (e - r) + a,
         t = 1 => hs'[q] = <<>>,
         notified'[p] => alert'[q] = "sent" /\ t = 0 /\ r = e /\ u = 0
  PROVE  Flow(q, t, r)'
BY DEF Flow

LEMMA HandshakeReadStream ==
  ASSUME PeersInv, NEW p \in Peer, Goes(p), HandshakeRead(p), \A d \in Peer : StreamInv(d)
  PROVE  \A d \in Peer : StreamInv(d)'
<1>1. PICK q \in Peer : q = Other(p) /\ p = Other(q) /\ q # p /\ \A d \in Peer : d = p \/ d = q
  BY Ends
<1>2. /\ hs[p] # <<>> /\ Head(hs[p]) = "r"
      /\ UNCHANGED <<wpend, alert, notified, acked, got, tx, wire, closed>>
  BY DEF HandshakeRead, HandshakeFrame, net
<1>3. hs[p] \in Seq({"w", "t", "r"}) /\ Len(hs[p]) <= 6 /\ Head(hs[p]) = hs[p][1]
  BY DEF PeersInv, Typed, SslTypes, Local, FlightLeft
<1>4. CASE UNCHANGED <<rx, hs>>
  BY <1>2, <1>4, Quiet
<1>5. ASSUME rx[p] # <<>>, Consume(p), hs' = [hs EXCEPT ![p] = Tail(@)]
      PROVE  \A d \in Peer : StreamInv(d)'
  <2>1. /\ Chan(q) # <<>> /\ Chan(q)' = Tail(Chan(q)) /\ Chan(p)' = Chan(p)
    BY <1>1, <1>2, <1>5, TakeChan DEF PeersInv
  <2>2. hs'[p] = Tail(hs[p]) /\ hs'[q] = hs[q]
    BY <1>1, <1>5 DEF PeersInv, Typed, SslTypes
  <2>3. /\ Count(hs'[p], "r") = Count(hs[p], "r") - 1 /\ Count(hs'[p], "r") \in Nat
        /\ Count(hs'[p], "w") = Count(hs[p], "w")
    <3>1. Tail(hs[p]) \in Seq({"w", "t", "r"}) /\ Len(Tail(hs[p])) <= 6
      BY <1>2, <1>3, Pieces
    <3>2. Count(Tail(hs[p]), "r") \in Nat
      BY <3>1, CountTail
    <3>3. /\ Count(Tail(hs[p]), "r") = Count(hs[p], "r") - 1
          /\ Count(Tail(hs[p]), "w") = Count(hs[p], "w") - 0
      BY <1>2, <1>3, CountTail
    <3>4. Count(hs[p], "w") \in Nat
      BY <1>3, CountTail
    <3> QED
      BY <2>2, <3>2, <3>3, <3>4
  <2>4. StreamInv(p)'
    <3>1. Emitted(p)' = Emitted(p)
      BY <1>2 DEF Emitted
    <3> QED
      BY <1>2, <2>1, <2>3, <3>1, KeptOut
  <2>5. StreamInv(q)'
    <3> SUFFICES ASSUME Reads(p)' PROVE \E t \in {0, 1}, r \in Nat : Flow(q, t, r)'
      BY <1>1 DEF StreamInv
    <3>1. Reads(p)
      BY ReadsLess
    <3>2. PICK t \in {0, 1}, r \in Nat : Flow(q, t, r)
      BY <1>1, <3>1 DEF StreamInv
    <3>3. /\ Under(q) \in Nat /\ Emitted(q) \in Nat /\ r <= Emitted(q) /\ Closing(q) \in {0, 1}
          /\ Chan(q) \in Seq(Piece) /\ Len(Chan(q)) \in Nat \ {0}
      BY <2>1, <3>2, FlowTypes, ChanTypes, Pieces DEF Flow, PeersInv
    <3>4. Under(q)' = Under(q) - 1
      BY <1>1, <2>2, <2>3, FlowTypes DEF Under
    <3>5. Under(q) # 0
      <4> SUFFICES ASSUME Under(q) = 0 PROVE FALSE
        OBVIOUS
      <4>1. hs[q] # <<>>
        BY <1>1, <2>3, FlowTypes DEF Under
      <4>2. /\ alert[q] = "none" /\ acked[q] = 0 /\ wpend[q] = <<>> /\ Len(wpend[q]) = 0
        BY <4>1 DEF PeersInv, Local, HandshakeInv, AlertInv
      <4>3. Emitted(q) = 0 /\ Closing(q) = 0 /\ t = 0
        BY <3>2, <4>1, <4>2 DEF Emitted, Closing, Flow
      <4>4. Len(Chan(q)) <= Under(q) + t + (Emitted(q) - r) + Closing(q)
        BY <3>2 DEF Flow, Carries
      <4> QED
        BY <3>3, <4>3, <4>4
    <3>6. ~notified[p]
      BY <1>1, <3>2, <3>5 DEF Flow
    <3>7. Carries(Tail(Chan(q)), Under(q) - 1, t, r, Emitted(q), Closing(q))
      BY <2>1, <3>2, <3>3, <3>5, TakeHandshake DEF Flow
    <3>8. Emitted(q)' = Emitted(q) /\ Closing(q)' = Closing(q)
      BY <1>1, <1>2 DEF Emitted, Closing
    <3>9. Len(Tail(Chan(q))) = Len(Chan(q)) - 1
      BY <2>1, <3>3, Pieces
    <3>10. ~closed'[q] => Len(Chan(q)') = (Under(q) - 1) + t + (Emitted(q) - r) + Closing(q)
      <4>1. ~closed'[q] => Len(Chan(q)) = Under(q) + t + (Emitted(q) - r) + Closing(q)
        BY <1>2, <3>2 DEF Flow
      <4> QED
        BY <2>1, <3>3, <3>9, <4>1
    <3>11. /\ r = 2 * Len(got'[p]) \/ r = 2 * Len(got'[p]) + 1
           /\ t = 1 => hs'[q] = <<>>
           /\ ~notified'[p]
      BY <1>1, <1>2, <2>2, <3>2, <3>6 DEF Flow
    <3>12. Flow(q, t, r)'
      <4>1. Under(q) - 1 >= 0 /\ Carries(Chan(q)', Under(q) - 1, t, r, Emitted(q), Closing(q))
        BY <2>1, <3>3, <3>5, <3>7
      <4> QED
        BY <1>1, <3>3, <3>4, <3>8, <3>10, <3>11, <4>1, FlowNext
    <3> QED
      BY <3>12
  <2> QED
    BY <1>1, <2>4, <2>5
<1> QED
  BY <1>2, <1>4, <1>5 DEF HandshakeRead

(* A ticket, the next piece of a record or close_notify: the piece that is *)
(* next is the one that read() takes for it.                               *)
LEMMA ReadPieceStream ==
  ASSUME PeersInv, NEW p \in Peer, Goes(p), ReadPiece(p), \A d \in Peer : StreamInv(d),
         \A d \in Peer : GotInv(d)
  PROVE  (\A d \in Peer : StreamInv(d)') /\ (\A d \in Peer : GotInv(d)')
<1>1. PICK q \in Peer : q = Other(p) /\ p = Other(q) /\ q # p /\ \A d \in Peer : d = p \/ d = q
  BY Ends
<1>2. /\ pc[p].at = "ssl" /\ pc[p].op = "read" /\ handshaked[p] /\ ~notified[p]
      /\ rx[p] # <<>> /\ Consume(p)
      /\ UNCHANGED <<hs, wpend, alert, tx, wire, acked, closed>>
  BY DEF ReadPiece, In, ReadFrame, net
<1>3. Typed /\ Local(p)
  BY DEF PeersInv
<1>4. PICK x : x = Chan(q)[1]
  OBVIOUS
<1>5. /\ Chan(q) # <<>> /\ Head(rx[p]) = x /\ Chan(q)' = Tail(Chan(q)) /\ Chan(p)' = Chan(p)
  BY <1>1, <1>2, <1>3, <1>4, TakeChan
<1>6. \/ x[1] \in {"t", "d"} /\ UNCHANGED <<notified, got>>
      \/ x[1] = "e" /\ got' = [got EXCEPT ![p] = Append(@, x[2])] /\ notified' = notified
      \/ x[1] = "c" /\ notified' = [notified EXCEPT ![p] = TRUE] /\ got' = got
  BY <1>5 DEF ReadPiece
<1>7. StreamInv(p)'
  <2>1. Emitted(p)' = Emitted(p)
    BY <1>2 DEF Emitted
  <2> QED
    BY <1>2, <1>5, <2>1, KeptOut
<1>8. Reads(p) /\ hs[p] = <<>>
  BY <1>2, <1>3 DEF Local, CallInv, HandshakeInv, Idle, Reads
<1>9. PICK t \in {0, 1}, r \in Nat : Flow(q, t, r)
  BY <1>1, <1>8 DEF StreamInv
<1>10. /\ Under(q) = 0 /\ Under(q)' = 0 /\ Emitted(q) \in Nat /\ Emitted(q)' = Emitted(q)
       /\ r <= Emitted(q) /\ Closing(q) \in {0, 1}
       /\ Chan(q) \in Seq(Piece) /\ Len(Chan(q)) \in Nat \ {0}
       /\ Len(Tail(Chan(q))) = Len(Chan(q)) - 1
  <2>1. Under(q) = 0
    <3>1. Count(hs[p], "r") = 0 /\ Count(hs[q], "w") \in Nat
      BY <1>1, <1>8, FlowTypes
    <3> QED
      BY <1>1, <1>9, <3>1 DEF Under, Flow
  <2>2. Under(q)' = Under(q) /\ Emitted(q)' = Emitted(q)
    BY <1>2 DEF Under, Emitted
  <2>3. Chan(q) \in Seq(Piece)
    BY <1>3, ChanTypes
  <2>4. Len(Chan(q)) \in Nat \ {0} /\ Len(Tail(Chan(q))) = Len(Chan(q)) - 1
    BY <1>5, <2>3, Pieces
  <2> QED
    BY <1>9, <2>1, <2>2, <2>3, <2>4, FlowTypes DEF Flow
<1>11. /\ r = 2 * Len(got[p]) \/ r = 2 * Len(got[p]) + 1
       /\ Carries(Chan(q), 0, t, r, Emitted(q), Closing(q))
       /\ ~closed[q] => Len(Chan(q)) = t + (Emitted(q) - r) + Closing(q)
       /\ t = 1 => hs[q] = <<>>
  BY <1>1, <1>9, <1>10 DEF Flow
<1>12. \A d \in Peer : acked'[d] = acked[d]
  BY <1>2
<1>13. got[p] \in Seq(1..MaxUnits) /\ Len(got[p]) \in Nat
  BY <1>3, Pieces DEF Typed, LuaTypes
<1>14. CASE t = 1
  <2>1. x = Ticket /\ Carries(Tail(Chan(q)), 0, 0, r, Emitted(q), Closing(q))
    BY <1>4, <1>5, <1>10, <1>11, <1>14, TakeTicket
  <2>2. x[1] = "t"
    BY <2>1 DEF Ticket
  <2>3. UNCHANGED <<notified, got>>
    BY <1>6, <2>2
  <2>4. Closing(q)' = Closing(q)
    BY <1>2, <2>3 DEF Closing
  <2>5. ~closed'[q] => Len(Chan(q)') = 0 + 0 + (Emitted(q) - r) + Closing(q)
    BY <1>2, <1>5, <1>10, <1>11, <1>14
  <2>6. Flow(q, 0, r)'
    <3>1. Carries(Chan(q)', 0, 0, r, Emitted(q), Closing(q)) /\ 0 >= 0
      BY <1>5, <2>1
    <3>2. r = 2 * Len(got'[p]) \/ r = 2 * Len(got'[p]) + 1
      BY <1>11, <2>3
    <3>3. ~notified'[p]
      BY <1>2, <2>3
    <3> QED
      BY <1>1, <1>10, <2>4, <2>5, <3>1, <3>2, <3>3, FlowNext
  <2>7. StreamInv(q)'
    BY <2>6 DEF StreamInv
  <2>8. \A d \in Peer : GotInv(d)'
    BY <1>2, <2>3 DEF GotInv
  <2> QED
    BY <1>1, <1>7, <2>7, <2>8
<1>15. CASE t = 0 /\ r < Emitted(q)
  <2>1. IsAt(x, r + 1) /\ Carries(Tail(Chan(q)), 0, 0, r + 1, Emitted(q), Closing(q))
    BY <1>4, <1>5, <1>10, <1>11, <1>15, TakeData
  <2>2. notified' = notified
    BY <1>6, <2>1 DEF IsAt
  <2>3. Closing(q)' = Closing(q)
    BY <1>2, <2>2 DEF Closing
  <2>4. ~closed'[q] => Len(Chan(q)') = 0 + 0 + (Emitted(q) - (r + 1)) + Closing(q)
    BY <1>2, <1>5, <1>10, <1>11, <1>15
  <2>5. x \in Piece /\ (x[1] \in {"d", "e"} => x[2] \in Nat)
    <3>1. x \in Piece
      BY <1>4, <1>10, Pieces
    <3> QED
      BY <3>1 DEF Piece, Handshaking, Ticket, Notify
  <2>6. PICK n \in Nat : n = Len(got[p])
    BY <1>13
  <2>7. /\ r + 1 = 2 * Len(got'[p]) \/ r + 1 = 2 * Len(got'[p]) + 1
        /\ \A d \in Peer : GotInv(d)'
    <3>1. CASE x[1] = "d"
      <4>1. got' = got
        BY <1>6, <3>1
      <4>2. 2 * x[2] = (r + 1) + 1 /\ x[2] \in Nat
        BY <2>1, <2>5, <3>1 DEF IsAt
      <4>3. r = 2 * n
        BY <1>11, <2>6, <4>2
      <4>4. \A d \in Peer : GotInv(d)'
        BY <1>2, <4>1 DEF GotInv
      <4> QED
        BY <2>6, <4>1, <4>3, <4>4
    <3>2. CASE x[1] = "e"
      <4>1. got'[p] = Append(got[p], x[2]) /\ got'[q] = got[q]
        BY <1>1, <1>3, <1>6, <3>2 DEF Typed, LuaTypes
      <4>2. 2 * x[2] = r + 1 /\ x[2] \in Nat
        BY <2>1, <2>5, <3>2 DEF IsAt
      <4>3. r = 2 * n + 1 /\ x[2] = n + 1
        BY <1>11, <2>6, <4>2
      <4>4. x[2] \in 1..MaxUnits
        BY <2>5, <3>2 DEF Piece, Handshaking, Ticket, Notify
      <4>5. Len(got'[p]) = n + 1 /\ got'[p][n + 1] = n + 1 /\ \A i \in 1..n : got'[p][i] = got[p][i]
        BY <1>13, <2>6, <4>1, <4>3, <4>4, AppendProperties
      <4>6. PICK k \in Nat : k = acked[q]
        BY <1>3 DEF Typed, LuaTypes
      <4>7. n + 1 <= k
        <5>1. Emitted(q) = 2 * k \/ Emitted(q) = 2 * k + 1
          BY <4>6 DEF Emitted
        <5> QED
          BY <1>15, <4>3, <5>1
      <4>8. GotInv(p)'
        <5>1. \A i \in 1..n : got[p][i] = i
          BY <2>6 DEF GotInv
        <5>2. ASSUME NEW i \in 1..n + 1
              PROVE  got'[p][i] = i
          <6>1. i \in 1..n \/ i = n + 1
            OBVIOUS
          <6> QED
            BY <4>5, <5>1, <6>1
        <5> QED
          BY <1>1, <1>12, <4>5, <4>6, <4>7, <5>2 DEF GotInv
      <4>9. GotInv(q)'
        BY <1>1, <1>12, <4>1 DEF GotInv
      <4> QED
        BY <1>1, <4>3, <4>5, <4>8, <4>9
    <3> QED
      BY <2>1, <3>1, <3>2 DEF IsAt
  <2>8. r + 1 \in Nat /\ r + 1 <= Emitted(q)
    BY <1>10, <1>15
  <2>9. Flow(q, 0, r + 1)'
    <3>1. Carries(Chan(q)', 0, 0, r + 1, Emitted(q), Closing(q)) /\ 0 >= 0
      BY <1>5, <2>1
    <3>2. ~notified'[p]
      BY <1>2, <2>2
    <3> QED
      BY <1>1, <1>10, <2>3, <2>4, <2>7, <2>8, <3>1, <3>2, FlowNext
  <2>10. StreamInv(q)'
    BY <2>8, <2>9 DEF StreamInv
  <2> QED
    BY <1>1, <1>7, <2>7, <2>10
<1>16. CASE t = 0 /\ r = Emitted(q)
  <2>1. /\ Closing(q) = 1 /\ x = Notify /\ Len(Tail(Chan(q))) = 0
        /\ Carries(Tail(Chan(q)), 0, 0, r, r, 0)
    BY <1>4, <1>5, <1>10, <1>11, <1>16, TakeNotify
  <2>2. x[1] = "c"
    BY <2>1 DEF Notify
  <2>3. notified'[p] /\ got' = got
    BY <1>3, <1>6, <2>2 DEF Typed, Flags
  <2>4. alert[q] = "sent" /\ Closing(q)' = 0
    BY <1>1, <2>1, <2>3 DEF Closing
  <2>5. Flow(q, 0, r)'
    <3>1. Carries(Chan(q)', 0, 0, r, r, 0) /\ 0 >= 0
      BY <1>5, <2>1
    <3>2. r = 2 * Len(got'[p]) \/ r = 2 * Len(got'[p]) + 1
      BY <1>11, <2>3
    <3>3. Emitted(q)' = r /\ r <= r
      BY <1>10, <1>16
    <3>4. Len(Chan(q)') = 0 + 0 + (r - r) + 0
      BY <1>5, <2>1
    <3>5. alert'[q] = "sent"
      BY <1>2, <2>4
    <3> QED
      BY <1>1, <1>10, <2>4, <3>1, <3>2, <3>3, <3>4, <3>5 DEF Flow
  <2>6. StreamInv(q)'
    BY <2>5 DEF StreamInv
  <2>7. \A d \in Peer : GotInv(d)'
    BY <1>2, <2>3 DEF GotInv
  <2> QED
    BY <1>1, <1>7, <2>6, <2>7
<1> QED
  BY <1>10, <1>14, <1>15, <1>16

-----------------------------------------------------------------------------
(* The steps that move pieces, or lose them with a socket.                 *)

LEMMA ShutdownPieceStream ==
  ASSUME PeersInv, NEW p \in Peer, Goes(p), ShutdownPiece(p), \A d \in Peer : StreamInv(d)
  PROVE  \A d \in Peer : StreamInv(d)'
<1>1. PICK q \in Peer : q = Other(p) /\ p = Other(q) /\ q # p /\ \A d \in Peer : d = p \/ d = q
  BY Ends
<1>2. /\ pc[p].op = "close" /\ rx[p] # <<>> /\ Consume(p)
      /\ UNCHANGED <<hs, wpend, alert, tx, wire, acked, closed>>
  BY DEF ShutdownPiece, InShutdown, In, ShutdownFrame, net
<1>3. StreamInv(q)'
  <2>1. ~Reads(p)'
    BY <1>2, ReadsLess DEF Reads
  <2> QED
    BY <1>1, <2>1 DEF StreamInv
<1>4. Chan(p)' = Chan(p)
  BY <1>1, <1>2, TakeChan DEF PeersInv
<1>5. Emitted(p)' = Emitted(p)
  BY <1>2 DEF Emitted
<1>6. StreamInv(p)'
  BY <1>2, <1>4, <1>5, KeptOut
<1> QED
  BY <1>1, <1>3, <1>6

LEMMA DisposeStream ==
  ASSUME PeersInv, NEW p \in Peer, Goes(p), Dispose(p), \A d \in Peer : StreamInv(d)
  PROVE  \A d \in Peer : StreamInv(d)'
<1>1. PICK q \in Peer : q = Other(p) /\ p = Other(q) /\ q # p /\ \A d \in Peer : d = p \/ d = q
  BY Ends
<1>2. UNCHANGED <<hs, wpend, alert, acked>> /\ closed'[p]
  BY DEF Dispose, openssl, PeersInv, Typed, Flags
<1>3. StreamInv(q)'
  BY <1>1, <1>2 DEF StreamInv, Reads
<1>4. tx'[p] = <<>> /\ rx'[q] = rx[q] /\ (wire'[p] = wire[p] \/ wire'[p] = <<>>)
  BY <1>1 DEF Dispose, PeersInv, Typed, BioTypes
<1>5. Starts(Chan(p)', Chan(p))
  <2>1. PICK a, b, c, d \in Seq(Piece) :
          a = rx[q] /\ b = wire[p] /\ c = tx[p] /\ d = wire'[p]
    <3>1. wire'[p] \in Seq(Piece)
      BY GoesLocal DEF Alone, Typed, BioTypes
    <3> QED
      BY <1>1, <3>1, ChanTypes DEF PeersInv
  <2>2. <<>> \in Seq(Piece) /\ Len(<<>>) = 0
    OBVIOUS
  <2>3. Len(a) \in Nat /\ Len(b) \in Nat /\ Len(c) \in Nat /\ Len(d) \in Nat
    BY Pieces
  <2>4. d = b \/ Len(d) = 0
    BY <1>4, <2>1, <2>2
  <2>5. PICK e \in Seq(Piece) : e = <<>> /\ Len(e) = 0
    BY <2>2
  <2>6. PICK s, u \in Seq(Piece) : s = a \o (b \o c) /\ u = a \o (d \o e)
    BY Three
  <2>7. /\ Len(s) = Len(a) + (Len(b) + Len(c))
        /\ \A i \in 1..Len(a) + (Len(b) + Len(c)) :
             s[i] = IF i <= Len(a) THEN a[i]
                    ELSE IF i <= Len(a) + Len(b) THEN b[i - Len(a)]
                    ELSE c[i - Len(a) - Len(b)]
    BY <2>6, Three
  <2>8. /\ Len(u) = Len(a) + (Len(d) + Len(e))
        /\ \A i \in 1..Len(a) + (Len(d) + Len(e)) :
             u[i] = IF i <= Len(a) THEN a[i]
                    ELSE IF i <= Len(a) + Len(d) THEN d[i - Len(a)]
                    ELSE e[i - Len(a) - Len(d)]
    BY <2>6, Three
  <2>9. Len(u) = Len(a) + Len(d) /\ Len(u) <= Len(s)
    BY <2>3, <2>4, <2>5, <2>7, <2>8
  <2>10. ASSUME NEW i \in 1..Len(u)
         PROVE  u[i] = s[i]
    <3>1. CASE i <= Len(a)
      BY <2>3, <2>5, <2>7, <2>8, <2>9, <3>1
    <3>2. CASE ~(i <= Len(a))
      <4>1. d = b /\ i <= Len(a) + Len(b)
        BY <2>3, <2>4, <2>9, <3>2
      <4>2. u[i] = d[i - Len(a)]
        BY <2>3, <2>5, <2>8, <2>9, <3>2
      <4>3. s[i] = b[i - Len(a)]
        BY <2>3, <2>7, <2>9, <3>2, <4>1
      <4> QED
        BY <4>1, <4>2, <4>3
    <3> QED
      BY <3>1, <3>2
  <2>11. Chan(p) = s /\ Chan(p)' = u
    BY <1>1, <1>4, <2>1, <2>5, <2>6 DEF Chan
  <2> QED
    BY <2>9, <2>10, <2>11 DEF Starts
<1>6. Emitted(p)' = Emitted(p)
  BY <1>2 DEF Emitted
<1>7. StreamInv(p)'
  BY <1>2, <1>5, <1>6, KeptOut
<1> QED
  BY <1>1, <1>3, <1>7

LEMMA DrainSomeStream ==
  ASSUME PeersInv, NEW p \in Peer, Goes(p), DrainSome(p), \A d \in Peer : StreamInv(d)
  PROVE  \A d \in Peer : StreamInv(d)'
<1>1. PICK q \in Peer : q = Other(p) /\ p = Other(q) /\ q # p /\ \A d \in Peer : d = p \/ d = q
  BY Ends
<1>2. UNCHANGED <<hs, wpend, alert, notified, acked, got, rx, closed>>
  BY DEF DrainSome, openssl, lua
<1>3. PICK a, b, c \in Seq(Piece) : a = rx[q] /\ b = wire[p] /\ c = tx[p]
  BY <1>1, ChanTypes DEF PeersInv
<1>4. PICK n : n = Smaller(Len(c), WireCap - Len(b))
  OBVIOUS
<1>5. n \in 0..Len(c)
  <2>1. Len(b) <= WireCap /\ Len(b) \in Nat /\ Len(c) \in Nat
    BY <1>3, Pieces DEF PeersInv, WireBounded
  <2>2. WireCap - Len(b) \in Nat
    BY <2>1, SocketAssumption
  <2> QED
    BY <1>4, <2>1, <2>2 DEF Smaller
<1>6. /\ wire'[p] = b \o SubSeq(c, 1, n) /\ wire'[q] = wire[q]
      /\ tx'[p] = SubSeq(c, n + 1, Len(c)) /\ tx'[q] = tx[q]
  BY <1>1, <1>3, <1>4 DEF DrainSome, PeersInv, Typed, BioTypes
<1>7. (b \o SubSeq(c, 1, n)) \o SubSeq(c, n + 1, Len(c)) = b \o c
  BY <1>5, TwoMove
<1>8. Chan(p)' = Chan(p) /\ Chan(q)' = Chan(q)
  BY <1>1, <1>2, <1>3, <1>6, <1>7 DEF Chan
<1>9. Emitted(p)' = Emitted(p)
  BY <1>2 DEF Emitted
<1>10. StreamInv(p)' /\ StreamInv(q)'
  BY <1>1, <1>2, <1>8, <1>9, KeptOut, KeptIn
<1> QED
  BY <1>1, <1>10

LEMMA FillStream ==
  ASSUME PeersInv, NEW p \in Peer, Goes(p), Fill(p), \A d \in Peer : StreamInv(d)
  PROVE  \A d \in Peer : StreamInv(d)'
<1>1. PICK q \in Peer : q = Other(p) /\ p = Other(q) /\ q # p /\ \A d \in Peer : d = p \/ d = q
  BY Ends
<1>2. UNCHANGED <<hs, wpend, alert, notified, acked, got, tx, closed>>
  BY DEF Fill, openssl
<1>3. PICK a, b, c \in Seq(Piece) : a = rx[p] /\ b = wire[q] /\ c = tx[q]
  BY <1>1, ChanTypes DEF PeersInv
<1>4. PICK n : n = Smaller(Len(b), Cap - Len(a))
  OBVIOUS
<1>5. n \in 0..Len(b)
  <2>1. Len(a) <= Cap /\ Len(a) \in Nat /\ Len(b) \in Nat
    BY <1>3, Pieces DEF PeersInv, Local, Bounded
  <2>2. Cap - Len(a) \in Nat
    BY <2>1, SocketAssumption
  <2> QED
    BY <1>4, <2>1, <2>2 DEF Smaller
<1>6. Chan(p)' = Chan(p) /\ Chan(q)' = Chan(q)
  <2>1. CASE UNCHANGED <<rx, wire>>
    BY <1>2, <2>1 DEF Chan
  <2>2. ASSUME rx' = [rx EXCEPT ![p] = a \o SubSeq(b, 1, n)],
               wire' = [wire EXCEPT ![q] = SubSeq(b, n + 1, Len(b))]
        PROVE  Chan(p)' = Chan(p) /\ Chan(q)' = Chan(q)
    <3>1. /\ rx'[p] = a \o SubSeq(b, 1, n) /\ rx'[q] = rx[q]
          /\ wire'[q] = SubSeq(b, n + 1, Len(b)) /\ wire'[p] = wire[p]
      BY <1>1, <2>2 DEF PeersInv, Typed, BioTypes
    <3>2. (a \o SubSeq(b, 1, n)) \o (SubSeq(b, n + 1, Len(b)) \o c) = a \o (b \o c)
      BY <1>5, ThreeMove
    <3>3. Chan(q) = a \o (b \o c)
      BY <1>1, <1>3 DEF Chan
    <3>4. Chan(q)' = (a \o SubSeq(b, 1, n)) \o (SubSeq(b, n + 1, Len(b)) \o c)
      BY <1>1, <1>2, <1>3, <3>1 DEF Chan
    <3>5. Chan(p)' = Chan(p)
      BY <1>1, <1>2, <3>1 DEF Chan
    <3> QED
      BY <3>2, <3>3, <3>4, <3>5
  <2>3. \/ UNCHANGED <<rx, wire>>
        \/ /\ rx' = [rx EXCEPT ![p] = a \o SubSeq(b, 1, n)]
           /\ wire' = [wire EXCEPT ![q] = SubSeq(b, n + 1, Len(b))]
    BY <1>1, <1>3, <1>4 DEF Fill
  <2> QED
    BY <2>1, <2>2, <2>3
<1>7. Emitted(p)' = Emitted(p)
  BY <1>2 DEF Emitted
<1>8. StreamInv(p)' /\ StreamInv(q)'
  BY <1>1, <1>2, <1>6, <1>7, KeptOut, KeptIn
<1> QED
  BY <1>1, <1>8

LEMMA DrainResetStream ==
  ASSUME PeersInv, NEW p \in Peer, Goes(p), DrainReset(p), \A d \in Peer : StreamInv(d)
  PROVE  \A d \in Peer : StreamInv(d)'
<1>1. PICK q \in Peer : q = Other(p) /\ p = Other(q) /\ q # p /\ \A d \in Peer : d = p \/ d = q
  BY Ends
<1>2. closed[q] /\ UNCHANGED <<hs, wpend, alert, notified, acked, got, rx, closed>>
  BY <1>1 DEF DrainReset, openssl
<1>3. StreamInv(p)'
  BY <1>1, <1>2 DEF StreamInv, Reads
<1>4. tx[q] = <<>> /\ tx'[q] = tx[q] /\ (wire'[q] = wire[q] \/ wire'[q] = <<>>)
  <2>1. tx[q] = <<>>
    BY <1>2 DEF PeersInv, Local, CallInv
  <2>2. tx'[q] = tx[q]
    BY <1>1, GoesLocal DEF Alone, Stay
  <2>3. wire' = wire \/ wire' = [wire EXCEPT ![q] = <<>>]
    BY <1>1 DEF DrainReset
  <2> QED
    BY <2>1, <2>2, <2>3 DEF PeersInv, Typed, BioTypes
<1>5. Starts(Chan(q)', Chan(q))
  <2>1. PICK a, b, c \in Seq(Piece) : a = rx[p] /\ b = wire[q] /\ c = <<>>
    <3>1. <<>> \in Seq(Piece)
      OBVIOUS
    <3> QED
      BY <1>1, <3>1, ChanTypes DEF PeersInv
  <2>2. CASE wire'[q] = wire[q]
    <3>1. Chan(q)' = Chan(q)
      BY <1>1, <1>2, <1>4, <2>2 DEF Chan
    <3> QED
      BY <3>1, ChanTypes, Same DEF PeersInv
  <2>3. CASE wire'[q] = <<>>
    <3>1. Chan(q) = a \o (b \o c) /\ Chan(q)' = a \o (c \o c)
      BY <1>1, <1>2, <1>4, <2>1, <2>3 DEF Chan
    <3>2. b \o c = b /\ c \o c = c /\ a \o c = a
      BY <2>1, ConcatEmptySeq
    <3>3. /\ Len(a \o b) = Len(a) + Len(b)
          /\ \A i \in 1..Len(a) + Len(b) : (a \o b)[i] = IF i <= Len(a) THEN a[i] ELSE b[i - Len(a)]
      BY ConcatProperties
    <3>4. Len(a) \in Nat /\ Len(b) \in Nat
      BY Pieces
    <3>5. Starts(a, a \o b)
      BY <3>3, <3>4 DEF Starts
    <3> QED
      BY <3>1, <3>2, <3>5
  <2> QED
    BY <1>4, <2>2, <2>3
<1>6. StreamInv(q)'
  BY <1>1, <1>2, <1>5, KeptIn
<1> QED
  BY <1>1, <1>3, <1>6

-----------------------------------------------------------------------------
(* Every step keeps the streams.                                           *)

LEMMA QuietStream ==
  ASSUME PeersInv, NEW p \in Peer, Goes(p), \A d \in Peer : StreamInv(d),
         \/ Enter(p) \/ Deadline(p) \/ HandshakeDone(p) \/ WriteStart(p) \/ WriteFull(p)
         \/ ReadEnd(p) \/ ReadEmpty(p) \/ ShutdownNothing(p) \/ ShutdownFails(p)
         \/ ShutdownEmpty(p) \/ Drained(p) \/ \E op, str : Call(p, op, str)
  PROVE  (\A d \in Peer : StreamInv(d)') /\ UNCHANGED <<got, acked>>
<1>1. UNCHANGED <<hs, acked, notified, got, tx, rx, wire, alert>>
  <2>1. CASE Enter(p) \/ Deadline(p) \/ Drained(p) \/ \E op, str : Call(p, op, str)
    BY <2>1 DEF Enter, Deadline, Drained, Call, openssl, bio, net
  <2>2. CASE HandshakeDone(p) \/ WriteStart(p) \/ WriteFull(p)
    BY <2>2 DEF HandshakeDone, HandshakeFrame, WriteStart, WriteFull, WriteFrame, net
  <2>3. CASE \/ ReadEnd(p) \/ ReadEmpty(p) \/ ShutdownNothing(p) \/ ShutdownFails(p)
             \/ ShutdownEmpty(p)
    BY <2>3 DEF ReadEnd, ReadEmpty, ReadFrame, ShutdownNothing, ShutdownFails, ShutdownEmpty,
                ShutdownFrame, net
  <2> QED
    BY <2>1, <2>2, <2>3
<1>2. Len(wpend'[p]) = 1 <=> Len(wpend[p]) = 1
  <2>1. CASE WriteStart(p)
    <3>1. wpend[p] = <<>> /\ wpend'[p] = Record(Head(pc[p].str))
      BY <2>1 DEF WriteStart, PeersInv, Typed, SslTypes
    <3>2. \A x, y : Len(<<x, y>>) = 2
      OBVIOUS
    <3>3. Len(wpend[p]) = 0 /\ Len(wpend'[p]) = 2
      BY <3>1, <3>2 DEF Record
    <3> QED
      BY <3>3
  <2>2. CASE UNCHANGED wpend
    BY <2>2
  <2>3. CASE Enter(p) \/ Deadline(p) \/ Drained(p) \/ \E op, str : Call(p, op, str)
    BY <2>2, <2>3 DEF Enter, Deadline, Drained, Call, openssl
  <2>4. CASE HandshakeDone(p) \/ WriteFull(p)
    BY <2>2, <2>4 DEF HandshakeDone, HandshakeFrame, WriteFull
  <2>5. CASE \/ ReadEnd(p) \/ ReadEmpty(p) \/ ShutdownNothing(p) \/ ShutdownFails(p)
             \/ ShutdownEmpty(p)
    BY <2>2, <2>5 DEF ReadEnd, ReadEmpty, ReadFrame, ShutdownNothing, ShutdownFails,
                      ShutdownEmpty, ShutdownFrame
  <2> QED
    BY <2>1, <2>3, <2>4, <2>5
<1> QED
  BY <1>1, <1>2, Quiet

LEMMA GotKept ==
  ASSUME \A d \in Peer : GotInv(d), got' = got, acked \in [Peer -> Nat], acked' \in [Peer -> Nat],
         \A d \in Peer : acked'[d] >= acked[d]
  PROVE  \A d \in Peer : GotInv(d)'
<1>1. SUFFICES ASSUME NEW d \in Peer PROVE GotInv(d)'
  OBVIOUS
<1>2. PICK q \in Peer : q = Other(d)
  BY Ends
<1>3. acked[q] \in Nat /\ acked'[q] \in Nat /\ acked'[q] >= acked[q]
  OBVIOUS
<1>4. Len(got[d]) <= acked[q] /\ \A i \in 1..Len(got[d]) : got[d][i] = i
  BY <1>2 DEF GotInv
<1>5. Len(got[d]) <= acked'[q] \/ Len(got[d]) \notin Int
  BY <1>3, <1>4
<1> QED
  BY <1>2, <1>3, <1>4 DEF GotInv

LEMMA StreamStep ==
  ASSUME SocketInv, NEW p \in Peer, Goes(p)
  PROVE  \A d \in Peer : StreamInv(d)' /\ GotInv(d)'
<1>1. PeersInv /\ (\A d \in Peer : StreamInv(d)) /\ (\A d \in Peer : GotInv(d))
  BY DEF SocketInv
<1>2. acked \in [Peer -> Nat] /\ acked' \in [Peer -> Nat]
  BY <1>1, GoesLocal DEF PeersInv, Typed, LuaTypes, Alone
<1>3. ASSUME UNCHANGED <<got, acked>>
      PROVE  \A d \in Peer : GotInv(d)'
  BY <1>1, <1>3 DEF GotInv
<1>4. CASE \/ Enter(p) \/ Deadline(p) \/ HandshakeDone(p) \/ WriteStart(p) \/ WriteFull(p)
           \/ ReadEnd(p) \/ ReadEmpty(p) \/ ShutdownNothing(p) \/ ShutdownFails(p)
           \/ ShutdownEmpty(p) \/ Drained(p) \/ \E op, str : Call(p, op, str)
  <2>1. (\A d \in Peer : StreamInv(d)') /\ UNCHANGED <<got, acked>>
    BY <1>1, <1>4, QuietStream
  <2> QED
    BY <1>3, <2>1
<1>5. CASE HandshakeWrite(p) \/ HandshakeRead(p) \/ ShutdownSend(p) \/ ShutdownPiece(p)
  <2>1. UNCHANGED <<got, acked>>
    BY <1>5 DEF HandshakeWrite, HandshakeRead, HandshakeFrame, ShutdownSend, ShutdownPiece,
                ShutdownFrame
  <2>2. \A d \in Peer : StreamInv(d)'
    BY <1>1, <1>5, HandshakeWriteStream, HandshakeReadStream, ShutdownSendStream,
       ShutdownPieceStream
  <2> QED
    BY <1>3, <2>1, <2>2
<1>6. CASE Dispose(p) \/ DrainSome(p) \/ DrainReset(p) \/ Fill(p)
  <2>1. UNCHANGED <<got, acked>>
    BY <1>6 DEF Dispose, DrainSome, DrainReset, Fill, lua
  <2>2. \A d \in Peer : StreamInv(d)'
    BY <1>1, <1>6, DisposeStream, DrainSomeStream, DrainResetStream, FillStream
  <2> QED
    BY <1>3, <2>1, <2>2
<1>7. CASE WritePiece(p)
  <2>1. acked' = acked \/ acked' = [acked EXCEPT ![p] = @ + 1]
    BY <1>7 DEF WritePiece
  <2>2. \A d \in Peer : acked'[d] >= acked[d]
    BY <1>2, <2>1
  <2>3. got' = got
    BY <1>7 DEF WritePiece, WriteFrame
  <2>4. \A d \in Peer : StreamInv(d)'
    BY <1>1, <1>7, WritePieceStream
  <2> QED
    BY <1>1, <1>2, <2>2, <2>3, <2>4, GotKept
<1>8. CASE ReadPiece(p)
  BY <1>1, <1>8, ReadPieceStream
<1> QED
  BY <1>4, <1>5, <1>6, <1>7, <1>8 DEF Goes, Step

LEMMA InitStream ==
  ASSUME Init, NEW p \in Peer
  PROVE  StreamInv(p) /\ GotInv(p)
<1>1. PICK q \in Peer : q = Other(p)
  BY Ends
<1>2. /\ tx[p] = <<>> /\ wire[p] = <<>> /\ rx[q] = <<>> /\ got[p] = <<>> /\ got[q] = <<>>
      /\ acked[p] = 0 /\ acked[q] = 0 /\ wpend[p] = <<>> /\ alert[p] = "none" /\ ~notified[q]
  BY DEF Init
<1>3. Chan(p) = <<>> /\ Len(Chan(p)) = 0 /\ Len(got[p]) = 0 /\ Len(got[q]) = 0 /\ Len(wpend[p]) = 0
  BY <1>1, <1>2 DEF Chan
<1>4. Emitted(p) = 0 /\ Closing(p) = 0
  BY <1>2, <1>3 DEF Emitted, Closing
<1>5. Under(p) = 0
  <2>1. PICK a, b, c, d : /\ a = <<"w", "r", "r", "r", "w", "r">>
                          /\ b = <<"r", "w", "w", "w", "r", "w">>
                          /\ c = <<"w", "r", "r", "r", "w">>
                          /\ d = <<"r", "w", "w", "w", "r", "t">>
    OBVIOUS
  <2>2. Count(a, "w") = 2 /\ Count(a, "r") = 4
    BY <2>1 DEF Count, Is
  <2>3. Count(b, "w") = 4 /\ Count(b, "r") = 2
    BY <2>1 DEF Count, Is
  <2>4. Count(c, "w") = 2 /\ Count(c, "r") = 3
    BY <2>1 DEF Count, Is
  <2>5. Count(d, "w") = 3 /\ Count(d, "r") = 2
    BY <2>1 DEF Count, Is
  <2>6. \/ hs["client"] = a /\ hs["server"] = b
        \/ hs["client"] = c /\ hs["server"] = d
    BY <2>1 DEF Init, Flights
  <2>7. (p = "client" /\ q = "server") \/ (p = "server" /\ q = "client")
    BY <1>1 DEF Peer, Other
  <2> QED
    BY <1>1, <2>2, <2>3, <2>4, <2>5, <2>6, <2>7 DEF Under
<1>6. Carries(Chan(p), 0, 0, 0, 0, 0)
  BY <1>3 DEF Carries
<1>7. Flow(p, 0, 0)
  BY <1>1, <1>2, <1>3, <1>4, <1>5, <1>6 DEF Flow
<1>8. StreamInv(p)
  BY <1>7 DEF StreamInv
<1>9. GotInv(p)
  BY <1>1, <1>2, <1>3 DEF GotInv
<1> QED
  BY <1>8, <1>9

LEMMA SocketAlways == Spec => []SocketInv
<1>1. Init => SocketInv
  <2> SUFFICES ASSUME Init PROVE SocketInv
    OBVIOUS
  <2>1. \A p \in Peer : wire[p] = <<>> /\ Len(<<>>) = 0
    BY DEF Init
  <2>2. WireBounded
    BY <2>1, SocketAssumption DEF WireBounded
  <2> QED
    BY <2>2, InitTyped, InitLocal, InitStream DEF SocketInv, PeersInv
<1>2. SocketInv /\ [Next]_vars => SocketInv'
  <2> SUFFICES ASSUME SocketInv, [Next]_vars PROVE SocketInv'
    OBVIOUS
  <2>1. PeersInv'
    BY PeersStep DEF SocketInv
  <2>2. CASE Next
    BY <2>1, <2>2, NextGoes, StreamStep DEF SocketInv
  <2>3. CASE UNCHANGED vars
    <3>1. \A p \in Peer : GotInv(p)'
      BY <2>3 DEF vars, SocketInv, GotInv
    <3>2. ASSUME NEW p \in Peer
          PROVE  StreamInv(p)'
      <4>1. /\ Chan(p)' = Chan(p) /\ Under(p)' = Under(p) /\ Emitted(p)' = Emitted(p)
            /\ Closing(p)' = Closing(p) /\ Reads(Other(p))' = Reads(Other(p))
        BY <2>3 DEF vars, Chan, Under, Emitted, Closing, Reads
      <4>2. \A t, r : Flow(p, t, r)' <=> Flow(p, t, r)
        BY <2>3, <4>1 DEF vars, Flow
      <4> QED
        BY <4>1, <4>2 DEF SocketInv, StreamInv
    <3> QED
      BY <2>1, <3>1, <3>2 DEF SocketInv
  <2> QED
    BY <2>2, <2>3
<1> QED
  BY <1>1, <1>2, PTL DEF Spec

(* What read() returned is what the peer's write() reported as sent, from  *)
(* the start and in order: nothing is lost, doubled or swapped between the *)
(* buffers, whatever calls are cut by the deadline and made again.         *)
THEOREM StreamsStayIntact == Spec => []StreamIntact
<1>1. SocketInv => StreamIntact
  <2> SUFFICES ASSUME SocketInv, NEW p \in Peer
               PROVE  /\ got[p] = [i \in 1..Len(got[p]) |-> i]
                      /\ Len(got[p]) <= acked[Other(p)]
    BY DEF StreamIntact
  <2>1. got[p] \in Seq(1..MaxUnits)
    BY DEF SocketInv, PeersInv, Typed, LuaTypes
  <2>2. (\A i \in 1..Len(got[p]) : got[p][i] = i) /\ Len(got[p]) <= acked[Other(p)]
    BY DEF SocketInv, GotInv
  <2>3. got[p] = [i \in 1..Len(got[p]) |-> got[p][i]]
    BY <2>1
  <2> QED
    BY <2>2, <2>3
<1> QED
  BY <1>1, SocketAlways, PTL

(* A clean end is reported only when the peer closed on purpose and all it *)
(* had reported as sent was read.                                          *)
THEOREM EndsAreClean == Spec => []CleanEof
<1>1. SocketInv => CleanEof
  <2> SUFFICES ASSUME SocketInv, NEW p \in Peer, ret[p] = "eof"
               PROVE  alert[Other(p)] = "sent" /\ Len(got[p]) = acked[Other(p)]
    BY DEF CleanEof
  <2>1. PICK q \in Peer : q = Other(p) /\ p = Other(q)
    BY Ends
  <2>2. notified[p] /\ Reads(p)
    BY DEF SocketInv, PeersInv, Local, EofInv, Idle, Reads
  <2>3. PICK t \in {0, 1}, r \in Nat : Flow(q, t, r)
    BY <2>1, <2>2 DEF SocketInv, StreamInv
  <2>4. /\ alert[q] = "sent" /\ r = Emitted(q)
        /\ r = 2 * Len(got[p]) \/ r = 2 * Len(got[p]) + 1
    BY <2>1, <2>2, <2>3 DEF Flow
  <2>5. wpend[q] = <<>> /\ Len(<<>>) = 0
    BY <2>4 DEF SocketInv, PeersInv, Local, AlertInv
  <2>6. PICK k \in Nat : k = acked[q]
    BY DEF SocketInv, PeersInv, Typed, LuaTypes
  <2>7. PICK n \in Nat : n = Len(got[p])
    BY Pieces DEF SocketInv, PeersInv, Typed, LuaTypes
  <2>8. Emitted(q) = 2 * k
    BY <2>5, <2>6 DEF Emitted
  <2>9. n = k
    BY <2>4, <2>7, <2>8
  <2> QED
    BY <2>1, <2>4, <2>6, <2>7, <2>9
<1> QED
  BY <1>1, SocketAlways, PTL
=============================================================================
