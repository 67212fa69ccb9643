------------------------------- MODULE SocketIo -------------------------------
(***************************************************************************)
(* Coroutines that transfer data over shared net.Sockets (net.lua,         *)
(* lib/stream.lua, lib/dgram.lua, lib/unix.lua over socket.c).             *)
(*                                                                         *)
(* A synchronized call takes the poller's lock on the descriptor NUMBER,   *)
(* calls send(2) or its like until all is sent, parks in the poller when   *)
(* the kernel is full, and unlocks the number it locked.  Coroutines give  *)
(* way only in the poller, so a step is what one does from one wait to the *)
(* next.  In between, others close sockets and open new ones, which get    *)
(* the numbers that became free.                                           *)
(***************************************************************************)
EXTENDS Integers, Sequences, FiniteSets

CONSTANTS
  Task,     \* coroutines that make one call each
  Carries,  \* those whose message comes with descriptors
  Sock,     \* sockets; each is opened once
  Op,       \* the operations the coroutines use
  Half,     \* the directions somebody may shut down
  MaxFd,    \* descriptor numbers go from 0 to MaxFd
  Size,     \* bytes of a message, and bytes asked of sendfile
  FileSize, \* bytes of the file
  Room,     \* bytes the kernel holds for the peer
  MaxIn,    \* messages of the peer that wait to be read
  MaxFault, \* connections that are closed, shut down or left by the peer
  Timeo,    \* the timeout saved in the sockets, 0 for "no timeout"
  None      \* nobody

ASSUME IoAssumption ==
  /\ Carries \subseteq Task /\ None \notin Task
  /\ Op \subseteq {"write", "send", "sendto", "sendfile", "sendmsg", "sendfd", "read"}
  /\ Half \subseteq {"rd", "wr"} /\ MaxFd \in Nat /\ Size \in Nat \ {0}
  /\ FileSize \in Nat /\ Room \in Nat /\ MaxIn \in Nat /\ MaxFault \in Nat /\ Timeo \in Nat

NoFd == -1
Ops(t) == Op \intersect ({"read"} \union IF t \in Carries THEN {"sendmsg", "sendfd"}
                                        ELSE {"write", "send", "sendto", "sendfile"})

VARIABLES
  fd,       \* fd[s]: the field of the native socket
  opened,   \* sockets that were opened
  shut,     \* directions that were shut down
  hungup,   \* sockets whose peer closed the connection
  stream,   \* stream[s]: bytes the kernel took on s, in order
  drained,  \* how many of them the peer read
  inbox,    \* bytes that wait to be read
  lock,     \* the poller's locks
  co        \* the calls

vars == <<fd, opened, shut, hungup, stream, drained, inbox, lock, co>>
conn == <<fd, opened, shut, hungup>>
data == <<stream, drained, inbox>>

Dir(c) == IF c.op = "read" THEN "rd" ELSE "wr"

(* A call: where it is, the socket it was made on, the number it locked,   *)
(* the number it waits on and what the poller told it, whether its         *)
(* deadline passed, what it sent and has left, whether the descriptors     *)
(* are still to go, and its answer.                                        *)
NoCall == [at |-> "idle", op |-> "none", sock |-> None, num |-> NoFd, on |-> NoFd,
           wake |-> "none", late |-> FALSE, sent |-> 0, left |-> 0, cmsg |-> FALSE,
           answer |-> "none"]

Init ==
  /\ fd = [s \in Sock |-> NoFd] /\ opened = {} /\ shut = {} /\ hungup = {}
  /\ stream = [s \in Sock |-> <<>>] /\ drained = [s \in Sock |-> 0]
  /\ inbox = [s \in Sock |-> 0]
  /\ lock = [k \in {"rd", "wr"} \X (NoFd..MaxFd) |-> None]
  /\ co = [t \in Task |-> NoCall]

-----------------------------------------------------------------------------
(* What one call of the native socket does: it takes n bytes, and ends     *)
(* "done", with "again", with an "error" or a Lua error ("raise").         *)

Out(n, end) == [n |-> n, end |-> end]
Least(a, b) == IF a < b THEN a ELSE b
Free(s) == Room - (Len(stream[s]) - drained[s])

(* send(2) takes a part; a part is reported with "again". *)
Part(l, room) == {Out(n, IF n < l THEN "again" ELSE "done") : n \in 1..Least(l, room)}
                   \union {Out(0, "again")}

(* A datagram goes whole or not at all. *)
Whole(l, room) == Part(l, room) \ {Out(n, "again") : n \in 1..l}

WriteOut(c) == Part(c.left, Free(c.sock))
SendOut(c) == Part(c.left, Free(c.sock))
SendtoOut(c) == Whole(c.left, Free(c.sock))
SendmsgOut(c) == Part(c.left, Free(c.sock))
SendfdOut(c) == Whole(c.left, Free(c.sock))

Length(op) == IF op \in {"sendto", "sendfd"} THEN 1 ELSE Size

InFile(c) == FileSize - (Size - c.left)

(* Linux: 0 at the end of the file, without "again". *)
LinuxSendfile(c) ==
  IF InFile(c) = 0 THEN {Out(0, "done")}
  ELSE Part(c.left, Least(InFile(c), Free(c.sock)))

(* BSD: as Linux, but a part may go before EAGAIN or an error is met. *)
BsdSendfile(c) ==
  LinuxSendfile(c)
    \union {Out(n, e) : n \in 0..Least(c.left, Least(InFile(c), Free(c.sock))),
                        e \in {"again", "error"}}

(* macOS: success means all, or all that the file has. *)
AppleSendfile(c) ==
  LET most == Least(c.left, InFile(c)) IN
  {Out(n, e) : n \in 0..Least(most, Free(c.sock)), e \in {"again", "error"}}
    \union IF most <= Free(c.sock) THEN {Out(most, "done")} ELSE {}

(* Elsewhere: copies chunks of the file until all is sent, the file ends,  *)
(* or a chunk meets EAGAIN or an error; what went before is reported.      *)
PortableSendfile(c) ==
  IF InFile(c) = 0 THEN {Out(0, "done")} ELSE AppleSendfile(c)

SendfileOut(c) ==
  LinuxSendfile(c) \union BsdSendfile(c) \union AppleSendfile(c) \union PortableSendfile(c)

(* send(2) fails on a closed descriptor (EBADF) and on a connection that   *)
(* is shut down or was left by the peer (EPIPE).                           *)
Usable(s) == fd[s] # NoFd /\ <<s, "wr">> \notin shut /\ s \notin hungup

Accepted(c) ==
  IF Usable(c.sock)
  THEN CASE c.op = "write"    -> WriteOut(c)
         [] c.op = "send"     -> SendOut(c)
         [] c.op = "sendto"   -> SendtoOut(c)
         [] c.op = "sendmsg"  -> SendmsgOut(c)
         [] c.op = "sendfd"   -> SendfdOut(c)
         [] c.op = "sendfile" -> SendfileOut(c)
  ELSE {Out(0, "error")}
         \union IF c.op = "sendfile" /\ InFile(c) = 0 THEN {Out(0, "done")} ELSE {}

(* Any call may run out of memory, the last time when it makes its error.  *)
Outcome(c) ==
  Accepted(c) \union {Out(0, "raise")}
    \union {Out(o.n, "raise") : o \in {x \in Accepted(c) : x.end = "error"}}

-----------------------------------------------------------------------------
(* The loops of the Lua functions.                                         *)

(* Mutant of Default: the saved timeout as it is, where 0 is no time. *)
AsSaved(sec) == sec

(* A saved timeout of 0 is "no timeout" to the kernel; the library takes   *)
(* its default instead.                                                    *)
Default(sec) == IF sec > 0 THEN sec ELSE 1

(* Mutant of IsDone: nobody asks the deadline. *)
NeverDone(c) == FALSE

IsDone(c) == c.late \/ Default(Timeo) = 0

(* write, send, sendto, sendfile: count, and go on behind what was sent. *)
AfterWrite(c, n) == [c EXCEPT !.sent = @ + n, !.left = @ - n]

(* sendfd counts nothing: its native call sends one byte for the           *)
(* descriptor to travel with, and returns the length 0.                    *)
AfterSendfd(c, n) == [c EXCEPT !.left = @ - n, !.cmsg = @ /\ n = 0]

(* Mutant of AfterSendmsg: the descriptors go with every part. *)
AfterSendmsgAgain(c, o) == AfterWrite(c, o.n)

(* sendmsg drops the descriptors as soon as a call succeeded. *)
AfterSendmsg(c, o) == [AfterWrite(c, o.n) EXCEPT !.cmsg = @ /\ o.n = 0]

After(c, o) ==
  CASE c.op = "sendmsg" -> AfterSendmsg(c, o)
    [] c.op = "sendfd"  -> AfterSendfd(c, o.n)
    [] OTHER            -> AfterWrite(c, o.n)

(* xpcall is over: the call returns. *)
Returned(c, answer) ==
  [c EXCEPT !.at = "done", !.num = NoFd, !.on = NoFd, !.wake = "none", !.left = 0,
            !.cmsg = FALSE, !.answer = answer]

(* wait_writable, wait_readable: by the number the socket has now. *)
Parked(c) == [c EXCEPT !.at = "wait", !.on = fd[c.sock], !.wake = "none"]

Continue(c, end) ==
  CASE end = "again" -> IF IsDone(c) THEN Returned(c, "timeout") ELSE Parked(c)
    [] end = "done"  -> Returned(c, "sent")
    [] OTHER         -> Returned(c, end)

(* Mutant of LockedNumber: the number the socket has now. *)
CurrentNumber(c) == fd[c.sock]

(* The number a call unlocks is the one it locked. *)
LockedNumber(c) == c.num

(* syncwrite, syncread: the lock is held until the call returns, by an     *)
(* error too.                                                              *)
Proceed(t, c) ==
  /\ co' = [co EXCEPT ![t] = c]
  /\ lock' = IF c.at = "done" THEN [lock EXCEPT ![<<Dir(c), LockedNumber(co[t])>>] = None]
             ELSE [lock EXCEPT ![<<Dir(c), c.num>>] = t]

Bytes(t, c, n) ==
  [k \in 1..n |-> [by |-> t, at |-> Length(c.op) - c.left + k, fds |-> c.cmsg /\ k = 1]]

Send(t, c) ==
  /\ c.op # "read"
  /\ \E o \in Outcome(c) :
       /\ stream' = [stream EXCEPT ![c.sock] = @ \o Bytes(t, c, o.n)]
       /\ Proceed(t, Continue(After(c, o), o.end))
  /\ UNCHANGED <<drained, inbox>> /\ UNCHANGED conn

(* What one receiving call does: "again" comes for a signal too, and the   *)
(* bytes are taken before the string and the address are made.             *)
Ended(s) == s \in hungup \/ <<s, "rd">> \in shut

ReceiveOut(s) ==
  {Out(0, "raise")} \union
    IF fd[s] = NoFd THEN {Out(0, "error")}
    ELSE {Out(0, "again")} \union
         IF inbox[s] > 0 THEN {Out(1, "data"), Out(1, "raise")}
         ELSE IF Ended(s) THEN {Out(0, "eof")} ELSE {}

Receive(t, c) ==
  /\ c.op = "read"
  /\ \E o \in ReceiveOut(c.sock) :
       /\ inbox' = [inbox EXCEPT ![c.sock] = @ - o.n]
       /\ Proceed(t, Continue([c EXCEPT !.sent = o.n], o.end))
  /\ UNCHANGED <<stream, drained>> /\ UNCHANGED conn

Run(t, c) == Send(t, c) \/ Receive(t, c)

-----------------------------------------------------------------------------
(* The calls.                                                              *)

Start(t) ==
  /\ co[t].at = "idle"
  /\ \E s \in opened, op \in Ops(t) :
       co' = [co EXCEPT ![t] = [NoCall EXCEPT !.at = "lock", !.op = op, !.sock = s,
                !.num = fd[s], !.left = IF op = "read" THEN 0 ELSE Length(op),
                !.cmsg = op # "read" /\ t \in Carries]]
  /\ UNCHANGED lock /\ UNCHANGED data /\ UNCHANGED conn

(* read_lock, write_lock succeed; fn starts a deadline of its own. *)
Acquire(t) ==
  /\ co[t].at = "lock" /\ lock[<<Dir(co[t]), co[t].num>>] = None
  /\ Run(t, [co[t] EXCEPT !.late = FALSE])

(* The lock's wait ends at the saved timeout, or the poller has no locks;  *)
(* nothing was locked, so nothing is unlocked.                             *)
LockFails(t, answer) ==
  /\ co[t].at = "lock"
  /\ co' = [co EXCEPT ![t] = Returned(co[t], answer)]
  /\ UNCHANGED lock /\ UNCHANGED data /\ UNCHANGED conn

LockTimesOut(t) == IsDone(co[t]) /\ LockFails(t, "timeout")
LockRefused(t) == LockFails(t, "error")

(* The wait is over: the loop goes round, or the call returns what it has. *)
Resume(t) ==
  /\ co[t].at = "wait" /\ co[t].wake # "none"
  /\ IF co[t].wake = "ready" THEN Run(t, [co[t] EXCEPT !.wake = "none", !.on = NoFd])
     ELSE /\ Proceed(t, Returned(co[t], co[t].wake))
          /\ UNCHANGED data /\ UNCHANGED conn

-----------------------------------------------------------------------------
(* The poller and the clock.                                               *)

Wake(t, how) ==
  /\ co[t].at = "wait" /\ co[t].wake = "none"
  /\ co' = [co EXCEPT ![t].wake = how]
  /\ UNCHANGED lock /\ UNCHANGED data /\ UNCHANGED conn

Readable(s) == inbox[s] > 0 \/ Ended(s)
Writable(s) == Free(s) > 0 \/ s \in hungup \/ <<s, "wr">> \in shut

(* The event comes from whatever has the number now. *)
Ready(t) ==
  /\ \E s \in Sock : /\ fd[s] # NoFd /\ fd[s] = co[t].on
                     /\ IF co[t].op = "read" THEN Readable(s) ELSE Writable(s)
  /\ Wake(t, "ready")

TimesOut(t) == IsDone(co[t]) /\ Wake(t, "timeout")

Expire(t) ==
  /\ co[t].at \in {"lock", "wait"} /\ ~co[t].late
  /\ co' = [co EXCEPT ![t].late = TRUE]
  /\ UNCHANGED lock /\ UNCHANGED data /\ UNCHANGED conn

(* Mutant of Unwait: the coroutines that wait stay where they are. *)
UnwaitNone(n, dirs) == co' = co

(* unwait, unwait_readable, unwait_writable: whoever waits on the number   *)
(* in that direction is told so.                                           *)
Unwait(n, dirs) ==
  co' = [t \in Task |->
          IF co[t].at = "wait" /\ co[t].on = n /\ co[t].wake = "none" /\ Dir(co[t]) \in dirs
          THEN [co[t] EXCEPT !.wake = "canceled"] ELSE co[t]]

-----------------------------------------------------------------------------
(* Sockets and their peers.                                                *)

Faults == Cardinality(hungup) + Cardinality(shut) + Cardinality({s \in opened : fd[s] = NoFd})

(* The kernel gives a free number. *)
Open(s) ==
  /\ s \notin opened
  /\ \E n \in 0..MaxFd : (\A c \in Sock : fd[c] # n) /\ fd' = [fd EXCEPT ![s] = n]
  /\ opened' = opened \union {s}
  /\ UNCHANGED <<shut, hungup, lock, co>> /\ UNCHANGED data

Close(s) ==
  /\ fd[s] # NoFd /\ Faults < MaxFault
  /\ Unwait(fd[s], {"rd", "wr"})
  /\ fd' = [fd EXCEPT ![s] = NoFd]
  /\ shut' = shut \ ({s} \X {"rd", "wr"}) /\ hungup' = hungup \ {s}
  /\ inbox' = [inbox EXCEPT ![s] = 0] /\ drained' = [drained EXCEPT ![s] = Len(stream[s])]
  /\ UNCHANGED <<opened, stream, lock>>

(* closer, closew *)
CloseHalf(s, d) ==
  /\ fd[s] # NoFd /\ <<s, d>> \notin shut /\ Faults < MaxFault
  /\ Unwait(fd[s], {d})
  /\ shut' = shut \union {<<s, d>>}
  /\ UNCHANGED <<fd, opened, hungup, lock>> /\ UNCHANGED data

PeerReads(s) ==
  /\ drained[s] < Len(stream[s])
  /\ drained' = [drained EXCEPT ![s] = @ + 1]
  /\ UNCHANGED <<stream, inbox, lock, co>> /\ UNCHANGED conn

PeerSends(s) ==
  /\ fd[s] # NoFd /\ s \notin hungup /\ inbox[s] < MaxIn
  /\ inbox' = [inbox EXCEPT ![s] = @ + 1]
  /\ UNCHANGED <<stream, drained, lock, co>> /\ UNCHANGED conn

PeerHangsUp(s) ==
  /\ fd[s] # NoFd /\ s \notin hungup /\ Faults < MaxFault
  /\ hungup' = hungup \union {s}
  /\ UNCHANGED <<fd, opened, shut, lock, co>> /\ UNCHANGED data

-----------------------------------------------------------------------------
TaskNext(t) ==
  \/ Start(t) \/ Acquire(t) \/ LockTimesOut(t) \/ LockRefused(t) \/ Resume(t)
  \/ Ready(t) \/ TimesOut(t) \/ Expire(t)

SockNext(s) ==
  \/ Open(s) \/ Close(s) \/ (\E d \in Half : CloseHalf(s, d))
  \/ PeerReads(s) \/ PeerSends(s) \/ PeerHangsUp(s)

Next == (\E t \in Task : TaskNext(t)) \/ (\E s \in Sock : SockNext(s))

(* Time passes, the poller's timers fire, and a coroutine that was woken   *)
(* runs.  Nothing is asked of the peers.                                   *)
Fairness == \A t \in Task : /\ WF_vars(Expire(t)) /\ WF_vars(TimesOut(t))
                            /\ WF_vars(LockTimesOut(t)) /\ WF_vars(Resume(t))

Spec == Init /\ [][Next]_vars /\ Fairness

-----------------------------------------------------------------------------
Answer == {"none", "sent", "data", "eof", "timeout", "canceled", "error", "raise"}

(* The state stays within its types. *)
TypeOK ==
  /\ fd \in [Sock -> NoFd..MaxFd] /\ opened \subseteq Sock /\ hungup \subseteq Sock
  /\ shut \subseteq Sock \X {"rd", "wr"}
  /\ \A s \in Sock : drained[s] \in 0..Len(stream[s]) /\ inbox[s] \in 0..MaxIn
  /\ lock \in [{"rd", "wr"} \X (NoFd..MaxFd) -> Task \union {None}]
  /\ \A t \in Task :
       /\ co[t].at \in {"idle", "lock", "wait", "done"} /\ co[t].op \in Op \union {"none"}
       /\ co[t].answer \in Answer /\ co[t].left \in 0..Size /\ co[t].sent \in 0..Size

(* What a synchronized call sends stands together on its connection, whole *)
(* from its first byte on, in order, each byte once, the descriptors with  *)
(* the first byte only, whoever closes sockets, fails, times out or waits  *)
(* meanwhile (syncwrite, the loops that trim and count, sendmsg's cmsg).   *)
Talks(s) == {t \in Task : co[t].at = "wait" /\ co[t].op # "read" /\ co[t].sock = s}
Speaker == [s \in Sock |-> IF Talks(s) = {} THEN None ELSE CHOOSE t \in Talks(s) : TRUE]
Stream == INSTANCE MessageStream WITH
  Writer <- Task, speaker <- Speaker, stream <- stream
RefinesStream == Stream!Spec

(* The answer of a finished call is true.  The count is the number of its  *)
(* bytes the kernel took; sendfd always counts 0, and its descriptor went  *)
(* exactly if it answers with neither err nor timeout.  A full answer      *)
(* means that all went (or the file ended), and each failure had its cause *)
(* (the loops of net.lua and unix.lua).                                    *)
Said(t, s) == Cardinality({i \in DOMAIN stream[s] : stream[s][i].by = t})
Taken(t) == Said(t, co[t].sock)
Disturbed(s) == fd[s] = NoFd \/ s \in hungup \/ \E d \in {"rd", "wr"} : <<s, d>> \in shut
AnswersTrue ==
  TypeOK /\ \A t \in Task : co[t].at = "done" =>
    LET c == co[t] IN
    /\ c.op \notin {"read", "sendfd"} /\ c.answer # "raise" => c.sent = Taken(t)
    /\ c.op = "sendfd" => c.sent = 0 /\ (c.answer = "sent" <=> Taken(t) # 0)
    /\ c.answer = "sent" => \/ Taken(t) = Length(c.op)
                            \/ c.op = "sendfile" /\ Taken(t) = Least(Size, FileSize)
    /\ c.answer = "timeout" => c.late
    /\ c.answer = "canceled" => fd[c.sock] = NoFd \/ <<c.sock, Dir(c)>> \in shut
    /\ c.answer = "eof" => Disturbed(c.sock)

(* A coroutine that waits in the poller, and was not woken, waits on the   *)
(* number its own socket has: the events of a socket that got the number   *)
(* of a closed one never resume a coroutine of the closed one (unwait in   *)
(* close and in the finalizer).                                            *)
ParkedOnOwnFd ==
  \A t \in Task : co[t].at = "wait" /\ co[t].wake = "none"
                    => co[t].on # NoFd /\ co[t].on = fd[co[t].sock]

(* Every lock is held by a call that is still running and will give it     *)
(* back: a close, and the reuse of the number, leave no lock behind.       *)
LocksHeldByRunners ==
  \A d \in {"rd", "wr"}, n \in NoFd..MaxFd :
    LET t == lock[<<d, n>>] IN
    t # None => co[t].at = "wait" /\ co[t].num = n /\ Dir(co[t]) = d

(* Every call returns, whatever the peers do: the deadlines of the lock    *)
(* and of the loop both end.                                               *)
CallsReturn ==
  \A t \in Task : co[t].at \in {"lock", "wait"} ~> co[t].at = "done"
=============================================================================
