----------------------------- MODULE SocketProofs -----------------------------
(***************************************************************************)
(* Waiting and locking by descriptor number is sound, answers are true and *)
(* messages go out whole, for every number of coroutines, sockets and      *)
(* descriptors, and messages and files of any size (net.lua).              *)
(***************************************************************************)
EXTENDS SocketIo, FiniteSetTheorems, SequenceTheorems, TLAPS

(* Descriptor numbers, the directions of a lock, how a call may end. *)
Numbers == NoFd..MaxFd
Dirs == {"rd", "wr"}
Ends == Answer \union {"again", "done"}

Call == [at : {"idle", "lock", "wait", "done"}, op : Op \union {"none"},
         sock : Sock \union {None}, num : Numbers, on : Numbers,
         wake : {"none", "ready", "timeout", "canceled"}, late : BOOLEAN,
         sent : Int, left : Int, cmsg : BOOLEAN, answer : Ends]

(* A call under way has an operation, on a socket that was opened. *)
Placed(c) == c.at \in {"lock", "wait"} => c.sock \in opened /\ c.op \in Op

CallsInv == co \in [Task -> Call] /\ \A t \in Task : Placed(co[t])

(* A socket that was not opened yet has no number. *)
SocksInv ==
  /\ fd \in [Sock -> Numbers] /\ opened \subseteq Sock
  /\ lock \in [Dirs \X Numbers -> Task \union {None}]
  /\ \A s \in Sock \ opened : fd[s] = NoFd

(* A byte on its way. *)
Byte == [by : Task, at : Int, fds : BOOLEAN]

(* What was sent is a sequence, and what was read of it a number. *)
DataInv == stream \in [Sock -> Seq(Byte)] /\ drained \in [Sock -> Int]

(* A call that waits holds the lock of the number it locked. *)
WaitersHold ==
  \A t \in Task : co[t].at = "wait" => lock[<<Dir(co[t]), co[t].num>>] = t

LocksInv == CallsInv /\ SocksInv /\ ParkedOnOwnFd /\ LocksHeldByRunners /\ WaitersHold

(* The inductive invariant. *)
IoInv == LocksInv /\ DataInv

(* The direction of a call is one of two. *)
LEMMA DirType == ASSUME NEW c PROVE Dir(c) \in Dirs
BY DEF Dir, Dirs

(* The numbers of descriptors are integers, and none is one of them. *)
LEMMA NumbersType == NoFd \in Numbers /\ Numbers \subseteq Int
BY IoAssumption DEF Numbers, NoFd

(* What a call of the native socket answers. *)
Result == [n : Int, end : Ends]

(* The smaller of two numbers is one of them. *)
LEMMA LeastType == ASSUME NEW a \in Int, NEW b \in Int PROVE Least(a, b) \in Int
BY DEF Least

(* What goes of a message is a number of bytes, and how it ended a word. *)
LEMMA PartType == ASSUME NEW l \in Int, NEW r \in Int PROVE Part(l, r) \subseteq Result
<1> SUFFICES ASSUME NEW o \in Part(l, r) PROVE o \in Result
  OBVIOUS
<1>1. CASE o = Out(0, "again")
  BY <1>1 DEF Out, Result, Ends, Answer
<1>2. ASSUME NEW n \in 1..Least(l, r), o = Out(n, IF n < l THEN "again" ELSE "done")
      PROVE  o \in Result
  <2>1. n \in Int
    BY LeastType
  <2>2. (IF n < l THEN "again" ELSE "done") \in Ends
    BY DEF Ends
  <2> QED
    BY <1>2, <2>1, <2>2 DEF Out, Result, Ends, Answer
<1> QED
  BY <1>1, <1>2 DEF Part

(* The bytes of the file that a call has not sent are a number. *)
LEMMA InFileType == ASSUME NEW c \in Call PROVE InFile(c) \in Int
<1>1. c.left \in Int /\ FileSize \in Int /\ Size \in Int
  BY IoAssumption DEF Call
<1> QED
  BY <1>1 DEF InFile

(* The room the kernel has on a socket is a number. *)
LEMMA FreeType == ASSUME DataInv, NEW s \in Sock PROVE Free(s) \in Int
<1>1. Len(stream[s]) \in Int /\ drained[s] \in Int /\ Room \in Int
  BY IoAssumption DEF DataInv
<1> QED
  BY <1>1 DEF Free

(* sendfile answers like the others, on every system. *)
LEMMA SendfileType ==
  ASSUME DataInv, NEW c \in Call, c.sock \in Sock PROVE SendfileOut(c) \subseteq Result
<1>1. Out(0, "done") \in Result
  BY DEF Out, Result, Ends, Answer
<1> DEFINE Most == Least(InFile(c), Free(c.sock))
<1>a. c.left \in Int /\ InFile(c) \in Int /\ Free(c.sock) \in Int /\ Most \in Int
  BY InFileType, FreeType, LeastType DEF Call
<1>2. LinuxSendfile(c) \subseteq Result
  BY <1>1, <1>a, PartType DEF LinuxSendfile
<1>3. ASSUME NEW x \in Int, NEW n \in 0..x, NEW e \in {"again", "error"}
      PROVE  Out(n, e) \in Result
  <2>1. n \in Int /\ e \in Ends
    BY DEF Ends, Answer
  <2> QED
    BY <2>1 DEF Out, Result, Ends, Answer
<1>4. BsdSendfile(c) \subseteq Result
  BY <1>2, <1>3, <1>a, LeastType DEF BsdSendfile
<1>5. AppleSendfile(c) \subseteq Result
  <2>1. Least(c.left, InFile(c)) \in Int
    BY <1>a, LeastType
  <2>2. Out(Least(c.left, InFile(c)), "done") \in Result
    BY <2>1 DEF Out, Result, Ends, Answer
  <2> QED
    BY <1>3, <1>a, <2>2, LeastType DEF AppleSendfile
<1>6. PortableSendfile(c) \subseteq Result
  BY <1>1, <1>5 DEF PortableSendfile
<1> QED
  BY <1>2, <1>4, <1>5, <1>6 DEF SendfileOut

(* What a sending call of the native socket answers is a result, and it    *)
(* asks the caller to wait only on a socket that is open.                  *)
LEMMA OutcomeType ==
  ASSUME DataInv, NEW c \in Call, c.sock \in Sock, c.op \in Op \ {"read"}, NEW o \in Outcome(c)
  PROVE  o \in Result /\ (o.end = "again" => fd[c.sock] # NoFd)
<1>1. Out(0, "error") \in Result /\ Out(0, "done") \in Result /\ Out(0, "raise") \in Result
  BY DEF Out, Result, Ends, Answer
<1>0. c.left \in Int /\ Free(c.sock) \in Int
  BY FreeType DEF Call
<1>2. Whole(c.left, Free(c.sock)) \subseteq Result
  BY <1>0, PartType DEF Whole
<1>3. Accepted(c) \subseteq Result
  <2>1. CASE ~Usable(c.sock)
    BY <1>1, <2>1 DEF Accepted
  <2>2. CASE Usable(c.sock)
    BY <1>2, <1>0, <2>2, IoAssumption, PartType, SendfileType
       DEF Accepted, WriteOut, SendOut, SendtoOut, SendmsgOut, SendfdOut
  <2> QED
    BY <2>1, <2>2
<1>4. CASE o \in Accepted(c)
  <2>1. CASE Usable(c.sock)
    BY <1>3, <1>4, <2>1 DEF Usable
  <2>2. CASE ~Usable(c.sock)
    <3>1. o = Out(0, "error") \/ o = Out(0, "done")
      BY <1>4, <2>2 DEF Accepted
    <3> QED
      BY <1>1, <3>1 DEF Out
  <2> QED
    BY <2>1, <2>2
<1>5. CASE o = Out(0, "raise")
  BY <1>1, <1>5 DEF Out
<1>6. ASSUME NEW x \in Accepted(c), o = Out(x.n, "raise")
      PROVE  o \in Result /\ o.end # "again"
  <2>1. x.n \in Int
    BY <1>3 DEF Result
  <2> QED
    BY <1>6, <2>1 DEF Out, Result, Ends, Answer
<1> QED
  BY <1>4, <1>5, <1>6 DEF Outcome

(* So does a receiving one. *)
LEMMA ReceiveType ==
  ASSUME NEW s, NEW o \in ReceiveOut(s)
  PROVE  o \in Result /\ (o.end = "again" => fd[s] # NoFd)
BY DEF ReceiveOut, Out, Result, Ends, Answer

(* The same call, with other counters. *)
Kin(r, c) == r \in Call /\ r.at = c.at /\ r.op = c.op /\ r.sock = c.sock /\ r.num = c.num

(* Sending leaves the call what it is, but for its counters. *)
LEMMA AfterKeeps ==
  ASSUME NEW c \in Call, NEW o \in Result
  PROVE  Kin(After(c, o), c)
<1>0. o.n \in Int /\ c.sent \in Int /\ c.left \in Int /\ c.cmsg \in BOOLEAN
  BY DEF Result, Call
<1>a. ASSUME NEW d \in Call, NEW x \in Int, NEW y \in Int
      PROVE  Kin([d EXCEPT !.sent = x, !.left = y], d)
  BY DEF Call, Kin
<1>b. ASSUME NEW d \in Call, NEW z \in BOOLEAN PROVE Kin([d EXCEPT !.cmsg = z], d)
  BY DEF Call, Kin
<1>1. ASSUME NEW n \in Int PROVE Kin(AfterWrite(c, n), c)
  <2>1. c.sent + n \in Int /\ c.left - n \in Int
    BY <1>0
  <2> QED
    BY <1>a, <2>1 DEF AfterWrite
<1>2. Kin(AfterSendfd(c, o.n), c)
  <2>1. ASSUME NEW y \in Int, NEW z \in BOOLEAN
        PROVE  Kin([c EXCEPT !.left = y, !.cmsg = z], c)
    BY DEF Call, Kin
  <2>2. c.left - o.n \in Int /\ (c.cmsg /\ o.n = 0) \in BOOLEAN
    BY <1>0
  <2> QED
    BY <1>0, <2>1, <2>2 DEF AfterSendfd
<1>3. Kin(AfterSendmsg(c, o), c)
  <2>1. Kin(AfterWrite(c, o.n), c)
    BY <1>0, <1>1
  <2> QED
    BY <1>0, <1>b, <2>1 DEF AfterSendmsg, Kin, Call
<1> QED
  BY <1>0, <1>1, <1>2, <1>3 DEF After

(* The call is over. *)
Halted(r, c) == r \in Call /\ r.at = "done" /\ r.op = c.op

(* A call that returns is over. *)
LEMMA ReturnedHalts ==
  ASSUME NEW c \in Call, NEW a \in Ends PROVE Halted(Returned(c, a), c)
<1> DEFINE d == [c EXCEPT !.at = "done", !.num = NoFd, !.on = NoFd]
<1>1. d \in Call /\ d.at = "done" /\ d.op = c.op
  BY NumbersType DEF Call
<1>2. ASSUME NEW e \in Call PROVE Kin([e EXCEPT !.wake = "none", !.left = 0], e)
  <2>1. ASSUME NEW y \in Int PROVE Kin([e EXCEPT !.wake = "none", !.left = y], e)
    BY DEF Call, Kin
  <2>2. 0 \in Int
    OBVIOUS
  <2> QED
    BY <2>1, <2>2, Zenon
<1>3. ASSUME NEW e \in Call PROVE Kin([e EXCEPT !.cmsg = FALSE, !.answer = a], e)
  <2>1. ASSUME NEW z \in BOOLEAN PROVE Kin([e EXCEPT !.cmsg = z, !.answer = a], e)
    BY DEF Call, Kin
  <2> QED
    BY <2>1
<1> DEFINE f == [d EXCEPT !.wake = "none", !.left = 0]
<1>4. Kin(f, d) /\ Kin([f EXCEPT !.cmsg = FALSE, !.answer = a], f)
  <2> HIDE DEF d
  <2>1. Kin(f, d)
    BY <1>1, <1>2
  <2> QED
    BY <1>3, <2>1 DEF Kin
<1>5. Returned(c, a) = [f EXCEPT !.cmsg = FALSE, !.answer = a]
  BY DEF Returned
<1> QED
  BY <1>1, <1>4, <1>5 DEF Halted, Kin

(* A call that parks waits on the number of its socket. *)
LEMMA ParkedWaits ==
  ASSUME NEW c \in Call, fd[c.sock] \in Numbers PROVE
    LET r == Parked(c) IN
    r \in Call /\ r.at = "wait" /\ r.op = c.op /\ r.sock = c.sock /\ r.num = c.num
      /\ r.on = fd[c.sock] /\ r.wake = "none"
BY DEF Parked, Call

(* The loop goes on waiting only for "again". *)
LEMMA ContinueEnds ==
  ASSUME NEW c \in Call, NEW e \in Ends, e = "again" => fd[c.sock] \in Numbers
  PROVE  LET r == Continue(c, e) IN
         \/ Halted(r, c)
         \/ /\ e = "again" /\ r \in Call /\ r.at = "wait" /\ r.op = c.op
            /\ r.sock = c.sock /\ r.num = c.num /\ r.on = fd[c.sock] /\ r.wake = "none"
<1>1. "timeout" \in Ends /\ "sent" \in Ends
  BY DEF Ends, Answer
<1> QED
  BY <1>1, ReturnedHalts, ParkedWaits DEF Continue

(* What a step of a call leads to: its end, or another wait on the number  *)
(* of its socket.                                                          *)
Goes(t, r) ==
  /\ r \in Call /\ r.op = co[t].op
  /\ \/ r.at = "done"
     \/ /\ r.at = "wait" /\ r.sock = co[t].sock /\ r.num = co[t].num
        /\ r.on = fd[r.sock] /\ r.on # NoFd /\ r.wake = "none"

(* The lock is taken when the call first waits, and given back at its end. *)
LEMMA ProceedKeeps ==
  ASSUME LocksInv, NEW t \in Task, co[t].at \in {"lock", "wait"},
         lock[<<Dir(co[t]), co[t].num>>] \in {None, t},
         NEW r, Goes(t, r), Proceed(t, r), UNCHANGED conn
  PROVE  LocksInv'
<1> DEFINE key == <<Dir(co[t]), co[t].num>>
           own == IF r.at = "done" THEN None ELSE t
<1> USE DEF LocksInv
<1>1. key \in Dirs \X Numbers /\ Dir(r) = Dir(co[t])
  BY DirType DEF CallsInv, Call, Goes, Dir
<1>2. lock' = [lock EXCEPT ![key] = own]
  BY <1>1 DEF Proceed, LockedNumber, Goes
<1>3. co' = [co EXCEPT ![t] = r] /\ co' \in [Task -> Call]
  BY DEF Proceed, Goes, CallsInv
<1>4. co'[t] = r /\ \A u \in Task \ {t} : co'[u] = co[u]
  BY <1>3 DEF CallsInv
<1>5. lock'[key] = own /\ \A k \in (Dirs \X Numbers) \ {key} : lock'[k] = lock[k]
  BY <1>1, <1>2 DEF SocksInv
<1>6. fd' = fd /\ opened' = opened
  BY DEF conn
<1>7. CallsInv'
  <2>1. ASSUME NEW u \in Task PROVE Placed(co[u])'
    BY <1>4, <1>6 DEF CallsInv, Placed, Goes
  <2> QED
    BY <1>3, <2>1 DEF CallsInv
<1>8. SocksInv'
  <2>1. own \in Task \union {None}
    OBVIOUS
  <2>2. lock' \in [Dirs \X Numbers -> Task \union {None}]
    BY <1>2, <2>1 DEF SocksInv
  <2> QED
    BY <1>6, <2>2 DEF SocksInv
<1>9. ParkedOnOwnFd'
  BY <1>4, <1>6 DEF ParkedOnOwnFd, Goes
<1>10. ASSUME NEW d \in {"rd", "wr"}, NEW n \in NoFd..MaxFd, lock'[<<d, n>>] # None
       PROVE  LET u == lock'[<<d, n>>] IN
              co'[u].at = "wait" /\ co'[u].num = n /\ Dir(co'[u]) = d
  <2>1. <<d, n>> \in Dirs \X Numbers
    BY DEF Dirs, Numbers
  <2>2. CASE <<d, n>> = key
    <3>1. r.at # "done" /\ lock'[<<d, n>>] = t
      BY <1>5, <1>10, <2>2
    <3>2. d = Dir(co[t]) /\ n = co[t].num
      BY <2>2
    <3> QED
      BY <1>1, <1>4, <3>1, <3>2 DEF Goes
  <2>3. CASE <<d, n>> # key
    <3>1. lock'[<<d, n>>] = lock[<<d, n>>]
      BY <1>5, <2>1, <2>3
    <3>2. lock[<<d, n>>] \in Task
      BY <1>10, <2>1, <3>1 DEF SocksInv
    <3>3. LET u == lock[<<d, n>>] IN
          co[u].at = "wait" /\ co[u].num = n /\ Dir(co[u]) = d
      BY <1>10, <3>1 DEF LocksHeldByRunners
    <3>4. lock[<<d, n>>] # t
      BY <2>3, <3>3
    <3> QED
      BY <1>4, <3>1, <3>2, <3>3, <3>4
  <2> QED
    BY <2>2, <2>3
<1>11. LocksHeldByRunners'
  BY <1>10 DEF LocksHeldByRunners
<1>12. ASSUME NEW u \in Task, co'[u].at = "wait"
       PROVE  lock'[<<Dir(co'[u]), co'[u].num>>] = u
  <2>1. CASE u = t
    BY <1>1, <1>4, <1>5, <1>12, <2>1 DEF Goes
  <2>2. CASE u # t
    <3>1. co'[u] = co[u] /\ lock[<<Dir(co[u]), co[u].num>>] = u
      BY <1>4, <1>12, <2>2 DEF WaitersHold
    <3>2. <<Dir(co[u]), co[u].num>> \in Dirs \X Numbers
      BY DirType DEF CallsInv, Call
    <3>3. u # None
      BY IoAssumption
    <3>4. <<Dir(co[u]), co[u].num>> # key
      BY <2>2, <3>1, <3>3
    <3> QED
      BY <1>5, <3>1, <3>2, <3>4
  <2> QED
    BY <2>1, <2>2
<1>13. WaitersHold'
  BY <1>12 DEF WaitersHold, Dir
<1> QED
  BY <1>7, <1>8, <1>9, <1>11, <1>13

(* The bytes of a part are a sequence, empty when nothing went. *)
LEMMA BytesType ==
  ASSUME NEW t \in Task, NEW c \in Call, NEW n \in Int
  PROVE  Bytes(t, c, n) \in Seq(Byte)
<1>1. Length(c.op) \in Int /\ c.left \in Int /\ c.cmsg \in BOOLEAN
  BY IoAssumption DEF Length, Call
<1>2. ASSUME NEW k \in 1..n
      PROVE  [by |-> t, at |-> Length(c.op) - c.left + k, fds |-> c.cmsg /\ k = 1] \in Byte
  <2>1. Length(c.op) - c.left + k \in Int /\ (c.cmsg /\ k = 1) \in BOOLEAN
    BY <1>1
  <2> QED
    BY <2>1 DEF Byte
<1>3. Bytes(t, c, n) \in [1..n -> Byte]
  BY <1>2 DEF Bytes
<1>4. CASE n \in Nat
  BY <1>3, <1>4
<1>5. CASE n \notin Nat
  <2>1. 1..n = 1..0
    BY <1>5
  <2> QED
    BY <1>3, <2>1
<1> QED
  BY <1>4, <1>5

(* A call that runs is the one that waited, for the lock or for room. *)
Runs(t, c) ==
  /\ co[t].at \in {"lock", "wait"} /\ lock[<<Dir(co[t]), co[t].num>>] \in {None, t}
  /\ Kin(c, co[t])

(* A run of the loop leaves the call waiting on its own socket or done. *)
LEMMA LoopGoes ==
  ASSUME IoInv, NEW t \in Task, NEW c, Runs(t, c),
         NEW e \in Ends, e = "again" => fd[c.sock] # NoFd
  PROVE  Goes(t, Continue(c, e))
<1>1. c \in Call /\ c.sock \in Sock
  BY DEF Runs, Kin, IoInv, LocksInv, CallsInv, SocksInv, Placed
<1>2. fd[c.sock] \in Numbers
  BY <1>1 DEF IoInv, LocksInv, SocksInv
<1> QED
  BY <1>1, <1>2, ContinueEnds DEF Runs, Kin, Halted, Goes

(* A run of a sending loop keeps the invariant. *)
LEMMA SendKeeps ==
  ASSUME IoInv, NEW t \in Task, NEW c, Runs(t, c), Send(t, c)
  PROVE  IoInv'
<1>1. PICK o \in Outcome(c) :
        /\ stream' = [stream EXCEPT ![c.sock] = @ \o Bytes(t, c, o.n)]
        /\ Proceed(t, Continue(After(c, o), o.end))
  BY DEF Send
<1>2. c \in Call /\ c.sock \in Sock /\ c.op \in Op \ {"read"}
  BY DEF Runs, Kin, IoInv, LocksInv, CallsInv, SocksInv, Placed, Send
<1>3. o \in Result /\ (o.end = "again" => fd[c.sock] # NoFd)
  BY <1>2, OutcomeType DEF IoInv
<1>4. o.n \in Int /\ o.end \in Ends
  BY <1>3 DEF Result
<1>5. Runs(t, After(c, o)) /\ After(c, o).sock = c.sock
  BY <1>2, <1>3, AfterKeeps DEF Runs, Kin
<1>6. Goes(t, Continue(After(c, o), o.end))
  BY <1>3, <1>4, <1>5, LoopGoes
<1>7. LocksInv'
  BY <1>1, <1>6, ProceedKeeps DEF Send, IoInv, Runs
<1>8. stream' \in [Sock -> Seq(Byte)]
  <2>1. Bytes(t, c, o.n) \in Seq(Byte)
    BY <1>2, <1>4, BytesType
  <2>2. stream[c.sock] \o Bytes(t, c, o.n) \in Seq(Byte)
    BY <1>2, <2>1 DEF IoInv, DataInv
  <2> QED
    BY <1>1, <2>2 DEF IoInv, DataInv
<1> QED
  BY <1>7, <1>8 DEF IoInv, DataInv, Send

(* A run of a receiving loop keeps the invariant. *)
LEMMA ReceiveKeeps ==
  ASSUME IoInv, NEW t \in Task, NEW c, Runs(t, c), Receive(t, c)
  PROVE  IoInv'
<1>1. PICK o \in ReceiveOut(c.sock) : Proceed(t, Continue([c EXCEPT !.sent = o.n], o.end))
  BY DEF Receive
<1>2. o \in Result /\ (o.end = "again" => fd[c.sock] # NoFd)
  BY ReceiveType
<1>3. o.n \in Int /\ o.end \in Ends
  BY <1>2 DEF Result
<1> DEFINE d == [c EXCEPT !.sent = o.n]
<1>4. Runs(t, d) /\ d.sock = c.sock
  <2>1. ASSUME NEW x \in Int PROVE Kin([c EXCEPT !.sent = x], c)
    BY DEF Runs, Kin, Call
  <2>2. Kin(d, c)
    BY <1>3, <2>1
  <2> QED
    BY <2>2 DEF Runs, Kin
<1>5. Goes(t, Continue(d, o.end))
  BY <1>2, <1>3, <1>4, LoopGoes
<1>6. LocksInv'
  BY <1>1, <1>5, ProceedKeeps DEF Receive, IoInv, Runs
<1> QED
  BY <1>6 DEF IoInv, DataInv, Receive

-------------------------------------------------------------------------------

(* A step that runs no loop leaves the locks alone, and who holds them.    *)
Stays(u) ==
  /\ Placed(co[u])' /\ (co'[u].at = "wait") = (co[u].at = "wait")
  /\ co[u].at = "wait" => co'[u].op = co[u].op /\ co'[u].num = co[u].num

(* Such a step keeps what is known of the locks. *)
LEMMA StayKeeps ==
  ASSUME LocksInv, co' \in [Task -> Call], \A u \in Task : Stays(u), UNCHANGED lock,
         SocksInv', ParkedOnOwnFd'
  PROVE  LocksInv'
<1> USE DEF LocksInv
<1>1. CallsInv'
  BY DEF CallsInv, Stays
<1>2. ASSUME NEW d \in {"rd", "wr"}, NEW n \in NoFd..MaxFd, lock[<<d, n>>] # None
      PROVE  LET u == lock[<<d, n>>] IN
             co'[u].at = "wait" /\ co'[u].num = n /\ Dir(co'[u]) = d
  <2>1. lock[<<d, n>>] \in Task
    BY <1>2 DEF SocksInv, Dirs, Numbers
  <2>2. LET u == lock[<<d, n>>] IN
        co[u].at = "wait" /\ co[u].num = n /\ Dir(co[u]) = d
    BY <1>2 DEF LocksHeldByRunners
  <2> QED
    BY <2>1, <2>2 DEF Stays, Dir
<1>3. LocksHeldByRunners'
  BY <1>2 DEF LocksHeldByRunners
<1>4. WaitersHold'
  BY DEF WaitersHold, Stays, Dir
<1> QED
  BY <1>1, <1>3, <1>4

(* A step of one coroutine that does not run its loop. *)
LEMMA TouchKeeps ==
  ASSUME LocksInv, NEW t \in Task, NEW r \in Call, co' = [co EXCEPT ![t] = r], Placed(r),
         UNCHANGED lock, UNCHANGED conn,
         \/ co[t].at # "wait" /\ r.at # "wait"
         \/ /\ Kin(r, co[t]) /\ r.at = "wait" /\ r.on = co[t].on
            /\ r.wake = "none" => co[t].wake = "none"
  PROVE  LocksInv'
<1>1. co' \in [Task -> Call] /\ co'[t] = r /\ \A u \in Task \ {t} : co'[u] = co[u]
  BY DEF LocksInv, CallsInv
<1>2. fd' = fd /\ opened' = opened
  BY DEF conn
<1>3. ASSUME NEW u \in Task PROVE Stays(u)
  BY <1>1, <1>2 DEF Stays, Placed, Kin, LocksInv, CallsInv
<1>4. ParkedOnOwnFd'
  BY <1>1, <1>2 DEF ParkedOnOwnFd, Kin, LocksInv
<1>5. SocksInv'
  BY <1>2 DEF SocksInv, LocksInv
<1> QED
  BY <1>1, <1>3, <1>4, <1>5, StayKeeps

(* A new call waits for no event yet. *)
LEMMA StartKeeps == ASSUME IoInv, NEW t \in Task, Start(t) PROVE IoInv'
<1>1. PICK s \in opened, op \in Ops(t) :
        co' = [co EXCEPT ![t] = [NoCall EXCEPT !.at = "lock", !.op = op, !.sock = s,
                 !.num = fd[s], !.left = IF op = "read" THEN 0 ELSE Length(op),
                 !.cmsg = op # "read" /\ t \in Carries]]
  BY DEF Start
<1>2. s \in Sock /\ fd[s] \in Numbers
  BY DEF IoInv, LocksInv, SocksInv
<1>3. op \in Op
  BY DEF Ops
<1> DEFINE left == IF op = "read" THEN 0 ELSE Length(op)
           cmsg == op # "read" /\ t \in Carries
           r == [NoCall EXCEPT !.at = "lock", !.op = op, !.sock = s, !.num = fd[s],
                               !.left = left, !.cmsg = cmsg]
<1>4. left \in Int /\ cmsg \in BOOLEAN /\ "none" \in Ends
  BY IoAssumption DEF Length, Ends, Answer
<1>5. r \in Call /\ r.at = "lock" /\ r.sock = s /\ r.op = op
  <2>1. NoCall \in Call
    BY <1>4, NumbersType DEF NoCall, Call
  <2> DEFINE d == [NoCall EXCEPT !.at = "lock", !.op = op, !.sock = s]
  <2>3. d \in Call /\ d.at = "lock" /\ d.sock = s /\ d.op = op
    BY <1>2, <1>3, <2>1 DEF Call
  <2>4. r = [d EXCEPT !.num = fd[s], !.left = left, !.cmsg = cmsg]
    OBVIOUS
  <2>5. LET q == [d EXCEPT !.num = fd[s], !.left = left, !.cmsg = cmsg] IN
        q \in Call /\ q.at = d.at /\ q.sock = d.sock /\ q.op = d.op
    <3> HIDE DEF d, left, cmsg
    <3> QED
      BY <1>2, <1>4, <2>3 DEF Call
  <2> HIDE DEF d, left, cmsg, r
  <2> QED
    BY <2>3, <2>4, <2>5
<1>6. co' = [co EXCEPT ![t] = r]
  BY <1>1
<1>7. LocksInv'
  <2> HIDE DEF r
  <2> QED
    BY <1>3, <1>5, <1>6, TouchKeeps DEF Start, IoInv, Placed
<1> QED
  BY <1>7 DEF IoInv, DataInv, Start, data

(* The loop starts when the lock is free. *)
LEMMA AcquireKeeps == ASSUME IoInv, NEW t \in Task, Acquire(t) PROVE IoInv'
<1> DEFINE c == [co[t] EXCEPT !.late = FALSE]
<1>1. Kin(c, co[t])
  BY DEF Kin, Call, IoInv, LocksInv, CallsInv
<1>2. Runs(t, c)
  BY <1>1 DEF Runs, Acquire
<1> QED
  BY <1>2, SendKeeps, ReceiveKeeps DEF Acquire, Run

(* A call whose lock failed holds nothing. *)
LEMMA LockFailsKeeps ==
  ASSUME IoInv, NEW t \in Task, NEW a \in Ends, LockFails(t, a) PROVE IoInv'
<1>1. Halted(Returned(co[t], a), co[t])
  BY ReturnedHalts DEF IoInv, LocksInv, CallsInv
<1>2. LocksInv'
  BY <1>1, TouchKeeps DEF LockFails, IoInv, Halted, Placed
<1> QED
  BY <1>2 DEF IoInv, DataInv, LockFails, data

(* Who was woken goes round its loop, or gives the lock back. *)
LEMMA ResumeKeeps == ASSUME IoInv, NEW t \in Task, Resume(t) PROVE IoInv'
<1>1. lock[<<Dir(co[t]), co[t].num>>] = t
  BY DEF Resume, IoInv, LocksInv, WaitersHold
<1>2. co[t] \in Call
  BY DEF IoInv, LocksInv, CallsInv
<1>3. CASE co[t].wake = "ready"
  <2> DEFINE c == [co[t] EXCEPT !.wake = "none", !.on = NoFd]
  <2>1. Kin(c, co[t])
    BY <1>2, NumbersType DEF Kin, Call
  <2>2. Runs(t, c)
    BY <1>1, <2>1 DEF Runs, Resume
  <2> QED
    BY <1>3, <2>2, SendKeeps, ReceiveKeeps DEF Resume, Run
<1>4. CASE co[t].wake # "ready"
  <2>1. co[t].wake \in Ends
    BY <1>2, <1>4 DEF Call, Ends, Answer
  <2>2. Halted(Returned(co[t], co[t].wake), co[t])
    BY <1>2, <2>1, ReturnedHalts
  <2>4. Goes(t, Returned(co[t], co[t].wake))
    BY <2>2 DEF Goes, Halted
  <2>3. LocksInv'
    BY <1>1, <1>4, <2>4, ProceedKeeps DEF Resume, IoInv
  <2> QED
    BY <1>4, <2>3 DEF IoInv, DataInv, Resume, data
<1> QED
  BY <1>3, <1>4

(* The poller tells a call what happened on the number it waits on. *)
LEMMA WakeKeeps ==
  ASSUME IoInv, NEW t \in Task, NEW how \in {"ready", "timeout", "canceled"}, Wake(t, how)
  PROVE  IoInv'
<1> DEFINE r == [co[t] EXCEPT !.wake = how]
<1>1. co[t] \in Call /\ co' = [co EXCEPT ![t] = r]
  BY DEF Wake, IoInv, LocksInv, CallsInv
<1>2. Kin(r, co[t]) /\ r.on = co[t].on /\ r.wake # "none"
  BY <1>1 DEF Kin, Call
<1>3. Placed(r)
  BY <1>2 DEF Kin, Placed, IoInv, LocksInv, CallsInv
<1>4. LocksInv'
  <2> HIDE DEF r
  <2> QED
    BY <1>1, <1>2, <1>3, TouchKeeps DEF Wake, IoInv, Kin
<1> QED
  BY <1>4 DEF IoInv, DataInv, Wake, data

(* A deadline passes. *)
LEMMA ExpireKeeps == ASSUME IoInv, NEW t \in Task, Expire(t) PROVE IoInv'
<1> DEFINE r == [co[t] EXCEPT !.late = TRUE]
<1>1. co[t] \in Call /\ co' = [co EXCEPT ![t] = r]
  BY DEF Expire, IoInv, LocksInv, CallsInv
<1>2. Kin(r, co[t]) /\ r.on = co[t].on /\ r.wake = co[t].wake
  BY <1>1 DEF Kin, Call
<1>3. Placed(r)
  BY <1>2 DEF Kin, Placed, IoInv, LocksInv, CallsInv
<1>4. LocksInv'
  <2> HIDE DEF r
  <2> QED
    BY <1>1, <1>2, <1>3, TouchKeeps DEF Expire, IoInv, Kin
<1> QED
  BY <1>4 DEF IoInv, DataInv, Expire, data

(* Canceling the waits on a number wakes them all, and nobody else. *)
LEMMA UnwaitTells ==
  ASSUME CallsInv, NEW n, NEW dirs, Unwait(n, dirs)
  PROVE  /\ co' \in [Task -> Call]
         /\ \A u \in Task :
              /\ Kin(co'[u], co[u])
              /\ co'[u].at = "wait" /\ co'[u].wake = "none" =>
                   co'[u] = co[u] /\ ~(co[u].on = n /\ Dir(co[u]) \in dirs)
<1>1. ASSUME NEW u \in Task PROVE Kin([co[u] EXCEPT !.wake = "canceled"], co[u])
        /\ [co[u] EXCEPT !.wake = "canceled"].wake # "none"
  BY DEF CallsInv, Call, Kin
<1>2. ASSUME NEW u \in Task PROVE Kin(co[u], co[u])
  BY DEF CallsInv, Kin
<1>3. ASSUME NEW u \in Task
      PROVE  co'[u] = IF co[u].at = "wait" /\ co[u].on = n /\ co[u].wake = "none"
                         /\ Dir(co[u]) \in dirs
                      THEN [co[u] EXCEPT !.wake = "canceled"] ELSE co[u]
  BY DEF Unwait
<1>4. co' \in [Task -> Call]
  BY <1>1, <1>2 DEF Unwait, Kin
<1> QED
  BY <1>1, <1>2, <1>3, <1>4

(* Closing a descriptor wakes all that wait on its number before the       *)
(* number is free.                                                         *)
LEMMA CloseKeeps == ASSUME IoInv, NEW s \in Sock, Close(s) PROVE IoInv'
<1>1. /\ co' \in [Task -> Call]
      /\ \A u \in Task :
           /\ Kin(co'[u], co[u])
           /\ co'[u].at = "wait" /\ co'[u].wake = "none" =>
                co'[u] = co[u] /\ ~(co[u].on = fd[s] /\ Dir(co[u]) \in {"rd", "wr"})
  BY UnwaitTells DEF Close, IoInv, LocksInv
<1>2. fd' = [fd EXCEPT ![s] = NoFd] /\ opened' = opened /\ lock' = lock
  BY DEF Close
<1>3. SocksInv'
  BY <1>2, NumbersType DEF SocksInv, IoInv, LocksInv
<1>4. ASSUME NEW u \in Task PROVE Stays(u)
  BY <1>1, <1>2 DEF Stays, Kin, Placed, IoInv, LocksInv, CallsInv
<1>5. ASSUME NEW u \in Task, co'[u].at = "wait", co'[u].wake = "none"
      PROVE  co'[u].on # NoFd /\ co'[u].on = fd'[co'[u].sock]
  <2>1. co'[u] = co[u] /\ co[u].on # fd[s]
    BY <1>1, <1>5, DirType DEF Dirs
  <2>2. co[u].on # NoFd /\ co[u].on = fd[co[u].sock] /\ co[u].sock \in Sock
    BY <1>5, <2>1 DEF ParkedOnOwnFd, IoInv, LocksInv, CallsInv, Placed, SocksInv
  <2>3. fd'[co[u].sock] = fd[co[u].sock]
    BY <1>2, <2>1, <2>2 DEF IoInv, LocksInv, SocksInv
  <2> QED
    BY <2>1, <2>2, <2>3
<1>6. ParkedOnOwnFd'
  BY <1>5 DEF ParkedOnOwnFd
<1>7. LocksInv'
  BY <1>1, <1>2, <1>3, <1>4, <1>6, StayKeeps DEF IoInv
<1>8. DataInv'
  <2>1. Len(stream[s]) \in Int
    BY DEF IoInv, DataInv
  <2> QED
    BY <2>1 DEF Close, IoInv, DataInv
<1> QED
  BY <1>7, <1>8 DEF IoInv

(* Shutting one direction down wakes those that wait in it. *)
LEMMA CloseHalfKeeps == ASSUME IoInv, NEW s \in Sock, NEW d, CloseHalf(s, d) PROVE IoInv'
<1>1. /\ co' \in [Task -> Call]
      /\ \A u \in Task :
           /\ Kin(co'[u], co[u])
           /\ co'[u].at = "wait" /\ co'[u].wake = "none" => co'[u] = co[u]
  BY UnwaitTells DEF CloseHalf, IoInv, LocksInv
<1>2. fd' = fd /\ opened' = opened /\ lock' = lock
  BY DEF CloseHalf
<1>3. SocksInv'
  BY <1>2 DEF SocksInv, IoInv, LocksInv
<1>4. ASSUME NEW u \in Task PROVE Stays(u)
  BY <1>1, <1>2 DEF Stays, Kin, Placed, IoInv, LocksInv, CallsInv
<1>5. ParkedOnOwnFd'
  BY <1>1, <1>2 DEF ParkedOnOwnFd, IoInv, LocksInv
<1>6. LocksInv'
  BY <1>1, <1>2, <1>3, <1>4, <1>5, StayKeeps DEF IoInv
<1> QED
  BY <1>6 DEF IoInv, DataInv, CloseHalf, data

(* A new socket takes a number that no socket has; nobody waits on it yet. *)
LEMMA OpenKeeps == ASSUME IoInv, NEW s \in Sock, Open(s) PROVE IoInv'
<1>1. PICK n \in 0..MaxFd : fd' = [fd EXCEPT ![s] = n]
  BY DEF Open
<1>2. s \notin opened /\ opened' = opened \union {s} /\ lock' = lock /\ co' = co
  BY DEF Open
<1>3. n \in Numbers
  BY <1>1, IoAssumption DEF Numbers, NoFd
<1>4. SocksInv'
  BY <1>1, <1>2, <1>3 DEF SocksInv, IoInv, LocksInv
<1>5. ASSUME NEW u \in Task PROVE Stays(u)
  BY <1>2 DEF Stays, Placed, IoInv, LocksInv, CallsInv
<1>6. ASSUME NEW u \in Task, co[u].at = "wait", co[u].wake = "none"
      PROVE  co[u].on # NoFd /\ co[u].on = fd'[co[u].sock]
  <2>1. co[u].sock \in Sock /\ co[u].sock # s
    BY <1>2, <1>6 DEF IoInv, LocksInv, CallsInv, Placed, SocksInv
  <2>2. fd'[co[u].sock] = fd[co[u].sock]
    BY <1>1, <2>1 DEF IoInv, LocksInv, SocksInv
  <2> QED
    BY <1>6, <2>2 DEF ParkedOnOwnFd, IoInv, LocksInv
<1>7. ParkedOnOwnFd'
  BY <1>2, <1>6 DEF ParkedOnOwnFd
<1>8. LocksInv'
  BY <1>2, <1>4, <1>5, <1>7, StayKeeps DEF IoInv, LocksInv, CallsInv
<1> QED
  BY <1>8 DEF IoInv, DataInv, Open, data

(* What a peer does concerns no call. *)
LEMMA PeerKeeps ==
  ASSUME IoInv, UNCHANGED <<fd, opened, lock, co, stream>>, drained' \in [Sock -> Int]
  PROVE  IoInv'
BY DEF IoInv, LocksInv, CallsInv, Placed, SocksInv, DataInv, ParkedOnOwnFd,
       LocksHeldByRunners, WaitersHold, Dir

-------------------------------------------------------------------------------
(* Nobody waits in the beginning. *)
LEMMA InitIo == Init => IoInv
<1> SUFFICES ASSUME Init PROVE IoInv
  OBVIOUS
<1>1. NoCall \in Call /\ NoCall.at = "idle"
  BY NumbersType DEF NoCall, Call, Ends, Answer
<1>2. CallsInv
  BY <1>1 DEF CallsInv, Init, Placed
<1>3. SocksInv
  BY NumbersType DEF SocksInv, Init, Dirs, Numbers
<1>4. ParkedOnOwnFd /\ WaitersHold
  BY <1>1 DEF ParkedOnOwnFd, WaitersHold, Init
<1>5. LocksHeldByRunners
  BY DEF LocksHeldByRunners, Init
<1>6. DataInv
  BY DEF DataInv, Init
<1> QED
  BY <1>2, <1>3, <1>4, <1>5, <1>6 DEF IoInv, LocksInv

(* Every step keeps the invariant. *)
LEMMA NextIo == IoInv /\ [Next]_vars => IoInv'
<1> SUFFICES ASSUME IoInv, [Next]_vars PROVE IoInv'
  OBVIOUS
<1>1. ASSUME NEW t \in Task, TaskNext(t) PROVE IoInv'
  <2>1. CASE Start(t)
    BY <2>1, StartKeeps
  <2>2. CASE Acquire(t)
    BY <2>2, AcquireKeeps
  <2>3. CASE LockTimesOut(t) \/ LockRefused(t)
    BY <2>3, LockFailsKeeps DEF LockTimesOut, LockRefused, Ends, Answer
  <2>4. CASE Resume(t)
    BY <2>4, ResumeKeeps
  <2>5. CASE Ready(t) \/ TimesOut(t)
    BY <2>5, WakeKeeps DEF Ready, TimesOut
  <2>6. CASE Expire(t)
    BY <2>6, ExpireKeeps
  <2> QED
    BY <1>1, <2>1, <2>2, <2>3, <2>4, <2>5, <2>6 DEF TaskNext
<1>2. ASSUME NEW s \in Sock, SockNext(s) PROVE IoInv'
  <2>1. CASE Open(s)
    BY <2>1, OpenKeeps
  <2>2. CASE Close(s)
    BY <2>2, CloseKeeps
  <2>3. CASE \E d \in Half : CloseHalf(s, d)
    BY <2>3, CloseHalfKeeps
  <2>4. CASE PeerReads(s)
    <3>1. drained' \in [Sock -> Int]
      BY <2>4 DEF PeerReads, IoInv, DataInv
    <3> QED
      BY <2>4, <3>1, PeerKeeps DEF PeerReads, conn
  <2>5. CASE PeerSends(s) \/ PeerHangsUp(s)
    BY <2>5, PeerKeeps DEF PeerSends, PeerHangsUp, conn, data, IoInv, DataInv
  <2> QED
    BY <1>2, <2>1, <2>2, <2>3, <2>4, <2>5 DEF SockNext
<1>3. CASE UNCHANGED vars
  BY <1>3, PeerKeeps DEF vars, IoInv, DataInv
<1> QED
  BY <1>1, <1>2, <1>3 DEF Next

(* The invariant holds for every number of coroutines, sockets and         *)
(* descriptors.                                                            *)
THEOREM IoInvariant == Spec => []IoInv
BY InitIo, NextIo, PTL DEF Spec

(* A coroutine that waits in the poller waits on the number its own socket *)
(* has, however often sockets are closed and numbers are used again        *)
(* (wait_writable, wait_readable and unwait of net.lua).                   *)
THEOREM WaitsAreOwn == Spec => []ParkedOnOwnFd
<1>1. IoInv => ParkedOnOwnFd
  BY DEF IoInv, LocksInv
<1> QED
  BY <1>1, IoInvariant, PTL

(* A lock belongs to a call that is still running and will give it back    *)
(* (syncread, syncwrite of net.lua).                                       *)
THEOREM LocksAreReturned == Spec => []LocksHeldByRunners
<1>1. IoInv => LocksHeldByRunners
  BY DEF IoInv, LocksInv
<1> QED
  BY <1>1, IoInvariant, PTL

(* Of the calls that locked the same number in the same direction at most  *)
(* one is inside its loop.                                                 *)
OneAtATime ==
  \A t, u \in Task :
    /\ co[t].at = "wait" /\ co[u].at = "wait"
    /\ Dir(co[t]) = Dir(co[u]) /\ co[t].num = co[u].num
    => t = u

(* syncread and syncwrite of net.lua are mutually exclusive, even when the *)
(* number was closed and taken by another socket in between.               *)
THEOREM SyncExcludes == Spec => []OneAtATime
<1>1. IoInv => OneAtATime
  BY DEF IoInv, LocksInv, WaitersHold, OneAtATime
<1> QED
  BY <1>1, IoInvariant, PTL
-------------------------------------------------------------------------------
(* Answers.  What a call has sent, what it has left and why it ends.       *)

(* The bytes of a call that went, by its answer: the number it counted;    *)
(* sendfd counts none, and says "sent" when its one byte went.             *)
Went(c) ==
  IF c.op = "sendfd" THEN IF c.answer = "sent" THEN 1 ELSE 0 ELSE c.sent

(* A call that sends, and one that has begun and not returned.             *)
Sending(c) == c.op \notin {"none", "read"}
Underway(c) == c.at \in {"lock", "wait"}

(* A call that is under way has left what it has not sent, and its         *)
(* descriptors as long as it sent nothing.                                 *)
Account(t, c) ==
  Underway(c) /\ Sending(c) =>
    /\ c.left = Length(c.op) - c.sent
    /\ c.cmsg = (t \in Carries /\ c.sent = 0)
    /\ c.op = "sendfile" => c.sent <= FileSize

(* The counters stay in the message; before a call and in its queue, and   *)
(* of a sendfd ever, they are 0.                                           *)
Counters(t, c) ==
  /\ c.at = "idle" => c = NoCall
  /\ c.at # "idle" => c.op \in Ops(t) /\ c.sock \in opened
  /\ c.at = "lock" => c.sent = 0 /\ c.wake = "none"
  /\ c.at # "done" => c.answer = "none"
  /\ c.op = "sendfd" => c.sent = 0
  /\ c.sent \in 0..Size /\ c.left \in 0..Size /\ c.answer \in Answer

(* A socket somebody closed, in one direction at least. *)
Cut(s, d) == fd[s] = NoFd \/ <<s, d>> \in shut

(* Everything that ends a call has its cause. *)
Caused(c) ==
  /\ c.wake = "timeout" => c.late
  /\ c.wake = "canceled" => Cut(c.sock, Dir(c))
  /\ c.answer = "timeout" => c.late
  /\ c.answer = "canceled" => Cut(c.sock, Dir(c))
  /\ c.answer = "eof" => Disturbed(c.sock)
  /\ c.answer = "sent" => /\ Sending(c)
                          /\ \/ Went(c) = Length(c.op)
                             \/ c.op = "sendfile" /\ Went(c) = Least(Size, FileSize)

(* The kernel has of each call what the call's answer says, and all of it  *)
(* on one socket.                                                          *)
Counted(t) ==
  \A s \in Sock :
    Said(t, s) = IF Sending(co[t]) /\ s = co[t].sock THEN Went(co[t]) ELSE 0

Told(t) == Account(t, co[t]) /\ Counters(t, co[t]) /\ Caused(co[t]) /\ Counted(t)

(* No two sockets have one number, and a call locked the number its socket *)
(* has, or had before it was closed.                                       *)
NumbersInv ==
  /\ \A r, s \in Sock : fd[r] # NoFd /\ fd[r] = fd[s] => r = s
  /\ \A t \in Task : Underway(co[t]) /\ fd[co[t].sock] # NoFd => co[t].num = fd[co[t].sock]
  /\ \A t \in Task : co[t].at = "wait" => co[t].num # NoFd
  /\ \A t, u \in Task :
       Underway(co[t]) /\ Underway(co[u]) /\ co[t].sock = co[u].sock
         /\ co[t].num # NoFd /\ co[u].num # NoFd => co[t].num = co[u].num

(* What the kernel holds is within its bounds.                             *)
KernelInv ==
  /\ hungup \subseteq Sock /\ shut \subseteq Sock \X Dirs
  /\ \A s \in Sock : drained[s] \in 0..Len(stream[s])
  /\ inbox \in [Sock -> 0..MaxIn]

(* The inductive invariant behind the answers and the refinement.          *)
AnswerInv == IoInv /\ NumbersInv /\ KernelInv /\ \A t \in Task : Told(t)

-------------------------------------------------------------------------------
(* What one call of the native socket may do to the account.               *)

(* How such a call may end.                                                *)
Lasts == {"again", "done", "error", "raise"}

(* The smaller of two numbers is one of them, and no greater than the      *)
(* other.                                                                  *)
LEMMA LeastOfTwo ==
  ASSUME NEW a \in Int, NEW b \in Int
  PROVE  /\ Least(a, b) \in Int /\ Least(a, b) <= a /\ Least(a, b) <= b
         /\ Least(a, b) = a \/ Least(a, b) = b
BY DEF Least

(* A part is no longer than what is left and than the room; "done" means   *)
(* all of it.                                                              *)
LEMMA PartBounds ==
  ASSUME NEW l \in Nat, NEW r \in Int, NEW o \in Part(l, r)
  PROVE  /\ o.n \in 0..l /\ (o.n = 0 \/ o.n <= r) /\ o.end \in {"again", "done"}
         /\ o.end = "done" => o.n = l
<1>1. CASE o = Out(0, "again")
  BY <1>1 DEF Out
<1>2. ASSUME NEW n \in 1..Least(l, r), o = Out(n, IF n < l THEN "again" ELSE "done")
      PROVE  /\ o.n \in 0..l /\ o.n <= r /\ o.end \in {"again", "done"}
             /\ o.end = "done" => o.n = l
  <2>1. n \in Nat /\ n <= l /\ n <= r
    BY LeastOfTwo
  <2>2. o.n = n /\ o.end = IF n < l THEN "again" ELSE "done"
    BY <1>2 DEF Out
  <2> QED
    BY <2>1, <2>2
<1> QED
  BY <1>1, <1>2 DEF Part

(* A datagram that has to wait went not even in part.                      *)
LEMMA WholeBounds ==
  ASSUME NEW l \in Nat, NEW r \in Int, NEW o \in Whole(l, r), o.end = "again"
  PROVE  o.n = 0
<1>1. o \in Part(l, r) /\ o \notin {Out(n, "again") : n \in 1..l}
  BY DEF Whole
<1>2. CASE o = Out(0, "again")
  BY <1>2 DEF Out
<1>3. ASSUME NEW n \in 1..Least(l, r), o = Out(n, IF n < l THEN "again" ELSE "done")
      PROVE  FALSE
  <2>1. n \in 1..l
    BY LeastOfTwo
  <2>2. o.end = IF n < l THEN "again" ELSE "done"
    BY <1>3 DEF Out
  <2>3. n < l
    BY <2>2
  <2> QED
    BY <1>1, <1>3, <2>1, <2>3
<1> QED
  BY <1>1, <1>2, <1>3 DEF Part

(* A call c takes what is left, or less, and says "done" only when nothing *)
(* is left or the file ended.                                              *)
Fits(c, o) ==
  /\ o.n \in 0..c.left /\ o.end \in Lasts
  /\ c.op = "sendfile" => c.sent + o.n <= FileSize
  /\ c.op = "sendfd" /\ o.end # "done" => o.n = 0
  /\ o.end = "done" => \/ o.n = c.left
                       \/ c.op = "sendfile" /\ c.sent + o.n = Least(Size, FileSize)

(* sendfile of every system fits, at the end of the file too.              *)
LEMMA SendfileFits ==
  ASSUME DataInv, NEW c \in Call, c.sock \in Sock, c.op = "sendfile",
         c.left \in 0..Size, c.sent \in 0..Size, c.left = Size - c.sent, c.sent <= FileSize,
         NEW o \in SendfileOut(c)
  PROVE  Fits(c, o)
<1>1. Size \in Nat \ {0} /\ FileSize \in Nat
  BY IoAssumption
<1>2. InFile(c) \in Nat /\ InFile(c) = FileSize - c.sent
  BY <1>1 DEF InFile
<1>3. PICK f \in Int, i \in Nat : f = Free(c.sock) /\ i = InFile(c)
  BY <1>2, FreeType
<1>4. Least(i, f) \in Int /\ Least(i, f) <= i /\ Least(c.left, i) \in Nat
      /\ Least(c.left, i) <= c.left /\ Least(c.left, i) <= i
      /\ (Least(c.left, i) = c.left \/ Least(c.left, i) = i)
      /\ Least(c.left, Least(i, f)) <= c.left /\ Least(c.left, Least(i, f)) <= i
      /\ Least(Least(c.left, i), f) <= Least(c.left, i)
      /\ Least(c.left, Least(i, f)) \in Int /\ Least(Least(c.left, i), f) \in Int
  BY <1>3 DEF Least
<1>5. i = 0 => Least(Size, FileSize) = c.sent
  BY <1>1, <1>2, <1>3 DEF Least
<1>6. Least(c.left, i) = i => i = c.left \/ c.sent + i = Least(Size, FileSize)
  BY <1>1, <1>2, <1>3 DEF Least
<1>7. ASSUME i = 0, o = Out(0, "done") PROVE Fits(c, o)
  <2>1. o.n = 0 /\ o.end = "done"
    BY <1>7 DEF Out
  <2> QED
    BY <1>1, <1>5, <1>7, <2>1 DEF Fits, Lasts
<1>8. ASSUME o \in Part(c.left, Least(i, f)) PROVE Fits(c, o)
  <2>1. /\ o.n \in 0..c.left /\ (o.n = 0 \/ o.n <= Least(i, f)) /\ o.end \in {"again", "done"}
        /\ o.end = "done" => o.n = c.left
    BY <1>1, <1>4, <1>8, PartBounds
  <2>2. o.n <= i
    BY <1>3, <1>4, <2>1
  <2> QED
    BY <1>1, <1>2, <1>3, <2>1, <2>2 DEF Fits, Lasts
<1>9. ASSUME NEW n \in Nat, n <= c.left, n <= i, NEW e \in {"again", "error"}, o = Out(n, e)
      PROVE  Fits(c, o)
  <2>1. o.n = n /\ o.end = e
    BY <1>9 DEF Out
  <2> QED
    BY <1>1, <1>2, <1>3, <1>9, <2>1 DEF Fits, Lasts
<1>10. ASSUME o = Out(Least(c.left, i), "done") PROVE Fits(c, o)
  <2>1. o.n = Least(c.left, i) /\ o.end = "done"
    BY <1>10 DEF Out
  <2> QED
    BY <1>1, <1>2, <1>3, <1>4, <1>6, <2>1 DEF Fits, Lasts
<1>11. ASSUME o \in LinuxSendfile(c) PROVE Fits(c, o)
  BY <1>3, <1>7, <1>8, <1>11 DEF LinuxSendfile
<1>12. ASSUME o \in BsdSendfile(c) PROVE Fits(c, o)
  <2>1. ASSUME NEW n \in 0..Least(c.left, Least(i, f)), NEW e \in {"again", "error"},
               o = Out(n, e)
        PROVE  Fits(c, o)
    <3>1. n \in Nat /\ n <= c.left /\ n <= i
      BY <1>3, <1>4
    <3> QED
      BY <1>9, <2>1, <3>1
  <2> QED
    BY <1>3, <1>11, <1>12, <2>1 DEF BsdSendfile
<1>13. ASSUME o \in AppleSendfile(c) PROVE Fits(c, o)
  <2>1. ASSUME NEW n \in 0..Least(Least(c.left, i), f), NEW e \in {"again", "error"},
               o = Out(n, e)
        PROVE  Fits(c, o)
    <3>1. n \in Nat /\ n <= c.left /\ n <= i
      BY <1>3, <1>4
    <3> QED
      BY <1>9, <2>1, <3>1
  <2> QED
    BY <1>3, <1>10, <1>13, <2>1 DEF AppleSendfile
<1>14. ASSUME o \in PortableSendfile(c) PROVE Fits(c, o)
  BY <1>3, <1>7, <1>13, <1>14 DEF PortableSendfile
<1> QED
  BY <1>11, <1>12, <1>13, <1>14 DEF SendfileOut

(* So does every sending call, on a socket that is closed too.             *)
LEMMA OutcomeFits ==
  ASSUME DataInv, NEW c \in Call, c.sock \in Sock, c.op \in Op \ {"read"},
         c.left \in 0..Size, c.sent \in 0..Size, c.left = Length(c.op) - c.sent,
         c.op = "sendfile" => c.sent <= FileSize, NEW o \in Outcome(c)
  PROVE  Fits(c, o)
<1>1. Size \in Nat \ {0} /\ FileSize \in Nat
  BY IoAssumption
<1>2. c.left \in Nat /\ Free(c.sock) \in Int
  BY <1>1, FreeType
<1>3. c.op = "sendfile" => c.left = Size - c.sent
  BY DEF Length
<1>4. ASSUME NEW e \in {"error", "raise"}, o.end = e, o.n = 0 PROVE Fits(c, o)
  BY <1>1, <1>2, <1>4 DEF Fits, Lasts
<1>5. ASSUME NEW q \in Accepted(c) PROVE Fits(c, q)
  <2>1. CASE Usable(c.sock)
    <3>1. CASE c.op \in {"write", "send", "sendmsg"}
      <4>1. q \in Part(c.left, Free(c.sock))
        BY <1>5, <2>1, <3>1 DEF Accepted, WriteOut, SendOut, SendmsgOut
      <4> QED
        BY <1>2, <3>1, <4>1, PartBounds DEF Fits, Lasts
    <3>2. CASE c.op \in {"sendto", "sendfd"}
      <4>1. q \in Whole(c.left, Free(c.sock))
        BY <1>5, <2>1, <3>2 DEF Accepted, SendtoOut, SendfdOut
      <4>2. q \in Part(c.left, Free(c.sock))
        BY <4>1 DEF Whole
      <4> QED
        BY <1>2, <3>2, <4>1, <4>2, PartBounds, WholeBounds DEF Fits, Lasts
    <3>3. CASE c.op = "sendfile"
      <4>1. q \in SendfileOut(c)
        BY <1>5, <2>1, <3>3 DEF Accepted
      <4> QED
        BY <1>3, <3>3, <4>1, SendfileFits
    <3> QED
      BY <3>1, <3>2, <3>3, IoAssumption
  <2>2. CASE ~Usable(c.sock)
    <3>1. CASE q = Out(0, "error")
      <4>1. q.n = 0 /\ q.end = "error"
        BY <3>1 DEF Out
      <4> QED
        BY <1>1, <1>2, <4>1 DEF Fits, Lasts
    <3>2. CASE c.op = "sendfile" /\ InFile(c) = 0 /\ q = Out(0, "done")
      <4>1. q.n = 0 /\ q.end = "done"
        BY <3>2 DEF Out
      <4>2. FileSize = c.sent
        BY <1>1, <1>3, <3>2 DEF InFile
      <4>3. c.sent = Least(Size, FileSize)
        BY <1>1, <4>2 DEF Least
      <4> QED
        BY <1>1, <1>2, <3>2, <4>1, <4>3 DEF Fits, Lasts
    <3> QED
      BY <1>5, <2>2, <3>1, <3>2 DEF Accepted
  <2> QED
    BY <2>1, <2>2
<1>6. CASE o = Out(0, "raise")
  BY <1>4, <1>6 DEF Out
<1>7. ASSUME NEW q \in Accepted(c), q.end = "error", o = Out(q.n, "raise") PROVE Fits(c, o)
  <2>1. o.n = q.n /\ o.end = "raise"
    BY <1>7 DEF Out
  <2>2. Fits(c, q) /\ q.end # "done"
    BY <1>5, <1>7
  <2> QED
    BY <2>1, <2>2 DEF Fits, Lasts
<1> QED
  BY <1>5, <1>6, <1>7 DEF Outcome

-------------------------------------------------------------------------------
(* Counting the bytes of a call.                                           *)

(* The bytes of a call are a number.                                       *)
LEMMA SaidType ==
  ASSUME DataInv, NEW t \in Task, NEW s \in Sock PROVE Said(t, s) \in Nat
<1>1. PICK q \in Seq(Byte) : q = stream[s]
  BY DEF DataInv
<1>2. DOMAIN q = 1..Len(q) /\ Len(q) \in Nat
  BY LenProperties
<1> DEFINE own == {i \in 1..Len(q) : q[i].by = t}
<1>3. IsFiniteSet(own)
  <2>1. IsFiniteSet(1..Len(q)) /\ own \in SUBSET (1..Len(q))
    BY <1>2, FS_Interval
  <2> HIDE DEF own
  <2> QED
    BY <2>1, FS_Subset
<1>4. Cardinality(own) \in Nat
  <2> HIDE DEF own
  <2> QED
    BY <1>3, FS_CardinalityType
<1>5. Said(t, s) = Cardinality(own)
  BY <1>1, <1>2 DEF Said
<1> QED
  BY <1>4, <1>5

(* How many bytes of q are of the call u.                                  *)
Share(q, u) == Cardinality({i \in DOMAIN q : q[i].by = u})

(* n bytes of one call more are n more of that call, and of no other. *)
LEMMA CountMore ==
  ASSUME NEW q \in Seq(Byte), NEW b \in Seq(Byte), NEW t \in Task,
         \A k \in 1..Len(b) : b[k].by = t
  PROVE  \A u \in Task : Share(q \o b, u) = Share(q, u) + IF u = t THEN Len(b) ELSE 0
<1> SUFFICES ASSUME NEW u \in Task
             PROVE  Share(q \o b, u) = Share(q, u) + IF u = t THEN Len(b) ELSE 0
  OBVIOUS
<1>1. PICK z : z = q \o b
  OBVIOUS
<1>2. PICK m \in Nat, n \in Nat : m = Len(q) /\ n = Len(b)
  BY LenProperties
<1>3. /\ z \in Seq(Byte) /\ Len(z) = m + n
      /\ \A i \in 1..(m + n) : z[i] = IF i <= m THEN q[i] ELSE b[i - m]
  BY <1>1, <1>2, ConcatProperties
<1>4. DOMAIN q = 1..m /\ DOMAIN z = 1..(m + n)
  BY <1>2, <1>3, LenProperties
<1> DEFINE old == {i \in 1..m : q[i].by = u}
           new == {i \in 1..(m + n) : z[i].by = u}
           late == (m + 1)..(m + n)
<1>5. IsFiniteSet(old) /\ Cardinality(old) \in Nat
  <2>1. IsFiniteSet(1..m) /\ old \in SUBSET (1..m)
    BY FS_Interval
  <2> HIDE DEF old
  <2> QED
    BY <2>1, FS_Subset, FS_CardinalityType
<1>6. \A i \in 1..m : z[i] = q[i]
  BY <1>3
<1>7. \A i \in (m + 1)..(m + n) : i - m \in 1..n /\ z[i] = b[i - m]
  BY <1>3
<1>8. \A i \in (m + 1)..(m + n) : z[i].by = t
  BY <1>2, <1>7
<1>9. CASE u = t
  <2>1. new = old \union late
    BY <1>6, <1>8, <1>9
  <2>2. old \intersect late = {}
    OBVIOUS
  <2>3. IsFiniteSet(late) /\ Cardinality(late) = n
    BY FS_Interval
  <2>4. Cardinality({}) = 0
    BY FS_EmptySet
  <2>5. Cardinality(new) = Cardinality(old) + n - 0
    <3> HIDE DEF old, new, late
    <3> QED
      BY <1>5, <2>1, <2>2, <2>3, <2>4, FS_Union
  <2> HIDE DEF old, new
  <2>6. Cardinality(new) = Cardinality(old) + n
    BY <1>5, <2>5
  <2> QED
    BY <1>1, <1>2, <1>4, <1>9, <2>6 DEF old, new, Share
<1>10. CASE u # t
  <2>1. new = old
    BY <1>6, <1>8, <1>10
  <2> HIDE DEF old, new
  <2>2. Cardinality(new) = Cardinality(old) + 0
    BY <1>5, <2>1
  <2> QED
    BY <1>1, <1>4, <1>10, <2>2 DEF old, new, Share
<1> QED
  BY <1>9, <1>10

(* n bytes of a call are n bytes, all of them its own.                     *)
LEMMA BytesCount ==
  ASSUME NEW t \in Task, NEW c \in Call, NEW n \in Nat
  PROVE  /\ Bytes(t, c, n) \in Seq(Byte) /\ Len(Bytes(t, c, n)) = n
         /\ \A k \in 1..n : Bytes(t, c, n)[k].by = t
<1>1. Bytes(t, c, n) \in Seq(Byte)
  BY BytesType
<1>2. DOMAIN Bytes(t, c, n) = 1..n
  BY DEF Bytes
<1>3. Len(Bytes(t, c, n)) = n
  BY <1>1, <1>2, LenProperties
<1>4. \A k \in 1..n : Bytes(t, c, n)[k].by = t
  BY DEF Bytes
<1> QED
  BY <1>1, <1>3, <1>4

(* What the kernel has of each call after it took n bytes of t. *)
LEMMA SaidMore ==
  ASSUME DataInv, NEW t \in Task, NEW c \in Call, c.sock \in Sock, NEW n \in Nat,
         stream' = [stream EXCEPT ![c.sock] = @ \o Bytes(t, c, n)]
  PROVE  \A u \in Task, s \in Sock :
           Said(u, s)' = Said(u, s) + IF u = t /\ s = c.sock THEN n ELSE 0
<1> SUFFICES ASSUME NEW u \in Task, NEW s \in Sock
             PROVE  Said(u, s)' = Said(u, s) + IF u = t /\ s = c.sock THEN n ELSE 0
  OBVIOUS
<1>1. PICK b \in Seq(Byte) :
        b = Bytes(t, c, n) /\ Len(b) = n /\ \A k \in 1..Len(b) : b[k].by = t
  BY BytesCount
<1>2. PICK q \in Seq(Byte) : q = stream[s]
  BY DEF DataInv
<1>3. CASE s = c.sock
  <2>1. stream'[s] = q \o b
    BY <1>1, <1>2, <1>3 DEF DataInv
  <2>2. Said(u, s)' = Share(q \o b, u)
    BY <2>1 DEF Said, Share
  <2>3. Said(u, s) = Share(q, u)
    BY <1>2 DEF Said, Share
  <2>4. Said(u, s)' = Said(u, s) + IF u = t THEN Len(b) ELSE 0
    BY <1>1, <2>2, <2>3, CountMore
  <2> QED
    BY <1>1, <1>3, <2>4
<1>4. CASE s # c.sock
  <2>1. stream'[s] = stream[s]
    BY <1>4 DEF DataInv
  <2>2. Said(u, s)' = Said(u, s)
    BY <2>1 DEF Said
  <2>3. Said(u, s) \in Nat
    BY SaidType
  <2> QED
    BY <1>4, <2>2, <2>3
<1> QED
  BY <1>3, <1>4
-------------------------------------------------------------------------------
(* What the loops do to the counters of a call.                            *)

(* write counts what was sent, and takes it off what is left.              *)
LEMMA WriteCounts ==
  ASSUME NEW c \in Call, NEW n \in Int
  PROVE  LET d == AfterWrite(c, n) IN
         /\ d.sent = c.sent + n /\ d.left = c.left - n /\ d.cmsg = c.cmsg
         /\ d.late = c.late /\ d.wake = c.wake /\ d.answer = c.answer
<1>1. ASSUME NEW x, NEW y
      PROVE  LET d == [c EXCEPT !.sent = x, !.left = y] IN
             /\ d.sent = x /\ d.left = y /\ d.cmsg = c.cmsg
             /\ d.late = c.late /\ d.wake = c.wake /\ d.answer = c.answer
  BY DEF Call
<1> QED
  BY <1>1 DEF AfterWrite

(* A part is counted, and the descriptors go with the first.               *)
LEMMA AfterCounts ==
  ASSUME NEW c \in Call, NEW o \in Result
  PROVE  LET d == After(c, o) IN
         /\ d.sent = IF c.op = "sendfd" THEN c.sent ELSE c.sent + o.n
         /\ d.left = c.left - o.n
         /\ d.cmsg = IF c.op \in {"sendmsg", "sendfd"} THEN c.cmsg /\ o.n = 0 ELSE c.cmsg
         /\ d.late = c.late /\ d.wake = c.wake /\ d.answer = c.answer
<1>1. o.n \in Int
  BY DEF Result
<1>2. CASE c.op = "sendfd"
  <2>1. ASSUME NEW y, NEW z
        PROVE  LET d == [c EXCEPT !.left = y, !.cmsg = z] IN
               /\ d.sent = c.sent /\ d.left = y /\ d.cmsg = z
               /\ d.late = c.late /\ d.wake = c.wake /\ d.answer = c.answer
    BY DEF Call
  <2>2. After(c, o) = AfterSendfd(c, o.n)
    BY <1>2 DEF After
  <2> QED
    BY <1>2, <2>1, <2>2 DEF AfterSendfd
<1>3. CASE c.op = "sendmsg"
  <2>1. ASSUME NEW d \in Call, NEW z
        PROVE  LET r == [d EXCEPT !.cmsg = z] IN
               /\ r.sent = d.sent /\ r.left = d.left /\ r.cmsg = z
               /\ r.late = d.late /\ r.wake = d.wake /\ r.answer = d.answer
    BY DEF Call
  <2>2. After(c, o) = AfterSendmsg(c, o)
    BY <1>3 DEF After
  <2>3. AfterWrite(c, o.n) \in Call
    <3>1. c.sent + o.n \in Int /\ c.left - o.n \in Int
      BY <1>1 DEF Call
    <3>2. ASSUME NEW x \in Int, NEW y \in Int PROVE [c EXCEPT !.sent = x, !.left = y] \in Call
      BY DEF Call
    <3> QED
      BY <3>1, <3>2 DEF AfterWrite
  <2> QED
    BY <1>1, <1>3, <2>1, <2>2, <2>3, WriteCounts DEF AfterSendmsg
<1>4. CASE c.op \notin {"sendmsg", "sendfd"}
  <2>1. After(c, o) = AfterWrite(c, o.n)
    BY <1>4 DEF After
  <2> QED
    BY <1>1, <1>4, <2>1, WriteCounts
<1> QED
  BY <1>2, <1>3, <1>4

(* The answer of a call that returns, and what it counted.                 *)
LEMMA ReturnedTells ==
  ASSUME NEW c \in Call, NEW a
  PROVE  LET r == Returned(c, a) IN
         /\ r.at = "done" /\ r.op = c.op /\ r.sock = c.sock /\ r.num = NoFd
         /\ r.sent = c.sent /\ r.left = 0 /\ r.late = c.late
         /\ r.wake = "none" /\ r.answer = a
<1> DEFINE d == [c EXCEPT !.at = "done", !.num = NoFd, !.on = NoFd, !.wake = "none"]
<1>1. /\ d.at = "done" /\ d.op = c.op /\ d.sock = c.sock /\ d.num = NoFd
      /\ d.sent = c.sent /\ d.late = c.late /\ d.wake = "none" /\ DOMAIN d = DOMAIN c
  BY DEF Call
<1>2. DOMAIN c = {"at", "op", "sock", "num", "on", "wake", "late", "sent", "left", "cmsg",
                  "answer"}
  BY DEF Call
<1>3. Returned(c, a) = [d EXCEPT !.left = 0, !.cmsg = FALSE, !.answer = a]
  BY DEF Returned
<1>4. ASSUME NEW f, f = [k \in DOMAIN c |-> f[k]], NEW x, NEW y, NEW z
      PROVE  LET r == [f EXCEPT !.left = x, !.cmsg = y, !.answer = z] IN
             /\ r.at = f.at /\ r.op = f.op /\ r.sock = f.sock /\ r.num = f.num
             /\ r.sent = f.sent /\ r.left = x /\ r.late = f.late
             /\ r.wake = f.wake /\ r.answer = z
  BY <1>2, <1>4
<1>5. d = [k \in DOMAIN c |-> d[k]]
  BY DEF Call
<1> HIDE DEF d
<1> QED
  BY <1>1, <1>3, <1>4, <1>5

(* A call that parks has the counters it had.                              *)
LEMMA ParkedTells ==
  ASSUME NEW c \in Call
  PROVE  LET r == Parked(c) IN
         /\ r.at = "wait" /\ r.op = c.op /\ r.sock = c.sock /\ r.num = c.num
         /\ r.sent = c.sent /\ r.left = c.left /\ r.cmsg = c.cmsg /\ r.late = c.late
         /\ r.wake = "none" /\ r.answer = c.answer
BY DEF Parked, Call

(* The loop ends with what the native socket said, or at the deadline; a   *)
(* saved timeout of 0 is no deadline.                                      *)
LEMMA ContinueTells ==
  ASSUME NEW c, NEW e
  PROVE  \/ e = "again" /\ Continue(c, e) = Parked(c)
         \/ e = "again" /\ c.late /\ Continue(c, e) = Returned(c, "timeout")
         \/ e = "done" /\ Continue(c, e) = Returned(c, "sent")
         \/ e \notin {"again", "done"} /\ Continue(c, e) = Returned(c, e)
<1>1. Default(Timeo) # 0
  BY IoAssumption DEF Default
<1> QED
  BY <1>1 DEF Continue, IsDone
-------------------------------------------------------------------------------
(* What was done to a socket stays done.                                   *)
Onward ==
  /\ opened \subseteq opened'
  /\ \A s \in opened : /\ Disturbed(s) => Disturbed(s)'
                       /\ \A d \in Dirs : Cut(s, d) => Cut(s, d)'

(* A step that leaves the sockets alone undoes nothing.                    *)
LEMMA StillOnward == ASSUME UNCHANGED conn PROVE Onward
BY DEF Onward, conn, Disturbed, Cut

(* What is known of a call is known as long as it does nothing.            *)
LEMMA ToldOn ==
  ASSUME Onward, NEW t \in Task, Told(t), co'[t] = co[t],
         \A s \in Sock : Said(t, s)' = Said(t, s)
  PROVE  Told(t)'
<1>1. Account(t, co[t])'
  BY DEF Told, Account, Underway, Sending, Length
<1>2. Counters(t, co[t])'
  BY DEF Told, Counters, Onward, Answer, Ops
<1>3. Caused(co[t])'
  <2>1. Caused(co[t]) /\ Counters(t, co[t])
    BY DEF Told
  <2>2. CASE co[t].at = "idle"
    <3>1. co'[t].wake = "none" /\ co'[t].answer = "none"
      BY <2>1, <2>2 DEF Counters, NoCall
    <3> QED
      BY <3>1 DEF Caused
  <2>3. CASE co[t].at # "idle"
    <3>1. co[t].sock \in opened
      BY <2>1, <2>3 DEF Counters
    <3>2. /\ Disturbed(co[t].sock) => Disturbed(co[t].sock)'
          /\ Cut(co[t].sock, Dir(co[t])) => Cut(co[t].sock, Dir(co[t]))'
      <4> DEFINE s == co[t].sock
      <4>1. co'[t].sock = s /\ Dir(co'[t]) = Dir(co[t]) /\ Dir(co[t]) \in Dirs
        BY DirType
      <4>2. /\ Disturbed(s) => Disturbed(co[t].sock)'
            /\ Cut(s, Dir(co[t])) => Cut(s, Dir(co[t]))'
        BY <3>1, <4>1 DEF Onward, Disturbed, Cut
      <4> QED
        BY <4>1, <4>2
    <3> QED
      BY <2>1, <3>2 DEF Caused, Went, Sending, Dir, Length, Least
  <2> QED
    BY <2>2, <2>3
<1>4. Counted(t)'
  BY DEF Told, Counted, Sending, Went
<1> QED
  BY <1>1, <1>2, <1>3, <1>4 DEF Told
-------------------------------------------------------------------------------
(* A step of one call: it is still the call it was, or it is over, or it   *)
(* is new and has the number its socket has; numbers of sockets are given  *)
(* only to new sockets.                                                    *)
Same(t) ==
  /\ Underway(co[t]) /\ co'[t].sock = co[t].sock /\ co'[t].num = co[t].num
  /\ co'[t].at = "wait" => co[t].at = "wait" \/ co[t].num # NoFd
  /\ fd'[co[t].sock] # NoFd => fd'[co[t].sock] = fd[co[t].sock]

Fresh(t) == fd' = fd /\ co'[t].at = "lock" /\ co'[t].num = fd[co'[t].sock]

(* Such steps keep numbers and calls together.                             *)
LEMMA NumbersStay ==
  ASSUME NumbersInv, \A t \in Task : Same(t) \/ Fresh(t) \/ ~Underway(co'[t]),
         \A r, s \in Sock : fd'[r] # NoFd /\ fd'[r] = fd'[s] => r = s
  PROVE  NumbersInv'
<1>1. ASSUME NEW t \in Task, Underway(co'[t]), fd'[co'[t].sock] # NoFd
      PROVE  co'[t].num = fd'[co'[t].sock]
  <2>1. Same(t) \/ Fresh(t)
    BY <1>1
  <2> QED
    BY <1>1, <2>1 DEF Same, Fresh, NumbersInv
<1>2. ASSUME NEW t \in Task, co'[t].at = "wait" PROVE co'[t].num # NoFd
  <2>1. Same(t)
    BY <1>2 DEF Fresh, Underway
  <2> QED
    BY <1>2, <2>1 DEF Same, NumbersInv
<1>3. ASSUME NEW t \in Task, NEW u \in Task, Underway(co'[t]), Underway(co'[u]),
             co'[t].sock = co'[u].sock, co'[t].num # NoFd, co'[u].num # NoFd
      PROVE  co'[t].num = co'[u].num
  <2>1. (Same(t) \/ Fresh(t)) /\ (Same(u) \/ Fresh(u))
    BY <1>3
  <2>2. CASE Same(t) /\ Same(u)
    BY <1>3, <2>2 DEF Same, NumbersInv
  <2>3. CASE Fresh(t) /\ Fresh(u)
    BY <1>3, <2>3 DEF Fresh
  <2>4. CASE Same(t) /\ Fresh(u)
    BY <1>3, <2>4 DEF Same, Fresh, NumbersInv
  <2>5. CASE Fresh(t) /\ Same(u)
    BY <1>3, <2>5 DEF Same, Fresh, NumbersInv
  <2> QED
    BY <2>1, <2>2, <2>3, <2>4, <2>5
<1> QED
  BY <1>1, <1>2, <1>3 DEF NumbersInv

(* A call keeps its number and its socket while others close theirs.       *)
LEMMA GoesNumbers ==
  ASSUME AnswerInv, NEW t \in Task, Underway(co[t]), NEW r, Goes(t, r),
         co' = [co EXCEPT ![t] = r], UNCHANGED conn
  PROVE  NumbersInv'
<1>1. co'[t] = r /\ \A u \in Task \ {t} : co'[u] = co[u]
  BY DEF AnswerInv, IoInv, LocksInv, CallsInv
<1>2. fd' = fd
  BY DEF conn
<1>3. ASSUME NEW u \in Task \ {t} PROVE Same(u) \/ ~Underway(co'[u])
  BY <1>1, <1>2 DEF Same
<1>4. Same(t) \/ ~Underway(co'[t])
  <2>1. CASE r.at = "done"
    BY <1>1, <2>1 DEF Underway
  <2>2. CASE r.at # "done"
    <3>1. r.sock = co[t].sock /\ r.num = co[t].num /\ fd[co[t].sock] # NoFd
      BY <2>2 DEF Goes
    <3>2. co[t].num = fd[co[t].sock]
      BY <3>1 DEF AnswerInv, NumbersInv
    <3> QED
      BY <1>1, <1>2, <3>1, <3>2 DEF Same
  <2> QED
    BY <2>1, <2>2
<1>5. \A q, s \in Sock : fd'[q] # NoFd /\ fd'[q] = fd'[s] => q = s
  BY <1>2 DEF AnswerInv, NumbersInv
<1>6. NumbersInv
  BY DEF AnswerInv
<1> QED
  BY <1>3, <1>4, <1>5, <1>6, NumbersStay

-------------------------------------------------------------------------------
(* What a turn of a sending loop makes of the call c of t.                 *)
Turned(t, c, n, r) ==
  /\ r.at \in {"wait", "done"} /\ r.op = c.op /\ r.sock = c.sock /\ r.wake = "none"
  /\ Went(r) = c.sent + n
  /\ r.sent \in 0..Size /\ r.left \in 0..Size /\ r.answer \in Answer
  /\ c.op = "sendfd" => r.sent = 0
  /\ r.at = "wait" =>
       /\ r.left = Length(c.op) - r.sent /\ r.cmsg = (t \in Carries /\ r.sent = 0)
       /\ c.op = "sendfile" => r.sent <= FileSize
       /\ r.answer = c.answer
  /\ r.at = "done" =>
       /\ r.answer \notin {"canceled", "eof"}
       /\ r.answer = "timeout" => r.late
       /\ r.answer = "sent" => \/ Went(r) = Length(c.op)
                               \/ c.op = "sendfile" /\ Went(r) = Least(Size, FileSize)

(* A call that sends, as it goes round its loop.                           *)
Loaded(t, c) ==
  /\ c \in Call /\ c.answer = "none" /\ c.op \in Ops(t) \ {"read"}
  /\ c.left \in 0..Size /\ c.sent \in 0..Size
  /\ c.left = Length(c.op) - c.sent /\ c.cmsg = (t \in Carries /\ c.sent = 0)
  /\ c.op = "sendfile" => c.sent <= FileSize
  /\ c.op = "sendfd" => c.sent = 0

(* A turn adds up: what is left is what was not sent, and the answer says  *)
(* why it ended.                                                           *)
LEMMA LoopCounts ==
  ASSUME NEW t \in Task, NEW c, Loaded(t, c), NEW o \in Result, Fits(c, o)
  PROVE  Turned(t, c, o.n, Continue(After(c, o), o.end))
<1>1. Size \in Nat /\ FileSize \in Nat
  BY IoAssumption
<1>2. PICK d \in Call : d = After(c, o)
  BY AfterKeeps DEF Kin, Loaded
<1>3. d.op = c.op /\ d.sock = c.sock
  BY <1>2, AfterKeeps DEF Kin, Loaded
<1>4. /\ d.sent = IF c.op = "sendfd" THEN 0 ELSE c.sent + o.n
      /\ d.left = c.left - o.n
      /\ d.cmsg = IF c.op \in {"sendmsg", "sendfd"} THEN c.cmsg /\ o.n = 0 ELSE c.cmsg
      /\ d.late = c.late /\ d.answer = c.answer
  <2>1. c \in Call /\ (c.op = "sendfd" => c.sent = 0)
    BY DEF Loaded
  <2>2. /\ d.sent = IF c.op = "sendfd" THEN c.sent ELSE c.sent + o.n
        /\ d.left = c.left - o.n
        /\ d.cmsg = IF c.op \in {"sendmsg", "sendfd"} THEN c.cmsg /\ o.n = 0 ELSE c.cmsg
        /\ d.late = c.late /\ d.answer = c.answer
    BY <1>2, <2>1, AfterCounts
  <2>3. d.sent = IF c.op = "sendfd" THEN 0 ELSE c.sent + o.n
    BY <2>1, <2>2
  <2> QED
    BY <2>2, <2>3, Zenon
<1>5. o.n \in 0..c.left /\ c.left \in Nat /\ c.sent \in Nat /\ Length(c.op) \in 0..Size
  BY <1>1, IoAssumption DEF Fits, Loaded, Length
<1>6. /\ d.sent \in 0..Size /\ d.left \in 0..Size /\ d.left = Length(c.op) - (c.sent + o.n)
      /\ c.op = "sendfd" => d.sent = 0
  BY <1>1, <1>4, <1>5 DEF Loaded
<1>7. d.cmsg = (t \in Carries /\ c.sent + o.n = 0)
  <2>1. CASE c.op \in {"sendmsg", "sendfd"}
    <3>1. d.cmsg = (c.cmsg /\ o.n = 0)
      BY <1>4, <2>1
    <3>2. c.cmsg = (t \in Carries /\ c.sent = 0)
      BY DEF Loaded
    <3>3. c.sent + o.n = 0 <=> c.sent = 0 /\ o.n = 0
      BY <1>5
    <3> QED
      BY <3>1, <3>2, <3>3, Zenon
  <2>2. CASE c.op \notin {"sendmsg", "sendfd"}
    <3>1. t \notin Carries
      BY <2>2 DEF Loaded, Ops
    <3>2. d.cmsg = c.cmsg /\ c.cmsg = (t \in Carries /\ c.sent = 0)
      BY <1>4, <2>2 DEF Loaded
    <3> QED
      BY <3>1, <3>2, Zenon
  <2> QED
    BY <2>1, <2>2
<1>8. c.op = "sendfile" => d.sent <= FileSize
  BY <1>4 DEF Fits
<1>9. CASE o.end = "again" /\ Continue(d, o.end) = Parked(d)
  <2>1. PICK r : /\ r = Parked(d) /\ r.at = "wait" /\ r.op = d.op /\ r.sock = d.sock
                 /\ r.sent = d.sent /\ r.left = d.left /\ r.cmsg = d.cmsg
                 /\ r.wake = "none" /\ r.answer = d.answer
    BY ParkedTells
  <2>2. d.sent = c.sent + o.n
    BY <1>4, <1>5, <1>9 DEF Fits, Loaded
  <2>3. c.answer = "none" /\ c.answer \in Answer
    BY DEF Loaded, Answer
  <2>4. Went(r) = c.sent + o.n
    BY <1>3, <1>4, <1>6, <2>1, <2>2, <2>3 DEF Went
  <2>5. r.left = Length(c.op) - r.sent /\ r.cmsg = (t \in Carries /\ r.sent = 0)
    <3>1. r.left = Length(c.op) - r.sent
      BY <1>6, <2>1, <2>2
    <3>2. r.cmsg = (t \in Carries /\ r.sent = 0)
      BY <1>7, <2>1, <2>2, Zenon
    <3> QED
      BY <3>1, <3>2
  <2>6. Turned(t, c, o.n, r)
    BY <1>3, <1>4, <1>6, <1>8, <2>1, <2>3, <2>4, <2>5 DEF Turned
  <2> QED
    BY <1>2, <1>9, <2>1, <2>6
<1>10. ASSUME NEW a \in Answer \ {"canceled", "eof"}, Continue(d, o.end) = Returned(d, a),
              a = "timeout" => d.late,
              c.op = "sendfd" => c.sent + o.n = IF a = "sent" THEN 1 ELSE 0,
              a = "sent" => \/ c.sent + o.n = Length(c.op)
                            \/ c.op = "sendfile" /\ c.sent + o.n = Least(Size, FileSize)
       PROVE  Turned(t, c, o.n, Continue(After(c, o), o.end))
  <2>1. PICK r : /\ r = Returned(d, a) /\ r.at = "done" /\ r.op = d.op /\ r.sock = d.sock
                 /\ r.sent = d.sent /\ r.left = 0 /\ r.late = d.late
                 /\ r.wake = "none" /\ r.answer = a
    BY ReturnedTells
  <2>2. 0 \in 0..Size
    BY <1>1
  <2>3. Went(r) = c.sent + o.n
    BY <1>3, <1>4, <1>10, <2>1 DEF Went
  <2>4. Turned(t, c, o.n, r)
    BY <1>3, <1>6, <1>10, <2>1, <2>2, <2>3 DEF Turned
  <2> QED
    BY <1>2, <1>10, <2>1, <2>4
<1>11. CASE o.end = "again" /\ d.late /\ Continue(d, o.end) = Returned(d, "timeout")
  <2>1. c.op = "sendfd" => c.sent + o.n = 0
    BY <1>5, <1>11 DEF Fits, Loaded
  <2> QED
    BY <1>10, <1>11, <2>1 DEF Answer
<1>12. CASE o.end = "done" /\ Continue(d, o.end) = Returned(d, "sent")
  <2>1. o.n = c.left => c.sent + o.n = Length(c.op)
    BY <1>5 DEF Loaded
  <2>2. \/ c.sent + o.n = Length(c.op)
        \/ c.op = "sendfile" /\ c.sent + o.n = Least(Size, FileSize)
    BY <1>12, <2>1 DEF Fits
  <2>3. c.op = "sendfd" => c.sent + o.n = 1
    BY <2>2 DEF Length
  <2> QED
    BY <1>10, <1>12, <2>2, <2>3 DEF Answer
<1>13. CASE o.end \notin {"again", "done"} /\ Continue(d, o.end) = Returned(d, o.end)
  <2>1. c.op = "sendfd" => c.sent + o.n = 0
    BY <1>5, <1>13 DEF Fits, Loaded
  <2>2. o.end \in {"error", "raise"}
    BY <1>13 DEF Fits, Lasts
  <2> QED
    BY <1>10, <1>13, <2>1, <2>2 DEF Answer
<1> QED
  BY <1>9, <1>11, <1>12, <1>13, ContinueTells
-------------------------------------------------------------------------------
(* The turn of a sending loop keeps what is known of every call.           *)

(* c is the call t as it goes round its loop.                              *)
Turning(t, c) ==
  /\ Runs(t, c) /\ c.wake = "none"
  /\ c.sent = co[t].sent /\ c.left = co[t].left /\ c.cmsg = co[t].cmsg
  /\ c.answer = co[t].answer

(* A call that turns is under way on a socket that was opened, and has not *)
(* answered.                                                               *)
LEMMA TurningPlace ==
  ASSUME AnswerInv, NEW t \in Task, NEW c, Turning(t, c)
  PROVE  /\ c \in Call /\ c.op = co[t].op /\ c.sock = co[t].sock /\ Underway(co[t])
         /\ c.sock \in opened /\ c.sock \in Sock /\ c.op \in Ops(t) /\ c.answer = "none"
         /\ c.sent \in 0..Size /\ c.left \in 0..Size
         /\ co \in [Task -> Call]
<1>1. Kin(c, co[t]) /\ Underway(co[t])
  BY DEF Turning, Runs, Underway
<1>2. Counters(t, co[t])
  BY DEF AnswerInv, Told
<1>3. co[t].at \notin {"idle", "done"}
  BY <1>1 DEF Underway
<1> QED
  BY <1>1, <1>2, <1>3 DEF Kin, Counters, Turning, AnswerInv, IoInv, LocksInv, SocksInv, CallsInv

(* One that sends has left what it has not sent.                           *)
LEMMA TurningLoaded ==
  ASSUME AnswerInv, NEW t \in Task, NEW c, Turning(t, c), c.op # "read"
  PROVE  Loaded(t, c)
<1>1. /\ c \in Call /\ c.op = co[t].op /\ Underway(co[t])
      /\ c.op \in Ops(t) /\ c.answer = "none" /\ c.sent \in 0..Size /\ c.left \in 0..Size
  BY TurningPlace
<1>2. Sending(co[t])
  BY <1>1, IoAssumption DEF Sending, Ops
<1>3. Account(t, co[t]) /\ Counters(t, co[t])
  BY DEF AnswerInv, Told
<1>4. /\ c.left = Length(c.op) - c.sent /\ c.cmsg = (t \in Carries /\ c.sent = 0)
      /\ c.op = "sendfile" => c.sent <= FileSize
      /\ c.op = "sendfd" => c.sent = 0
  BY <1>1, <1>2, <1>3 DEF Account, Counters, Turning
<1> QED
  BY <1>1, <1>4 DEF Loaded

(* What went of a call that turns is what it counted.                      *)
LEMMA TurningWent ==
  ASSUME AnswerInv, NEW t \in Task, NEW c, Turning(t, c)
  PROVE  Went(co[t]) = c.sent
<1>1. Counters(t, co[t]) /\ co[t].answer = "none" /\ co[t].sent = c.sent
  BY TurningPlace DEF AnswerInv, Told, Turning
<1> QED
  BY <1>1 DEF Went, Counters

(* After the turn the call is told as before.                              *)
LEMMA TurnedTold ==
  ASSUME AnswerInv, NEW t \in Task, NEW c, Turning(t, c), c.op # "read", UNCHANGED conn,
         NEW n \in 0..Size, NEW r, Turned(t, c, n, r), co'[t] = r,
         \A s \in Sock : Said(t, s)' = Said(t, s) + IF s = c.sock THEN n ELSE 0
  PROVE  Told(t)'
<1>1. /\ c \in Call /\ c.op = co[t].op /\ c.sock = co[t].sock /\ Underway(co[t])
      /\ c.sock \in opened /\ c.op \in Ops(t) /\ c.sent \in 0..Size
  BY TurningPlace
<1>2. Sending(c) /\ Sending(co[t]) /\ Sending(r)
  BY <1>1, IoAssumption DEF Sending, Ops, Turned
<1>3. Account(t, co[t])'
  BY DEF Account, Underway, Sending, Length, Turned
<1>4. Counters(t, co[t])'
  <2>1. opened' = opened
    BY DEF conn
  <2>2. r.at # "done" => r.answer = "none"
    BY TurningPlace DEF Turned
  <2> QED
    BY <1>1, <2>1, <2>2 DEF Counters, Turned, Answer, Ops
<1>5. Caused(co[t])'
  <2>1. r.at # "done" => r.answer = "none"
    BY TurningPlace DEF Turned
  <2>2. r.wake = "none" /\ r.answer \notin {"canceled", "eof"} /\ (r.answer = "timeout" => r.late)
    BY <2>1 DEF Turned
  <2>3. r.answer = "sent" => \/ Went(r) = Length(r.op)
                             \/ r.op = "sendfile" /\ Went(r) = Least(Size, FileSize)
    BY <2>1 DEF Turned
  <2> QED
    BY <1>2, <2>2, <2>3 DEF Caused, Went, Sending, Length, Least
<1>6. Counted(t)'
  <2>1. Counted(t)
    BY DEF AnswerInv, Told
  <2>2. ASSUME NEW s \in Sock
        PROVE  Said(t, s)' = IF s = r.sock THEN Went(r) ELSE 0
    <3>1. Said(t, s) = IF s = c.sock THEN c.sent ELSE 0
      <4>1. Went(co[t]) = c.sent
        BY TurningWent
      <4> QED
        BY <1>1, <1>2, <2>1, <4>1 DEF Counted
    <3>2. Said(t, s)' = Said(t, s) + IF s = c.sock THEN n ELSE 0
      OBVIOUS
    <3>3. r.sock = c.sock /\ Went(r) = c.sent + n
      BY DEF Turned
    <3> QED
      BY <3>1, <3>2, <3>3
  <2> QED
    BY <1>2, <2>2 DEF Counted, Sending, Went
<1> QED
  BY <1>3, <1>4, <1>5, <1>6 DEF Told

(* A turn of a sending loop keeps what is known of every call.             *)
LEMMA SendTells ==
  ASSUME AnswerInv, NEW t \in Task, NEW c, Turning(t, c), Send(t, c)
  PROVE  AnswerInv'
<1>1. PICK o \in Outcome(c) :
        /\ stream' = [stream EXCEPT ![c.sock] = @ \o Bytes(t, c, o.n)]
        /\ Proceed(t, Continue(After(c, o), o.end))
  BY DEF Send
<1>2. /\ c \in Call /\ c.op = co[t].op /\ c.sock = co[t].sock /\ Underway(co[t])
      /\ c.sock \in opened /\ c.sock \in Sock /\ c.op \in Ops(t) /\ co \in [Task -> Call]
  BY TurningPlace
<1>a. c \in Call
  BY <1>2
<1>b. c.sock \in Sock
  BY <1>2
<1>c. DataInv
  BY DEF AnswerInv, IoInv
<1>3. Loaded(t, c) /\ c.op # "read"
  BY TurningLoaded DEF Send
<1>4. DataInv /\ IoInv
  BY DEF AnswerInv, IoInv
<1>5. c.op \in Op \ {"read"}
  BY <1>3 DEF Loaded, Ops
<1>6. o \in Result /\ (o.end = "again" => fd[c.sock] # NoFd) /\ Fits(c, o)
  BY <1>2, <1>3, <1>4, <1>5, OutcomeType, OutcomeFits DEF Loaded
<1>7. PICK r : r = Continue(After(c, o), o.end)
  OBVIOUS
<1>8. Turned(t, c, o.n, r)
  BY <1>3, <1>6, <1>7, LoopCounts
<1>9. Goes(t, r)
  <2>1. Runs(t, After(c, o)) /\ After(c, o).sock = c.sock
    BY <1>2, <1>6, AfterKeeps DEF Turning, Runs, Kin
  <2>2. o.end \in Ends
    BY <1>6 DEF Result
  <2> QED
    BY <1>4, <1>6, <1>7, <2>1, <2>2, LoopGoes
<1>10. co' = [co EXCEPT ![t] = r] /\ co'[t] = r /\ \A u \in Task \ {t} : co'[u] = co[u]
  BY <1>1, <1>2, <1>7 DEF Proceed
<1>11. UNCHANGED conn /\ UNCHANGED <<drained, inbox>>
  BY DEF Send
<1>12. o.n \in 0..Size /\ o.n \in Nat
  BY <1>3, <1>6, IoAssumption DEF Fits, Loaded
<1>13. \A u \in Task, s \in Sock :
         Said(u, s)' = Said(u, s) + IF u = t /\ s = c.sock THEN o.n ELSE 0
  <2>1. PICK n \in Nat : n = o.n
    BY <1>12
  <2>2. stream' = [stream EXCEPT ![c.sock] = @ \o Bytes(t, c, n)]
    BY <1>1, <2>1
  <2>3. \A u \in Task, s \in Sock :
          Said(u, s)' = Said(u, s) + IF u = t /\ s = c.sock THEN n ELSE 0
    BY <1>a, <1>b, <1>c, <2>2, SaidMore, Zenon
  <2> QED
    BY <2>1, <2>3
<1>14. IoInv'
  BY <1>4, SendKeeps DEF Turning
<1>15. NumbersInv'
  BY <1>2, <1>9, <1>10, <1>11, GoesNumbers
<1>16. KernelInv'
  <2>1. ASSUME NEW s \in Sock PROVE drained'[s] \in 0..Len(stream'[s])
    <3>a. stream[s] \in Seq(Byte)
      BY <1>4 DEF DataInv
    <3>b. Bytes(t, c, o.n) \in Seq(Byte)
      BY <1>a, <1>12, BytesType
    <3>1. PICK q \in Seq(Byte), b \in Seq(Byte) : q = stream[s] /\ b = Bytes(t, c, o.n)
      BY <3>a, <3>b
    <3>2. stream'[s] = q \o b \/ stream'[s] = q
      BY <1>1, <1>2, <1>4, <3>1 DEF DataInv
    <3>3. Len(q \o b) = Len(q) + Len(b) /\ Len(q) \in Nat /\ Len(b) \in Nat
      BY ConcatProperties, LenProperties
    <3>4. drained'[s] \in 0..Len(q)
      BY <1>11, <3>1 DEF AnswerInv, KernelInv
    <3>5. PICK l \in Nat : l = Len(stream'[s]) /\ l >= Len(q)
      BY <3>2, <3>3
    <3> QED
      BY <3>3, <3>4, <3>5
  <2>2. hungup' = hungup /\ shut' = shut /\ inbox' = inbox
    BY <1>11 DEF conn
  <2>3. hungup' \subseteq Sock /\ shut' \subseteq Sock \X Dirs /\ inbox' \in [Sock -> 0..MaxIn]
    BY <2>2 DEF AnswerInv, KernelInv
  <2> QED
    BY <2>1, <2>3 DEF KernelInv
<1>17. Told(t)'
  <2>1. \A s \in Sock : Said(t, s)' = Said(t, s) + IF s = c.sock THEN o.n ELSE 0
    BY <1>13
  <2> QED
    BY <1>3, <1>8, <1>10, <1>11, <1>12, <2>1, TurnedTold
<1>18. ASSUME NEW u \in Task \ {t} PROVE Told(u)'
  <2>1. \A s \in Sock : Said(u, s)' = Said(u, s)
    BY <1>4, <1>13, SaidType
  <2>2. Told(u) /\ Onward
    BY <1>11, StillOnward DEF AnswerInv
  <2> QED
    BY <1>10, <2>1, <2>2, ToldOn
<1> QED
  BY <1>14, <1>15, <1>16, <1>17, <1>18 DEF AnswerInv
-------------------------------------------------------------------------------
(* A turn of a receiving loop.                                             *)

(* A receiving call takes at most one message, one that is there.          *)
LEMMA ReceiveFits ==
  ASSUME AnswerInv, NEW s \in Sock, NEW o \in ReceiveOut(s)
  PROVE  /\ o.n \in {0, 1} /\ o.n <= inbox[s]
         /\ o.end \in {"again", "raise", "error", "data", "eof"}
         /\ o.end = "eof" => Disturbed(s)
<1>1. inbox[s] \in Nat
  BY DEF AnswerInv, KernelInv
<1> QED
  BY <1>1 DEF ReceiveOut, Out, Ended, Disturbed

(* A turn of a receiving loop keeps what is known of every call.           *)
LEMMA ReceiveTells ==
  ASSUME AnswerInv, NEW t \in Task, NEW c, Turning(t, c), Receive(t, c)
  PROVE  AnswerInv'
<1>1. PICK o \in ReceiveOut(c.sock) :
        /\ inbox' = [inbox EXCEPT ![c.sock] = @ - o.n]
        /\ Proceed(t, Continue([c EXCEPT !.sent = o.n], o.end))
  BY DEF Receive
<1>2. /\ c.op = co[t].op /\ c.sock = co[t].sock /\ Underway(co[t])
      /\ c.sock \in opened /\ c.op \in Ops(t) /\ co \in [Task -> Call]
  BY TurningPlace
<1>a. c \in Call
  BY TurningPlace
<1>b. c.sock \in Sock
  BY TurningPlace
<1>3. c.op = "read" /\ c.answer = "none" /\ c.wake = "none" /\ c.left \in 0..Size
  BY TurningPlace DEF Receive, Turning
<1>4. /\ o.n \in {0, 1} /\ o.n <= inbox[c.sock]
      /\ o.end \in {"again", "raise", "error", "data", "eof"}
      /\ o.end = "eof" => Disturbed(c.sock)
  BY <1>b, ReceiveFits
<1>5. o.end \in Ends /\ (o.end = "again" => fd[c.sock] # NoFd)
  BY ReceiveType DEF Result
<1>6. PICK d : d = [c EXCEPT !.sent = o.n]
  OBVIOUS
<1>7. /\ d \in Call /\ d.at = c.at /\ d.op = c.op /\ d.sock = c.sock /\ d.num = c.num
      /\ d.sent = o.n /\ d.left = c.left /\ d.late = c.late /\ d.answer = c.answer
  <2>1. o.n \in Int
    BY <1>4
  <2> QED
    BY <1>a, <1>6, <2>1 DEF Call
<1>8. PICK r : r = Continue(d, o.end)
  OBVIOUS
<1>9. /\ r.at \in {"wait", "done"} /\ r.op = c.op /\ r.sock = c.sock /\ r.wake = "none"
      /\ r.sent = o.n /\ r.left \in 0..Size
      /\ r.at = "wait" => r.answer = "none"
      /\ r.at = "done" => /\ r.answer \in Answer \ {"sent", "canceled"}
                          /\ r.answer = "timeout" => r.late
                          /\ r.answer = "eof" => Disturbed(c.sock)
  <2>1. CASE o.end = "again" /\ r = Parked(d)
    <3>1. LET q == Parked(d) IN
           /\ q.at = "wait" /\ q.op = d.op /\ q.sock = d.sock /\ q.sent = d.sent
           /\ q.left = d.left /\ q.wake = "none" /\ q.answer = d.answer
      BY <1>7, ParkedTells
    <3> QED
      BY <1>3, <1>7, <2>1, <3>1
  <2>2. ASSUME NEW a \in Answer \ {"sent", "canceled"}, r = Returned(d, a),
               a = "timeout" => d.late, a = "eof" => Disturbed(c.sock)
        PROVE  /\ r.at = "done" /\ r.op = c.op /\ r.sock = c.sock /\ r.wake = "none"
               /\ r.sent = o.n /\ r.left \in 0..Size /\ r.answer \in Answer \ {"sent", "canceled"}
               /\ (r.answer = "timeout" => r.late) /\ (r.answer = "eof" => Disturbed(c.sock))
    <3>1. LET q == Returned(d, a) IN
           /\ q.at = "done" /\ q.op = d.op /\ q.sock = d.sock
           /\ q.sent = d.sent /\ q.left = 0 /\ q.late = d.late
           /\ q.wake = "none" /\ q.answer = a
      BY <1>7, ReturnedTells
    <3>2. 0 \in 0..Size
      BY IoAssumption
    <3> QED
      BY <1>7, <2>2, <3>1, <3>2
  <2>3. CASE o.end = "again" /\ d.late /\ r = Returned(d, "timeout")
    BY <2>2, <2>3 DEF Answer
  <2>4. CASE o.end \notin {"again", "done"} /\ r = Returned(d, o.end)
    BY <1>4, <2>2, <2>4 DEF Answer
  <2> QED
    BY <1>4, <1>8, <2>1, <2>3, <2>4, ContinueTells
<1>10. Goes(t, r)
  <2>1. Runs(t, d)
    BY <1>7 DEF Turning, Runs, Kin
  <2> QED
    BY <1>5, <1>7, <1>8, <2>1, LoopGoes DEF AnswerInv
<1>11. co' = [co EXCEPT ![t] = r] /\ co'[t] = r /\ \A u \in Task \ {t} : co'[u] = co[u]
  BY <1>1, <1>2, <1>6, <1>8 DEF Proceed
<1>12. UNCHANGED conn /\ UNCHANGED <<stream, drained>>
  BY DEF Receive
<1>13. IoInv'
  BY ReceiveKeeps DEF Turning, AnswerInv
<1>14. NumbersInv'
  BY <1>2, <1>10, <1>11, <1>12, GoesNumbers
<1>15. KernelInv'
  <2>1. inbox' \in [Sock -> 0..MaxIn]
    <3>1. inbox \in [Sock -> 0..MaxIn] /\ inbox[c.sock] - o.n \in 0..MaxIn
      BY <1>b, <1>4, IoAssumption DEF AnswerInv, KernelInv
    <3> QED
      BY <1>1, <3>1
  <2> QED
    BY <1>12, <2>1 DEF AnswerInv, KernelInv, conn
<1>16. \A u \in Task, s \in Sock : Said(u, s)' = Said(u, s)
  BY <1>12 DEF Said
<1>17. Told(t)'
  <2>1. Account(t, co[t])'
    BY <1>3, <1>9, <1>11 DEF Account, Sending
  <2>2. Counters(t, co[t])'
    <3>1. opened' = opened /\ r.sent \in 0..Size /\ r.answer \in Answer
      BY <1>4, <1>9, <1>12, IoAssumption DEF conn, Answer
    <3>2. r.at \notin {"idle", "lock"} /\ (r.at # "done" => r.answer = "none")
      BY <1>9
    <3>3. r.op # "sendfd"
      BY <1>3, <1>9
    <3> QED
      BY <1>2, <1>9, <1>11, <3>1, <3>2, <3>3 DEF Counters, Ops, Answer
  <2>3. Caused(co[t])'
    <3>1. Disturbed(c.sock)' = Disturbed(c.sock)
      BY <1>12 DEF Disturbed, conn
    <3>2. r.answer \notin {"sent", "canceled"} /\ (r.answer = "timeout" => r.late)
          /\ (r.answer = "eof" => Disturbed(c.sock)) /\ r.sock = c.sock /\ r.wake = "none"
      BY <1>9
    <3>3. r.answer = "eof" => Disturbed(r.sock)'
      BY <3>1, <3>2
    <3> QED
      BY <1>11, <3>2, <3>3 DEF Caused
  <2>4. Counted(t)'
    <3>1. Counted(t) /\ ~Sending(co[t]) /\ ~Sending(r)
      BY <1>2, <1>3, <1>9 DEF AnswerInv, Told, Sending
    <3> QED
      BY <1>11, <1>16, <3>1 DEF Counted, Sending, Went
  <2> QED
    BY <2>1, <2>2, <2>3, <2>4 DEF Told
<1>18. ASSUME NEW u \in Task \ {t} PROVE Told(u)'
  <2>1. Told(u) /\ Onward
    BY <1>12, StillOnward DEF AnswerInv
  <2> QED
    BY <1>11, <1>16, <2>1, ToldOn
<1> QED
  BY <1>13, <1>14, <1>15, <1>17, <1>18 DEF AnswerInv
-------------------------------------------------------------------------------
(* A step that only notes something in a call, or ends it.                 *)
Noted(t, r) ==
  /\ Underway(co[t]) /\ r.op = co[t].op /\ r.sock = co[t].sock /\ r.sent = co[t].sent
  /\ \/ /\ r.at = co[t].at /\ r.num = co[t].num /\ r.left = co[t].left
        /\ r.cmsg = co[t].cmsg /\ r.answer = "none"
     \/ r.at = "done" /\ r.left = 0 /\ r.answer \in {"timeout", "canceled", "error"}
  /\ r.wake \in {"none", "ready", "timeout", "canceled"}
  /\ "timeout" \in {r.wake, r.answer} => r.late
  /\ "canceled" \in {r.wake, r.answer} => Cut(r.sock, Dir(r))'
  /\ r.at = "lock" => r.wake = "none"

(* The call is told as before.                                             *)
LEMMA NotedTold ==
  ASSUME AnswerInv, NEW t \in Task, NEW r, Noted(t, r), co'[t] = r, Onward, stream' = stream
  PROVE  Told(t)'
<1>1. Told(t) /\ co[t].at \in {"lock", "wait"}
  BY DEF AnswerInv, Noted, Underway
<1>2. Account(t, co[t])'
  BY <1>1 DEF Told, Account, Noted, Underway, Sending, Length
<1>3. Counters(t, co[t])'
  <2>1. opened \subseteq opened' /\ 0 \in 0..Size
    BY IoAssumption DEF Onward
  <2>2. Counters(t, co[t])
    BY <1>1 DEF Told
  <2>3. /\ co[t].op \in Ops(t) /\ co[t].sock \in opened /\ co[t].sent \in 0..Size
        /\ co[t].left \in 0..Size /\ (co[t].at = "lock" => co[t].sent = 0)
        /\ (co[t].op = "sendfd" => co[t].sent = 0)
    BY <1>1, <2>2 DEF Counters
  <2>4. r.at # "idle" /\ r.op \in Ops(t) /\ r.sock \in opened' /\ r.sent \in 0..Size
        /\ r.left \in 0..Size /\ (r.op = "sendfd" => r.sent = 0)
    BY <1>1, <2>1, <2>3 DEF Noted
  <2>5. (r.at = "lock" => r.sent = 0 /\ r.wake = "none") /\ (r.at # "done" => r.answer = "none")
    BY <1>1, <2>3 DEF Noted
  <2>6. r.answer \in Answer
    BY DEF Noted, Answer
  <2> QED
    BY <2>4, <2>5, <2>6 DEF Counters, Ops, Answer
<1>4. Caused(co[t])'
  <2>1. r.answer \notin {"sent", "eof"}
    BY DEF Noted
  <2>2. ("timeout" \in {r.wake, r.answer} => r.late)
        /\ ("canceled" \in {r.wake, r.answer} => Cut(r.sock, Dir(r))')
    BY DEF Noted
  <2> QED
    BY <2>1, <2>2 DEF Caused, Cut, Dir
<1>5. Counted(t)'
  <2>1. Counted(t) /\ r.op = co[t].op /\ r.sock = co[t].sock /\ r.sent = co[t].sent
    BY <1>1 DEF Told, Noted
  <2>2. \A s \in Sock : Said(t, s)' = Said(t, s)
    BY DEF Said
  <2>3. Went(r) = Went(co[t])
    BY <1>1, <2>1 DEF Told, Counters, Noted, Went
  <2> QED
    BY <2>1, <2>2, <2>3 DEF Counted, Sending, Went
<1> QED
  BY <1>2, <1>3, <1>4, <1>5 DEF Told

(* So does a step of one call that touches no socket.                      *)
LEMMA NotedTells ==
  ASSUME AnswerInv, IoInv', NEW t \in Task, NEW r, Noted(t, r), co' = [co EXCEPT ![t] = r],
         UNCHANGED conn, UNCHANGED data
  PROVE  AnswerInv'
<1>1. co'[t] = r /\ \A u \in Task \ {t} : co'[u] = co[u]
  BY DEF AnswerInv, IoInv, LocksInv, CallsInv
<1>2. fd' = fd /\ stream' = stream /\ Onward
  BY StillOnward DEF conn, data
<1>3. Told(t)'
  BY <1>1, <1>2, NotedTold
<1>4. ASSUME NEW u \in Task \ {t} PROVE Told(u)'
  <2>1. \A s \in Sock : Said(u, s)' = Said(u, s)
    BY <1>2 DEF Said
  <2>2. Told(u)
    BY DEF AnswerInv
  <2> QED
    BY <1>1, <1>2, <2>1, <2>2, ToldOn
<1>5. KernelInv'
  BY DEF AnswerInv, KernelInv, conn, data
<1>6. NumbersInv'
  <2>1. ASSUME NEW u \in Task PROVE Same(u) \/ ~Underway(co'[u])
    BY <1>1, <1>2 DEF Same, Noted, Underway
  <2>2. \A q, s \in Sock : fd'[q] # NoFd /\ fd'[q] = fd'[s] => q = s
    BY <1>2 DEF AnswerInv, NumbersInv
  <2>3. NumbersInv
    BY DEF AnswerInv
  <2> QED
    BY <2>1, <2>2, <2>3, NumbersStay
<1> QED
  BY <1>3, <1>4, <1>5, <1>6 DEF AnswerInv

(* A call under way and its fields.                                        *)
LEMMA UnderwayPlace ==
  ASSUME AnswerInv, NEW t \in Task, Underway(co[t])
  PROVE  co[t] \in Call /\ co[t].answer = "none" /\ (co[t].at = "lock" => co[t].wake = "none")
         /\ Caused(co[t]) /\ co[t].sock \in opened /\ co[t].sock \in Sock
<1>1. Told(t) /\ co[t] \in Call /\ opened \subseteq Sock
  BY DEF AnswerInv, IoInv, LocksInv, CallsInv, SocksInv
<1> QED
  BY <1>1 DEF Told, Counters, Underway

(* A call that returns before or instead of its loop.                      *)
LEMMA ReturnedNoted ==
  ASSUME AnswerInv, NEW t \in Task, Underway(co[t]), UNCHANGED conn,
         NEW a \in {"timeout", "canceled", "error"}, a = "timeout" => co[t].late,
         a = "canceled" => Cut(co[t].sock, Dir(co[t]))
  PROVE  Noted(t, Returned(co[t], a))
<1>1. PICK r : r = Returned(co[t], a)
  OBVIOUS
<1>2. /\ r.at = "done" /\ r.op = co[t].op /\ r.sock = co[t].sock /\ r.num = NoFd
      /\ r.sent = co[t].sent /\ r.left = 0 /\ r.late = co[t].late
      /\ r.wake = "none" /\ r.answer = a
  <2>1. co[t] \in Call
    BY UnderwayPlace
  <2> QED
    BY <1>1, <2>1, ReturnedTells
<1>3. "canceled" \in {r.wake, r.answer} => Cut(r.sock, Dir(r))'
  <2>1. Dir(r) = Dir(co[t])
    BY <1>2 DEF Dir
  <2>2. a = "canceled" => Cut(co[t].sock, Dir(co[t]))
    OBVIOUS
  <2>3. a = "canceled" => Cut(r.sock, Dir(r))
    BY <1>2, <2>1, <2>2
  <2>4. Cut(r.sock, Dir(r))' = Cut(r.sock, Dir(r))
    BY DEF Cut, conn
  <2> QED
    BY <1>2, <2>3, <2>4
<1>4. Noted(t, r)
  BY <1>2, <1>3 DEF Noted
<1> QED
  BY <1>1, <1>4

(* A lock that is refused or comes too late keeps what is known.           *)
LEMMA LockFailsTells ==
  ASSUME AnswerInv, NEW t \in Task, NEW a \in {"timeout", "error"}, LockFails(t, a),
         a = "timeout" => co[t].late
  PROVE  AnswerInv'
<1>1. Underway(co[t])
  BY DEF LockFails, Underway
<1>2. Noted(t, Returned(co[t], a))
  BY <1>1, ReturnedNoted DEF LockFails
<1>3. IoInv'
  BY LockFailsKeeps DEF AnswerInv, Ends, Answer
<1> QED
  BY <1>2, <1>3, NotedTells DEF LockFails

(* So does a wakeup, by an event or by the deadline.                       *)
LEMMA WakeTells ==
  ASSUME AnswerInv, NEW t \in Task, NEW how \in {"ready", "timeout"}, Wake(t, how),
         how = "timeout" => co[t].late
  PROVE  AnswerInv'
<1>1. Underway(co[t])
  BY DEF Wake, Underway
<1>2. co[t] \in Call /\ co[t].answer = "none" /\ co[t].at = "wait"
  BY <1>1, UnderwayPlace DEF Wake
<1>3. PICK r : r = [co[t] EXCEPT !.wake = how]
  OBVIOUS
<1>4. /\ r.at = co[t].at /\ r.op = co[t].op /\ r.sock = co[t].sock /\ r.num = co[t].num
      /\ r.sent = co[t].sent /\ r.left = co[t].left /\ r.cmsg = co[t].cmsg
      /\ r.late = co[t].late /\ r.wake = how /\ r.answer = co[t].answer
  BY <1>2, <1>3 DEF Call
<1>5. Noted(t, r)
  BY <1>1, <1>2, <1>4 DEF Noted
<1>6. IoInv'
  BY WakeKeeps DEF AnswerInv
<1>7. co' = [co EXCEPT ![t] = r]
  BY <1>3 DEF Wake
<1> QED
  BY <1>5, <1>6, <1>7, NotedTells DEF Wake

(* So does the deadline itself.                                            *)
LEMMA ExpireTells == ASSUME AnswerInv, NEW t \in Task, Expire(t) PROVE AnswerInv'
<1>1. Underway(co[t])
  BY DEF Expire, Underway
<1>2. /\ co[t] \in Call /\ co[t].answer = "none" /\ (co[t].at = "lock" => co[t].wake = "none")
      /\ Caused(co[t])
  BY <1>1, UnderwayPlace
<1>3. PICK r : r = [co[t] EXCEPT !.late = TRUE]
  OBVIOUS
<1>4. /\ r.at = co[t].at /\ r.op = co[t].op /\ r.sock = co[t].sock /\ r.num = co[t].num
      /\ r.sent = co[t].sent /\ r.left = co[t].left /\ r.cmsg = co[t].cmsg
      /\ r.late = TRUE /\ r.wake = co[t].wake /\ r.answer = co[t].answer
      /\ r.wake \in {"none", "ready", "timeout", "canceled"}
  BY <1>2, <1>3 DEF Call
<1>5. "canceled" \in {r.wake, r.answer} => Cut(r.sock, Dir(r))'
  <2>1. Dir(r) = Dir(co[t])
    BY <1>4 DEF Dir
  <2>2. co[t].wake = "canceled" => Cut(co[t].sock, Dir(co[t]))
    BY <1>2 DEF Caused
  <2>3. Cut(r.sock, Dir(r))' = Cut(r.sock, Dir(r))
    BY DEF Cut, conn, Expire
  <2> QED
    BY <1>2, <1>4, <2>1, <2>2, <2>3
<1>6. Noted(t, r)
  BY <1>1, <1>2, <1>4, <1>5 DEF Noted
<1>7. IoInv'
  BY ExpireKeeps DEF AnswerInv
<1>8. co' = [co EXCEPT ![t] = r]
  BY <1>3 DEF Expire
<1> QED
  BY <1>6, <1>7, <1>8, NotedTells DEF Expire
(* Who gets the lock goes round its loop for the first time.               *)
LEMMA AcquireTurns ==
  ASSUME AnswerInv, NEW t \in Task, Acquire(t)
  PROVE  Turning(t, [co[t] EXCEPT !.late = FALSE])
<1>1. Underway(co[t])
  BY DEF Acquire, Underway
<1>2. co[t] \in Call /\ (co[t].at = "lock" => co[t].wake = "none")
  BY <1>1, UnderwayPlace
<1>3. PICK c : c = [co[t] EXCEPT !.late = FALSE]
  OBVIOUS
<1>4. /\ Kin(c, co[t]) /\ c.wake = co[t].wake /\ c.sent = co[t].sent /\ c.left = co[t].left
      /\ c.cmsg = co[t].cmsg /\ c.answer = co[t].answer
  BY <1>2, <1>3 DEF Call, Kin
<1>5. Turning(t, c)
  BY <1>2, <1>4 DEF Turning, Runs, Acquire
<1> QED
  BY <1>3, <1>5

(* Who was woken goes round its loop again.                                *)
LEMMA ResumeTurns ==
  ASSUME AnswerInv, NEW t \in Task, Resume(t)
  PROVE  Turning(t, [co[t] EXCEPT !.wake = "none", !.on = NoFd])
<1>1. Underway(co[t])
  BY DEF Resume, Underway
<1>2. co[t] \in Call
  BY <1>1, UnderwayPlace
<1>3. PICK c : c = [co[t] EXCEPT !.wake = "none", !.on = NoFd]
  OBVIOUS
<1>4. /\ Kin(c, co[t]) /\ c.wake = "none" /\ c.sent = co[t].sent /\ c.left = co[t].left
      /\ c.cmsg = co[t].cmsg /\ c.answer = co[t].answer
  BY <1>2, <1>3, NumbersType DEF Call, Kin
<1>5. lock[<<Dir(co[t]), co[t].num>>] = t
  BY DEF Resume, AnswerInv, IoInv, LocksInv, WaitersHold
<1>6. Turning(t, c)
  BY <1>4, <1>5 DEF Turning, Runs, Resume
<1> QED
  BY <1>3, <1>6

(* Taking the lock keeps what is known of every call.                      *)
LEMMA AcquireTells == ASSUME AnswerInv, NEW t \in Task, Acquire(t) PROVE AnswerInv'
<1>1. Turning(t, [co[t] EXCEPT !.late = FALSE])
  BY AcquireTurns
<1> QED
  BY <1>1, SendTells, ReceiveTells DEF Acquire, Run

(* So does going on, and so does returning because of a timeout or a       *)
(* close.                                                                  *)
LEMMA ResumeTells == ASSUME AnswerInv, NEW t \in Task, Resume(t) PROVE AnswerInv'
<1>1. CASE co[t].wake = "ready"
  <2>1. Turning(t, [co[t] EXCEPT !.wake = "none", !.on = NoFd])
    BY ResumeTurns
  <2> QED
    BY <1>1, <2>1, SendTells, ReceiveTells DEF Resume, Run
<1>2. CASE co[t].wake # "ready"
  <2>1. Underway(co[t])
    BY DEF Resume, Underway
  <2>2. co[t] \in Call /\ Caused(co[t])
    BY <2>1, UnderwayPlace
  <2>3. co[t].wake \in {"timeout", "canceled"}
    BY <1>2, <2>2 DEF Resume, Call
  <2>4. /\ Proceed(t, Returned(co[t], co[t].wake)) /\ UNCHANGED data /\ UNCHANGED conn
    BY <1>2 DEF Resume
  <2>5. Noted(t, Returned(co[t], co[t].wake))
    BY <2>1, <2>2, <2>3, <2>4, ReturnedNoted DEF Caused
  <2>6. IoInv'
    BY ResumeKeeps DEF AnswerInv
  <2>7. co' = [co EXCEPT ![t] = Returned(co[t], co[t].wake)]
    BY <2>4 DEF Proceed
  <2> QED
    BY <2>4, <2>5, <2>6, <2>7, NotedTells
<1> QED
  BY <1>1, <1>2

(* A new call has sent nothing yet.                                        *)
LEMMA StartTells == ASSUME AnswerInv, NEW t \in Task, Start(t) PROVE AnswerInv'
<1>1. PICK s \in opened, op \in Ops(t) :
        co' = [co EXCEPT ![t] = [NoCall EXCEPT !.at = "lock", !.op = op, !.sock = s,
                 !.num = fd[s], !.left = IF op = "read" THEN 0 ELSE Length(op),
                 !.cmsg = op # "read" /\ t \in Carries]]
  BY DEF Start
<1> DEFINE left == IF op = "read" THEN 0 ELSE Length(op)
           cmsg == op # "read" /\ t \in Carries
<1>2. PICK r : r = [NoCall EXCEPT !.at = "lock", !.op = op, !.sock = s, !.num = fd[s],
                                  !.left = left, !.cmsg = cmsg]
  OBVIOUS
<1>3. /\ r.at = "lock" /\ r.op = op /\ r.sock = s /\ r.num = fd[s] /\ r.left = left
      /\ r.cmsg = cmsg /\ r.sent = 0 /\ r.wake = "none" /\ r.answer = "none"
  <2> HIDE DEF left, cmsg
  <2> QED
    BY <1>2 DEF NoCall
<1>4. co' = [co EXCEPT ![t] = r] /\ co \in [Task -> Call]
  BY <1>1, <1>2 DEF AnswerInv, IoInv, LocksInv, CallsInv
<1>5. co'[t] = r /\ \A u \in Task \ {t} : co'[u] = co[u]
  BY <1>4
<1>6. UNCHANGED data /\ UNCHANGED conn
  BY DEF Start
<1>7. fd' = fd /\ opened' = opened /\ stream' = stream /\ Onward
  BY <1>6, StillOnward DEF conn, data
<1>8. IoInv'
  BY StartKeeps DEF AnswerInv
<1>9. \A u \in Task, x \in Sock : Said(u, x)' = Said(u, x)
  BY <1>7 DEF Said
<1>10. Length(op) \in 0..Size /\ left \in 0..Size
  BY IoAssumption DEF Length
<1>11. Told(t)'
  <2>1. co[t] = NoCall /\ Counted(t)
    BY DEF AnswerInv, Told, Counters, Start
  <2>2. Account(t, co[t])'
    <3>1. ASSUME Sending(r)
          PROVE  /\ r.left = Length(r.op) - r.sent /\ r.cmsg = (t \in Carries /\ r.sent = 0)
                 /\ r.op = "sendfile" => r.sent <= FileSize
      <4>1. op # "read"
        BY <1>3, <3>1 DEF Sending
      <4>2. r.left = Length(r.op) - r.sent
        BY <1>3, <1>10, <4>1
      <4>3. r.cmsg = (t \in Carries /\ r.sent = 0)
        BY <1>3, <4>1
      <4> QED
        BY <1>3, <4>2, <4>3, IoAssumption
    <3> QED
      BY <1>5, <3>1 DEF Account, Sending, Length
  <2>3. Counters(t, co[t])'
    <3>1. r.op \in Ops(t) /\ r.sock \in opened /\ r.left \in 0..Size /\ r.sent \in 0..Size
      BY <1>3, <1>10, IoAssumption
    <3> HIDE DEF left, cmsg
    <3> QED
      BY <1>3, <1>5, <1>7, <3>1 DEF Counters, Ops, Answer
  <2>4. Caused(co[t])'
    <3> HIDE DEF left, cmsg
    <3> QED
      BY <1>3, <1>5 DEF Caused
  <2>5. Counted(t)'
    <3>1. \A x \in Sock : Said(t, x) = 0
      BY <2>1 DEF Counted, Sending, NoCall
    <3>2. r.sent = 0 /\ r.answer = "none"
      BY <1>3
    <3> HIDE DEF left, cmsg
    <3> QED
      BY <1>5, <1>9, <3>1, <3>2 DEF Counted, Sending, Went
  <2> QED
    BY <2>2, <2>3, <2>4, <2>5 DEF Told
<1>12. ASSUME NEW u \in Task \ {t} PROVE Told(u)'
  <2>1. Told(u)
    BY DEF AnswerInv
  <2> QED
    BY <1>5, <1>7, <1>9, <2>1, ToldOn
<1>13. KernelInv'
  BY <1>6 DEF AnswerInv, KernelInv, conn, data
<1>14. NumbersInv'
  <2>1. Fresh(t)
    <3> HIDE DEF left, cmsg
    <3> QED
      BY <1>3, <1>5, <1>7 DEF Fresh
  <2>2. ASSUME NEW u \in Task \ {t} PROVE Same(u) \/ ~Underway(co'[u])
    BY <1>5, <1>7 DEF Same
  <2>3. \A q, x \in Sock : fd'[q] # NoFd /\ fd'[q] = fd'[x] => q = x
    BY <1>7 DEF AnswerInv, NumbersInv
  <2>4. NumbersInv
    BY DEF AnswerInv
  <2> QED
    BY <2>1, <2>2, <2>3, <2>4, NumbersStay
<1> QED
  BY <1>8, <1>11, <1>12, <1>13, <1>14 DEF AnswerInv

-------------------------------------------------------------------------------
(* What happens to the sockets.                                            *)

(* A step of a socket or its peer that wakes nobody.                       *)
LEMMA QuietTells ==
  ASSUME AnswerInv, IoInv', KernelInv', Onward, UNCHANGED <<co, stream>>,
         \A r, s \in Sock : fd'[r] # NoFd /\ fd'[r] = fd'[s] => r = s,
         \A s \in opened : fd'[s] = fd[s]
  PROVE  AnswerInv'
<1>1. \A u \in Task, s \in Sock : Said(u, s)' = Said(u, s)
  BY DEF Said
<1>2. ASSUME NEW u \in Task PROVE Told(u)'
  <2>1. Told(u)
    BY DEF AnswerInv
  <2> QED
    BY <1>1, <2>1, ToldOn
<1>3. NumbersInv'
  <2>1. ASSUME NEW u \in Task PROVE Same(u) \/ ~Underway(co'[u])
    BY DEF Same, Underway, AnswerInv, IoInv, LocksInv, CallsInv, Placed
  <2>2. NumbersInv
    BY DEF AnswerInv
  <2> QED
    BY <2>1, <2>2, NumbersStay
<1> QED
  BY <1>2, <1>3 DEF AnswerInv

(* A new socket concerns no call.                                          *)
LEMMA OpenTells == ASSUME AnswerInv, NEW s \in Sock, Open(s) PROVE AnswerInv'
<1>1. PICK n \in 0..MaxFd : (\A c \in Sock : fd[c] # n) /\ fd' = [fd EXCEPT ![s] = n]
  BY DEF Open
<1>2. s \notin opened /\ opened' = opened \union {s}
  BY DEF Open
<1>3. fd \in [Sock -> Numbers] /\ opened \subseteq Sock
  BY DEF AnswerInv, IoInv, LocksInv, SocksInv
<1>4. \A x \in opened : fd'[x] = fd[x]
  BY <1>1, <1>2, <1>3
<1>5. \A r, x \in Sock : fd'[r] # NoFd /\ fd'[r] = fd'[x] => r = x
  BY <1>1, <1>3 DEF AnswerInv, NumbersInv
<1>6. Onward
  BY <1>2, <1>4 DEF Onward, Disturbed, Cut, Open
<1>7. KernelInv'
  BY DEF Open, AnswerInv, KernelInv, data
<1>8. IoInv'
  BY OpenKeeps DEF AnswerInv
<1> QED
  BY <1>4, <1>5, <1>6, <1>7, <1>8, QuietTells DEF Open, data

(* What a peer does concerns no call, either.                              *)
LEMMA PeerTells ==
  ASSUME AnswerInv, NEW s \in Sock, PeerReads(s) \/ PeerSends(s) \/ PeerHangsUp(s)
  PROVE  AnswerInv'
<1>1. UNCHANGED <<fd, opened, shut, lock, co, stream>> /\ hungup \subseteq hungup'
  BY DEF PeerReads, PeerSends, PeerHangsUp, conn, data
<1>2. drained' \in [Sock -> Int]
  BY DEF PeerReads, PeerSends, PeerHangsUp, conn, data, AnswerInv, IoInv, DataInv
<1>3. IoInv'
  BY <1>1, <1>2, PeerKeeps DEF AnswerInv
<1>4. KernelInv'
  <2>1. hungup' \subseteq Sock /\ shut' \subseteq Sock \X Dirs
    BY DEF PeerReads, PeerSends, PeerHangsUp, conn, AnswerInv, KernelInv
  <2>2. inbox' \in [Sock -> 0..MaxIn]
    BY IoAssumption DEF PeerReads, PeerSends, PeerHangsUp, data, AnswerInv, KernelInv
  <2>3. ASSUME NEW x \in Sock PROVE drained'[x] \in 0..Len(stream'[x])
    <3>1. Len(stream[x]) \in Nat /\ drained[x] \in 0..Len(stream[x]) /\ drained \in [Sock -> Int]
      BY DEF AnswerInv, KernelInv, IoInv, DataInv
    <3>2. drained'[x] = drained[x] \/ (drained[x] < Len(stream[x]) /\ drained'[x] = drained[x] + 1)
      BY <3>1 DEF PeerReads, PeerSends, PeerHangsUp, data
    <3> QED
      BY <1>1, <3>1, <3>2
  <2> QED
    BY <2>1, <2>2, <2>3 DEF KernelInv
<1>5. Onward
  BY <1>1 DEF Onward, Disturbed, Cut
<1> QED
  BY <1>1, <1>3, <1>4, <1>5, QuietTells DEF AnswerInv, NumbersInv
(* Whoever waits on a number that is closed, or shut down in its           *)
(* direction, is told so, and it is true.                                  *)
LEMMA UnwaitTold ==
  ASSUME AnswerInv, NEW s \in Sock, fd[s] # NoFd, NEW dirs, Unwait(fd[s], dirs),
         Onward, stream' = stream, \A d \in Dirs : d \in dirs => Cut(s, d)',
         NEW t \in Task
  PROVE  Told(t)' /\ co'[t].at = co[t].at /\ co'[t].sock = co[t].sock /\ co'[t].num = co[t].num
<1> DEFINE found == co[t].at = "wait" /\ co[t].on = fd[s] /\ co[t].wake = "none"
                      /\ Dir(co[t]) \in dirs
<1>1. co'[t] = IF found THEN [co[t] EXCEPT !.wake = "canceled"] ELSE co[t]
  BY DEF Unwait
<1>2. CASE ~found
  <2>1. co'[t] = co[t]
    BY <1>1, <1>2
  <2>2. \A x \in Sock : Said(t, x)' = Said(t, x)
    BY DEF Said
  <2>3. Told(t)
    BY DEF AnswerInv
  <2> QED
    BY <2>1, <2>2, <2>3, ToldOn
<1>3. CASE found
  <2>1. Underway(co[t])
    BY <1>3 DEF Underway
  <2>2. co[t] \in Call /\ co[t].answer = "none" /\ Caused(co[t]) /\ co[t].sock \in Sock
    BY <2>1, UnderwayPlace
  <2>3. PICK r : r = [co[t] EXCEPT !.wake = "canceled"]
    OBVIOUS
  <2>4. co'[t] = r
    BY <1>1, <1>3, <2>3
  <2>5. /\ r.at = co[t].at /\ r.op = co[t].op /\ r.sock = co[t].sock /\ r.num = co[t].num
        /\ r.sent = co[t].sent /\ r.left = co[t].left /\ r.cmsg = co[t].cmsg
        /\ r.late = co[t].late /\ r.wake = "canceled" /\ r.answer = co[t].answer
    BY <2>2, <2>3 DEF Call
  <2>6. co[t].sock = s
    <3>1. fd[co[t].sock] = fd[s]
      BY <1>3 DEF AnswerInv, IoInv, LocksInv, ParkedOnOwnFd
    <3> QED
      BY <2>2, <3>1 DEF AnswerInv, NumbersInv
  <2>7. Cut(r.sock, Dir(r))'
    <3>1. PICK d \in Dirs : d = Dir(co[t])
      BY DirType
    <3>2. Cut(s, d)'
      BY <1>3, <3>1
    <3>3. r.sock = s /\ Dir(r) = d
      BY <2>5, <2>6, <3>1 DEF Dir
    <3> QED
      BY <3>2, <3>3
  <2>8. Noted(t, r)
    BY <1>3, <2>1, <2>2, <2>5, <2>7 DEF Noted
  <2>9. Told(t)'
    BY <2>4, <2>8, NotedTold
  <2> QED
    BY <2>4, <2>5, <2>9
<1> QED
  BY <1>2, <1>3

(* Closing a socket keeps what is known of the calls, those that wait on   *)
(* it included.                                                            *)
LEMMA CloseTells == ASSUME AnswerInv, NEW s \in Sock, Close(s) PROVE AnswerInv'
<1>1. /\ fd[s] # NoFd /\ Unwait(fd[s], {"rd", "wr"}) /\ fd' = [fd EXCEPT ![s] = NoFd]
      /\ shut' = shut \ ({s} \X {"rd", "wr"}) /\ hungup' = hungup \ {s}
      /\ inbox' = [inbox EXCEPT ![s] = 0] /\ drained' = [drained EXCEPT ![s] = Len(stream[s])]
      /\ opened' = opened /\ stream' = stream
  BY DEF Close
<1>2. fd \in [Sock -> Numbers] /\ opened \subseteq Sock
  BY DEF AnswerInv, IoInv, LocksInv, SocksInv
<1>3. fd'[s] = NoFd /\ \A x \in Sock \ {s} : fd'[x] = fd[x]
  BY <1>1, <1>2
<1>4. Onward
  <2>1. ASSUME NEW x \in opened, Disturbed(x) PROVE Disturbed(x)'
    BY <1>1, <1>2, <1>3, <2>1 DEF Disturbed
  <2>2. ASSUME NEW x \in opened, NEW d \in Dirs, Cut(x, d) PROVE Cut(x, d)'
    BY <1>1, <1>2, <1>3, <2>2 DEF Cut
  <2> QED
    BY <1>1, <2>1, <2>2 DEF Onward
<1>5. \A d \in Dirs : d \in {"rd", "wr"} => Cut(s, d)'
  BY <1>3 DEF Cut
<1>6. ASSUME NEW t \in Task
      PROVE  Told(t)' /\ co'[t].at = co[t].at /\ co'[t].sock = co[t].sock
             /\ co'[t].num = co[t].num
  BY <1>1, <1>4, <1>5, UnwaitTold
<1>7. IoInv'
  BY CloseKeeps DEF AnswerInv
<1>8. KernelInv'
  <2>1. \A x \in Sock : drained'[x] \in 0..Len(stream'[x])
    BY <1>1 DEF AnswerInv, KernelInv, IoInv, DataInv
  <2>2. inbox' \in [Sock -> 0..MaxIn]
    BY <1>1, IoAssumption DEF AnswerInv, KernelInv
  <2> QED
    BY <1>1, <2>1, <2>2 DEF AnswerInv, KernelInv
<1>9. NumbersInv'
  <2>1. ASSUME NEW u \in Task PROVE Same(u) \/ ~Underway(co'[u])
    <3>1. CASE Underway(co[u])
      <4>1. co[u].sock \in Sock
        BY <3>1, UnderwayPlace
      <4>2. fd'[co[u].sock] # NoFd => fd'[co[u].sock] = fd[co[u].sock]
        BY <1>3, <4>1
      <4> QED
        BY <1>6, <3>1, <4>2 DEF Same
    <3>2. CASE ~Underway(co[u])
      BY <1>6, <3>2 DEF Underway
    <3> QED
      BY <3>1, <3>2
  <2>2. \A q, x \in Sock : fd'[q] # NoFd /\ fd'[q] = fd'[x] => q = x
    BY <1>3 DEF AnswerInv, NumbersInv
  <2>3. NumbersInv
    BY DEF AnswerInv
  <2> QED
    BY <2>1, <2>2, <2>3, NumbersStay
<1> QED
  BY <1>6, <1>7, <1>8, <1>9 DEF AnswerInv

(* So does shutting one direction down.                                    *)
LEMMA CloseHalfTells ==
  ASSUME AnswerInv, NEW s \in Sock, NEW d \in Half, CloseHalf(s, d) PROVE AnswerInv'
<1>1. /\ fd[s] # NoFd /\ Unwait(fd[s], {d}) /\ shut' = shut \union {<<s, d>>}
      /\ fd' = fd /\ opened' = opened /\ hungup' = hungup /\ stream' = stream
      /\ drained' = drained /\ inbox' = inbox /\ d \in Dirs
  BY IoAssumption DEF CloseHalf, data, Dirs
<1>2. Onward
  BY <1>1 DEF Onward, Disturbed, Cut
<1>3. \A e \in Dirs : e \in {d} => Cut(s, e)'
  BY <1>1 DEF Cut
<1>4. ASSUME NEW t \in Task
      PROVE  Told(t)' /\ co'[t].at = co[t].at /\ co'[t].sock = co[t].sock
             /\ co'[t].num = co[t].num
  BY <1>1, <1>2, <1>3, UnwaitTold
<1>5. IoInv'
  BY CloseHalfKeeps DEF AnswerInv
<1>6. KernelInv'
  BY <1>1 DEF AnswerInv, KernelInv
<1>7. NumbersInv'
  <2>1. ASSUME NEW u \in Task PROVE Same(u) \/ ~Underway(co'[u])
    BY <1>1, <1>4 DEF Same, Underway
  <2>2. \A q, x \in Sock : fd'[q] # NoFd /\ fd'[q] = fd'[x] => q = x
    BY <1>1 DEF AnswerInv, NumbersInv
  <2>3. NumbersInv
    BY DEF AnswerInv
  <2> QED
    BY <2>1, <2>2, <2>3, NumbersStay
<1> QED
  BY <1>4, <1>5, <1>6, <1>7 DEF AnswerInv

-------------------------------------------------------------------------------
(* Nothing was said in the beginning.                                      *)
LEMMA InitAnswers == Init => AnswerInv
<1> SUFFICES ASSUME Init PROVE AnswerInv
  OBVIOUS
<1>1. IoInv
  BY InitIo
<1>2. ASSUME NEW t \in Task PROVE Told(t)
  <2>1. co[t] = NoCall
    BY DEF Init
  <2>2. Account(t, co[t])
    BY <2>1 DEF Account, Underway, NoCall
  <2>3. Counters(t, co[t])
    BY <2>1, IoAssumption DEF Counters, NoCall, Answer
  <2>4. Caused(co[t])
    BY <2>1 DEF Caused, NoCall
  <2>5. ASSUME NEW s \in Sock PROVE Said(t, s) = 0
    <3>1. stream[s] = <<>>
      BY DEF Init
    <3>2. {i \in DOMAIN <<>> : <<>>[i].by = t} = {}
      OBVIOUS
    <3>3. Said(t, s) = Cardinality({})
      BY <3>1, <3>2 DEF Said
    <3> QED
      BY <3>3, FS_EmptySet
  <2>6. Counted(t)
    BY <2>1, <2>5 DEF Counted, Sending, NoCall
  <2> QED
    BY <2>2, <2>3, <2>4, <2>6 DEF Told
<1>3. NumbersInv
  BY DEF NumbersInv, Init, NoCall, Underway
<1>4. KernelInv
  BY IoAssumption DEF KernelInv, Init
<1> QED
  BY <1>1, <1>2, <1>3, <1>4 DEF AnswerInv

(* So does a step of something else.                                       *)
LEMMA IdleTells == ASSUME AnswerInv, UNCHANGED vars PROVE AnswerInv'
<1>1. IoInv'
  BY NextIo DEF AnswerInv
<1>2. KernelInv' /\ Onward
  BY StillOnward DEF AnswerInv, KernelInv, vars, conn
<1> QED
  BY <1>1, <1>2, QuietTells DEF AnswerInv, NumbersInv, vars

(* Every step keeps what is known of the calls.                            *)
LEMMA NextAnswers == AnswerInv /\ [Next]_vars => AnswerInv'
<1> SUFFICES ASSUME AnswerInv, [Next]_vars PROVE AnswerInv'
  OBVIOUS
<1>1. ASSUME NEW t \in Task, TaskNext(t) PROVE AnswerInv'
  <2>1. CASE Start(t)
    BY <2>1, StartTells
  <2>2. CASE Acquire(t)
    BY <2>2, AcquireTells
  <2>3. CASE LockTimesOut(t) \/ LockRefused(t)
    <3>1. Default(Timeo) # 0
      BY IoAssumption DEF Default
    <3> QED
      BY <2>3, <3>1, LockFailsTells DEF LockTimesOut, LockRefused, IsDone
  <2>4. CASE Resume(t)
    BY <2>4, ResumeTells
  <2>5. CASE Ready(t) \/ TimesOut(t)
    <3>1. Default(Timeo) # 0
      BY IoAssumption DEF Default
    <3> QED
      BY <2>5, <3>1, WakeTells DEF Ready, TimesOut, IsDone
  <2>6. CASE Expire(t)
    BY <2>6, ExpireTells
  <2> QED
    BY <1>1, <2>1, <2>2, <2>3, <2>4, <2>5, <2>6 DEF TaskNext
<1>2. ASSUME NEW s \in Sock, SockNext(s) PROVE AnswerInv'
  BY <1>2, OpenTells, CloseTells, CloseHalfTells, PeerTells DEF SockNext
<1>3. CASE UNCHANGED vars
  BY <1>3, IdleTells
<1> QED
  BY <1>1, <1>2, <1>3 DEF Next

(* What is known of the calls, for every number of coroutines, sockets and *)
(* bytes.                                                                  *)
THEOREM AnswerInvariant == Spec => []AnswerInv
BY InitAnswers, NextAnswers, PTL DEF Spec

(* The answer of a finished call is true: the count is the number of its   *)
(* bytes the kernel took (of a sendfd always 0, and its answer tells       *)
(* whether the descriptor went), a full answer means that all went or the  *)
(* file ended, and each failure had its cause (the loops of net.lua and    *)
(* unix.lua), on every system, for messages and files of any size and any  *)
(* room in the kernel.                                                     *)
THEOREM AnswersAreHonest == Spec => []AnswersTrue
<1>1. AnswerInv => AnswersTrue
  <2> SUFFICES ASSUME AnswerInv PROVE AnswersTrue
    OBVIOUS
  <2>1. TypeOK
    <3>1. /\ fd \in [Sock -> NoFd..MaxFd] /\ opened \subseteq Sock
          /\ lock \in [{"rd", "wr"} \X (NoFd..MaxFd) -> Task \union {None}]
      BY DEF AnswerInv, IoInv, LocksInv, SocksInv, Numbers, Dirs
    <3>2. hungup \subseteq Sock /\ shut \subseteq Sock \X {"rd", "wr"}
      BY DEF AnswerInv, KernelInv, Dirs
    <3>3. \A s \in Sock : drained[s] \in 0..Len(stream[s]) /\ inbox[s] \in 0..MaxIn
      BY DEF AnswerInv, KernelInv
    <3>4. ASSUME NEW t \in Task
          PROVE  /\ co[t].at \in {"idle", "lock", "wait", "done"}
                 /\ co[t].op \in Op \union {"none"}
                 /\ co[t].answer \in Answer /\ co[t].left \in 0..Size /\ co[t].sent \in 0..Size
      <4>1. co[t] \in Call /\ Counters(t, co[t])
        BY DEF AnswerInv, IoInv, LocksInv, CallsInv, Told
      <4> QED
        BY <4>1 DEF Call, Counters
    <3> QED
      BY <3>1, <3>2, <3>3, <3>4 DEF TypeOK
  <2>2. ASSUME NEW t \in Task, co[t].at = "done"
        PROVE  LET c == co[t] IN
               /\ c.op \notin {"read", "sendfd"} /\ c.answer # "raise" => c.sent = Taken(t)
               /\ c.op = "sendfd" => c.sent = 0 /\ (c.answer = "sent" <=> Taken(t) # 0)
               /\ c.answer = "sent" =>
                    \/ Taken(t) = Length(c.op)
                    \/ c.op = "sendfile" /\ Taken(t) = Least(Size, FileSize)
               /\ c.answer = "timeout" => c.late
               /\ c.answer = "canceled" => fd[c.sock] = NoFd \/ <<c.sock, Dir(c)>> \in shut
               /\ c.answer = "eof" => Disturbed(c.sock)
    <3>1. Counters(t, co[t]) /\ Caused(co[t]) /\ Counted(t)
      BY DEF AnswerInv, Told
    <3>2. co[t].op \in Ops(t) /\ co[t].sock \in Sock
      BY <2>2, <3>1 DEF Counters, AnswerInv, IoInv, LocksInv, SocksInv
    <3>3. co[t].op # "read" => Went(co[t]) = Taken(t)
      BY <3>1, <3>2, IoAssumption DEF Counted, Sending, Taken, Ops
    <3>4. co[t].op = "read" => co[t].answer # "sent"
      BY <3>1 DEF Caused, Sending
    <3> QED
      BY <3>1, <3>3, <3>4 DEF Caused, Counters, Cut, Went
  <2> QED
    BY <2>1, <2>2 DEF AnswersTrue
<1> QED
  BY <1>1, AnswerInvariant, PTL
-------------------------------------------------------------------------------
(* Refinement: the calls that wait to go on sending are the speakers of    *)
(* the abstract connections.                                               *)

(* At most one call is inside its sending loop on a socket.                *)
LEMMA OneTalks ==
  ASSUME AnswerInv, NEW s \in Sock, NEW t \in Talks(s), NEW u \in Talks(s) PROVE t = u
<1>1. /\ t \in Task /\ u \in Task /\ co[t].at = "wait" /\ co[u].at = "wait"
      /\ co[t].op # "read" /\ co[u].op # "read" /\ co[t].sock = s /\ co[u].sock = s
  BY DEF Talks
<1>2. co[t].num # NoFd /\ co[u].num # NoFd
  BY <1>1 DEF AnswerInv, NumbersInv
<1>3. co[t].num = co[u].num
  BY <1>1, <1>2 DEF AnswerInv, NumbersInv, Underway
<1>4. Dir(co[t]) = Dir(co[u])
  BY <1>1 DEF Dir
<1> QED
  BY <1>1, <1>3, <1>4 DEF AnswerInv, IoInv, LocksInv, WaitersHold

(* The speaker of a socket is the one call that waits to go on sending.    *)
LEMMA SpeakerIs ==
  ASSUME AnswerInv, NEW s \in Sock
  PROVE  /\ Talks(s) = {} => Speaker[s] = None
         /\ \A t \in Talks(s) : Speaker[s] = t /\ t # None
<1>1. Speaker[s] = IF Talks(s) = {} THEN None ELSE CHOOSE t \in Talks(s) : TRUE
  BY DEF Speaker
<1>2. ASSUME NEW t \in Talks(s) PROVE Speaker[s] = t /\ t # None
  <2>1. (CHOOSE u \in Talks(s) : TRUE) \in Talks(s)
    BY <1>2
  <2>2. (CHOOSE u \in Talks(s) : TRUE) = t
    BY <1>2, <2>1, OneTalks
  <2>3. t \in Task
    BY <1>2 DEF Talks
  <2> QED
    BY <1>1, <1>2, <2>2, <2>3, IoAssumption
<1> QED
  BY <1>1, <1>2

(* The bytes of a call are those of its message, from where it stopped.    *)
LEMMA BytesAgree ==
  ASSUME NEW t \in Task, NEW c, Loaded(t, c), NEW n \in 0..Size, NEW m \in Nat, m = c.sent
  PROVE  Bytes(t, c, n) = Stream!Bytes(t, m + 1, m + n)
<1>1. c.sent \in Int /\ c.left \in Int /\ Length(c.op) \in Int /\ n \in Nat
      /\ c.left = Length(c.op) - c.sent
  BY IoAssumption DEF Loaded, Length
<1>2. c.cmsg = (t \in Carries /\ c.sent = 0)
  BY DEF Loaded
<1>3. (m + n) - (m + 1) + 1 = n
  BY <1>1
<1>4. ASSUME NEW k \in 1..n
      PROVE  /\ Length(c.op) - c.left + k = m + 1 + k - 1
             /\ (c.cmsg /\ k = 1) = (t \in Carries /\ m + 1 + k = 2)
  <2>1. Length(c.op) - c.left + k = m + 1 + k - 1
    BY <1>1
  <2>2. m = 0 /\ k = 1 <=> m + 1 + k = 2
    BY <1>1
  <2>3. (c.cmsg /\ k = 1) = (t \in Carries /\ m + 1 + k = 2)
    BY <1>2, <2>2, Zenon
  <2> QED
    BY <2>1, <2>3
<1> QED
  BY <1>3, <1>4 DEF Bytes, Stream!Bytes
(* Who speaks when the calls w are inside their loops.                     *)
Voice(w) == IF w = {} THEN None ELSE CHOOSE t \in w : TRUE

(* Speaker, by the calls inside their loops.                               *)
LEMMA SpeakerVoice ==
  /\ Speaker = [s \in Sock |-> Voice(Talks(s))]
  /\ Speaker' = [s \in Sock |-> Voice(Talks(s)')]
BY DEF Speaker, Voice

(* A step that sends nothing and lets the same calls wait.                 *)
LEMMA Silent ==
  ASSUME stream' = stream, \A s \in Sock : Talks(s)' = Talks(s)
  PROVE  UNCHANGED Stream!vars
<1>1. \A s \in Sock : Voice(Talks(s)') = Voice(Talks(s))
  OBVIOUS
<1>2. Speaker' = Speaker
  BY <1>1, SpeakerVoice
<1> QED
  BY <1>2 DEF Stream!vars

(* A step that leaves each call where it is, and on what it is.            *)
LEMMA SilentCalls ==
  ASSUME stream' = stream,
         \A t \in Task : (co'[t].at = "wait") = (co[t].at = "wait")
                         /\ (co[t].at = "wait" => co'[t].op = co[t].op /\ co'[t].sock = co[t].sock)
  PROVE  UNCHANGED Stream!vars
<1>1. ASSUME NEW s \in Sock PROVE Talks(s)' = Talks(s)
  BY DEF Talks
<1> QED
  BY <1>1, Silent

(* The calls that wait on s after a step of the only one that did.         *)
LEMMA TurnSpeaks ==
  ASSUME NEW t \in Task, NEW s \in Sock, NEW r, co \in [Task -> Call],
         co' = [co EXCEPT ![t] = r], Talks(s) \subseteq {t},
         co[t].sock = s, r.sock = s, r.op = co[t].op, r.op # "read"
  PROVE  Speaker' = [Speaker EXCEPT ![s] = IF r.at = "wait" THEN t ELSE None]
<1>1. co'[t] = r /\ \A u \in Task \ {t} : co'[u] = co[u]
  OBVIOUS
<1>2. ASSUME NEW x \in Sock \ {s} PROVE Talks(x)' = Talks(x)
  BY <1>1 DEF Talks
<1>3. Talks(s)' = IF r.at = "wait" THEN {t} ELSE {}
  <2>1. ASSUME NEW u \in Talks(s)' PROVE u = t
    BY <1>1, <2>1 DEF Talks
  <2>2. t \in Talks(s)' <=> r.at = "wait"
    BY <1>1 DEF Talks
  <2> QED
    BY <2>1, <2>2
<1> DEFINE now == IF r.at = "wait" THEN t ELSE None
<1>4. ASSUME NEW x \in Sock
      PROVE  Voice(Talks(x)') = IF x = s THEN now ELSE Voice(Talks(x))
  <2>1. CASE x = s /\ r.at = "wait"
    <3>1. Voice({t}) = t
      BY DEF Voice
    <3> QED
      BY <1>3, <2>1, <3>1
  <2>2. CASE x = s /\ r.at # "wait"
    <3>1. Voice({}) = None
      BY DEF Voice
    <3> QED
      BY <1>3, <2>2, <3>1
  <2>3. CASE x # s
    BY <1>2, <2>3
  <2> QED
    BY <2>1, <2>2, <2>3
<1> HIDE DEF now
<1>5. Speaker' = [x \in Sock |-> IF x = s THEN now ELSE Speaker[x]]
  BY <1>4, SpeakerVoice
<1>6. Speaker' = [Speaker EXCEPT ![s] = now]
  <2>1. Speaker = [x \in Sock |-> Speaker[x]]
    BY SpeakerVoice
  <2>2. PICK f : f = Speaker
    OBVIOUS
  <2>3. f = [x \in Sock |-> f[x]]
    BY <2>1, <2>2
  <2>4. [f EXCEPT ![s] = now] = [x \in Sock |-> IF x = s THEN now ELSE f[x]]
    BY <2>3
  <2> QED
    BY <1>5, <2>2, <2>4
<1> QED
  BY <1>6 DEF now

(* Nothing goes to a socket that has no number.                            *)
LEMMA ClosedTakesNothing ==
  ASSUME NEW c, fd[c.sock] = NoFd, NEW o \in Outcome(c)
  PROVE  o.n = 0 /\ o.end # "again"
<1>1. ASSUME NEW q \in Accepted(c) PROVE q.n = 0 /\ q.end # "again"
  BY <1>1 DEF Accepted, Usable, Out
<1> QED
  BY <1>1 DEF Outcome, Out
(* Both modules count the bytes of a call alike.                           *)
LEMMA SaidAlike == ASSUME NEW t, NEW s PROVE Stream!Said(t, s) = Said(t, s)
BY DEF Said, Stream!Said, Stream!Cardinality, Cardinality

(* A turn of a sending loop: the call begins to speak, or goes on, or has  *)
(* found its socket closed and is silent.                                  *)
LEMMA SendSpeaks ==
  ASSUME AnswerInv, NEW t \in Task, NEW c, Turning(t, c), Send(t, c)
  PROVE  [Stream!Next]_(Stream!vars)
<1>1. PICK o \in Outcome(c) :
        /\ stream' = [stream EXCEPT ![c.sock] = @ \o Bytes(t, c, o.n)]
        /\ Proceed(t, Continue(After(c, o), o.end))
  BY DEF Send
<1>2. /\ c.op = co[t].op /\ c.sock = co[t].sock /\ Underway(co[t])
      /\ c.op \in Ops(t) /\ c.op # "read"
  BY TurningPlace DEF Send
<1>a. c \in Call
  BY TurningPlace
<1>b. PICK s \in Sock : s = c.sock
  BY TurningPlace
<1>c. co \in [Task -> Call]
  BY TurningPlace
<1>3. Loaded(t, c)
  BY <1>2, TurningLoaded
<1>4. o \in Result /\ Fits(c, o)
  <2>1. DataInv /\ c.op \in Op \ {"read"}
    BY <1>3 DEF AnswerInv, IoInv, Loaded, Ops
  <2> QED
    BY <1>a, <1>b, <1>3, <2>1, OutcomeType, OutcomeFits DEF Loaded
<1>5. PICK r : r = Continue(After(c, o), o.end)
  OBVIOUS
<1>6. Turned(t, c, o.n, r)
  BY <1>3, <1>4, <1>5, LoopCounts
<1>7. co' = [co EXCEPT ![t] = r] /\ co'[t] = r /\ \A u \in Task \ {t} : co'[u] = co[u]
  BY <1>1, <1>c, <1>5 DEF Proceed
<1>8. PICK n \in 0..Size : n = o.n
  BY <1>3, <1>4, IoAssumption DEF Fits, Loaded
<1>9. Told(t) /\ Sending(co[t]) /\ c.sent = co[t].sent /\ c.sent \in Nat
  BY <1>2, <1>3, IoAssumption DEF AnswerInv, Sending, Turning, Ops, Loaded
<1>10. PICK m \in Nat : m = c.sent /\ m = Said(t, s)
  BY <1>b, <1>2, <1>9, TurningWent DEF Told, Counted
<1>11. stream' = [stream EXCEPT ![s] = @ \o Stream!Bytes(t, m + 1, m + n)]
  <2>1. Bytes(t, c, n) = Stream!Bytes(t, m + 1, m + n)
    BY <1>3, <1>10, BytesAgree
  <2> QED
    BY <1>1, <1>b, <1>8, <2>1
<1>12. Stream!Said(t, s) = m
  BY <1>10, SaidAlike
<1>13. ASSUME Talks(s) \subseteq {t} PROVE Stream!Speak(t, s)
  <2>a. co' = [co EXCEPT ![t] = r]
    BY <1>7
  <2>b. co[t].sock = s /\ r.sock = s /\ r.op = co[t].op /\ r.op # "read"
    BY <1>b, <1>2, <1>6 DEF Turned
  <2>1. Speaker' = [Speaker EXCEPT ![s] = IF r.at = "wait" THEN t ELSE None]
    BY <1>c, <1>13, <2>a, <2>b, TurnSpeaks
  <2>2. \E next \in {t, None} : Speaker' = [Speaker EXCEPT ![s] = next]
    BY <2>1
  <2>3. \E k \in 0..Size :
          stream' = [stream EXCEPT ![s] = @ \o Stream!Bytes(t, Stream!Said(t, s) + 1,
                                                            Stream!Said(t, s) + k)]
    BY <1>11, <1>12
  <2> QED
    BY <2>2, <2>3 DEF Stream!Speak
<1>14. CASE co[t].at = "wait"
  <2>1. t \in Talks(s)
    BY <1>b, <1>2, <1>14 DEF Talks
  <2>2. Talks(s) \subseteq {t}
    BY <2>1, OneTalks
  <2>3. Speaker[s] = t /\ t # None
    BY <2>1, SpeakerIs
  <2>4. Stream!GoOn(s)
    BY <1>13, <2>2, <2>3 DEF Stream!GoOn
  <2> QED
    BY <2>4 DEF Stream!Next
<1>15. CASE co[t].at = "lock" /\ fd[s] # NoFd
  <2>1. co[t].num = fd[s]
    BY <1>b, <1>2, <1>15 DEF AnswerInv, NumbersInv
  <2>2. ASSUME NEW u \in Talks(s) PROVE FALSE
    <3>1. u \in Task /\ co[u].at = "wait" /\ co[u].op # "read" /\ co[u].sock = s
      BY DEF Talks
    <3>2. co[u].num = fd[s]
      BY <1>15, <3>1 DEF AnswerInv, NumbersInv, Underway
    <3>3. Dir(co[u]) = Dir(co[t])
      BY <1>2, <3>1 DEF Dir
    <3>4. lock[<<Dir(co[t]), co[t].num>>] = u
      BY <2>1, <3>1, <3>2, <3>3 DEF AnswerInv, IoInv, LocksInv, WaitersHold
    <3>5. lock[<<Dir(co[t]), co[t].num>>] \in {None, t}
      BY DEF Turning, Runs
    <3> QED
      BY <1>15, <3>1, <3>4, <3>5, IoAssumption
  <2>3. Talks(s) = {}
    BY <2>2
  <2>4. Speaker[s] = None
    BY <2>3, SpeakerIs
  <2>5. ASSUME NEW x \in Sock PROVE Stream!Said(t, x) = 0
    <3>1. Went(co[t]) = 0
      BY <1>9, <1>15 DEF Told, Counters, Went
    <3>2. Said(t, x) = 0
      BY <1>9, <3>1 DEF Told, Counted
    <3> QED
      BY <3>2, SaidAlike
  <2>6. Stream!Begin(t, s)
    BY <1>13, <2>3, <2>4, <2>5 DEF Stream!Begin
  <2> QED
    BY <2>6 DEF Stream!Next
<1>16. CASE co[t].at = "lock" /\ fd[s] = NoFd
  <2>1. o.n = 0 /\ o.end # "again"
    BY <1>b, <1>16, ClosedTakesNothing
  <2>2. r.at = "done"
    <3>1. PICK d \in Call : d = After(c, o)
      BY <1>a, <1>4, AfterKeeps DEF Kin
    <3>2. \E a : r = Returned(d, a)
      BY <1>5, <2>1, <3>1, ContinueTells
    <3> QED
      BY <3>2, ReturnedTells
  <2>3. stream' = stream
    <3>1. stream \in [Sock -> Seq(Byte)]
      BY DEF AnswerInv, IoInv, DataInv
    <3>2. PICK q \in Seq(Byte) : q = stream[s]
      BY <3>1
    <3>3. Bytes(t, c, 0) = << >>
      BY DEF Bytes
    <3>4. q \o << >> = q
      BY ConcatEmptySeq
    <3> QED
      BY <1>1, <1>b, <2>1, <3>1, <3>2, <3>3, <3>4
  <2>4. UNCHANGED Stream!vars
    BY <1>7, <1>16, <2>2, <2>3, SilentCalls
  <2> QED
    BY <2>4
<1> QED
  BY <1>b, <1>2, <1>14, <1>15, <1>16 DEF Underway

(* A turn of a receiving loop says nothing.                                *)
LEMMA ReceiveSpeaks ==
  ASSUME AnswerInv, NEW t \in Task, NEW c, Turning(t, c), Receive(t, c)
  PROVE  UNCHANGED Stream!vars
<1>1. /\ c.op = "read" /\ co[t].op = "read" /\ stream' = stream /\ co \in [Task -> Call]
  BY TurningPlace DEF Receive
<1>2. PICK o \in ReceiveOut(c.sock) : Proceed(t, Continue([c EXCEPT !.sent = o.n], o.end))
  BY DEF Receive
<1>3. PICK r : r = Continue([c EXCEPT !.sent = o.n], o.end)
  OBVIOUS
<1>4. co'[t] = r /\ \A u \in Task \ {t} : co'[u] = co[u]
  BY <1>1, <1>2, <1>3 DEF Proceed
<1>5. r.op = "read"
  <2>1. c \in Call
    BY TurningPlace
  <2>2. o.n \in Int
    BY ReceiveType DEF Result
  <2>3. PICK d : d = [c EXCEPT !.sent = o.n]
    OBVIOUS
  <2>4. d.op = "read" /\ d \in Call
    BY <1>1, <2>1, <2>2, <2>3 DEF Call
  <2>5. Parked(d).op = d.op
    BY <2>4, ParkedTells
  <2>6. ASSUME NEW a PROVE Returned(d, a).op = d.op
    BY <2>4, ReturnedTells
  <2> QED
    BY <1>3, <2>3, <2>4, <2>5, <2>6, ContinueTells
<1>6. ASSUME NEW s \in Sock PROVE Talks(s)' = Talks(s)
  BY <1>1, <1>4, <1>5 DEF Talks
<1> QED
  BY <1>1, <1>6, Silent

(* Who was woken goes on with its message, or leaves the connection.       *)
LEMMA ResumeSpeaks ==
  ASSUME AnswerInv, NEW t \in Task, Resume(t) PROVE [Stream!Next]_(Stream!vars)
<1>1. CASE co[t].wake = "ready"
  <2>1. Turning(t, [co[t] EXCEPT !.wake = "none", !.on = NoFd])
    BY ResumeTurns
  <2> QED
    BY <1>1, <2>1, SendSpeaks, ReceiveSpeaks DEF Resume, Run
<1>2. CASE co[t].wake # "ready"
  <2>1. PICK r : r = Returned(co[t], co[t].wake)
    OBVIOUS
  <2>2. co[t] \in Call /\ co[t].sock \in Sock /\ co \in [Task -> Call] /\ Told(t)
    BY UnderwayPlace DEF Resume, Underway, AnswerInv, IoInv, LocksInv, CallsInv
  <2>3. r.at = "done" /\ r.op = co[t].op /\ r.sock = co[t].sock
    BY <2>1, <2>2, ReturnedTells
  <2>4. co' = [co EXCEPT ![t] = r] /\ UNCHANGED data
    BY <1>2, <2>1 DEF Resume, Proceed
  <2>5. stream' = stream
    BY <2>4 DEF data
  <2>6. CASE co[t].op = "read"
    <3>1. ASSUME NEW s \in Sock PROVE Talks(s)' = Talks(s)
      BY <2>2, <2>3, <2>4, <2>6 DEF Talks
    <3> QED
      BY <2>5, <3>1, Silent
  <2>7. CASE co[t].op # "read"
    <3>1. PICK s \in Sock : s = co[t].sock
      BY <2>2
    <3>2. t \in Talks(s)
      BY <2>7, <3>1 DEF Talks, Resume
    <3>3. Talks(s) \subseteq {t}
      BY <3>2, OneTalks
    <3>4. Speaker[s] = t /\ t # None
      BY <3>2, SpeakerIs
    <3>5. Speaker' = [Speaker EXCEPT ![s] = None]
      <4>1. Speaker' = [Speaker EXCEPT ![s] = IF r.at = "wait" THEN t ELSE None]
        BY <2>2, <2>3, <2>4, <2>7, <3>1, <3>3, TurnSpeaks
      <4> QED
        BY <2>3, <4>1
    <3>6. Stream!Said(t, s) \in Nat
      <4>1. Said(t, s) \in Nat
        BY SaidType DEF AnswerInv, IoInv
      <4> QED
        BY <4>1, SaidAlike
    <3>7. stream' = [stream EXCEPT ![s] = @ \o Stream!Bytes(t, Stream!Said(t, s) + 1,
                                                            Stream!Said(t, s) + 0)]
      <4>1. PICK m \in Nat : m = Stream!Said(t, s)
        BY <3>6
      <4>2. (m + 0) - (m + 1) + 1 = 0
        OBVIOUS
      <4>3. Stream!Bytes(t, m + 1, m + 0) = << >>
        BY <4>2 DEF Stream!Bytes
      <4>4. stream \in [Sock -> Seq(Byte)]
        BY DEF AnswerInv, IoInv, DataInv
      <4>5. PICK q \in Seq(Byte) : q = stream[s]
        BY <4>4
      <4>6. q \o << >> = q
        BY ConcatEmptySeq
      <4> QED
        BY <2>5, <4>1, <4>3, <4>4, <4>5, <4>6
    <3>8. 0 \in 0..Size
      BY IoAssumption
    <3>9. Stream!Speak(t, s)
      BY <3>5, <3>7, <3>8 DEF Stream!Speak
    <3>10. Stream!GoOn(s)
      BY <3>4, <3>9 DEF Stream!GoOn
    <3> QED
      BY <3>10 DEF Stream!Next
  <2> QED
    BY <2>6, <2>7
<1> QED
  BY <1>1, <1>2
(* The other steps of a call are silent.                                   *)
LEMMA TaskSpeaks ==
  ASSUME AnswerInv, NEW t \in Task, TaskNext(t) PROVE [Stream!Next]_(Stream!vars)
<1>1. co \in [Task -> Call] /\ co[t] \in Call
  BY DEF AnswerInv, IoInv, LocksInv, CallsInv
<1>2. CASE Start(t)
  <2>1. PICK s \in opened, op \in Ops(t) :
          co' = [co EXCEPT ![t] = [NoCall EXCEPT !.at = "lock", !.op = op, !.sock = s,
                   !.num = fd[s], !.left = IF op = "read" THEN 0 ELSE Length(op),
                   !.cmsg = op # "read" /\ t \in Carries]]
    BY <1>2 DEF Start
  <2>2. co'[t].at = "lock" /\ \A u \in Task \ {t} : co'[u] = co[u]
    <3> DEFINE left == IF op = "read" THEN 0 ELSE Length(op)
               cmsg == op # "read" /\ t \in Carries
    <3>1. PICK r : r = [NoCall EXCEPT !.at = "lock", !.op = op, !.sock = s, !.num = fd[s],
                                      !.left = left, !.cmsg = cmsg]
      OBVIOUS
    <3>2. co' = [co EXCEPT ![t] = r]
      BY <2>1, <3>1
    <3>3. r.at = "lock"
      <4> HIDE DEF left, cmsg
      <4> QED
        BY <3>1 DEF NoCall
    <3> HIDE DEF left, cmsg
    <3> QED
      BY <1>1, <3>2, <3>3
  <2>3. stream' = stream /\ co[t].at = "idle"
    BY <1>2 DEF Start, data
  <2> QED
    BY <2>2, <2>3, SilentCalls
<1>3. CASE Acquire(t)
  <2>1. Turning(t, [co[t] EXCEPT !.late = FALSE])
    BY <1>3, AcquireTurns
  <2> QED
    BY <1>3, <2>1, SendSpeaks, ReceiveSpeaks DEF Acquire, Run
<1>4. ASSUME NEW a, LockFails(t, a) PROVE UNCHANGED Stream!vars
  <2>1. stream' = stream /\ co[t].at = "lock" /\ co' = [co EXCEPT ![t] = Returned(co[t], a)]
    BY <1>4 DEF LockFails, data
  <2>2. Returned(co[t], a).at = "done"
    BY <1>1, ReturnedTells
  <2>3. co'[t].at = "done" /\ \A u \in Task \ {t} : co'[u] = co[u]
    BY <1>1, <2>1, <2>2
  <2> QED
    BY <2>1, <2>3, SilentCalls
<1>5. CASE Resume(t)
  BY <1>5, ResumeSpeaks
<1>6. ASSUME NEW how, Wake(t, how) PROVE UNCHANGED Stream!vars
  <2>1. stream' = stream /\ co' = [co EXCEPT ![t].wake = how]
    BY <1>6 DEF Wake, data
  <2>2. \A u \in Task : co'[u].at = co[u].at /\ co'[u].op = co[u].op /\ co'[u].sock = co[u].sock
    BY <1>1, <2>1 DEF Call
  <2> QED
    BY <2>1, <2>2, SilentCalls
<1>7. CASE Expire(t)
  <2>1. stream' = stream /\ co' = [co EXCEPT ![t].late = TRUE]
    BY <1>7 DEF Expire, data
  <2>2. \A u \in Task : co'[u].at = co[u].at /\ co'[u].op = co[u].op /\ co'[u].sock = co[u].sock
    BY <1>1, <2>1 DEF Call
  <2> QED
    BY <2>1, <2>2, SilentCalls
<1> QED
  BY <1>2, <1>3, <1>4, <1>5, <1>6, <1>7
     DEF TaskNext, LockTimesOut, LockRefused, Ready, TimesOut

(* So is what happens to the sockets: to be told of an end is none yet.    *)
LEMMA SockSpeaks ==
  ASSUME AnswerInv, NEW s \in Sock, SockNext(s) PROVE UNCHANGED Stream!vars
<1>1. stream' = stream
  BY DEF SockNext, Open, Close, CloseHalf, PeerReads, PeerSends, PeerHangsUp, data
<1>2. CASE co' = co
  BY <1>1, <1>2, SilentCalls
<1>3. ASSUME NEW n, NEW dirs, Unwait(n, dirs) PROVE UNCHANGED Stream!vars
  <2>1. \A u \in Task : Kin(co'[u], co[u])
    BY <1>3, UnwaitTells DEF AnswerInv, IoInv, LocksInv
  <2> QED
    BY <1>1, <2>1, SilentCalls DEF Kin
<1> QED
  BY <1>2, <1>3 DEF SockNext, Open, Close, CloseHalf, PeerReads, PeerSends, PeerHangsUp

(* What synchronized calls send stands together on its connection, whole   *)
(* from its first byte on, in order, each byte once, the descriptors with  *)
(* the first byte only: the calls of net.lua implement MessageStream for   *)
(* every number of coroutines, sockets and bytes.                          *)
THEOREM CallsImplementStream == Spec => RefinesStream
<1>1. Init => Stream!Init
  <2> SUFFICES ASSUME Init PROVE Stream!Init
    OBVIOUS
  <2>1. ASSUME NEW s \in Sock PROVE Voice(Talks(s)) = None
    BY DEF Init, NoCall, Talks, Voice
  <2>2. Speaker = [s \in Sock |-> None]
    BY <2>1, SpeakerVoice
  <2> QED
    BY <2>2 DEF Init, Stream!Init
<1>2. AnswerInv /\ [Next]_vars => [Stream!Next]_(Stream!vars)
  <2> SUFFICES ASSUME AnswerInv, [Next]_vars PROVE [Stream!Next]_(Stream!vars)
    OBVIOUS
  <2>1. ASSUME NEW t \in Task, TaskNext(t) PROVE [Stream!Next]_(Stream!vars)
    BY <2>1, TaskSpeaks
  <2>2. ASSUME NEW s \in Sock, SockNext(s) PROVE [Stream!Next]_(Stream!vars)
    BY <2>2, SockSpeaks
  <2>3. CASE UNCHANGED vars
    BY <2>3, SilentCalls DEF vars
  <2> QED
    BY <2>1, <2>2, <2>3 DEF Next
<1> QED
  BY <1>1, <1>2, AnswerInvariant, PTL DEF Spec, RefinesStream, Stream!Spec
===============================================================================
