------------------------------ MODULE ScmRights ------------------------------
(***************************************************************************)
(* Descriptors received over a unix socket (scm_rights.c, cmsghdr.c, the   *)
(* receive calls of socket.c).  Once recvmsg(2) returned, the descriptors  *)
(* of the message are open in this process; a queue, a fixed array in a    *)
(* userdata, owns them until the program gets them or the queue is closed  *)
(* or collected.  recvmsg() then builds its answer with many allocations,  *)
(* each of which may fail or run finalizers, and splits the queue when     *)
(* the message had several lists of descriptors.                           *)
(***************************************************************************)
EXTENDS Naturals, FiniteSets, SequencesExt

CONSTANTS
  File,      \* open files a peer sends, one descriptor each
  Queue,     \* queue userdata; a collected one makes room for another
  MaxFd,     \* NET_SCM_MAX_FD
  MaxCmsg    \* control messages in one message

ASSUME RightsAssumption ==
  IsFiniteSet(File) /\ MaxFd \in Nat \ {0} /\ MaxCmsg \in Nat

VARIABLES
  flight,    \* files not received yet
  mine,      \* descriptors that get() gave to the program
  closed,    \* how often each descriptor was closed
  qst,       \* "free", "call" (used by a call), "held", "garbage"
  fds,       \* the array of each queue; get() takes from its end
  call,      \* the recvmsg() in progress: the control messages left, its
             \* queue, and the data fields built so far
  part,      \* the list each queue was made for, as the peer sent it
  taken      \* what get() took out of each queue

vars == <<flight, mine, closed, qst, fds, call, part, taken>>

(* A control message is a list of descriptors or something else.  The      *)
(* kernel delivers a message with at most MaxCmsg of them in the buffer.   *)
Other == <<"other">>
Injective(s) == \A i, j \in DOMAIN s : i # j => s[i] # s[j]
Lists == {s \in SeqOf(File, Cardinality(File)) : Injective(s)}
IsRights(cm) == cm # Other

(* All descriptors of a message, one list after the other. *)
Listed(cm) == IF IsRights(cm) THEN cm ELSE <<>>
Rights(m) ==
  LET from[i \in 1..(Len(m) + 1)] == IF i > Len(m) THEN <<>> ELSE Listed(m[i]) \o from[i + 1]
  IN  from[1]

Messages == {m \in SeqOf(Lists \union {Other}, MaxCmsg) : Rights(m) \in Lists}

NoCall == [todo |-> <<>>, owner |-> {}, data |-> <<>>]

Init ==
  /\ flight = File /\ mine = {} /\ closed = [f \in File |-> 0]
  /\ qst = [q \in Queue |-> "free"] /\ fds = [q \in Queue |-> <<>>]
  /\ call = NoCall
  /\ part = [q \in Queue |-> <<>>] /\ taken = [q \in Queue |-> <<>>]

CloseAll(fs) == [f \in File |-> IF f \in fs THEN closed[f] + 1 ELSE closed[f]]

-----------------------------------------------------------------------------
(* net_scm_rights_fill: descriptors beyond the array are closed, and the   *)
(* array is reversed so that get() finds the first one at its end.         *)
Fits(l) == Len(l) <= MaxFd

Kept(l) == SubSeq(l, 1, IF Fits(l) THEN Len(l) ELSE MaxFd)
Excess(l) == SubSeq(l, MaxFd + 1, Len(l))

(* Mutants of Filled: the order is left as received; no end to the array. *)
FilledForward(l) == Kept(l)
FilledAll(l) == Reverse(l)

Filled(l) == Reverse(Kept(l))

(* recvfd(): all descriptors of a message in one queue, or an error and    *)
(* none of them: too many, or close-on-exec could not be set on one.  A    *)
(* queue without descriptors is not returned.                              *)
RecvFd(q, m) ==
  LET l == Rights(m) IN
  /\ call = NoCall /\ qst[q] = "free" /\ ToSet(l) \subseteq flight
  /\ flight' = flight \ ToSet(l)
  /\ \/ /\ Fits(l)
        /\ qst' = [qst EXCEPT ![q] = IF l = <<>> THEN "garbage" ELSE "held"]
        /\ fds' = [fds EXCEPT ![q] = Filled(l)]
        /\ part' = [part EXCEPT ![q] = l]
        /\ closed' = closed
     \/ /\ l # <<>>
        /\ qst' = [qst EXCEPT ![q] = "garbage"]
        /\ closed' = CloseAll(ToSet(l))
        /\ UNCHANGED <<fds, part>>
  /\ UNCHANGED <<mine, call, taken>>

-----------------------------------------------------------------------------
(* recvmsg(): the queue takes the descriptors before the first allocation  *)
(* that could fail.  With too many, or when close-on-exec can not be set,  *)
(* the call raises an error; the queue is garbage that owns what fitted.   *)
RecvMsg(q, m) ==
  LET l == Rights(m) IN
  /\ call = NoCall /\ qst[q] = "free" /\ ToSet(l) \subseteq flight
  /\ flight' = flight \ ToSet(l)
  /\ fds' = [fds EXCEPT ![q] = Filled(l)]
  /\ closed' = CloseAll(ToSet(Excess(l)))
  /\ \/ /\ Fits(l)
        /\ qst' = [qst EXCEPT ![q] = "call"]
        /\ call' = [todo |-> m, owner |-> {q}, data |-> <<>>]
     \/ /\ l # <<>>
        /\ qst' = [qst EXCEPT ![q] = "garbage"]
        /\ call' = call
  /\ UNCHANGED <<mine, part, taken>>

Owner == CHOOSE q \in Queue : call.owner = {q}

(* The n descriptors at the end of the array go to another queue, popped   *)
(* one by one and then reversed.                                           *)
SplitOff(s, n) == SubSeq(s, Len(s) - n + 1, Len(s))

Remaining(s, n) == SubSeq(s, 1, Len(s) - n)

(* push_rights_data: the list that is all the queue has left gets the      *)
(* queue itself, an earlier or an empty one gets a queue of its own.       *)
PushRights(q) ==
  /\ call # NoCall /\ call.todo # <<>> /\ IsRights(Head(call.todo))
  /\ LET o == Owner
         l == Head(call.todo)
         n == Len(l)
         whole == n > 0 /\ n = Len(fds[o])
         p == IF whole THEN o ELSE q
     IN  /\ n <= Len(fds[o])
         /\ ~whole => qst[q] = "free"
         /\ qst' = [qst EXCEPT ![p] = "call"]
         /\ fds' = IF whole THEN fds
                   ELSE [fds EXCEPT ![q] = SplitOff(fds[o], n), ![o] = Remaining(@, n)]
         /\ part' = [part EXCEPT ![p] = l]
         /\ call' = [call EXCEPT !.todo = Tail(@), !.data = Append(@, p)]
  /\ UNCHANGED <<flight, mine, closed, taken>>

PushOther ==
  /\ call # NoCall /\ call.todo # <<>> /\ ~IsRights(Head(call.todo))
  /\ call' = [call EXCEPT !.todo = Tail(@)]
  /\ UNCHANGED <<flight, mine, closed, qst, fds, part, taken>>

(* The call returns: the queues in the answer are the program's, and the   *)
(* call's own is garbage unless it is among them.                          *)
Return ==
  /\ call # NoCall /\ call.todo = <<>>
  /\ qst' = [q \in Queue |-> IF qst[q] # "call" THEN qst[q]
                             ELSE IF q \in ToSet(call.data) THEN "held" ELSE "garbage"]
  /\ call' = NoCall
  /\ UNCHANGED <<flight, mine, closed, fds, part, taken>>

(* An allocation fails, or the count does not match: the call raises an    *)
(* error and everything it made is garbage.                                *)
Fail ==
  /\ call # NoCall
  /\ qst' = [q \in Queue |-> IF qst[q] = "call" THEN "garbage" ELSE qst[q]]
  /\ call' = NoCall
  /\ UNCHANGED <<flight, mine, closed, fds, part, taken>>

-----------------------------------------------------------------------------
(* The program, also from finalizers that run inside recvmsg().            *)

Get(q) ==
  /\ qst[q] = "held" /\ fds[q] # <<>>
  /\ mine' = mine \union {Last(fds[q])}
  /\ fds' = [fds EXCEPT ![q] = Front(@)]
  /\ taken' = [taken EXCEPT ![q] = Append(@, Last(fds[q]))]
  /\ UNCHANGED <<flight, closed, qst, call, part>>

(* close(), which leaves an empty queue that can be used and closed again. *)
CloseQueue(q) ==
  /\ qst[q] = "held"
  /\ closed' = CloseAll(ToSet(fds[q]))
  /\ fds' = [fds EXCEPT ![q] = <<>>]
  /\ UNCHANGED <<flight, mine, qst, call, part, taken>>

CloseFd(f) ==
  /\ f \in mine
  /\ mine' = mine \ {f}
  /\ closed' = CloseAll({f})
  /\ UNCHANGED <<flight, qst, fds, call, part, taken>>

Drop(q) ==
  /\ qst[q] = "held"
  /\ qst' = [qst EXCEPT ![q] = "garbage"]
  /\ UNCHANGED <<flight, mine, closed, fds, call, part, taken>>

(* Mutant of Collect: there is no finalizer. *)
CollectSilently(q) ==
  /\ qst[q] = "garbage"
  /\ qst' = [qst EXCEPT ![q] = "free"]
  /\ fds' = [fds EXCEPT ![q] = <<>>]
  /\ part' = [part EXCEPT ![q] = <<>>] /\ taken' = [taken EXCEPT ![q] = <<>>]
  /\ UNCHANGED <<flight, mine, closed, call>>

(* __gc closes what is left. *)
Collect(q) ==
  /\ qst[q] = "garbage"
  /\ closed' = CloseAll(ToSet(fds[q]))
  /\ qst' = [qst EXCEPT ![q] = "free"]
  /\ fds' = [fds EXCEPT ![q] = <<>>]
  /\ part' = [part EXCEPT ![q] = <<>>] /\ taken' = [taken EXCEPT ![q] = <<>>]
  /\ UNCHANGED <<flight, mine, call>>

Next ==
  \/ \E q \in Queue :
       \/ \E m \in Messages : RecvFd(q, m) \/ RecvMsg(q, m)
       \/ PushRights(q) \/ Get(q) \/ CloseQueue(q) \/ Drop(q) \/ Collect(q)
  \/ PushOther \/ Return \/ Fail
  \/ \E f \in File : CloseFd(f)

Spec == Init /\ [][Next]_vars

-----------------------------------------------------------------------------
TypeOK ==
  /\ flight \subseteq File /\ mine \subseteq File /\ closed \in [File -> Nat]
  /\ qst \in [Queue -> {"free", "call", "held", "garbage"}]
  /\ \A q \in Queue : fds[q] \in Seq(File) /\ Len(fds[q]) <= MaxFd
  /\ \A q \in Queue : part[q] \in Seq(File) /\ taken[q] \in Seq(File)
  /\ call.owner \subseteq Queue /\ call.data \in Seq(Queue)

Slot == Queue \X (1..MaxFd)
InQueue(f) == {s \in Slot : s[2] \in DOMAIN fds[s[1]] /\ fds[s[1]][s[2]] = f}

(* Every descriptor has exactly one owner at any time: a message on its    *)
(* way, a slot of one queue, or the program; and when it has none, it was  *)
(* closed, once.  No split, full array, failed allocation, close or        *)
(* finalizer leaks a descriptor or closes one twice (by then its number    *)
(* could be somebody else's).                                              *)
OneOwner ==
  \A f \in File :
    (IF f \in flight THEN 1 ELSE 0) + (IF f \in mine THEN 1 ELSE 0)
      + Cardinality(InQueue(f)) + closed[f] = 1

(* A queue the program gets is the complete list of one control message,   *)
(* and get() gives its descriptors out in the order they were sent; only   *)
(* close() empties it otherwise.  An answer holds one queue for each list  *)
(* of the message, and no descriptor stays behind in the queue the call    *)
(* received them in.                                                       *)
DeliveredInOrder ==
  /\ \A q \in Queue : qst[q] = "held" /\ fds[q] # <<>> =>
       taken[q] \o Reverse(fds[q]) = part[q]
  /\ call # NoCall /\ call.todo = <<>> =>
       /\ Injective(call.data)
       /\ \A i \in DOMAIN call.data : Reverse(fds[call.data[i]]) = part[call.data[i]]
       /\ Owner \in ToSet(call.data) \/ fds[Owner] = <<>>
=============================================================================
