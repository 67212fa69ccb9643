-------------------------- MODULE SocketLifecycle --------------------------
(***************************************************************************)
(* The life of native sockets (socket.c, gcthread.c): who owns a file      *)
(* descriptor, and the callbacks registered with addgcfn() that run when   *)
(* the socket is closed, unwrapped or collected.                           *)
(*                                                                         *)
(* Everything runs on one thread, but not one call at a time: closing a    *)
(* socket runs callbacks, a callback may call any socket function again,   *)
(* and any allocation may run finalizers.  `stack` is the C stack of calls *)
(* that are waiting for such code to return.                               *)
(***************************************************************************)
EXTENDS Integers, Sequences, SequencesExt, FiniteSets

CONSTANTS
  Socket,         \* socket userdata
  Callback,       \* registrations; each is used once
  Fd,             \* descriptor numbers of the process
  Addr,           \* addresses a callback's closure can have
  MaxDepth,       \* how deep calls may nest
  NestedUnwrap,   \* whether a callback may unwrap the socket being drained
  StaleHandles    \* whether delgcfn may get the handle of a callback that
                  \* is gone

ASSUME LifecycleAssumption ==
  /\ Fd \subseteq Nat /\ MaxDepth \in Nat /\ "user" \notin Socket
  /\ NestedUnwrap \in BOOLEAN /\ StaleHandles \in BOOLEAN

NoFd == -1
User == "user"

VARIABLES
  state,     \* "unborn", "live" or "dead" (collected, or its metatable gone)
  fd,        \* the field s->fd
  thread,    \* s->gc_thread is not NULL
  cbs,       \* the callbacks on the gc thread, newest last
  stack,     \* calls in progress, innermost last
  owner,     \* descriptors open in the kernel, and who is to close them
  stray,     \* a close hit a descriptor its caller did not own
  addr,      \* address of each callback's closure: the handle of addgcfn
  fate,      \* what became of each callback
  deleted    \* the last delgcfn: the callback meant and the one removed

vars == <<state, fd, thread, cbs, stack, owner, stray, addr, fate, deleted>>

Frame == [fn: {"add", "close", "gc", "unwrap", "callback"}, s: Socket,
          fd: Fd \union {NoFd}, todo: Seq(Callback), c: Seq(Callback)]

Init ==
  /\ state = [s \in Socket |-> "unborn"]
  /\ fd = [s \in Socket |-> NoFd]
  /\ thread = [s \in Socket |-> FALSE]
  /\ cbs = [s \in Socket |-> <<>>]
  /\ stack = <<>> /\ owner = << >> /\ stray = FALSE
  /\ addr = << >> /\ fate = [c \in Callback |-> "new"] /\ deleted = <<>>

-----------------------------------------------------------------------------
Top == Last(stack)
Running == IF stack = <<>> THEN "main" ELSE Top.fn
Below == SubSeq(stack, 1, Len(stack) - 1)

(* Lua code runs at the bottom of the stack, in a callback, or, as a       *)
(* finalizer, inside the allocations of addgcfn.                           *)
LuaRuns == Running \in {"main", "callback", "add"}
MayCall == LuaRuns /\ Len(stack) < MaxDepth

OnStack(s) == \E i \in DOMAIN stack : stack[i].s = s
Draining(s) == \E i \in DOMAIN stack :
                 stack[i].s = s /\ stack[i].fn \in {"close", "gc", "unwrap"}

Call(fn, s, f, todo, c) ==
  stack' = Append(stack, [fn |-> fn, s |-> s, fd |-> f, todo |-> todo, c |-> c])

Open(f, who) == [g \in DOMAIN owner \union {f} |-> IF g = f THEN who ELSE owner[g]]
Shut(f) == [g \in DOMAIN owner \ {f} |-> owner[g]]
FreeFds == Fd \ DOMAIN owner

-----------------------------------------------------------------------------
(* Construction.  net_socket_new makes the userdata and its gc thread with *)
(* fd = -1; the descriptor is stored only when every step succeeded.       *)

Born(ss, fds) ==
  /\ state' = [s \in Socket |-> IF s \in ss THEN "live" ELSE state[s]]
  /\ thread' = [s \in Socket |-> s \in ss \/ thread[s]]
  /\ fd' = [s \in Socket |-> IF s \in ss THEN fds[s] ELSE fd[s]]
  /\ UNCHANGED <<cbs, stack, stray, addr, fate, deleted>>

(* socket(), accept() or dup() succeeded, or failed and left a socket      *)
(* without a descriptor for the collector.                                 *)
New(s) ==
  /\ LuaRuns /\ state[s] = "unborn"
  /\ \/ \E f \in FreeFds :
          /\ owner' = Open(f, s)
          /\ Born({s}, [x \in {s} |-> f])
     \/ owner' = owner /\ Born({s}, [x \in {s} |-> NoFd])

(* socketpair(): both sockets get a descriptor or neither does. *)
Pair(s, t) ==
  /\ LuaRuns /\ s # t /\ state[s] = "unborn" /\ state[t] = "unborn"
  /\ \/ \E f, g \in FreeFds :
          /\ f # g
          /\ owner' = [h \in DOMAIN owner \union {f, g} |->
                         CASE h = f -> s [] h = g -> t [] OTHER -> owner[h]]
          /\ Born({s, t}, [x \in {s, t} |-> IF x = s THEN f ELSE g])
     \/ owner' = owner /\ Born({s, t}, [x \in {s, t} |-> NoFd])

(* wrap(fd) of a descriptor the program owns: it changes hands only after  *)
(* all the checks passed.                                                  *)
Wrap(s, f) ==
  /\ LuaRuns /\ state[s] = "unborn"
  /\ f \in DOMAIN owner /\ owner[f] = User
  /\ \/ owner' = Open(f, s) /\ Born({s}, [x \in {s} |-> f])
     \/ owner' = owner /\ Born({s}, [x \in {s} |-> NoFd])

(* acceptfd() gives the program a bare descriptor. *)
AcceptFd(f) ==
  /\ LuaRuns /\ f \in FreeFds
  /\ owner' = Open(f, User)
  /\ UNCHANGED <<state, fd, thread, cbs, stack, stray, addr, fate, deleted>>

(* The program closes a bare descriptor of its own. *)
CloseFd(f) ==
  /\ LuaRuns /\ f \in DOMAIN owner /\ owner[f] = User
  /\ owner' = Shut(f)
  /\ UNCHANGED <<state, fd, thread, cbs, stack, stray, addr, fate, deleted>>

-----------------------------------------------------------------------------
(* addgcfn and delgcfn.                                                    *)

(* A socket whose gc thread is gone refuses.  Otherwise the closure and    *)
(* its handle are built, and these allocations may run finalizers.         *)
AddStart(s, c) ==
  /\ MayCall /\ state[s] = "live" /\ fate[c] = "new"
  /\ \/ ~thread[s] /\ fate' = [fate EXCEPT ![c] = "refused"] /\ stack' = stack
     \/ /\ thread[s]
        /\ fate' = [fate EXCEPT ![c] = "building"]
        /\ Call("add", s, NoFd, <<>>, <<c>>)
  /\ UNCHANGED <<state, fd, thread, cbs, owner, stray, addr, deleted>>

(* Addresses of the closures that still exist. *)
Alive(c) == fate[c] \in {"registered", "draining", "running"}
AddrsInUse == {addr[c] : c \in {d \in Callback : Alive(d)}}

(* Mutant of AddFinish: does not look at the thread again. *)
AddFinishUnchecked ==
  /\ Running = "add"
  /\ cbs' = [cbs EXCEPT ![Top.s] = Append(@, Top.c[1])]
  /\ fate' = [fate EXCEPT ![Top.c[1]] = "registered"]
  /\ \E a \in Addr \ AddrsInUse :
       addr' = [d \in DOMAIN addr \union {Top.c[1]} |-> IF d = Top.c[1] THEN a ELSE addr[d]]
  /\ stack' = Below
  /\ UNCHANGED <<state, fd, thread, owner, stray, deleted>>

(* The thread is looked at again before the closure goes on it: a          *)
(* finalizer may have closed the socket meanwhile.  An allocation may also *)
(* have failed; nothing is registered then.                                *)
AddFinish ==
  /\ Running = "add"
  /\ LET s == Top.s
         c == Top.c[1]
     IN  \/ /\ thread[s]
            /\ cbs' = [cbs EXCEPT ![s] = Append(@, c)]
            /\ fate' = [fate EXCEPT ![c] = "registered"]
            /\ \E a \in Addr \ AddrsInUse :
                 addr' = [d \in DOMAIN addr \union {c} |->
                            IF d = c THEN a ELSE addr[d]]
         \/ /\ fate' = [fate EXCEPT ![c] = "refused"]
            /\ UNCHANGED <<cbs, addr>>
  /\ stack' = Below
  /\ UNCHANGED <<state, fd, thread, owner, stray, deleted>>

(* delgcfn(handle): the handle is the closure's address, looked for on the *)
(* thread from the oldest callback on.                                     *)
Match(s, a) == {i \in DOMAIN cbs[s] : addr[cbs[s][i]] = a}

Del(s, c) ==
  /\ LuaRuns /\ state[s] = "live"
  /\ c \in DOMAIN addr
  /\ StaleHandles \/ fate[c] = "registered"
  /\ \/ /\ thread[s]
        /\ \E i \in Match(s, addr[c]) :
             /\ \A k \in Match(s, addr[c]) : i <= k
             /\ cbs' = [cbs EXCEPT ![s] = RemoveAt(@, i)]
             /\ fate' = [fate EXCEPT ![cbs[s][i]] = "removed"]
             /\ deleted' = <<c, cbs[s][i]>>
     \/ /\ ~thread[s] \/ Match(s, addr[c]) = {}
        /\ UNCHANGED <<cbs, fate, deleted>>
  /\ UNCHANGED <<state, fd, thread, stack, owner, stray, addr>>

-----------------------------------------------------------------------------
(* Disposal.  net_gcthread_close detaches the thread before the first      *)
(* callback runs; a second close of the same socket finds it gone.         *)

Detach(fn, s) ==
  /\ thread' = [thread EXCEPT ![s] = FALSE]
  /\ cbs' = [cbs EXCEPT ![s] = <<>>]
  /\ fate' = [c \in Callback |->
                IF \E i \in DOMAIN cbs[s] : cbs[s][i] = c THEN "draining" ELSE fate[c]]
  /\ Call(fn, s, fd[s], cbs[s], <<>>)

(* Mutant of Close: marks the socket closed before the callbacks run. *)
CloseEarly(s) ==
  /\ MayCall /\ state[s] = "live"
  /\ fd[s] # NoFd /\ thread[s]
  /\ Detach("close", s)
  /\ fd' = [fd EXCEPT ![s] = NoFd]
  /\ UNCHANGED <<state, owner, stray, addr, deleted>>

(* close(): nothing to do for a closed socket, nor inside its own drain.   *)
(* Otherwise the descriptor is remembered and the callbacks run first.     *)
Close(s) ==
  /\ MayCall /\ state[s] = "live"
  /\ fd[s] # NoFd /\ thread[s]
  /\ Detach("close", s)
  /\ UNCHANGED <<state, fd, owner, stray, addr, deleted>>

(* __gc of a socket nobody refers to any more. *)
Collect(s) ==
  /\ MayCall /\ state[s] = "live" /\ ~OnStack(s)
  /\ Detach("gc", s)
  /\ UNCHANGED <<state, fd, owner, stray, addr, deleted>>

(* unwrap(): the same drain, but it goes on when the thread is already     *)
(* gone, also when another call of the same socket is draining it.         *)
Unwrap(s) ==
  /\ MayCall /\ state[s] = "live"
  /\ Draining(s) => NestedUnwrap
  /\ Detach("unwrap", s)
  /\ UNCHANGED <<state, fd, owner, stray, addr, deleted>>

Drains == {"close", "gc", "unwrap"}

(* Mutant of RunCallback: the callback is called but not popped. *)
RunCallbackAgain ==
  /\ Running \in Drains /\ Top.todo # <<>>
  /\ fate' = [fate EXCEPT ![Last(Top.todo)] = "running"]
  /\ stack' = Append(stack, [fn |-> "callback", s |-> Top.s, fd |-> NoFd,
                             todo |-> <<>>, c |-> <<Last(Top.todo)>>])
  /\ UNCHANGED <<state, fd, thread, cbs, owner, stray, addr, deleted>>

(* The newest callback is popped and called. *)
RunCallback ==
  /\ Running \in Drains /\ Top.todo # <<>>
  /\ LET c == Last(Top.todo) IN
       /\ fate' = [fate EXCEPT ![c] = "running"]
       /\ stack' = Below \o <<[Top EXCEPT !.todo = Front(@)],
                              [fn |-> "callback", s |-> Top.s, fd |-> NoFd,
                               todo |-> <<>>, c |-> <<c>>]>>
  /\ UNCHANGED <<state, fd, thread, cbs, owner, stray, addr, deleted>>

(* It returns, or fails and the error is swallowed. *)
CallbackReturns ==
  /\ Running = "callback"
  /\ fate' = [fate EXCEPT ![Top.c[1]] = "ran"]
  /\ stack' = Below
  /\ UNCHANGED <<state, fd, thread, cbs, owner, stray, addr, deleted>>

(* close(2) of f by socket s. *)
KernelClose(s, f) ==
  IF f \in DOMAIN owner
  THEN owner' = Shut(f) /\ stray' = (stray \/ owner[f] # s)
  ELSE owner' = owner /\ stray' = TRUE

(* Mutant of FinishClose: the field keeps the closed descriptor. *)
FinishCloseKeepsFd ==
  /\ Running = "close" /\ Top.todo = <<>>
  /\ KernelClose(Top.s, Top.fd)
  /\ stack' = Below
  /\ UNCHANGED <<state, fd, thread, cbs, addr, fate, deleted>>

(* close() closes the descriptor it remembered from before the callbacks.  *)
FinishClose ==
  /\ Running = "close" /\ Top.todo = <<>>
  /\ fd' = [fd EXCEPT ![Top.s] = NoFd]
  /\ KernelClose(Top.s, Top.fd)
  /\ stack' = Below
  /\ UNCHANGED <<state, thread, cbs, addr, fate, deleted>>

(* Mutant of FinishGc: 0 is taken for `no descriptor`. *)
FinishGcZero ==
  /\ Running = "gc" /\ Top.todo = <<>>
  /\ fd' = [fd EXCEPT ![Top.s] = 0]
  /\ IF fd[Top.s] # NoFd THEN KernelClose(Top.s, fd[Top.s])
                         ELSE UNCHANGED <<owner, stray>>
  /\ state' = [state EXCEPT ![Top.s] = "dead"]
  /\ stack' = Below
  /\ UNCHANGED <<thread, cbs, addr, fate, deleted>>

(* __gc closes the descriptor the socket has after the callbacks. *)
FinishGc ==
  /\ Running = "gc" /\ Top.todo = <<>>
  /\ fd' = [fd EXCEPT ![Top.s] = NoFd]
  /\ IF fd[Top.s] # NoFd THEN KernelClose(Top.s, fd[Top.s])
                         ELSE UNCHANGED <<owner, stray>>
  /\ state' = [state EXCEPT ![Top.s] = "dead"]
  /\ stack' = Below
  /\ UNCHANGED <<thread, cbs, addr, fate, deleted>>

(* Mutant of FinishUnwrap: the field keeps the descriptor given away. *)
FinishUnwrapKeepsFd ==
  /\ Running = "unwrap" /\ Top.todo = <<>>
  /\ state' = [state EXCEPT ![Top.s] = "dead"]
  /\ owner' = IF Top.fd \in DOMAIN owner THEN Open(Top.fd, User) ELSE owner
  /\ stack' = Below
  /\ UNCHANGED <<fd, thread, cbs, stray, addr, fate, deleted>>

(* unwrap() returns the descriptor it read before the callbacks: the       *)
(* program owns it now, and the userdata has lost its methods.             *)
FinishUnwrap ==
  /\ Running = "unwrap" /\ Top.todo = <<>>
  /\ fd' = [fd EXCEPT ![Top.s] = NoFd]
  /\ state' = [state EXCEPT ![Top.s] = "dead"]
  /\ owner' = IF Top.fd \in DOMAIN owner THEN Open(Top.fd, User) ELSE owner
  /\ stack' = Below
  /\ UNCHANGED <<thread, cbs, stray, addr, fate, deleted>>

DrainStep == RunCallback \/ FinishClose \/ FinishGc \/ FinishUnwrap

Next ==
  \/ \E s \in Socket :
       \/ New(s) \/ Close(s) \/ Collect(s) \/ Unwrap(s)
       \/ \E t \in Socket : Pair(s, t)
       \/ \E f \in Fd : Wrap(s, f)
       \/ \E c \in Callback : AddStart(s, c) \/ Del(s, c)
  \/ \E f \in Fd : AcceptFd(f) \/ CloseFd(f)
  \/ AddFinish \/ CallbackReturns
  \/ DrainStep

(* The drain loops are C code and run to their end; callbacks and          *)
(* finalizers return to it.                                                *)
Fairness == WF_vars(DrainStep) /\ WF_vars(CallbackReturns) /\ WF_vars(AddFinish)

Spec == Init /\ [][Next]_vars /\ Fairness

-----------------------------------------------------------------------------
TypeOK ==
  /\ state \in [Socket -> {"unborn", "live", "dead"}]
  /\ fd \in [Socket -> Fd \union {NoFd}]
  /\ thread \in [Socket -> BOOLEAN]
  /\ \A s \in Socket : cbs[s] \in Seq(Callback)
  /\ \A i \in DOMAIN stack : stack[i] \in Frame
  /\ DOMAIN owner \subseteq Fd /\ \A f \in DOMAIN owner : owner[f] \in Socket \union {User}
  /\ stray \in BOOLEAN
  /\ DOMAIN addr \subseteq Callback /\ \A c \in DOMAIN addr : addr[c] \in Addr
  /\ fate \in [Callback -> {"new", "building", "refused", "registered", "removed",
                            "draining", "running", "ran"}]
  /\ deleted \in Seq(Callback)

(* No call closes a descriptor that is not its own: not one it has closed  *)
(* before, nor one it has given away, nor a number that the kernel has     *)
(* meanwhile handed to someone else.  doc/socket.md promises this of       *)
(* unwrap(): the descriptor is not closed, the caller owns it.             *)
NoStrayClose == ~stray

(* Every open descriptor has exactly one owner that will close it: nothing *)
(* leaks on a failed construction, a nested close or a collection, and no  *)
(* socket refers to a descriptor it does not own.                          *)
FdOwned ==
  /\ NoStrayClose
  /\ \A s \in Socket : fd[s] # NoFd => fd[s] \in DOMAIN owner /\ owner[fd[s]] = s
  /\ \A f \in DOMAIN owner : owner[f] # User =>
       fd[owner[f]] = f /\ state[owner[f]] = "live"

(* Callback c is at place i of the gc thread of s, or waits at place i of  *)
(* the drain that is call k.                                               *)
OnThread(c, s, i) == i \in DOMAIN cbs[s] /\ cbs[s][i] = c
InDrain(c, k, i) == i \in DOMAIN stack[k].todo /\ stack[k].todo[i] = c

(* The registered callbacks are those on the threads, each in one place.   *)
RegisteredOnce ==
  /\ \A c \in Callback : fate[c] = "registered" <=>
       \E s \in Socket : \E i \in DOMAIN cbs[s] : OnThread(c, s, i)
  /\ \A s, t \in Socket : \A i \in DOMAIN cbs[s], j \in DOMAIN cbs[t] :
       cbs[s][i] = cbs[t][j] => s = t /\ i = j

(* The callbacks still owed are those of the drains, each in one place.    *)
OwedOnce ==
  /\ \A c \in Callback : fate[c] = "draining" <=>
       \E k \in DOMAIN stack : \E i \in DOMAIN stack[k].todo : InDrain(c, k, i)
  /\ \A k, l \in DOMAIN stack : \A i \in DOMAIN stack[k].todo, j \in DOMAIN stack[l].todo :
       stack[k].todo[i] = stack[l].todo[j] => k = l /\ i = j

(* A callback is in one place at a time: on the thread of a socket that    *)
(* will run it, in a drain, or gone.  In particular none is registered on  *)
(* a socket whose drain has begun, where it would never run, although a    *)
(* finalizer may close the socket in the middle of addgcfn.                *)
CallbackLedger ==
  /\ RegisteredOnce /\ OwedOnce
  /\ \A s \in Socket : ~thread[s] => cbs[s] = <<>>
  /\ \A s \in Socket : state[s] = "dead" => ~thread[s]

(* While a callback runs, the socket still has its descriptor and the      *)
(* descriptor is still open and its own: net.lua's callback tells the      *)
(* poller to forget this number.                                           *)
CallbackSeesLiveFd ==
  \A i \in DOMAIN stack : stack[i].fn = "callback" =>
    LET drain == stack[i - 1]
    IN  drain.fd # NoFd =>
          fd[drain.s] = drain.fd /\ drain.fd \in DOMAIN owner
            /\ owner[drain.fd] = drain.s

(* A callback that ran, was removed or was refused is never run (again).   *)
NeverAgain ==
  [][\A c \in Callback :
       /\ fate[c] \in {"ran", "removed", "refused"} => fate'[c] = fate[c]
       /\ fate'[c] = "running" => fate[c] \in {"running", "draining"}]_vars

(* doc/socket.md: delgcfn() removes the callback identified by the handle, *)
(* and returns false if it is no longer registered.                        *)
HandleNamesItsCallback == deleted = <<>> \/ deleted[1] = deleted[2]

(* A drain that has begun ends, with every callback run and the descriptor *)
(* released, even when callbacks close this or other sockets.              *)
DrainsFinish ==
  \A s \in Socket : Draining(s) ~> (~Draining(s) /\ fd[s] = NoFd)
=============================================================================
