------------------------------ MODULE StreamSetup ------------------------------
(***************************************************************************)
(* How stream sockets come to be (lib/stream/inet.lua, lib/stream/unix.lua,*)
(* lib/stream.lua over the constructors of socket.c): one coroutine        *)
(* connects, trying every resolved address within one budget, another      *)
(* accepts, and the program makes pairs, closes and forgets sockets.       *)
(*                                                                         *)
(* A descriptor is a number until an object holds it.  Memory errors may   *)
(* strike at every allocation, and the collector finalizes what is not     *)
(* held any more, at any time.                                             *)
(***************************************************************************)
EXTENDS Integers, FiniteSets

CONSTANTS
  MaxFd,     \* descriptor numbers go from 0 to MaxFd
  MaxAddr,   \* addresses of a host
  MaxQueue,  \* connections that wait to be accepted
  MaxNow,    \* the clock stops there
  Sec,       \* the timeout a caller gives
  Preset,    \* DEFAULT_CONNECT_TIMEOUT
  Kernel     \* send timeouts a fresh socket may report, 0 for none

ASSUME SetupAssumption ==
  /\ MaxFd \in Nat /\ MaxAddr \in Nat \ {0} /\ MaxQueue \in Nat
  /\ Sec \in Nat /\ Preset \in Nat /\ Kernel \subseteq Nat /\ Preset > 0
  /\ MaxNow \in Nat /\ Sec <= MaxNow /\ Preset <= MaxNow /\ \A k \in Kernel : k <= MaxNow

NoFd == -1
Never == -1
Unknown == -1

(* What holds no number is forgotten, so this is more than ever exist. *)
Obj == 1..(MaxFd + 2)

Fd == 0..MaxFd

VARIABLES
  file,   \* what the kernel has under a number
  obj,    \* sockets and guards: the number each holds, and who holds it
  given,  \* numbers the program got as integers
  con,    \* the connect call
  acc,    \* the accept call
  queue,  \* connections that wait to be accepted
  now     \* the clock

vars == <<file, obj, given, con, acc, queue, now>>

Blank == [what |-> "free", fd |-> NoFd, held |-> FALSE]

(* A connect call: addresses that are left, when the budget ends, whether  *)
(* the caller gave it, the timeout the kernel reported, the socket,        *)
(* whether an error is kept, and the answer.  An accept call: whether it   *)
(* makes a socket, a number, or a number with an address, when its budget  *)
(* ends, and the number it hands over, by itself or in a socket.           *)
NoConnect == [at |-> "idle", kind |-> "inet", todo |-> 0, end |-> Never, given |-> FALSE,
              kernel |-> Unknown, o |-> 0, err |-> FALSE, answer |-> "none"]
NoAccept == [at |-> "idle", kind |-> "sock", end |-> Never, fd |-> NoFd, answer |-> "none"]

Init ==
  /\ file = [n \in Fd |-> "closed"] /\ obj = [o \in Obj |-> Blank] /\ given = {}
  /\ con = NoConnect /\ acc = NoAccept /\ queue = 0 /\ now = 0

-----------------------------------------------------------------------------
(* Objects and numbers.  A world is what a C function changes.             *)

World == [file |-> file, obj |-> obj]
Becomes(w) == file' = w.file /\ obj' = w.obj
AtFd(w, n, state) == [file |-> [w.file EXCEPT ![n] = state], obj |-> w.obj]
AtObj(w, o, x) == [file |-> w.file, obj |-> [w.obj EXCEPT ![o] = x]]

Unused == {o \in Obj : obj[o].what = "free"}
Fresh == CHOOSE o \in Unused : TRUE

(* The kernel gives the lowest number. *)
Lowest(w) ==
  {n \in Fd : w.file[n] = "closed" /\ \A m \in 0..(n - 1) : w.file[m] # "closed"}

Made(w, what) == AtObj(w, Fresh, [what |-> what, fd |-> NoFd, held |-> TRUE])
Put(w, o, n, state) == AtFd(AtObj(w, o, [w.obj[o] EXCEPT !.fd = n]), n, state)

(* What nobody holds and holds nothing is as good as collected. *)
Released(w, o) ==
  AtObj(w, o, IF w.obj[o].fd = NoFd THEN Blank ELSE [w.obj[o] EXCEPT !.held = FALSE])

Closed(w, o) ==
  IF w.obj[o].fd = NoFd THEN w
  ELSE AtFd(AtObj(w, o, [w.obj[o] EXCEPT !.fd = NoFd]), w.obj[o].fd, "closed")

(* A constructor gives up behind socket(2). *)
Abandoned(w, o) == Released(Closed(w, o), o)

Ends(w, end) == [w |-> w, end |-> end]

(* new_socket: the object first, then the descriptor, then its options. *)
NewSocket(w) ==
  LET v == Made(w, "sock") IN
  {Ends(w, "raise"), Ends(Released(v, Fresh), "failed")}
    \union UNION {{Ends(Put(v, Fresh, n, "fresh"), "ok"),
                   Ends(Abandoned(Put(v, Fresh, n, "fresh"), Fresh), "failed")} : n \in Lowest(w)}

(* new_net_socket with one address: connect(2) is done at once, under way, *)
(* or fails, and then the descriptor is closed here.                       *)
ConnectOut(w) ==
  LET made == NewSocket(w) IN
  {r \in made : r.end # "ok"}
    \union UNION {LET n == r.w.obj[Fresh].fd IN
                  {Ends(AtFd(r.w, n, "up"), "now"),
                   Ends(AtFd(r.w, n, "pending"), "again"),
                   Ends(Abandoned(r.w, Fresh), "failed"),
                   Ends(Abandoned(r.w, Fresh), "raise")} : r \in {m \in made : m.end = "ok"}}

-----------------------------------------------------------------------------
(* inet_stream_connect, unix_stream_connect and new_client.                *)

Connected(c, answer) == [c EXCEPT !.at = "done", !.answer = answer]

(* The next address, or the answer after the last one. *)
Another(c) ==
  IF c.todo > 0 THEN [c EXCEPT !.at = "try", !.o = 0]
  ELSE Connected([c EXCEPT !.o = 0], IF c.err THEN "error" ELSE "nothing")

(* The connection stands: the address of the peer is made, and the context *)
(* and the object for TLS.                                                 *)
Established(c, w) ==
  \/ con' = Connected(c, "ok") /\ Becomes(w)
  \/ con' = Connected([c EXCEPT !.o = 0], "tls error") /\ Becomes(Abandoned(w, c.o))
  \/ con' = Connected([c EXCEPT !.o = 0], "raise") /\ Becomes(Released(w, c.o))

Elapsed(c) == Preset - (c.end - now)

(* Mutant of Budgeted: the timeout of the kernel counts from now on. *)
BudgetedAnew(c, k) ==
  IF k > 0 THEN [c EXCEPT !.kernel = k, !.end = now + k] ELSE [c EXCEPT !.kernel = k]

(* Without a timeout of the caller, that of the kernel replaces the budget *)
(* once, less the time that has passed.                                    *)
Budgeted(c, k) ==
  IF k > 0 THEN [c EXCEPT !.kernel = k, !.end = now + k - Elapsed(c)]
  ELSE [c EXCEPT !.kernel = k]

Budgets(c) ==
  IF c.kind = "unix" \/ c.given \/ c.kernel # Unknown THEN {c}
  ELSE {c} \union {Budgeted(c, k) : k \in Kernel}

Spent(c) == c.kind = "inet" /\ now >= c.end

(* connect(2) is under way: wait for it within the budget. *)
Await(c, w) ==
  \/ \E b \in Budgets(c) :
       IF Spent(b)
       THEN con' = Connected([b EXCEPT !.o = 0], "timeout") /\ Becomes(Abandoned(w, c.o))
       ELSE con' = [b EXCEPT !.at = "wait"] /\ Becomes(w)
  \/ con' = Connected([c EXCEPT !.o = 0], "raise") /\ Becomes(Released(w, c.o))

(* Coroutines switch only where they wait: the others stand still. *)
Running == con.at \in {"try", "done"} \/ acc.at = "done"

rest == <<given, acc, queue, now>>

(* getaddrinfo: an error, a memory error, or some addresses. *)
StartConnect(kind, sec) ==
  /\ con.at = "idle" /\ now = 0
  /\ \E n \in 1..(IF kind = "unix" THEN 1 ELSE MaxAddr), a \in {"none", "error", "raise"} :
       LET c == [NoConnect EXCEPT !.kind = kind, !.given = sec, !.todo = n,
                   !.end = IF sec THEN now + Sec
                           ELSE IF kind = "unix" THEN Never ELSE now + Preset] IN
       con' = IF a = "none" THEN [c EXCEPT !.at = "try"] ELSE Connected([c EXCEPT !.todo = 0], a)
  /\ UNCHANGED <<file, obj>> /\ UNCHANGED rest

Attempt ==
  /\ con.at = "try"
  /\ IF Spent(con)
     THEN con' = Connected(con, "timeout") /\ UNCHANGED <<file, obj>>
     ELSE \E r \in ConnectOut(World) :
       LET c == [con EXCEPT !.todo = @ - 1, !.o = Fresh] IN
       CASE r.end = "failed" -> con' = Another([c EXCEPT !.err = TRUE]) /\ Becomes(r.w)
         [] r.end = "raise"  -> con' = Connected([c EXCEPT !.o = 0], "raise") /\ Becomes(r.w)
         [] r.end = "now"    -> Established(c, r.w)
         [] r.end = "again"  -> Await(c, r.w)
  /\ UNCHANGED rest

(* sock:error() reads SO_ERROR, and may fail itself. *)
Verdicts(n) == IF file[n] = "up" THEN {"up", "error", "raise"} ELSE {"error", "raise"}

(* The poller answers. *)
ResumeConnect(how) ==
  LET w == World  closed == Abandoned(w, con.o) IN
  /\ con.at = "wait" /\ ~Running
  /\ CASE how = "timeout"  -> con' = Connected([con EXCEPT !.o = 0], "timeout") /\ Becomes(closed)
       [] how = "error"    -> con' = Another([con EXCEPT !.err = TRUE]) /\ Becomes(closed)
       [] how = "canceled" -> con' = Another(con) /\ Becomes(closed)
       [] how = "ready"    -> \E v \in Verdicts(obj[con.o].fd) :
            CASE v = "up"    -> Established(con, w)
              [] v = "error" -> con' = Another([con EXCEPT !.err = TRUE]) /\ Becomes(closed)
              [] v = "raise" -> /\ con' = Connected([con EXCEPT !.o = 0], "raise")
                                /\ Becomes(Released(w, con.o))
  /\ UNCHANGED rest

-----------------------------------------------------------------------------
(* Server:accept, Server:acceptfd.                                         *)

(* accept(2) and what it sets on the new descriptor: again, an error, an   *)
(* aborted connection, or a number.                                        *)
AcceptOut ==
  {[n |-> NoFd, end |-> e, took |-> 0] : e \in {"again", "failed"}}
    \union IF queue = 0 THEN {}
           ELSE {[n |-> NoFd, end |-> e, took |-> 1] : e \in {"again", "failed"}}
                  \union {[n |-> n, end |-> "ok", took |-> 1] : n \in Lowest(World)}

(* Mutant of Disarmed: the guard keeps its number. *)
DisarmedNot(w, o) == Released(w, o)

(* The caller owns the number now, and the guard none. *)
Disarmed(w, o) == Released(AtObj(w, o, [w.obj[o] EXCEPT !.fd = NoFd]), o)

Accepted(a, answer) == [a EXCEPT !.at = "done", !.answer = answer]
HandsOver(a, n) == [a EXCEPT !.at = "done", !.answer = "ok", !.fd = n]

(* new_connection: plain, or with a TLS context. *)
Served(a, w, o) ==
  \/ acc' = HandsOver(a, w.obj[o].fd) /\ Becomes(w)
  \/ acc' = Accepted(a, "tls error") /\ Becomes(Abandoned(w, o))
  \/ acc' = Accepted(a, "raise") /\ Becomes(Released(w, o))

(* acceptfd_lua: only with an address is there something to allocate       *)
(* behind accept(2), and a guard that holds the number meanwhile.          *)
GiveFd(a, r) ==
  LET guarded == Put(Made(World, "guard"), Fresh, r.n, "up") IN
  IF a.kind = "fd"
  THEN /\ acc' = HandsOver(a, r.n) /\ file' = [file EXCEPT ![r.n] = "up"]
       /\ given' = given \union {r.n} /\ UNCHANGED obj
  ELSE \/ acc' = Accepted(a, "raise") /\ Becomes(Released(guarded, Fresh)) /\ UNCHANGED given
       \/ acc' = HandsOver(a, r.n) /\ Becomes(Disarmed(guarded, Fresh))
          /\ given' = given \union {r.n}

(* accept_lua: the object holds the number from the start. *)
GiveSocket(a, r) ==
  LET w == Put(Made(World, "sock"), Fresh, r.n, "up") IN
  /\ Served(a, w, Fresh)
  /\ UNCHANGED given

(* Mutant of Late: nobody looks at the clock. *)
LateNever(a) == FALSE

Late(a) == a.end # Never /\ now >= a.end

(* One turn of the loop.  The object of a turn without a connection is     *)
(* garbage that holds nothing.                                             *)
Turn(a) ==
  /\ \/ acc' = Accepted(a, "raise") /\ UNCHANGED <<file, obj, given, queue>>
     \/ \E r \in AcceptOut :
          /\ queue' = queue - r.took
          /\ IF r.end = "ok" THEN (IF a.kind = "sock" THEN GiveSocket(a, r) ELSE GiveFd(a, r))
             ELSE /\ UNCHANGED <<file, obj, given>>
                  /\ acc' = IF r.end = "failed" THEN Accepted(a, "error")
                            ELSE IF Late(a) THEN Accepted(a, "timeout")
                            ELSE [a EXCEPT !.at = "wait"]
  /\ UNCHANGED <<con, now>>

StartAccept(kind, sec) ==
  /\ acc.at = "idle" /\ ~Running /\ (sec => now + Sec <= MaxNow)
  /\ Turn([NoAccept EXCEPT !.kind = kind, !.end = IF sec THEN now + Sec ELSE Never])

(* A poller that gives up without being told to is an error. *)
ResumeAccept(how) ==
  /\ acc.at = "wait" /\ ~Running
  /\ IF how = "ready" THEN Turn(acc)
     ELSE /\ acc' = Accepted(acc, IF how = "timeout" /\ acc.end # Never THEN "timeout"
                                  ELSE "error")
          /\ UNCHANGED <<file, obj, given, con, queue, now>>

-----------------------------------------------------------------------------
(* The program, the collector, and the world around.                       *)

(* The callers take their answers. *)
Return ==
  /\ con.at = "done" \/ acc.at = "done"
  /\ con' = IF con.at = "done" THEN [NoConnect EXCEPT !.at = "over"] ELSE con
  /\ acc' = IF acc.at = "done" THEN [NoAccept EXCEPT !.at = "over"] ELSE acc
  /\ UNCHANGED <<file, obj, given, queue, now>>

InUse(o) == con.at = "wait" /\ con.o = o

Close(o) ==
  /\ ~Running /\ obj[o].what = "sock" /\ obj[o].held /\ obj[o].fd # NoFd /\ ~InUse(o)
  /\ Becomes(Abandoned(World, o))
  /\ UNCHANGED con /\ UNCHANGED rest

Drop(o) ==
  /\ ~Running /\ obj[o].held /\ ~InUse(o)
  /\ Becomes(Released(World, o))
  /\ UNCHANGED con /\ UNCHANGED rest

CloseGiven(n) ==
  /\ ~Running /\ n \in given
  /\ given' = given \ {n} /\ file' = [file EXCEPT ![n] = "closed"]
  /\ UNCHANGED <<obj, con, acc, queue, now>>

(* pair_lua: two objects, then socketpair(2), then its flags. *)
Pair ==
  /\ ~Running
  /\ \E o, p \in Unused : \E made \in BOOLEAN, n, m \in Fd :
       /\ o < p /\ (\A x \in Unused : x = o \/ p <= x)
       /\ LET x == [what |-> "sock", fd |-> NoFd, held |-> TRUE]
              w == AtObj(AtObj(World, o, x), p, x) IN
          IF made
          THEN /\ n \in Lowest(w) /\ m \in Lowest(Put(w, o, n, "up"))
               /\ Becomes(Put(Put(w, o, n, "up"), p, m, "up"))
          ELSE n = 0 /\ m = 0 /\ Becomes(Released(Released(w, o), p))
  /\ UNCHANGED con /\ UNCHANGED rest

(* gc_lua of sockets, acceptfd_gc of guards. *)
Finalized(w, o) == Closed(w, o)

Collect(o) ==
  /\ obj[o].what # "free" /\ ~obj[o].held
  /\ Becomes(AtObj(Finalized(World, o), o, Blank))
  /\ UNCHANGED con /\ UNCHANGED rest

Arrive == queue < MaxQueue /\ queue' = queue + 1 /\ UNCHANGED <<file, obj, given, con, acc, now>>

Settle(n) ==
  /\ file[n] = "pending"
  /\ \E s \in {"up", "failed"} : file' = [file EXCEPT ![n] = s]
  /\ UNCHANGED <<obj, given, con, acc, queue, now>>

Cuts(c) == {"canceled", "error"} \union (IF c.end = Never THEN {"timeout"} ELSE {})

ConnectReady == con.at = "wait" /\ file[obj[con.o].fd] \in {"up", "failed"} /\ ResumeConnect("ready")
ConnectTimer == con.end # Never /\ now >= con.end /\ ResumeConnect("timeout")
ConnectCut == \E how \in Cuts(con) : ResumeConnect(how)
AcceptReady == queue > 0 /\ ResumeAccept("ready")
AcceptTimer == Late(acc) /\ ResumeAccept("timeout")
AcceptCut == \E how \in Cuts(acc) : ResumeAccept(how)

Tick == now < MaxNow /\ now' = now + 1 /\ UNCHANGED <<file, obj, given, con, acc, queue>>

Next ==
  \/ \E kind \in {"inet", "unix"}, sec \in BOOLEAN : StartConnect(kind, sec)
  \/ \E kind \in {"sock", "fd", "fd with address"}, sec \in BOOLEAN : StartAccept(kind, sec)
  \/ Attempt
  \/ \E o \in Obj : Close(o) \/ Drop(o) \/ Collect(o)
  \/ \E n \in Fd : CloseGiven(n) \/ Settle(n)
  \/ Pair \/ Return \/ Arrive \/ Tick
  \/ ConnectReady \/ ConnectTimer \/ ConnectCut
  \/ AcceptReady \/ AcceptTimer \/ AcceptCut

(* The clock runs, its timers wake their coroutines, and a coroutine that  *)
(* runs goes on.  Nothing is asked of peers or of the collector.           *)
Fairness ==
  /\ WF_vars(Tick) /\ WF_vars(ConnectTimer) /\ WF_vars(AcceptTimer)
  /\ WF_vars(Attempt)
  /\ WF_vars(Return)

Spec == Init /\ [][Next]_vars /\ Fairness

-----------------------------------------------------------------------------

TypeOK ==
  /\ file \in [Fd -> {"closed", "fresh", "pending", "up", "failed"}]
  /\ obj \in [Obj -> [what : {"free", "sock", "guard"}, fd : Fd \union {NoFd}, held : BOOLEAN]]
  /\ given \subseteq Fd /\ queue \in 0..MaxQueue /\ now \in 0..MaxNow
  /\ con.todo \in 0..MaxAddr /\ con.o \in 0..(MaxFd + 2) /\ con.end \in Int /\ acc.end \in Int

(* Every open descriptor has exactly one owner, a socket, a guard or the   *)
(* program itself, and nobody holds the number of a closed one: no memory  *)
(* error, failed attempt, timeout or collection leaks a descriptor or      *)
(* closes it twice (lib/stream/inet.lua, accept_lua, acceptfd_lua,         *)
(* pair_lua, new_net_socket, the finalizers).                              *)
OneOwner ==
  /\ TypeOK
  /\ \A n \in Fd :
       Cardinality({o \in Obj : obj[o].fd = n}) + (IF n \in given THEN 1 ELSE 0)
         = (IF file[n] = "closed" THEN 0 ELSE 1)

(* What connect and accept answer is true.  A connection that connect      *)
(* hands over is established and held by the caller.  One that accept      *)
(* hands over was not there before and is established, and either a new    *)
(* socket holds it, which the caller holds, or the caller has its number   *)
(* and no object has.  A connect that waits has the caller's budget, else, *)
(* over addresses, that of the kernel or the default, counted from its     *)
(* start and never anew.  It reports a timeout only when that is used up,  *)
(* but over a path without a deadline there is none, and the poller's word *)
(* is passed on (lib/stream/unix.lua:60-63); accept reports a timeout only *)
(* with a budget, and when it is used up.  An error is reported only after *)
(* every address was tried.                                                *)
AnswersTrue ==
  [][/\ (con'.at = "done" /\ con.at # "done") =>
          /\ con'.answer = "ok" => obj'[con'.o].held /\ file'[obj'[con'.o].fd] = "up"
          /\ con'.answer = "timeout" => \/ con'.kind = "unix" /\ ~con'.given
                                        \/ con'.end # Never /\ now >= con'.end
          /\ con'.answer \in {"error", "nothing"} => con'.todo = 0
     /\ con'.at = "wait" =>
          con'.end = IF con'.given THEN Sec ELSE IF con'.kind = "unix" THEN Never
                     ELSE IF con'.kernel > 0 THEN con'.kernel ELSE Preset
     /\ (acc'.at = "done" /\ acc.at # "done") =>
          /\ acc'.answer = "timeout" => acc'.end # Never /\ now >= acc'.end
          /\ acc'.answer = "ok" =>
               /\ file[acc'.fd] = "closed" /\ file'[acc'.fd] = "up"
               /\ IF acc'.kind = "sock"
                  THEN \E o \in Obj : /\ obj[o].what = "free"
                                      /\ obj'[o] = [what |-> "sock", fd |-> acc'.fd, held |-> TRUE]
                  ELSE acc'.fd \in given' \ given /\ \A o \in Obj : obj'[o].fd # acc'.fd
    ]_vars

(* A call with a budget ends: no sequence of failed addresses, aborted     *)
(* connections and wake-ups keeps it going.                                *)
CallsEnd ==
  /\ (con.at \in {"try", "wait"} /\ con.end # Never) ~> con.at = "done"
  /\ (acc.at = "wait" /\ acc.end # Never) ~> acc.at = "done"
=============================================================================
