------------------------------- MODULE SniSelect -------------------------------
(***************************************************************************)
(* Server contexts and the selection of a server by the name a client asks *)
(* for (tls_server.c, the server half of tls_context.c).  A connection is  *)
(* accepted by one server; the Lua callback of that server may name        *)
(* another one while OpenSSL works on the ClientHello, and the connection  *)
(* is moved to it setting by setting.                                      *)
(*                                                                         *)
(* Servers with the same options can share one SSL_CTX through the cache.  *)
(* Callbacks run Lua code, which may drop servers, make new ones, and      *)
(* drive the handshakes of other connections, in other coroutines: the C   *)
(* stack holds one frame for each handshake under way.                     *)
(***************************************************************************)
EXTENDS Integers, Sequences, SequencesExt

CONSTANTS
  MaxServer,  \* servers that are ever made
  MaxCtx,     \* SSL_CTXs that are ever made
  Conn,       \* connections
  Thread,     \* coroutines
  Kind,       \* all options of a server, but its SNI callback
  Silent,     \* the kinds with a session timeout of 0 or less: no tickets
  None

ASSUME SniAssumption ==
  /\ MaxServer \in Nat /\ MaxCtx \in Nat /\ Silent \subseteq Kind
  /\ None \notin Thread \union Kind

Server == 1..MaxServer
Ctx == 1..MaxCtx
Nobody == 0

(* The settings select_server_lua moves, in its order; SSL_set_SSL_CTX     *)
(* moves the first, which the session id context goes with.                *)
Chain == 1  Options == 2  Tickets == 3  Least == 4  Most == 5  Verify == 6  Param == 7
Setting == Chain..Param

VARIABLES server, ctx, conn, stack, tickets

vars == <<server, ctx, conn, stack, tickets>>

NoServer(life) == [life |-> life, kind |-> None, ctx |-> Nobody, sni |-> FALSE, held |-> FALSE]
NoCtx(life) == [life |-> life, kind |-> None, cached |-> "no", thread |-> None]
NoConn(at) == [at |-> at, parent |-> Nobody, key |-> Nobody,
               policy |-> [i \in Setting |-> Nobody], done |-> FALSE, resumed |-> None]

Init ==
  /\ server = [s \in Server |-> NoServer("unborn")]
  /\ ctx = [x \in Ctx |-> NoCtx("unborn")]
  /\ conn = [c \in Conn |-> NoConn("unborn")]
  /\ stack = <<>> /\ tickets = {}

Top == Last(stack)

(* Lua code runs: outside of every handshake, or in a callback. *)
LuaRuns == IF stack = <<>> THEN TRUE ELSE Top.at = "callback"
OnStack(c) == \E i \in DOMAIN stack : stack[i].c = c
Set(at) == [stack EXCEPT ![Len(stack)].at = at]

Unborn(f) == {x \in DOMAIN f : f[x].life = "unborn"}
AnyOf(S) == CHOOSE x \in S : TRUE

-----------------------------------------------------------------------------
(* net.tls.server: new_lua and the cache of contexts.                      *)

KeyOf(k) == k

Hits(k) == {x \in Ctx : ctx[x].life = "alive" /\ ctx[x].cached # "no" /\ KeyOf(ctx[x].kind) = KeyOf(k)}

(* Every step of the construction may fail, and what was built is garbage  *)
(* then; a context that is in the cache already stays there.               *)
NewServer(k, sni, useCache) ==
  LET made == IF useCache /\ Hits(k) # {} THEN Hits(k) ELSE {AnyOf(Unborn(ctx))}
      stored(x) == [life |-> "alive", kind |-> IF x \in Hits(k) THEN ctx[x].kind ELSE k,
                    cached |-> IF useCache THEN "strong" ELSE "no", thread |-> ctx[x].thread] IN
  /\ LuaRuns /\ Unborn(server) # {} /\ (Unborn(ctx) # {} \/ (useCache /\ Hits(k) # {}))
  /\ \E x \in made :
       \/ /\ ctx' = [ctx EXCEPT ![x] = stored(x)]
          /\ server' = [server EXCEPT ![AnyOf(Unborn(server))] =
               [life |-> "alive", kind |-> k, ctx |-> x, sni |-> sni, held |-> TRUE]]
       \/ /\ useCache /\ ctx' = [ctx EXCEPT ![x] = stored(x)]
          /\ UNCHANGED server
  /\ UNCHANGED <<conn, stack, tickets>>

(* A full cache moves an entry to its weak half; clear() forgets both. *)
Evict(x, to) ==
  /\ LuaRuns /\ ctx[x].life = "alive" /\ ctx[x].cached # "no" /\ ctx[x].cached # to
  /\ ctx' = [ctx EXCEPT ![x].cached = to]
  /\ UNCHANGED <<server, conn, stack, tickets>>

Drop(s) ==
  /\ LuaRuns /\ server[s].held
  /\ server' = [server EXCEPT ![s].held = FALSE]
  /\ UNCHANGED <<ctx, conn, stack, tickets>>

Open(c) == conn[c].at \notin {"unborn", "closed"}
Refers(c, s) == Open(c) /\ conn[c].parent = s

(* gc_lua of a server gives its context up. *)
CollectServer(s) ==
  /\ LuaRuns /\ server[s].life = "alive" /\ ~server[s].held /\ \A c \in Conn : ~Refers(c, s)
  /\ server' = [server EXCEPT ![s] = NoServer("dead")]
  /\ UNCHANGED <<ctx, conn, stack, tickets>>

CollectCtx(x) ==
  /\ LuaRuns /\ ctx[x].life = "alive" /\ ctx[x].cached # "strong"
  /\ \A s \in Server : ~(server[s].life = "alive" /\ server[s].ctx = x)
  /\ ctx' = [ctx EXCEPT ![x] = NoCtx("dead")]
  /\ UNCHANGED <<server, conn, stack, tickets>>

-----------------------------------------------------------------------------
(* net.tls.context: accept, handshake, close.                              *)

(* Without a failure: else nothing but garbage is left. *)
Accept(c, s) ==
  /\ LuaRuns /\ conn[c].at = "unborn" /\ server[s].held
  /\ conn' = [conn EXCEPT ![c].at = "fresh", ![c].parent = s, ![c].key = server[s].ctx,
                          ![c].policy = [i \in Setting |-> server[s].ctx]]
  /\ UNCHANGED <<server, ctx, stack, tickets>>

Close(c) ==
  /\ LuaRuns /\ Open(c) /\ ~OnStack(c)
  /\ conn' = [conn EXCEPT ![c] = NoConn("closed")]
  /\ UNCHANGED <<server, ctx, stack, tickets>>

CtxOf(s) == server[s].ctx

(* do_handshake: the context of the server learns which coroutine drives.  *)
Handshake(c, th) ==
  LET p == conn[c].parent IN
  /\ LuaRuns /\ conn[c].at \in {"fresh", "retry", "chosen"} /\ ~OnStack(c)
  /\ \A i \in DOMAIN stack : stack[i].th = th => i = Len(stack)
  /\ stack' = Append(stack, [c |-> c, th |-> th, p |-> p, saved |-> ctx[CtxOf(p)].thread,
                             ran |-> None, at |-> "start"])
  /\ ctx' = [ctx EXCEPT ![CtxOf(p)].thread = th]
  /\ UNCHANGED <<server, conn, tickets>>

(* Mutant of Restored: through the server that was selected. *)
RestoredAfresh(f) == CtxOf(conn[f.c].parent)

(* The context whose coroutine is put back: that of the server from before.*)
Restored(f) == CtxOf(f.p)

(* SSL_accept returns, with or without a session that was resumed. *)
LeaveWith(at, session) ==
  /\ stack' = Front(stack)
  /\ ctx' = [ctx EXCEPT ![Restored(Top)].thread = Top.saved]
  /\ conn' = [conn EXCEPT ![Top.c].at = at, ![Top.c].resumed = session]

Leave(at) == LeaveWith(at, conn[Top.c].resumed)

-----------------------------------------------------------------------------
(* client_hello_cb and select_server_lua.                                  *)

InFrame(at) == stack # <<>> /\ Top.at = at
AtHello == InFrame("start") /\ conn[Top.c].at \in {"fresh", "retry"}

(* A hello with no name or an IP literal, a malformed one, or one with a   *)
(* name of a host.                                                         *)
Hello(name) ==
  LET c == Top.c  p == conn[c].parent  asks == server[p].sni /\ ~conn[c].done IN
  /\ AtHello
  /\ conn' = [conn EXCEPT ![c].done = @ \/ asks]
  /\ stack' = IF ~asks \/ name = "none" THEN Set("answered")
              ELSE IF name = "bad" THEN Set("alert")
              ELSE [stack EXCEPT ![Len(stack)].at = "callback",
                                 ![Len(stack)].ran = ctx[CtxOf(p)].thread]
  /\ UNCHANGED <<server, ctx, tickets>>

(* nil keeps the default server. *)
ReturnNil ==
  /\ InFrame("callback") /\ stack' = Set("answered")
  /\ UNCHANGED <<server, ctx, conn, tickets>>

(* An error, another value than a server, or no memory for the reference.  *)
ReturnError ==
  /\ InFrame("callback") /\ stack' = Set("alert")
  /\ UNCHANGED <<server, ctx, conn, tickets>>

(* Mutant of Fallible: the number of tickets is set without a look back. *)
FallibleLess == {Chain, Least, Most, Param}

(* Settings whose failure is noticed... *)
Fallible == {Chain, Tickets, Least, Most, Param}

(* ... among those that OpenSSL may fail to set. *)
Unlucky == {Chain, Tickets, Least, Most, Param}

(* The settings of t replace those of the connection one by one, as far as *)
(* they do; a failure leaves the rest as it was and aborts the handshake.  *)
ReturnServer(t) ==
  LET c == Top.c
      moved(fails) == [i \in Setting |->
        IF i \in fails \/ \E j \in fails \intersect Fallible : i > j
        THEN conn[c].policy[i] ELSE CtxOf(t)] IN
  /\ InFrame("callback") /\ server[t].held
  /\ \E fails \in {{}} \union {{i} : i \in Unlucky} :
       /\ conn' = [conn EXCEPT ![c].parent = t, ![c].policy = moved(fails)]
       /\ stack' = Set(IF fails \intersect Fallible = {} THEN "answered" ELSE "alert")
  /\ UNCHANGED <<server, ctx, tickets>>

-----------------------------------------------------------------------------
(* The rest of the handshake, and tickets.                                 *)

(* Mutant of Sid: the contexts of all servers have one scope. *)
SidOne(x) == Nobody

(* A new context draws a session id context of its own. *)
Sid(x) == x

(* A ticket opens with the keys of the accepting context and counts in the *)
(* scope it was issued in; OpenSSL decides behind the callback.            *)
Usable(c) ==
  {t \in tickets : t.key = conn[c].key /\ t.sid = Sid(conn[c].policy[Chain])}

(* Nothing, or not everything, has arrived yet. *)
WantRead == stack # <<>> /\ Top.at = "start" /\ Leave(conn[Top.c].at) /\ UNCHANGED <<server, tickets>>

(* HelloRetryRequest, once. *)
Retry ==
  /\ InFrame("answered") /\ conn[Top.c].at = "fresh"
  /\ Leave("retry") /\ UNCHANGED <<server, tickets>>

(* The flight of the server, with or without a session to resume. *)
Flight ==
  /\ InFrame("answered")
  /\ \E r \in {None} \union {t.of : t \in Usable(Top.c)} : LeaveWith("chosen", r)
  /\ UNCHANGED <<server, tickets>>

(* generate_ticket_cb: the lifetime of the selected context. *)
Lifetime(c) == ctx[conn[c].policy[Chain]].kind

Issued(c) ==
  IF ctx[conn[c].policy[Options]].kind \in Silent \/ ctx[conn[c].policy[Tickets]].kind \in Silent THEN {}
  ELSE {[key |-> conn[c].key, sid |-> Sid(conn[c].policy[Chain]), life |-> Lifetime(c),
         of |-> CtxOf(conn[c].parent), kind |-> server[conn[c].parent].kind]}

Finish ==
  /\ InFrame("start") /\ conn[Top.c].at = "chosen"
  /\ Leave("up") /\ tickets' = tickets \union Issued(Top.c) /\ UNCHANGED server

Fail ==
  /\ stack # <<>> /\ Top.at \in {"start", "answered", "alert"}
  /\ Leave("failed") /\ UNCHANGED <<server, tickets>>

Next ==
  \/ \E k \in Kind, sni, useCache \in BOOLEAN : NewServer(k, sni, useCache)
  \/ \E x \in Ctx : CollectCtx(x) \/ \E to \in {"weak", "no"} : Evict(x, to)
  \/ \E s \in Server : Drop(s) \/ CollectServer(s) \/ ReturnServer(s) \/ \E c \in Conn : Accept(c, s)
  \/ \E c \in Conn : Close(c) \/ \E th \in Thread : Handshake(c, th)
  \/ \E name \in {"none", "bad", "host"} : Hello(name)
  \/ ReturnNil \/ ReturnError
  \/ WantRead \/ Retry \/ Flight \/ Finish \/ Fail

Spec == Init /\ [][Next]_vars

-----------------------------------------------------------------------------

Life == {"unborn", "alive", "dead"}
Stage == {"unborn", "fresh", "retry", "chosen", "up", "failed", "closed"}
Frame == [c : Conn, th : Thread, p : Server, saved : Thread \union {None},
          ran : Thread \union {None}, at : {"start", "callback", "answered", "alert"}]

TypeOK ==
  /\ server \in [Server -> [life : Life, kind : Kind \union {None}, ctx : 0..MaxCtx,
                            sni : BOOLEAN, held : BOOLEAN]]
  /\ ctx \in [Ctx -> [life : Life, kind : Kind \union {None}, cached : {"strong", "weak", "no"},
                      thread : Thread \union {None}]]
  /\ conn \in [Conn -> [at : Stage, parent : 0..MaxServer, key : 0..MaxCtx,
                        policy : [Setting -> 0..MaxCtx], done : BOOLEAN,
                        resumed : 0..MaxCtx \union {None}]]
  /\ stack \in Seq(Frame)
  /\ tickets \subseteq [key : 0..MaxCtx, sid : 0..MaxCtx, of : 0..MaxCtx,
                        kind : Kind \union {None}, life : Kind \union {None}]

(* A connection that goes on after its ClientHello, and one that is        *)
(* established, has every setting of one server, the options that server   *)
(* was asked for, though its context came from the cache or a setting      *)
(* failed halfway; and the callback is not asked again for a hello that    *)
(* was sent anew  (doc/net_tls_stream_server.md:57-68).                    *)
OnePolicy ==
  /\ TypeOK
  /\ \A c \in Conn :
       /\ conn[c].at \in {"retry", "chosen", "up"} =>
            \A i \in Setting : ctx[conn[c].policy[i]].kind = server[conn[c].parent].kind
  /\ \A i \in DOMAIN stack : stack[i].at = "callback" => conn[stack[i].c].at = "fresh"

(* th drives the innermost of the handshakes 1 .. n over x, if any. *)
Innermost(x, n, th) ==
  \/ th = None /\ \A i \in 1..n : CtxOf(stack[i].p) # x
  \/ \E i \in 1..n : /\ CtxOf(stack[i].p) = x /\ stack[i].th = th
                     /\ \A j \in (i + 1)..n : CtxOf(stack[j].p) # x

(* Whatever is dropped, evicted and collected in between: the server of an *)
(* open connection and its context are alive, so are the servers of the    *)
(* handshakes under way; a callback runs in the coroutine that drives its  *)
(* handshake; and no context remembers a coroutine that drives none.       *)
NothingDangles ==
  /\ \A c \in Conn : Open(c) =>
       LET p == conn[c].parent IN server[p].life = "alive" /\ ctx[CtxOf(p)].life = "alive"
  /\ \A i \in DOMAIN stack :
       /\ server[stack[i].p].life = "alive"
       /\ stack[i].at = "callback" => stack[i].ran = stack[i].th
  /\ \A x \in Ctx : Innermost(x, Len(stack), ctx[x].thread)

(* Only servers that issue tickets do, with their own lifetime, and a      *)
(* session is resumed in the context that issued it: a ticket never takes  *)
(* a connection past the certificate checks of the server selected for it. *)
TicketsScoped ==
  /\ \A t \in tickets : t.kind \notin Silent /\ t.life = t.kind
  /\ \A c \in Conn : conn[c].resumed # None => conn[c].resumed = CtxOf(conn[c].parent)
=============================================================================
