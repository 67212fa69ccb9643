------------------------------- MODULE SniProofs -------------------------------
(***************************************************************************)
(* What holds of servers, their contexts and the connections they accept   *)
(* for every number of each, and every nesting of handshakes.              *)
(***************************************************************************)
EXTENDS SniSelect, SequenceTheorems, TLAPS

Alive(s) == server[s].life = "alive"

(* A server of the program is alive, and has a context with its options.   *)
OwnersInv ==
  /\ \A s \in Server : server[s].held => Alive(s)
  /\ \A s \in Server : Alive(s) =>
       /\ server[s].ctx \in Ctx /\ ctx[server[s].ctx].life = "alive"
       /\ ctx[server[s].ctx].kind = server[s].kind
  /\ \A c \in Conn : Open(c) => conn[c].parent \in Server /\ Alive(conn[c].parent)

Alerted(c) == \E i \in 1..Len(stack) : stack[i].c = c /\ stack[i].at = "alert"
Decided(c) == conn[c].done \/ ~server[conn[c].parent].sni

(* Every setting comes from the server of the connection, but on the way   *)
(* to an alert; a second hello does not ask again; what was resumed is of  *)
(* that server.                                                            *)
ConnOk(c) ==
  /\ conn[c].at \in {"fresh", "retry", "chosen", "up"} /\ ~Alerted(c) =>
       \A i \in Setting : conn[c].policy[i] = CtxOf(conn[c].parent)
  /\ conn[c].at = "retry" => Decided(c)
  /\ conn[c].at \in {"unborn", "fresh", "retry", "closed"} => conn[c].resumed = None
  /\ conn[c].resumed # None => conn[c].resumed = CtxOf(conn[c].parent)

ConnsInv == \A c \in Conn : ConnOk(c)

(* The handshakes on the C stack: only the last is not in its callback,    *)
(* and only the last may have moved to another server than it started in.  *)
FrameOk(i) ==
  LET f == stack[i]  c == f.c IN
  /\ conn[c].at \in {"fresh", "retry", "chosen"}
  /\ i # Len(stack) => f.at = "callback"
  /\ Alive(f.p)
  /\ f.at \in {"start", "callback"} => f.p = conn[c].parent
  /\ f.at = "callback" => conn[c].at = "fresh" /\ conn[c].done /\ f.ran = f.th
  /\ f.at = "answered" => conn[c].at \in {"fresh", "retry"} /\ Decided(c)
  /\ f.at = "alert" => conn[c].at = "fresh"

FramesInv ==
  /\ \A i \in 1..Len(stack) : FrameOk(i)
  /\ \A i, j \in 1..Len(stack) : stack[i].c = stack[j].c => i = j

(* A context knows who drives its innermost handshake, and each handshake  *)
(* knows who did so before it.                                             *)
ThreadsInv ==
  /\ \A x \in Ctx : Innermost(x, Len(stack), ctx[x].thread)
  /\ \A i \in 1..Len(stack) : Innermost(CtxOf(stack[i].p), i - 1, stack[i].saved)

TicketsInv == \A t \in tickets : t.sid = t.of /\ t.kind \notin Silent /\ t.life = t.kind

SniInv == TypeOK /\ OwnersInv /\ ConnsInv /\ FramesInv /\ ThreadsInv /\ TicketsInv

-----------------------------------------------------------------------------
(* Every frame of the stack is one. *)
LEMMA FrameTypes ==
  ASSUME TypeOK
  PROVE  /\ Len(stack) \in Nat /\ (stack # <<>> => Len(stack) \in 1..Len(stack))
         /\ \A i \in 1..Len(stack) :
              /\ stack[i].c \in Conn /\ stack[i].th \in Thread /\ stack[i].p \in Server
              /\ stack[i].saved \in Thread \union {None}
              /\ stack[i].ran \in Thread \union {None}
              /\ stack[i].at \in {"start", "callback", "answered", "alert"}
<1>1. stack \in Seq(Frame)
  BY DEF TypeOK
<1>2. \A i \in 1..Len(stack) : stack[i] \in Frame
  BY <1>1, ElementOfSeq
<1>3. Len(stack) \in Nat /\ (stack # <<>> => Len(stack) \in 1..Len(stack))
  BY <1>1
<1> QED
  BY <1>2, <1>3 DEF Frame

(* The handshake on top of the C stack is one of the stack's. *)
LEMMA TopFrame ==
  ASSUME TypeOK, stack # <<>>
  PROVE  Len(stack) \in 1..Len(stack) /\ Top = stack[Len(stack)]
BY FrameTypes DEF Top, Last

(* What a return from SSL_accept leaves of the stack. *)
LEMMA Shorter ==
  ASSUME TypeOK, stack # <<>>
  PROVE  /\ Front(stack) \in Seq(Frame) /\ Len(Front(stack)) = Len(stack) - 1
         /\ \A i \in 1..(Len(stack) - 1) : Front(stack)[i] = stack[i]
<1> DEFINE n == Len(stack) - 1
<1>1. stack \in Seq(Frame) /\ Len(stack) \in Nat /\ n \in Int /\ n >= 0
  BY FrameTypes DEF TypeOK
<1>2. \A i \in 1..n : stack[i] \in Frame
  BY <1>1, ElementOfSeq
<1>3. Front(stack) = SubSeq(stack, 1, n)
  BY DEF Front
<1> HIDE DEF n
<1>4. /\ SubSeq(stack, 1, n) \in Seq(Frame)
      /\ Len(SubSeq(stack, 1, n)) = IF 1 <= n THEN n - 1 + 1 ELSE 0
      /\ \A i \in 1..n-1+1 : SubSeq(stack, 1, n)[i] = stack[1 + i - 1]
  BY <1>1, <1>2, SubSeqProperties
<1>5. Len(Front(stack)) = n /\ \A i \in 1..n : Front(stack)[i] = stack[i]
  BY <1>1, <1>3, <1>4
<1> QED
  BY <1>3, <1>4, <1>5 DEF n

(* When Lua runs, every handshake is in its callback, still with its server.*)
LEMMA LuaFrames ==
  ASSUME SniInv, LuaRuns, NEW i \in 1..Len(stack)
  PROVE  /\ stack[i].at = "callback" /\ stack[i].c \in Conn
         /\ conn[stack[i].c].at = "fresh" /\ Open(stack[i].c)
         /\ stack[i].p = conn[stack[i].c].parent
<1>1. stack # <<>> /\ Top = stack[Len(stack)] /\ stack[i].c \in Conn
  BY TopFrame, FrameTypes DEF SniInv
<1>2. stack[i].at = "callback"
  BY <1>1 DEF SniInv, FramesInv, FrameOk, LuaRuns
<1>3. conn[stack[i].c].at = "fresh" /\ stack[i].p = conn[stack[i].c].parent
  BY <1>2 DEF SniInv, FramesInv, FrameOk
<1> QED
  BY <1>1, <1>2, <1>3 DEF Open

(* The context of the server of an open connection is a context. *)
LEMMA OpenHasCtx ==
  ASSUME SniInv, NEW c \in Conn, Open(c)
  PROVE  /\ conn[c].parent \in Server /\ Alive(conn[c].parent)
         /\ CtxOf(conn[c].parent) \in Ctx
         /\ ctx[CtxOf(conn[c].parent)].kind = server[conn[c].parent].kind
BY DEF SniInv, OwnersInv, CtxOf

(* Nothing but garbage changes: what open connections refer to stays.      *)
LEMMA MemoryStep ==
  ASSUME SniInv, LuaRuns, TypeOK', UNCHANGED <<conn, stack, tickets>>,
         \A s \in Server : server'[s].held => Alive(s)',
         \A s \in Server : Alive(s)' =>
           /\ server'[s].ctx \in Ctx /\ ctx'[server'[s].ctx].life = "alive"
           /\ ctx'[server'[s].ctx].kind = server'[s].kind,
         \A c \in Conn : Open(c) =>
           /\ Alive(conn[c].parent)' /\ CtxOf(conn[c].parent)' = CtxOf(conn[c].parent)
           /\ server'[conn[c].parent].sni = server[conn[c].parent].sni,
         \A x \in Ctx : \/ ctx'[x].thread = ctx[x].thread
                        \/ /\ ctx'[x].thread = None
                           /\ \A i \in 1..Len(stack) : CtxOf(stack[i].p) # x
  PROVE  SniInv'
<1>2. \A i \in 1..Len(stack) :
        Alive(stack[i].p)' /\ CtxOf(stack[i].p)' = CtxOf(stack[i].p)
  BY LuaFrames DEF CtxOf, Alive
<1>3. OwnersInv'
  BY DEF SniInv, OwnersInv, Open
<1>4. ConnsInv'
  <2> SUFFICES ASSUME NEW c \in Conn PROVE ConnOk(c)'
    BY DEF ConnsInv
  <2>1. Alerted(c)' <=> Alerted(c)
    BY DEF Alerted
  <2>2. Open(c) => CtxOf(conn[c].parent)' = CtxOf(conn[c].parent) /\ Decided(c)' = Decided(c)
    BY DEF CtxOf, Decided
  <2>3. conn[c].resumed # None => Open(c)
    BY DEF SniInv, ConnsInv, ConnOk, Open
  <2> QED
    BY <2>1, <2>2, <2>3 DEF SniInv, ConnsInv, ConnOk, Open
<1>5. FramesInv'
  BY <1>2, LuaFrames DEF SniInv, FramesInv, FrameOk
<1>6. ThreadsInv'
  <2>0. Len(stack) \in Nat
    BY FrameTypes DEF SniInv
  <2>1. ASSUME NEW x \in Ctx PROVE Innermost(x, Len(stack), ctx[x].thread)'
    BY <1>2, <2>0 DEF SniInv, ThreadsInv, Innermost
  <2>2. ASSUME NEW i \in 1..Len(stack)
        PROVE  Innermost(CtxOf(stack[i].p), i - 1, stack[i].saved)'
    <3>1. \A j \in 1..(i - 1) : j \in 1..Len(stack)
      BY <2>0
    <3>2. Innermost(CtxOf(stack[i].p), i - 1, stack[i].saved)
      BY DEF SniInv, ThreadsInv
    <3> QED
      BY <1>2, <2>0, <3>1, <3>2 DEF Innermost
  <2> QED
    BY <2>1, <2>2 DEF ThreadsInv
<1> QED
  BY <1>3, <1>4, <1>5, <1>6 DEF SniInv, TicketsInv

(* What AnyOf takes from a set is in it. *)
LEMMA AnyOfMember == ASSUME NEW S, S # {} PROVE AnyOf(S) \in S
BY DEF AnyOf

(* A new server gets a new context, or one of the same options.            *)
LEMMA NewServerStep ==
  ASSUME SniInv, NEW k \in Kind, NEW sni \in BOOLEAN, NEW useCache \in BOOLEAN,
         NewServer(k, sni, useCache)
  PROVE  SniInv'
<1> DEFINE stored(x) == [life |-> "alive", kind |-> IF x \in Hits(k) THEN ctx[x].kind ELSE k,
                         cached |-> IF useCache THEN "strong" ELSE "no", thread |-> ctx[x].thread]
           n == AnyOf(Unborn(server))
           made == IF useCache /\ Hits(k) # {} THEN Hits(k) ELSE {AnyOf(Unborn(ctx))}
           new(x) == [life |-> "alive", kind |-> k, ctx |-> x, sni |-> sni, held |-> TRUE]
<1>1. /\ LuaRuns /\ Unborn(server) # {} /\ UNCHANGED <<conn, stack, tickets>>
      /\ Unborn(ctx) # {} \/ (useCache /\ Hits(k) # {})
  BY DEF NewServer
<1>2. PICK x \in made :
        /\ ctx' = [ctx EXCEPT ![x] = stored(x)]
        /\ \/ server' = [server EXCEPT ![n] = new(x)]
           \/ server' = server
  BY DEF NewServer
<1>3. n \in Server /\ server[n].life = "unborn"
  BY <1>1, AnyOfMember DEF Unborn, SniInv, TypeOK
<1>4. x \in Ctx /\ (ctx[x].life = "unborn" \/ (ctx[x].life = "alive" /\ ctx[x].kind = k))
  <2>1. CASE useCache /\ Hits(k) # {}
    BY <2>1, <1>2 DEF Hits, KeyOf
  <2>2. CASE ~(useCache /\ Hits(k) # {})
    <3>1. x = AnyOf(Unborn(ctx)) /\ Unborn(ctx) # {}
      BY <2>2, <1>1, <1>2
    <3>2. x \in Unborn(ctx) /\ DOMAIN ctx = Ctx
      BY <3>1, AnyOfMember DEF SniInv, TypeOK
    <3> QED
      BY <3>2 DEF Unborn
  <2> QED
    BY <2>1, <2>2
<1>5. ctx[x].thread \in Thread \union {None} /\ stored(x).kind = k
  BY <1>4 DEF SniInv, TypeOK, Hits
<1> HIDE DEF n, made
<1>6. /\ \A y \in Ctx : ctx'[y] = IF y = x THEN stored(x) ELSE ctx[y]
      /\ stored(x).life = "alive" /\ stored(x).thread = ctx[x].thread
  BY <1>2, <1>4 DEF SniInv, TypeOK
<1>7. \A s \in Server : server'[s] = server[s] \/ (s = n /\ server'[s] = new(x))
  BY <1>2, <1>3 DEF SniInv, TypeOK
<1>8. TypeOK'
  <2>1. new(x) \in [life : Life, kind : Kind \union {None}, ctx : 0..MaxCtx,
                    sni : BOOLEAN, held : BOOLEAN]
    BY <1>4, SniAssumption DEF Life, Ctx
  <2>2. stored(x) \in [life : Life, kind : Kind \union {None},
                       cached : {"strong", "weak", "no"}, thread : Thread \union {None}]
    <3>1. stored(x).kind = k /\ ctx[x].thread \in Thread \union {None}
      BY <1>5
    <3> QED
      BY <3>1 DEF Life
  <2> HIDE DEF new, stored
  <2>3. server' \in [Server -> [life : Life, kind : Kind \union {None}, ctx : 0..MaxCtx,
                                sni : BOOLEAN, held : BOOLEAN]]
    BY <1>2, <2>1 DEF SniInv, TypeOK
  <2>4. ctx' \in [Ctx -> [life : Life, kind : Kind \union {None},
                          cached : {"strong", "weak", "no"}, thread : Thread \union {None}]]
    BY <1>2, <2>2 DEF SniInv, TypeOK
  <2> QED
    BY <1>1, <2>3, <2>4 DEF SniInv, TypeOK
<1>9. \A s \in Server : Alive(s) => ctx'[server[s].ctx].kind = ctx[server[s].ctx].kind
                                   /\ ctx'[server[s].ctx].life = "alive"
  <2> SUFFICES ASSUME NEW s \in Server, Alive(s)
               PROVE  ctx'[server[s].ctx].kind = ctx[server[s].ctx].kind
                      /\ ctx'[server[s].ctx].life = "alive"
    OBVIOUS
  <2>1. server[s].ctx \in Ctx /\ ctx[server[s].ctx].life = "alive"
    BY DEF SniInv, OwnersInv
  <2>2. CASE server[s].ctx = x
    BY <2>1, <2>2, <1>4, <1>5, <1>6
  <2>3. CASE server[s].ctx # x
    BY <2>1, <2>3, <1>6
  <2> QED
    BY <2>2, <2>3
<1>10. \A s \in Server : server'[s].held => Alive(s)'
  BY <1>7 DEF SniInv, OwnersInv, Alive
<1>11. \A s \in Server : Alive(s)' =>
         /\ server'[s].ctx \in Ctx /\ ctx'[server'[s].ctx].life = "alive"
         /\ ctx'[server'[s].ctx].kind = server'[s].kind
  BY <1>4, <1>5, <1>6, <1>7, <1>9 DEF SniInv, OwnersInv, Alive
<1>12. \A c \in Conn : Open(c) =>
         /\ Alive(conn[c].parent)' /\ CtxOf(conn[c].parent)' = CtxOf(conn[c].parent)
         /\ server'[conn[c].parent].sni = server[conn[c].parent].sni
  BY <1>1, <1>3, <1>7 DEF SniInv, OwnersInv, Alive, CtxOf
<1>13. \A y \in Ctx : ctx'[y].thread = ctx[y].thread
  BY <1>6
<1> QED
  BY <1>1, <1>8, <1>10, <1>11, <1>12, <1>13, MemoryStep

(* The cache forgets a context: nothing depends on it. *)
LEMMA EvictStep ==
  ASSUME SniInv, NEW x \in Ctx, NEW to \in {"weak", "no"}, Evict(x, to)
  PROVE  SniInv'
<1>1. LuaRuns /\ UNCHANGED <<server, conn, stack, tickets>>
  BY DEF Evict
<1>2. TypeOK'
  BY DEF SniInv, TypeOK, Evict
<1>3. \A y \in Ctx : ctx'[y].life = ctx[y].life /\ ctx'[y].kind = ctx[y].kind
                     /\ ctx'[y].thread = ctx[y].thread
  BY DEF SniInv, TypeOK, Evict
<1>4. \A s \in Server : server'[s].held => Alive(s)'
  BY <1>1 DEF SniInv, OwnersInv, Alive
<1>5. \A s \in Server : Alive(s)' =>
         /\ server'[s].ctx \in Ctx /\ ctx'[server'[s].ctx].life = "alive"
         /\ ctx'[server'[s].ctx].kind = server'[s].kind
  BY <1>1, <1>3 DEF SniInv, OwnersInv, Alive
<1>6. \A c \in Conn : Open(c) =>
         /\ Alive(conn[c].parent)' /\ CtxOf(conn[c].parent)' = CtxOf(conn[c].parent)
         /\ server'[conn[c].parent].sni = server[conn[c].parent].sni
  BY <1>1 DEF SniInv, OwnersInv, Alive, CtxOf
<1> QED
  BY <1>1, <1>2, <1>3, <1>4, <1>5, <1>6, MemoryStep

(* The program forgets a server: its connections keep it. *)
LEMMA DropStep ==
  ASSUME SniInv, NEW s \in Server, Drop(s)
  PROVE  SniInv'
<1>1. LuaRuns /\ UNCHANGED <<ctx, conn, stack, tickets>>
  BY DEF Drop
<1>2. TypeOK'
  <2>1. server' \in [Server -> [life : Life, kind : Kind \union {None}, ctx : 0..MaxCtx,
                                sni : BOOLEAN, held : BOOLEAN]]
    <3>1. server[s] \in [life : Life, kind : Kind \union {None}, ctx : 0..MaxCtx,
                         sni : BOOLEAN, held : BOOLEAN]
      BY DEF SniInv, TypeOK
    <3>2. [server[s] EXCEPT !.held = FALSE] \in
            [life : Life, kind : Kind \union {None}, ctx : 0..MaxCtx, sni : BOOLEAN, held : BOOLEAN]
      BY <3>1
    <3>3. server' = [server EXCEPT ![s] = [server[s] EXCEPT !.held = FALSE]]
      BY DEF Drop
    <3> QED
      BY <3>2, <3>3 DEF SniInv, TypeOK
  <2> QED
    BY <1>1, <2>1 DEF SniInv, TypeOK
<1>3. \A r \in Server : /\ server'[r].life = server[r].life /\ server'[r].kind = server[r].kind
                        /\ server'[r].ctx = server[r].ctx /\ server'[r].sni = server[r].sni
                        /\ server'[r].held => server[r].held
  BY DEF SniInv, TypeOK, Drop
<1>4. \A r \in Server : server'[r].held => Alive(r)'
  BY <1>3 DEF SniInv, OwnersInv, Alive
<1>5. \A r \in Server : Alive(r)' =>
         /\ server'[r].ctx \in Ctx /\ ctx'[server'[r].ctx].life = "alive"
         /\ ctx'[server'[r].ctx].kind = server'[r].kind
  BY <1>1, <1>3 DEF SniInv, OwnersInv, Alive
<1>6. \A c \in Conn : Open(c) =>
         /\ Alive(conn[c].parent)' /\ CtxOf(conn[c].parent)' = CtxOf(conn[c].parent)
         /\ server'[conn[c].parent].sni = server[conn[c].parent].sni
  BY <1>1, <1>3 DEF SniInv, OwnersInv, Alive, CtxOf
<1> QED
  BY <1>1, <1>2, <1>4, <1>5, <1>6, MemoryStep

(* A server is collected: no connection refers to it. *)
LEMMA CollectServerStep ==
  ASSUME SniInv, NEW s \in Server, CollectServer(s)
  PROVE  SniInv'
<1>1. /\ LuaRuns /\ UNCHANGED <<ctx, conn, stack, tickets>>
      /\ \A c \in Conn : Open(c) => conn[c].parent # s
  BY DEF CollectServer, Refers
<1>2. TypeOK'
  BY SniAssumption DEF SniInv, TypeOK, CollectServer, NoServer, Life, Nobody
<1>3. /\ \A r \in Server \ {s} : server'[r] = server[r]
      /\ server'[s].life = "dead" /\ server'[s].held = FALSE
  BY DEF SniInv, TypeOK, CollectServer, NoServer
<1>4. \A r \in Server : server'[r].held => Alive(r)'
  BY <1>3 DEF SniInv, OwnersInv, Alive
<1>5. \A r \in Server : Alive(r)' =>
         /\ server'[r].ctx \in Ctx /\ ctx'[server'[r].ctx].life = "alive"
         /\ ctx'[server'[r].ctx].kind = server'[r].kind
  BY <1>1, <1>3 DEF SniInv, OwnersInv, Alive
<1>6. \A c \in Conn : Open(c) =>
         /\ Alive(conn[c].parent)' /\ CtxOf(conn[c].parent)' = CtxOf(conn[c].parent)
         /\ server'[conn[c].parent].sni = server[conn[c].parent].sni
  BY <1>1, <1>3 DEF SniInv, OwnersInv, Alive, CtxOf
<1> QED
  BY <1>1, <1>2, <1>4, <1>5, <1>6, MemoryStep

(* A context is collected: no server has it, and no handshake drives it.   *)
LEMMA CollectCtxStep ==
  ASSUME SniInv, NEW x \in Ctx, CollectCtx(x)
  PROVE  SniInv'
<1>1. /\ LuaRuns /\ UNCHANGED <<server, conn, stack, tickets>>
      /\ \A s \in Server : ~(Alive(s) /\ server[s].ctx = x)
  BY DEF CollectCtx, Alive
<1>2. TypeOK'
  BY DEF SniInv, TypeOK, CollectCtx, NoCtx, Life
<1>3. /\ \A y \in Ctx \ {x} : ctx'[y] = ctx[y]
      /\ ctx'[x].thread = None
  BY DEF SniInv, TypeOK, CollectCtx, NoCtx
<1>4. \A s \in Server : server'[s].held => Alive(s)'
  BY <1>1 DEF SniInv, OwnersInv, Alive
<1>5. \A s \in Server : Alive(s)' =>
         /\ server'[s].ctx \in Ctx /\ ctx'[server'[s].ctx].life = "alive"
         /\ ctx'[server'[s].ctx].kind = server'[s].kind
  BY <1>1, <1>3 DEF SniInv, OwnersInv, Alive
<1>6. \A c \in Conn : Open(c) =>
         /\ Alive(conn[c].parent)' /\ CtxOf(conn[c].parent)' = CtxOf(conn[c].parent)
         /\ server'[conn[c].parent].sni = server[conn[c].parent].sni
  BY <1>1 DEF SniInv, OwnersInv, Alive, CtxOf
<1>7. \A i \in 1..Len(stack) : CtxOf(stack[i].p) # x
  BY <1>1, LuaFrames, OpenHasCtx DEF CtxOf
<1> QED
  BY <1>1, <1>2, <1>3, <1>4, <1>5, <1>6, <1>7, MemoryStep

-----------------------------------------------------------------------------
(* A connection that no handshake drives changes: accepted, or closed.     *)
LEMMA IdleConnStep ==
  ASSUME SniInv, TypeOK', UNCHANGED <<server, ctx, stack, tickets>>,
         NEW c \in Conn, \A i \in 1..Len(stack) : stack[i].c # c,
         \A d \in Conn \ {c} : conn'[d] = conn[d],
         conn'[c].at \in {"fresh", "closed"}, conn'[c].resumed = None,
         conn'[c].at = "fresh" =>
           /\ conn'[c].parent \in Server /\ Alive(conn'[c].parent)
           /\ \A i \in Setting : conn'[c].policy[i] = CtxOf(conn'[c].parent)
  PROVE  SniInv'
<1>1. OwnersInv'
  BY DEF SniInv, OwnersInv, Open, Alive
<1>2. ConnsInv'
  <2> SUFFICES ASSUME NEW d \in Conn PROVE ConnOk(d)'
    BY DEF ConnsInv
  <2>1. CASE d = c
    BY <2>1 DEF CtxOf, ConnOk
  <2>2. CASE d # c
    BY <2>2 DEF SniInv, ConnsInv, ConnOk, CtxOf, Alerted, Decided
  <2> QED
    BY <2>1, <2>2
<1>3. FramesInv'
  <2>1. \A i \in 1..Len(stack) : conn'[stack[i].c] = conn[stack[i].c]
    BY FrameTypes DEF SniInv
  <2> QED
    BY <2>1 DEF SniInv, FramesInv, FrameOk, Alive, Decided
<1>4. ThreadsInv' /\ TicketsInv'
  BY DEF SniInv, ThreadsInv, Innermost, CtxOf, TicketsInv
<1> QED
  BY <1>1, <1>2, <1>3, <1>4 DEF SniInv

(* An accepted connection has every setting of the server that accepted it. *)
LEMMA AcceptStep ==
  ASSUME SniInv, NEW c \in Conn, NEW s \in Server, Accept(c, s)
  PROVE  SniInv'
<1> DEFINE policy == [i \in Setting |-> server[s].ctx]
<1>1. /\ UNCHANGED <<server, ctx, stack, tickets>> /\ conn[c].at = "unborn"
      /\ Alive(s) /\ server[s].ctx \in Ctx
  BY DEF Accept, SniInv, OwnersInv
<1>2. /\ \A d \in Conn \ {c} : conn'[d] = conn[d]
      /\ conn'[c] = [conn[c] EXCEPT !.at = "fresh", !.parent = s, !.key = server[s].ctx,
                                    !.policy = policy]
  BY DEF Accept, SniInv, TypeOK
<1>3. policy \in [Setting -> 0..MaxCtx] /\ server[s].ctx \in 0..MaxCtx /\ s \in 0..MaxServer
  BY <1>1, SniAssumption DEF Ctx, Server
<1>4. TypeOK'
  <2>1. conn'[c] \in [at : Stage, parent : 0..MaxServer, key : 0..MaxCtx,
                      policy : [Setting -> 0..MaxCtx], done : BOOLEAN,
                      resumed : 0..MaxCtx \union {None}]
    <3> HIDE DEF policy
    <3> QED
      BY <1>2, <1>3 DEF SniInv, TypeOK, Stage
  <2>2. conn' = [conn EXCEPT ![c] = conn'[c]]
    BY DEF Accept, SniInv, TypeOK
  <2> QED
    BY <1>1, <2>1, <2>2 DEF SniInv, TypeOK
<1>5. /\ conn'[c].at = "fresh" /\ conn'[c].parent = s /\ conn'[c].policy = policy
      /\ conn'[c].resumed = conn[c].resumed
  BY <1>2 DEF SniInv, TypeOK
<1>6. \A i \in 1..Len(stack) : stack[i].c # c
  BY <1>1 DEF SniInv, FramesInv, FrameOk
<1>7. conn[c].resumed = None
  BY <1>1 DEF SniInv, ConnsInv, ConnOk
<1>8. \A i \in Setting : conn'[c].policy[i] = CtxOf(conn'[c].parent)
  BY <1>5 DEF CtxOf
<1> QED
  BY <1>1, <1>2, <1>4, <1>5, <1>6, <1>7, <1>8, IdleConnStep

(* A closed connection has none. *)
LEMMA CloseStep ==
  ASSUME SniInv, NEW c \in Conn, Close(c)
  PROVE  SniInv'
<1>1. UNCHANGED <<server, ctx, stack, tickets>> /\ \A i \in 1..Len(stack) : stack[i].c # c
  BY FrameTypes DEF Close, OnStack, SniInv, TypeOK
<1>2. /\ \A d \in Conn \ {c} : conn'[d] = conn[d]
      /\ conn'[c].at = "closed" /\ conn'[c].resumed = None
  BY DEF Close, SniInv, TypeOK, NoConn
<1>3. TypeOK'
  <2>1. NoConn("closed") \in [at : Stage, parent : 0..MaxServer, key : 0..MaxCtx,
                              policy : [Setting -> 0..MaxCtx], done : BOOLEAN,
                              resumed : 0..MaxCtx \union {None}]
    <3>1. Nobody \in 0..MaxServer /\ Nobody \in 0..MaxCtx
      BY SniAssumption DEF Nobody
    <3>2. [i \in Setting |-> Nobody] \in [Setting -> 0..MaxCtx]
      BY <3>1
    <3> QED
      BY <3>1, <3>2 DEF NoConn, Stage
  <2> QED
    BY <1>1, <2>1 DEF Close, SniInv, TypeOK
<1> QED
  BY <1>1, <1>2, <1>3, IdleConnStep

-----------------------------------------------------------------------------
(* A handshake is driven: its frame remembers who drove the context.       *)
LEMMA HandshakeStep ==
  ASSUME SniInv, NEW c \in Conn, NEW th \in Thread, Handshake(c, th)
  PROVE  SniInv'
<1>a. PICK p : p = conn[c].parent
  OBVIOUS
<1>b. PICK n : n = Len(stack)
  OBVIOUS
<1>c. PICK x0 : x0 = CtxOf(p)
  OBVIOUS
<1>d. PICK prev : prev = ctx[x0].thread
  OBVIOUS
<1> DEFINE f == [c |-> c, th |-> th, p |-> p, saved |-> prev, ran |-> None, at |-> "start"]
<1>1. /\ UNCHANGED <<server, conn, tickets>> /\ LuaRuns
      /\ conn[c].at \in {"fresh", "retry", "chosen"}
      /\ stack' = Append(stack, f) /\ ctx' = [ctx EXCEPT ![x0].thread = th]
      /\ \A i \in 1..n : stack[i].c # c
  BY <1>a, <1>b, <1>c, <1>d, FrameTypes DEF Handshake, OnStack, SniInv, TypeOK
<1>2. p \in Server /\ Alive(p) /\ x0 \in Ctx /\ x0 = CtxOf(p)'
  BY <1>1, <1>a, <1>c, OpenHasCtx DEF Open, CtxOf
<1>3. f \in Frame
  <2>1. prev \in Thread \union {None}
    BY <1>2, <1>d DEF SniInv, TypeOK
  <2> QED
    BY <1>2, <2>1 DEF Frame
<1>4. /\ stack' \in Seq(Frame) /\ Len(stack') = n + 1 /\ n \in Nat
      /\ \A i \in 1..n : stack'[i] = stack[i]
      /\ stack'[n + 1] = f
  <2>1. stack \in Seq(Frame)
    BY DEF SniInv, TypeOK
  <2> HIDE DEF f
  <2> QED
    BY <1>1, <1>3, <1>b, <2>1, AppendProperties
<1>5. /\ \A x \in Ctx : ctx'[x].life = ctx[x].life /\ ctx'[x].kind = ctx[x].kind
      /\ \A x \in Ctx : ctx'[x].thread = IF x = x0 THEN th ELSE ctx[x].thread
      /\ ctx' \in [Ctx -> [life : Life, kind : Kind \union {None},
                           cached : {"strong", "weak", "no"}, thread : Thread \union {None}]]
  <2>1. ctx' = [ctx EXCEPT ![x0] = [ctx[x0] EXCEPT !.thread = th]]
    BY <1>1
  <2>2. ctx[x0] \in [life : Life, kind : Kind \union {None},
                     cached : {"strong", "weak", "no"}, thread : Thread \union {None}]
    BY <1>2 DEF SniInv, TypeOK
  <2>3. [ctx[x0] EXCEPT !.thread = th] \in
          [life : Life, kind : Kind \union {None},
           cached : {"strong", "weak", "no"}, thread : Thread \union {None}]
    BY <2>2
  <2> QED
    BY <1>2, <2>1, <2>2, <2>3 DEF SniInv, TypeOK
<1>6. TypeOK'
  BY <1>1, <1>4, <1>5 DEF SniInv, TypeOK
<1>7. OwnersInv'
  BY <1>1, <1>5 DEF SniInv, OwnersInv, Alive, Open
<1>8. ConnsInv'
  <2>1. \A d \in Conn : Alerted(d) => Alerted(d)'
    BY <1>4, <1>b DEF Alerted
  <2>2. \A d \in Conn : Alerted(d)' => Alerted(d)
    BY <1>4, <1>b DEF Alerted
  <2> QED
    BY <1>1, <2>1, <2>2 DEF SniInv, ConnsInv, ConnOk, CtxOf, Decided
<1>9. FramesInv'
  <2>1. ASSUME NEW i \in 1..Len(stack') PROVE FrameOk(i)'
    <3>1. CASE i \in 1..n
      BY <1>1, <1>4, <1>b, <3>1, LuaFrames DEF SniInv, FramesInv, FrameOk, Alive
    <3>2. CASE i = n + 1
      BY <1>1, <1>2, <1>4, <1>a, <3>2 DEF FrameOk, Alive
    <3> QED
      BY <1>4, <3>1, <3>2
  <2>2. ASSUME NEW i \in 1..Len(stack'), NEW j \in 1..Len(stack'), stack'[i].c = stack'[j].c
        PROVE  i = j
    <3>1. (i \in 1..n \/ i = n + 1) /\ (j \in 1..n \/ j = n + 1)
      BY <1>4
    <3> QED
      BY <1>1, <1>4, <1>b, <2>2, <3>1 DEF SniInv, FramesInv, FrameOk
  <2> QED
    BY <2>1, <2>2 DEF FramesInv
<1>10. ThreadsInv'
  <2>1. \A i \in 1..n : CtxOf(stack[i].p)' = CtxOf(stack[i].p)
    BY <1>1, <1>4 DEF CtxOf
  <2>2. CtxOf(stack[n + 1].p)' = x0
    BY <1>2, <1>4 DEF CtxOf
  <2>3. ASSUME NEW x \in Ctx PROVE Innermost(x, Len(stack), ctx[x].thread)'
    <3>1. CASE x = x0
      <4>1. /\ n + 1 \in 1..Len(stack') /\ stack'[n + 1].th = ctx'[x].thread
            /\ CtxOf(stack[n + 1].p)' = x /\ \A j \in (n + 2)..Len(stack') : FALSE
        BY <1>4, <1>5, <2>2, <3>1
      <4>2. \A j \in (n + 1 + 1)..Len(stack') : CtxOf(stack[j].p)' # x
        BY <1>4, <4>1
      <4> QED
        BY <4>1, <4>2 DEF Innermost
    <3>2. CASE x # x0
      <4>1. Innermost(x, n, ctx[x].thread) /\ ctx'[x].thread = ctx[x].thread
        BY <1>5, <1>b, <3>2 DEF SniInv, ThreadsInv
      <4>2. CASE ctx[x].thread = None /\ \A i \in 1..n : CtxOf(stack[i].p) # x
        <5>1. \A i \in 1..Len(stack') : CtxOf(stack[i].p)' # x
          BY <1>4, <2>1, <2>2, <3>2, <4>2
        <5> QED
          BY <4>1, <4>2, <5>1 DEF Innermost
      <4>3. ASSUME NEW i \in 1..n, CtxOf(stack[i].p) = x, stack[i].th = ctx[x].thread,
                   \A j \in (i + 1)..n : CtxOf(stack[j].p) # x
            PROVE  Innermost(x, Len(stack), ctx[x].thread)'
        <5>1. /\ CtxOf(stack[i].p)' = x /\ stack'[i].th = ctx'[x].thread
              /\ i \in 1..Len(stack')
          BY <1>4, <2>1, <4>1, <4>3
        <5>2. \A j \in (i + 1)..Len(stack') : CtxOf(stack[j].p)' # x
          <6> SUFFICES ASSUME NEW j \in (i + 1)..Len(stack') PROVE CtxOf(stack[j].p)' # x
            OBVIOUS
          <6>1. j \in (i + 1)..n \/ j = n + 1
            BY <1>4
          <6> QED
            BY <1>4, <2>1, <2>2, <3>2, <4>3, <6>1
        <5> QED
          BY <5>1, <5>2 DEF Innermost
      <4> QED
        BY <4>1, <4>2, <4>3 DEF Innermost
    <3> QED
      BY <3>1, <3>2
  <2>4. ASSUME NEW i \in 1..Len(stack')
        PROVE  Innermost(CtxOf(stack[i].p), i - 1, stack[i].saved)'
    <3>1. CASE i \in 1..n
      <4>1. \A j \in 1..(i - 1) : j \in 1..n
        BY <1>4
      <4>2. Innermost(CtxOf(stack[i].p), i - 1, stack[i].saved)
        BY <3>1, <1>b DEF SniInv, ThreadsInv
      <4> QED
        BY <1>4, <2>1, <3>1, <4>1, <4>2 DEF Innermost
    <3>2. CASE i = n + 1
      <4>1. Innermost(x0, n, prev) /\ i - 1 = n
        BY <1>2, <1>4, <1>b, <1>d, <3>2 DEF SniInv, ThreadsInv
      <4>2. stack'[i].saved = prev
        BY <1>4, <3>2
      <4> QED
        BY <1>4, <2>1, <2>2, <3>2, <4>1, <4>2 DEF Innermost
    <3> QED
      BY <1>4, <3>1, <3>2
  <2> QED
    BY <2>3, <2>4 DEF ThreadsInv
<1> QED
  BY <1>1, <1>6, <1>7, <1>8, <1>9, <1>10 DEF SniInv, TicketsInv

-----------------------------------------------------------------------------
(* The frame on top is replaced by another one. *)
LEMMA ReplacedTop ==
  ASSUME TypeOK, stack # <<>>, NEW f \in Frame
  PROVE  LET s == [stack EXCEPT ![Len(stack)] = f] IN
         /\ s \in Seq(Frame) /\ Len(s) = Len(stack) /\ s[Len(stack)] = f
         /\ \A i \in 1..(Len(stack) - 1) : s[i] = stack[i]
<1>1. stack \in Seq(Frame) /\ Len(stack) \in 1..Len(stack) /\ Len(stack) \in Nat
  BY FrameTypes DEF TypeOK
<1> QED
  BY <1>1, ExceptSeq

(* The frame on top goes on, to where at says. *)
LEMMA SetTop ==
  ASSUME TypeOK, stack # <<>>, NEW at \in {"start", "callback", "answered", "alert"}
  PROVE  /\ Set(at) \in Seq(Frame) /\ Len(Set(at)) = Len(stack)
         /\ \A i \in 1..(Len(stack) - 1) : Set(at)[i] = stack[i]
         /\ Set(at)[Len(stack)] = [Top EXCEPT !.at = at]
<1>1. Top = stack[Len(stack)] /\ Top \in Frame
  BY TopFrame, ElementOfSeq DEF TypeOK
<1>2. [Top EXCEPT !.at = at] \in Frame
  BY <1>1 DEF Frame
<1>3. Set(at) = [stack EXCEPT ![Len(stack)] = [Top EXCEPT !.at = at]]
  BY <1>1 DEF Set
<1> QED
  BY <1>2, <1>3, ReplacedTop

(* The handshake on top decides something about its connection.            *)
LEMMA TopStep ==
  ASSUME SniInv, TypeOK', stack # <<>>, UNCHANGED <<server, ctx, tickets>>,
         NEW c, c = Top.c, NEW n, n = Len(stack), Len(stack') = n,
         \A i \in 1..(n - 1) : stack'[i] = stack[i],
         stack'[n].c = c, stack'[n].th = Top.th, stack'[n].p = Top.p,
         stack'[n].saved = Top.saved,
         \A d \in Conn \ {c} : conn'[d] = conn[d],
         conn'[c].at = conn[c].at, conn'[c].resumed = conn[c].resumed,
         conn'[c].parent \in Server, Alive(conn'[c].parent),
         conn'[c].parent = conn[c].parent \/ conn[c].resumed = None,
         stack'[n].at # "alert" =>
           \A i \in Setting : conn'[c].policy[i] = CtxOf(conn'[c].parent),
         conn[c].at = "retry" => Decided(c)',
         FrameOk(n)'
  PROVE  SniInv'
<1>1. /\ n \in 1..n /\ n \in Nat /\ Top = stack[n] /\ c \in Conn
      /\ \A i \in 1..n : i = n \/ i \in 1..(n - 1)
  BY TopFrame, FrameTypes DEF SniInv
<1>2. \A i \in 1..n : /\ stack'[i].c = stack[i].c /\ stack'[i].th = stack[i].th
                      /\ stack'[i].p = stack[i].p /\ stack'[i].saved = stack[i].saved
  BY <1>1
<1>3. OwnersInv'
  BY <1>1 DEF SniInv, OwnersInv, Open, Alive
<1>4. \A i \in 1..(n - 1) : stack[i].c # c /\ stack[i].at = "callback"
  BY <1>1 DEF SniInv, FramesInv, FrameOk
<1>5. ConnsInv'
  <2> SUFFICES ASSUME NEW d \in Conn PROVE ConnOk(d)'
    BY DEF ConnsInv
  <2>1. CASE d = c
    <3>1. stack'[n].at = "alert" => Alerted(c)'
      BY <1>1 DEF Alerted
    <3>2. ConnOk(c)
      BY <1>1 DEF SniInv, ConnsInv
    <3> QED
      BY <2>1, <3>1, <3>2 DEF ConnOk, CtxOf
  <2>2. CASE d # c
    <3>1. Alerted(d) => Alerted(d)'
      BY <1>1, <1>4, <2>2 DEF Alerted
    <3>2. conn'[d] = conn[d] /\ ConnOk(d)
      BY <2>2 DEF SniInv, ConnsInv
    <3> QED
      BY <3>1, <3>2 DEF ConnOk, CtxOf, Decided
  <2> QED
    BY <2>1, <2>2
<1>6. FramesInv'
  <2>1. ASSUME NEW i \in 1..Len(stack') PROVE FrameOk(i)'
    <3>1. CASE i = n
      BY <3>1
    <3>2. CASE i # n
      <4>1. stack'[i] = stack[i] /\ stack[i].c \in Conn \ {c} /\ i \in 1..Len(stack)
        BY <1>1, <1>4, <3>2, FrameTypes DEF SniInv
      <4>2. FrameOk(i) /\ conn'[stack[i].c] = conn[stack[i].c]
        BY <4>1 DEF SniInv, FramesInv
      <4> QED
        BY <4>1, <4>2 DEF FrameOk, Alive, Decided
    <3> QED
      BY <3>1, <3>2
  <2> QED
    BY <1>2, <2>1 DEF SniInv, FramesInv
<1>7. ThreadsInv'
  <2>1. \A i \in 1..n : CtxOf(stack[i].p)' = CtxOf(stack[i].p)
    BY <1>2 DEF CtxOf
  <2>2. ASSUME NEW x \in Ctx PROVE Innermost(x, Len(stack), ctx[x].thread)'
    BY <1>1, <1>2, <2>1 DEF SniInv, ThreadsInv, Innermost
  <2>3. ASSUME NEW i \in 1..Len(stack')
        PROVE  Innermost(CtxOf(stack[i].p), i - 1, stack[i].saved)'
    <3>1. \A j \in 1..(i - 1) : j \in 1..n
      BY <1>1
    <3>2. Innermost(CtxOf(stack[i].p), i - 1, stack[i].saved)
      BY DEF SniInv, ThreadsInv
    <3> QED
      BY <1>1, <1>2, <2>1, <3>1, <3>2 DEF Innermost
  <2> QED
    BY <2>2, <2>3 DEF ThreadsInv
<1> QED
  BY <1>3, <1>5, <1>6, <1>7 DEF SniInv, TicketsInv

(* SSL_accept returns, and the connection goes on or has failed.           *)
LEMMA LeaveStep ==
  ASSUME SniInv, TypeOK', TicketsInv', stack # <<>>, UNCHANGED server,
         NEW c, c = Top.c, NEW x0, x0 = CtxOf(Top.p),
         stack' = Front(stack), ctx' = [ctx EXCEPT ![x0].thread = Top.saved],
         \A d \in Conn \ {c} : conn'[d] = conn[d],
         conn'[c].parent = conn[c].parent, conn'[c].policy = conn[c].policy,
         conn'[c].done = conn[c].done,
         conn'[c].at \in {"fresh", "retry", "chosen", "up"} => Top.at # "alert",
         conn'[c].at # "closed", conn'[c].at # "unborn",
         conn'[c].at = "retry" => Decided(c),
         conn'[c].at \in {"fresh", "retry"} => conn'[c].resumed = None,
         conn'[c].resumed # None => conn'[c].resumed = CtxOf(conn[c].parent)
  PROVE  SniInv'
<1>a. PICK n : n = Len(stack)
  OBVIOUS
<1>1. /\ n \in 1..n /\ n \in Nat /\ Top = stack[n] /\ c \in Conn /\ Top.p \in Server
      /\ \A i \in 1..n : i = n \/ i \in 1..(n - 1)
  BY <1>a, TopFrame, FrameTypes DEF SniInv
<1>2. Len(stack') = n - 1 /\ \A i \in 1..(n - 1) : stack'[i] = stack[i]
  BY <1>a, Shorter DEF SniInv
<1>3. FrameOk(n) /\ x0 \in Ctx
  <2>1. FrameOk(n)
    BY <1>1, <1>a DEF SniInv, FramesInv
  <2> QED
    BY <1>1, <2>1 DEF FrameOk, CtxOf, SniInv, OwnersInv
<1>4. /\ \A x \in Ctx : ctx'[x].life = ctx[x].life /\ ctx'[x].kind = ctx[x].kind
      /\ \A x \in Ctx : ctx'[x].thread = IF x = x0 THEN Top.saved ELSE ctx[x].thread
  BY <1>3 DEF SniInv, TypeOK
<1>5. \A i \in 1..(n - 1) : stack[i].c # c /\ stack[i].at = "callback"
  BY <1>1, <1>a DEF SniInv, FramesInv, FrameOk
<1>6. OwnersInv'
  <2>1. Open(c)
    BY <1>1, <1>3 DEF FrameOk, Open
  <2> QED
    BY <1>4, <2>1 DEF SniInv, OwnersInv, Open, Alive
<1>7. ConnsInv'
  <2> SUFFICES ASSUME NEW d \in Conn PROVE ConnOk(d)'
    BY DEF ConnsInv
  <2>1. CASE d = c
    <3>1. Top.at # "alert" => ~Alerted(c)
      BY <1>1, <1>5, <1>a DEF Alerted
    <3>2. ConnOk(c) /\ conn[c].at \in {"fresh", "retry", "chosen"}
      BY <1>1, <1>3 DEF SniInv, ConnsInv, FrameOk
    <3>3. conn'[c].at \in {"fresh", "retry", "chosen", "up"} =>
            \A i \in Setting : conn'[c].policy[i] = CtxOf(conn'[c].parent)
      BY <3>1, <3>2 DEF ConnOk
    <3> QED
      BY <2>1, <3>3 DEF ConnOk, CtxOf, Decided
  <2>2. CASE d # c
    <3>1. Alerted(d) => Alerted(d)'
      BY <1>1, <1>2, <1>a, <2>2 DEF Alerted
    <3>2. conn'[d] = conn[d] /\ ConnOk(d)
      BY <2>2 DEF SniInv, ConnsInv
    <3> QED
      BY <3>1, <3>2 DEF ConnOk, CtxOf, Decided
  <2> QED
    BY <2>1, <2>2
<1>8. FramesInv'
  <2>1. ASSUME NEW i \in 1..Len(stack') PROVE FrameOk(i)'
    <3>1. /\ stack'[i] = stack[i] /\ stack[i].c \in Conn \ {c} /\ i \in 1..Len(stack)
          /\ stack[i].at = "callback"
      BY <1>1, <1>2, <1>5, <1>a, FrameTypes DEF SniInv
    <3>2. FrameOk(i) /\ conn'[stack[i].c] = conn[stack[i].c]
      BY <3>1 DEF SniInv, FramesInv
    <3> QED
      BY <3>1, <3>2 DEF FrameOk, Alive, Decided
  <2>2. \A i \in 1..Len(stack') : stack'[i] = stack[i] /\ i \in 1..Len(stack)
    BY <1>1, <1>2, <1>a
  <2> QED
    BY <2>1, <2>2 DEF SniInv, FramesInv
<1>9. ThreadsInv'
  <2>1. \A i \in 1..(n - 1) : CtxOf(stack[i].p)' = CtxOf(stack[i].p)
    BY <1>2 DEF CtxOf
  <2>2. ASSUME NEW x \in Ctx PROVE Innermost(x, Len(stack), ctx[x].thread)'
    <3>1. PICK t : t = ctx'[x].thread
      OBVIOUS
    <3>2. CASE x = x0
      <4>1. Innermost(x, n - 1, t)
        BY <1>1, <1>4, <1>a, <3>1, <3>2 DEF SniInv, ThreadsInv
      <4>2. \A i \in 1..Len(stack') :
              CtxOf(stack[i].p)' = CtxOf(stack[i].p) /\ stack'[i].th = stack[i].th
        BY <1>2, <2>1
      <4>3. Len(stack') = n - 1 /\ n - 1 \in Nat
        BY <1>1, <1>2
      <4> QED
        BY <3>1, <4>1, <4>2, <4>3 DEF Innermost
    <3>3. CASE x # x0
      <4>1. Innermost(x, n, ctx[x].thread) /\ ctx'[x].thread = ctx[x].thread
        BY <1>4, <1>a, <3>3 DEF SniInv, ThreadsInv
      <4>2. CtxOf(stack[n].p) # x
        BY <1>1, <3>3
      <4> QED
        BY <1>1, <1>2, <2>1, <4>1, <4>2 DEF Innermost
    <3> QED
      BY <3>2, <3>3
  <2>3. ASSUME NEW i \in 1..Len(stack')
        PROVE  Innermost(CtxOf(stack[i].p), i - 1, stack[i].saved)'
    <3>1. \A j \in 1..(i - 1) : j \in 1..(n - 1)
      BY <1>1, <1>2
    <3>2. Innermost(CtxOf(stack[i].p), i - 1, stack[i].saved)
      BY <1>1, <1>2, <1>a DEF SniInv, ThreadsInv
    <3> QED
      BY <1>1, <1>2, <2>1, <3>1, <3>2 DEF Innermost
  <2> QED
    BY <2>2, <2>3 DEF ThreadsInv
<1> QED
  BY <1>6, <1>7, <1>8, <1>9 DEF SniInv

-----------------------------------------------------------------------------
(* The record of a connection, typed. *)
LEMMA ConnTypes ==
  ASSUME TypeOK, NEW c \in Conn
  PROVE  /\ conn[c].at \in Stage /\ conn[c].parent \in 0..MaxServer
         /\ conn[c].key \in 0..MaxCtx /\ conn[c].policy \in [Setting -> 0..MaxCtx]
         /\ conn[c].done \in BOOLEAN /\ conn[c].resumed \in 0..MaxCtx \union {None}
BY DEF TypeOK

(* The handshake at work on its hello, or whose callback returns: nothing  *)
(* has been moved in it yet.                                               *)
LEMMA Unmoved ==
  ASSUME SniInv, stack # <<>>, Top.at \in {"start", "callback"}
  PROVE  /\ Top.c \in Conn /\ Top.p = conn[Top.c].parent /\ Top.p \in Server /\ Alive(Top.p)
         /\ Open(Top.c) /\ CtxOf(Top.p) \in Ctx
         /\ ctx[CtxOf(Top.p)].thread = Top.th /\ Top.th \in Thread
         /\ \A i \in Setting : conn[Top.c].policy[i] = CtxOf(conn[Top.c].parent)
<1>a. PICK n : n = Len(stack)
  OBVIOUS
<1>1. n \in 1..n /\ n \in Nat /\ Top = stack[n] /\ Top.c \in Conn /\ Top.th \in Thread
  BY <1>a, TopFrame, FrameTypes DEF SniInv
<1>2. FrameOk(n) /\ ConnOk(Top.c)
  BY <1>1, <1>a DEF SniInv, FramesInv, ConnsInv
<1>3. /\ Top.p = conn[Top.c].parent /\ Open(Top.c)
      /\ conn[Top.c].at \in {"fresh", "retry", "chosen"}
  BY <1>1, <1>2 DEF FrameOk, Open
<1>4. Top.p \in Server /\ Alive(Top.p) /\ CtxOf(Top.p) \in Ctx
  BY <1>1, <1>3, OpenHasCtx
<1>5. ~Alerted(Top.c)
  <2>1. \A i \in 1..n : stack[i].c = Top.c => i = n
    BY <1>1, <1>a DEF SniInv, FramesInv
  <2> QED
    BY <1>1, <1>a, <2>1 DEF Alerted
<1>6. ctx[CtxOf(Top.p)].thread = Top.th
  <2>1. Innermost(CtxOf(Top.p), n, ctx[CtxOf(Top.p)].thread)
    BY <1>4, <1>a DEF SniInv, ThreadsInv
  <2> QED
    BY <1>1, <2>1 DEF Innermost
<1> QED
  BY <1>1, <1>2, <1>3, <1>4, <1>5, <1>6 DEF ConnOk

(* nil and errors: the frame goes on, the connection stays. *)
LEMMA ReturnPlainStep ==
  ASSUME SniInv, ReturnNil \/ ReturnError
  PROVE  SniInv'
<1>a. PICK n : n = Len(stack)
  OBVIOUS
<1>b. PICK at \in {"answered", "alert"} : stack' = Set(at)
  BY DEF ReturnNil, ReturnError
<1>c. PICK c : c = Top.c
  OBVIOUS
<1>1. stack # <<>> /\ Top.at = "callback" /\ UNCHANGED <<server, ctx, conn, tickets>>
  BY DEF ReturnNil, ReturnError, InFrame
<1>2. /\ stack' \in Seq(Frame) /\ Len(stack') = n
      /\ \A i \in 1..(n - 1) : stack'[i] = stack[i]
      /\ stack'[n] = [Top EXCEPT !.at = at]
  BY <1>1, <1>a, <1>b, SetTop DEF SniInv
<1>3. Top = stack[n] /\ Top \in Frame /\ n \in 1..n
  BY <1>1, <1>a, TopFrame, ElementOfSeq DEF SniInv, TypeOK
<1>4. /\ stack'[n].c = c /\ stack'[n].th = Top.th /\ stack'[n].p = Top.p
      /\ stack'[n].saved = Top.saved /\ stack'[n].at = at
  BY <1>2, <1>3, <1>c DEF Frame
<1>5. FrameOk(n) /\ c \in Conn /\ conn[c].parent \in Server /\ Alive(conn[c].parent)
  BY <1>1, <1>3, <1>a, <1>c, Unmoved DEF SniInv, FramesInv
<1>6. TypeOK'
  BY <1>1, <1>2 DEF SniInv, TypeOK
<1>7. conn[c].at = "fresh" /\ conn[c].done
  BY <1>1, <1>3, <1>5, <1>c DEF FrameOk
<1>8. FrameOk(n)'
  BY <1>1, <1>2, <1>3, <1>4, <1>5, <1>7 DEF FrameOk, Alive, Decided
<1>9. \A i \in Setting : conn[c].policy[i] = CtxOf(conn[c].parent)
  BY <1>1, <1>c, Unmoved
<1> QED
  BY <1>1, <1>2, <1>4, <1>5, <1>6, <1>7, <1>8, <1>9, <1>a, <1>c, TopStep

(* The callback is asked for a first hello only, in the driving coroutine. *)
LEMMA HelloStep ==
  ASSUME SniInv, NEW name \in {"none", "bad", "host"}, Hello(name)
  PROVE  SniInv'
<1>a. PICK n : n = Len(stack)
  OBVIOUS
<1>b. PICK c : c = Top.c
  OBVIOUS
<1>c. PICK asks \in BOOLEAN : asks <=> server[conn[c].parent].sni /\ ~conn[c].done
  OBVIOUS
<1>1. /\ stack # <<>> /\ Top.at = "start" /\ conn[c].at \in {"fresh", "retry"}
      /\ UNCHANGED <<server, ctx, tickets>>
  BY <1>b DEF Hello, AtHello, InFrame
<1>2. /\ c \in Conn /\ Top.p = conn[c].parent /\ Top.p \in Server /\ Alive(Top.p)
      /\ ctx[CtxOf(Top.p)].thread = Top.th
      /\ \A i \in Setting : conn[c].policy[i] = CtxOf(conn[c].parent)
  BY <1>1, <1>b, Unmoved
<1>3. Top = stack[n] /\ Top \in Frame /\ n \in 1..n /\ FrameOk(n) /\ ConnOk(c)
  BY <1>1, <1>2, <1>a, TopFrame, ElementOfSeq DEF SniInv, TypeOK, FramesInv, ConnsInv
<1>4. PICK f \in Frame :
        /\ stack' = [stack EXCEPT ![Len(stack)] = f]
        /\ f.c = c /\ f.th = Top.th /\ f.p = Top.p /\ f.saved = Top.saved
        /\ \/ f.at = "answered"
           \/ f.at = "alert" /\ asks
           \/ f.at = "callback" /\ asks /\ f.ran = Top.th
  <2>1. /\ [Top EXCEPT !.at = "answered"] \in Frame /\ [Top EXCEPT !.at = "alert"] \in Frame
        /\ [Top EXCEPT !.at = "callback", !.ran = Top.th] \in Frame
    BY <1>3 DEF Frame
  <2>2. \/ stack' = [stack EXCEPT ![Len(stack)] = [Top EXCEPT !.at = "answered"]]
        \/ asks /\ stack' = [stack EXCEPT ![Len(stack)] = [Top EXCEPT !.at = "alert"]]
        \/ asks /\ stack' = [stack EXCEPT ![Len(stack)] =
                               [Top EXCEPT !.at = "callback", !.ran = Top.th]]
    <3>1. \/ stack' = Set("answered") \/ (asks /\ stack' = Set("alert"))
          \/ asks /\ stack' = [stack EXCEPT ![Len(stack)].at = "callback",
                                            ![Len(stack)].ran = Top.th]
      BY <1>2, <1>b, <1>c DEF Hello
    <3>2. [stack EXCEPT ![Len(stack)].at = "callback", ![Len(stack)].ran = Top.th]
            = [stack EXCEPT ![Len(stack)] = [Top EXCEPT !.at = "callback", !.ran = Top.th]]
      BY <1>3, <1>a
    <3> QED
      BY <1>3, <1>a, <3>1, <3>2 DEF Set
  <2>3. /\ \A a \in {"answered", "alert"} : LET g == [Top EXCEPT !.at = a] IN
             /\ g.at = a /\ g.c = Top.c /\ g.th = Top.th /\ g.p = Top.p /\ g.saved = Top.saved
        /\ LET g == [Top EXCEPT !.at = "callback", !.ran = Top.th] IN
             /\ g.at = "callback" /\ g.ran = Top.th
             /\ g.c = Top.c /\ g.th = Top.th /\ g.p = Top.p /\ g.saved = Top.saved
    BY <1>3 DEF Frame
  <2> QED
    BY <1>b, <2>1, <2>2, <2>3
<1>5. /\ stack' \in Seq(Frame) /\ Len(stack') = n /\ stack'[n] = f
      /\ \A i \in 1..(n - 1) : stack'[i] = stack[i]
  BY <1>1, <1>4, <1>a, ReplacedTop DEF SniInv
<1>d. PICK b \in BOOLEAN : b = (conn[c].done \/ asks)
  OBVIOUS
<1>6. conn' = [conn EXCEPT ![c] = [conn[c] EXCEPT !.done = b]]
  BY <1>b, <1>c, <1>d DEF Hello
<1>7. /\ \A d \in Conn \ {c} : conn'[d] = conn[d]
      /\ conn'[c].at = conn[c].at /\ conn'[c].parent = conn[c].parent
      /\ conn'[c].policy = conn[c].policy /\ conn'[c].resumed = conn[c].resumed
      /\ conn'[c].done = b
  BY <1>2, <1>6 DEF SniInv, TypeOK
<1>8. TypeOK'
  <2>0. conn[c] \in
          [at : Stage, parent : 0..MaxServer, key : 0..MaxCtx, policy : [Setting -> 0..MaxCtx],
           done : BOOLEAN, resumed : 0..MaxCtx \union {None}]
    BY <1>2 DEF SniInv, TypeOK
  <2>1. [conn[c] EXCEPT !.done = b] \in
          [at : Stage, parent : 0..MaxServer, key : 0..MaxCtx, policy : [Setting -> 0..MaxCtx],
           done : BOOLEAN, resumed : 0..MaxCtx \union {None}]
    BY <2>0
  <2>2. conn' \in [Conn -> [at : Stage, parent : 0..MaxServer, key : 0..MaxCtx,
                            policy : [Setting -> 0..MaxCtx], done : BOOLEAN,
                            resumed : 0..MaxCtx \union {None}]]
    BY <1>2, <1>6, <2>1 DEF SniInv, TypeOK
  <2> QED
    BY <1>1, <1>5, <2>2 DEF SniInv, TypeOK
<1>9. asks => conn[c].at = "fresh"
  BY <1>1, <1>3, <1>c DEF ConnOk, Decided
<1>10. Decided(c)'
  BY <1>1, <1>7, <1>c, <1>d DEF Decided
<1>11. FrameOk(n)'
  <2>1. /\ stack'[n].c = c /\ stack'[n].p = conn'[c].parent /\ stack'[n].at = f.at
        /\ Alive(stack[n].p)' /\ n = Len(stack')
    BY <1>1, <1>2, <1>4, <1>5, <1>7 DEF Alive
  <2>2. CASE f.at = "answered"
    BY <1>1, <1>7, <1>10, <2>1, <2>2 DEF FrameOk
  <2>3. CASE f.at = "alert" /\ asks
    BY <1>7, <1>9, <2>1, <2>3 DEF FrameOk
  <2>4. CASE f.at = "callback" /\ asks /\ f.ran = Top.th
    <3>1. conn'[c].done /\ conn'[c].at = "fresh" /\ stack'[n].ran = stack'[n].th
      BY <1>4, <1>5, <1>7, <1>9, <1>d, <2>4
    <3> QED
      BY <2>1, <2>4, <3>1 DEF FrameOk
  <2> QED
    BY <1>4, <2>2, <2>3, <2>4
<1>12. /\ stack'[n].c = c /\ stack'[n].th = Top.th /\ stack'[n].p = Top.p
       /\ stack'[n].saved = Top.saved
  BY <1>4, <1>5
<1>13. /\ conn'[c].parent \in Server /\ Alive(conn'[c].parent)
       /\ \A i \in Setting : conn'[c].policy[i] = CtxOf(conn'[c].parent)
  BY <1>2, <1>7
<1> QED
  BY <1>1, <1>5, <1>7, <1>8, <1>10, <1>11, <1>12, <1>13, <1>a, <1>b, TopStep

(* The callback names a server: all of its settings, or an alert. *)
LEMMA ReturnServerStep ==
  ASSUME SniInv, NEW t \in Server, ReturnServer(t)
  PROVE  SniInv'
<1>a. PICK n : n = Len(stack)
  OBVIOUS
<1>b. PICK c : c = Top.c
  OBVIOUS
<1>1. /\ stack # <<>> /\ Top.at = "callback" /\ server[t].held
      /\ UNCHANGED <<server, ctx, tickets>>
  BY DEF ReturnServer, InFrame
<1>2. /\ c \in Conn /\ Top.p = conn[c].parent /\ Top.p \in Server /\ Alive(Top.p)
      /\ Alive(t) /\ CtxOf(t) \in Ctx
  BY <1>1, <1>b, Unmoved DEF SniInv, OwnersInv, CtxOf
<1>3. Top = stack[n] /\ Top \in Frame /\ n \in 1..n /\ FrameOk(n) /\ ConnOk(c)
  BY <1>1, <1>2, <1>a, TopFrame, ElementOfSeq DEF SniInv, TypeOK, FramesInv, ConnsInv
<1>4. PICK fails \in {{}} \union {{i} : i \in Unlucky}, policy \in [Setting -> 0..MaxCtx],
           at \in {"answered", "alert"} :
        /\ conn' = [conn EXCEPT ![c].parent = t, ![c].policy = policy]
        /\ stack' = Set(at)
        /\ at = "answered" => \A i \in Setting : policy[i] = CtxOf(t)
  <2> DEFINE moved(fs) == [i \in Setting |->
               IF i \in fs \/ \E j \in fs \intersect Fallible : i > j
               THEN conn[c].policy[i] ELSE CtxOf(t)]
             ends(fs) == IF fs \intersect Fallible = {} THEN "answered" ELSE "alert"
  <2>1. PICK fs \in {{}} \union {{i} : i \in Unlucky} :
          /\ conn' = [conn EXCEPT ![c].parent = t, ![c].policy = moved(fs)]
          /\ stack' = Set(ends(fs))
    BY <1>b DEF ReturnServer
  <2>2. moved(fs) \in [Setting -> 0..MaxCtx]
    <3>1. conn[c].policy \in [Setting -> 0..MaxCtx] /\ CtxOf(t) \in 0..MaxCtx
      BY <1>2, ConnTypes, SniAssumption DEF SniInv, Ctx
    <3> QED
      BY <3>1
  <2>3. ends(fs) = "answered" => fs = {}
    BY <2>1 DEF Unlucky, Fallible
  <2>4. ends(fs) = "answered" => \A i \in Setting : moved(fs)[i] = CtxOf(t)
    BY <2>3
  <2>5. ends(fs) \in {"answered", "alert"}
    OBVIOUS
  <2> HIDE DEF moved, ends
  <2> QED
    BY <2>1, <2>2, <2>4, <2>5
<1>5. /\ stack' \in Seq(Frame) /\ Len(stack') = n
      /\ \A i \in 1..(n - 1) : stack'[i] = stack[i]
      /\ stack'[n] = [Top EXCEPT !.at = at]
  BY <1>1, <1>4, <1>a, SetTop DEF SniInv
<1>6. /\ stack'[n].c = c /\ stack'[n].th = Top.th /\ stack'[n].p = Top.p
      /\ stack'[n].saved = Top.saved /\ stack'[n].at = at
  BY <1>3, <1>5, <1>b DEF Frame
<1>7. /\ \A d \in Conn \ {c} : conn'[d] = conn[d]
      /\ conn'[c].at = conn[c].at /\ conn'[c].parent = t /\ conn'[c].policy = policy
      /\ conn'[c].resumed = conn[c].resumed /\ conn'[c].done = conn[c].done
  BY <1>2, <1>4 DEF SniInv, TypeOK
<1>8. TypeOK'
  <2>1. t \in 0..MaxServer
    BY SniAssumption DEF Server
  <2>0. conn[c] \in
          [at : Stage, parent : 0..MaxServer, key : 0..MaxCtx, policy : [Setting -> 0..MaxCtx],
           done : BOOLEAN, resumed : 0..MaxCtx \union {None}]
    BY <1>2 DEF SniInv, TypeOK
  <2>2. [conn[c] EXCEPT !.parent = t, !.policy = policy] \in
          [at : Stage, parent : 0..MaxServer, key : 0..MaxCtx, policy : [Setting -> 0..MaxCtx],
           done : BOOLEAN, resumed : 0..MaxCtx \union {None}]
    BY <2>0, <2>1
  <2>3. conn' = [conn EXCEPT ![c] = [conn[c] EXCEPT !.parent = t, !.policy = policy]]
    BY <1>2, <1>4 DEF SniInv, TypeOK
  <2> QED
    BY <1>1, <1>5, <2>2, <2>3 DEF SniInv, TypeOK
<1>9. conn[c].at = "fresh" /\ conn[c].done /\ conn[c].resumed = None
  BY <1>1, <1>3, <1>b DEF FrameOk, ConnOk
<1>10. FrameOk(n)'
  BY <1>1, <1>2, <1>4, <1>5, <1>6, <1>7, <1>9 DEF FrameOk, Alive, Decided
<1>11. at # "alert" => \A i \in Setting : conn'[c].policy[i] = CtxOf(conn'[c].parent)
  BY <1>4, <1>7
<1> QED
  BY <1>1, <1>2, <1>5, <1>6, <1>7, <1>8, <1>9, <1>10, <1>11, <1>a, <1>b, TopStep

-----------------------------------------------------------------------------
(* What a return from SSL_accept changes. *)
LEMMA LeaveEffect ==
  ASSUME SniInv, stack # <<>>, NEW c, c = Top.c, NEW at \in Stage,
         NEW r \in 0..MaxCtx \union {None}, UNCHANGED server, LeaveWith(at, r),
         tickets' \subseteq [key : 0..MaxCtx, sid : 0..MaxCtx, of : 0..MaxCtx,
                             kind : Kind \union {None}, life : Kind \union {None}]
  PROVE  /\ TypeOK' /\ \A d \in Conn \ {c} : conn'[d] = conn[d]
         /\ conn'[c].at = at /\ conn'[c].resumed = r /\ conn'[c].parent = conn[c].parent
         /\ conn'[c].policy = conn[c].policy /\ conn'[c].done = conn[c].done
         /\ stack' = Front(stack) /\ ctx' = [ctx EXCEPT ![CtxOf(Top.p)].thread = Top.saved]
<1> DEFINE Connection == [at : Stage, parent : 0..MaxServer, key : 0..MaxCtx,
                          policy : [Setting -> 0..MaxCtx], done : BOOLEAN,
                          resumed : 0..MaxCtx \union {None}]
           Context == [life : Life, kind : Kind \union {None},
                       cached : {"strong", "weak", "no"}, thread : Thread \union {None}]
<1>a. PICK x0 : x0 = CtxOf(Top.p)
  OBVIOUS
<1>b. /\ stack' = Front(stack) /\ ctx' = [ctx EXCEPT ![x0].thread = Top.saved]
      /\ conn' = [conn EXCEPT ![c].at = at, ![c].resumed = r]
  BY <1>a DEF LeaveWith, Restored, CtxOf
<1>1. c \in Conn /\ Top.saved \in Thread \union {None}
  BY TopFrame, FrameTypes DEF SniInv
<1>2. conn \in [Conn -> Connection] /\ conn[c] \in Connection /\ ctx \in [Ctx -> Context]
  BY <1>1 DEF SniInv, TypeOK
<1>3. [conn[c] EXCEPT !.at = at, !.resumed = r] \in Connection
  BY <1>2
<1>4. ctx' \in [Ctx -> Context]
  <2>1. x0 \in Ctx
    <3>1. Len(stack) \in 1..Len(stack) /\ Top = stack[Len(stack)] /\ Top.p \in Server
      BY TopFrame, FrameTypes DEF SniInv
    <3> QED
      BY <3>1, <1>a DEF SniInv, FramesInv, FrameOk, OwnersInv, CtxOf
  <2>2. ctx[x0] \in Context
    BY <1>2, <2>1
  <2>3. [ctx[x0] EXCEPT !.thread = Top.saved] \in Context
    BY <1>1, <2>2
  <2>4. ctx' = [ctx EXCEPT ![x0] = [ctx[x0] EXCEPT !.thread = Top.saved]]
    BY <1>b
  <2> HIDE DEF Context
  <2> QED
    BY <1>2, <2>3, <2>4
<1>5. conn' = [conn EXCEPT ![c] = [conn[c] EXCEPT !.at = at, !.resumed = r]]
  BY <1>1, <1>2, <1>b
<1>6. conn' \in [Conn -> Connection]
  <2> HIDE DEF Connection
  <2> QED
    BY <1>2, <1>3, <1>5
<1>7. TypeOK'
  <2>1. Front(stack) \in Seq(Frame)
    BY Shorter DEF SniInv
  <2> QED
    BY <1>4, <1>6, <1>b, <2>1 DEF SniInv, TypeOK
<1> QED
  BY <1>1, <1>2, <1>5, <1>7, <1>a, <1>b

(* The records of tickets, typed. *)
LEMMA TicketsTyped ==
  ASSUME TypeOK
  PROVE  tickets \subseteq [key : 0..MaxCtx, sid : 0..MaxCtx, of : 0..MaxCtx,
                            kind : Kind \union {None}, life : Kind \union {None}]
BY DEF TypeOK

(* A return from SSL_accept that leaves what was resumed and the tickets.  *)
LEMMA PlainLeaveStep ==
  ASSUME SniInv, stack # <<>>, UNCHANGED <<server, tickets>>, NEW at \in Stage \ {"unborn", "closed"},
         Leave(at), NEW c, c = Top.c,
         at \in {"fresh", "retry", "chosen", "up"} => Top.at # "alert",
         at = "retry" => Decided(c),
         at \in {"fresh", "retry"} => conn[c].at \in {"fresh", "retry"}
  PROVE  SniInv'
<1>a. PICK x0 : x0 = CtxOf(Top.p)
  OBVIOUS
<1>b. PICK r : r = conn[c].resumed
  OBVIOUS
<1>1. c \in Conn /\ ConnOk(c)
  BY TopFrame, FrameTypes DEF SniInv, ConnsInv
<1>2. r \in 0..MaxCtx \union {None} /\ LeaveWith(at, r)
  BY <1>1, <1>b, ConnTypes DEF SniInv, Leave
<1>3. /\ TypeOK' /\ \A d \in Conn \ {c} : conn'[d] = conn[d]
      /\ conn'[c].at = at /\ conn'[c].resumed = r /\ conn'[c].parent = conn[c].parent
      /\ conn'[c].policy = conn[c].policy /\ conn'[c].done = conn[c].done
      /\ stack' = Front(stack) /\ ctx' = [ctx EXCEPT ![x0].thread = Top.saved]
  <2>1. tickets' \subseteq [key : 0..MaxCtx, sid : 0..MaxCtx, of : 0..MaxCtx,
                            kind : Kind \union {None}, life : Kind \union {None}]
    BY TicketsTyped DEF SniInv
  <2> QED
    BY <1>2, <1>a, <2>1, LeaveEffect
<1>4. TicketsInv'
  BY DEF SniInv, TicketsInv
<1>5. /\ conn[c].at \in {"fresh", "retry"} => conn[c].resumed = None
      /\ conn[c].resumed # None => conn[c].resumed = CtxOf(conn[c].parent)
  BY <1>1 DEF ConnOk
<1>6. /\ conn'[c].at \in {"fresh", "retry", "chosen", "up"} => Top.at # "alert"
      /\ conn'[c].at # "closed" /\ conn'[c].at # "unborn"
      /\ conn'[c].at = "retry" => Decided(c)
      /\ conn'[c].at \in {"fresh", "retry"} => conn'[c].resumed = None
      /\ conn'[c].resumed # None => conn'[c].resumed = CtxOf(conn[c].parent)
  BY <1>3, <1>5, <1>b
<1> QED
  BY <1>3, <1>4, <1>6, <1>a, LeaveStep

(* Nothing has arrived: the connection is what it was. *)
LEMMA WantReadStep ==
  ASSUME SniInv, WantRead
  PROVE  SniInv'
<1>a. PICK c : c = Top.c
  OBVIOUS
<1>b. PICK at : at = conn[c].at
  OBVIOUS
<1>1. stack # <<>> /\ Top.at = "start" /\ UNCHANGED <<server, tickets>> /\ Leave(at)
  BY <1>a, <1>b DEF WantRead
<1>2. c \in Conn /\ ConnOk(c) /\ FrameOk(Len(stack)) /\ Top = stack[Len(stack)]
  BY <1>1, <1>a, TopFrame, FrameTypes DEF SniInv, ConnsInv, FramesInv
<1>3. at \in {"fresh", "retry", "chosen"} /\ (at = "retry" => Decided(c))
  BY <1>2, <1>a, <1>b DEF ConnOk, FrameOk
<1>4. at \in Stage \ {"unborn", "closed"}
  BY <1>3 DEF Stage
<1>5. at \in {"fresh", "retry"} => conn[c].at \in {"fresh", "retry"}
  BY <1>b
<1> QED
  BY <1>1, <1>3, <1>4, <1>5, <1>a, PlainLeaveStep

(* Only a hello whose server is decided is answered with a retry. *)
LEMMA RetryStep ==
  ASSUME SniInv, Retry
  PROVE  SniInv'
<1>a. PICK c : c = Top.c
  OBVIOUS
<1>1. /\ stack # <<>> /\ Top.at = "answered" /\ UNCHANGED <<server, tickets>>
      /\ Leave("retry") /\ conn[c].at = "fresh"
  BY <1>a DEF Retry, InFrame
<1>2. FrameOk(Len(stack)) /\ Top = stack[Len(stack)]
  BY <1>1, TopFrame DEF SniInv, FramesInv
<1>3. Decided(c)
  BY <1>1, <1>2, <1>a DEF FrameOk
<1>4. "retry" \in Stage \ {"unborn", "closed"}
  BY DEF Stage
<1> QED
  BY <1>1, <1>3, <1>4, <1>a, PlainLeaveStep

(* A failed connection promises nothing of its settings. *)
LEMMA FailStep ==
  ASSUME SniInv, Fail
  PROVE  SniInv'
<1>1. stack # <<>> /\ UNCHANGED <<server, tickets>> /\ Leave("failed")
  BY DEF Fail
<1>2. "failed" \in Stage \ {"unborn", "closed"}
  BY DEF Stage
<1> QED
  BY <1>1, <1>2, PlainLeaveStep

(* A ticket that is used was issued by the context selected now. *)
LEMMA FlightStep ==
  ASSUME SniInv, Flight
  PROVE  SniInv'
<1>a. PICK c : c = Top.c
  OBVIOUS
<1>b. PICK x0 : x0 = CtxOf(Top.p)
  OBVIOUS
<1>1. stack # <<>> /\ Top.at = "answered" /\ UNCHANGED <<server, tickets>>
  BY DEF Flight, InFrame
<1>2. PICK r \in {None} \union {t.of : t \in Usable(c)} : LeaveWith("chosen", r)
  BY <1>a DEF Flight
<1>3. /\ c \in Conn /\ ConnOk(c) /\ FrameOk(Len(stack)) /\ Top = stack[Len(stack)]
      /\ Len(stack) \in 1..Len(stack)
  BY <1>1, <1>a, TopFrame, FrameTypes DEF SniInv, ConnsInv, FramesInv
<1>4. \A i \in Setting : conn[c].policy[i] = CtxOf(conn[c].parent)
  <2>1. ~Alerted(c)
    <3>1. \A i \in 1..Len(stack) : stack[i].c = c => i = Len(stack)
      BY <1>3, <1>a DEF SniInv, FramesInv
    <3> QED
      BY <1>1, <1>3, <3>1 DEF Alerted
  <2>2. conn[c].at \in {"fresh", "retry"}
    BY <1>1, <1>3, <1>a DEF FrameOk
  <2> QED
    BY <1>3, <2>1, <2>2 DEF ConnOk
<1>5. r # None => r = CtxOf(conn[c].parent)
  <2>1. ASSUME NEW t \in Usable(c) PROVE t.of = CtxOf(conn[c].parent)
    <3>1. t \in tickets /\ t.sid = conn[c].policy[Chain]
      BY DEF Usable, Sid
    <3>2. t.of = t.sid
      BY <3>1 DEF SniInv, TicketsInv
    <3>3. Chain \in Setting
      BY DEF Chain, Setting, Param
    <3> QED
      BY <1>4, <3>1, <3>2, <3>3
  <2> QED
    BY <1>2, <2>1
<1>6. tickets' \subseteq [key : 0..MaxCtx, sid : 0..MaxCtx, of : 0..MaxCtx,
                          kind : Kind \union {None}, life : Kind \union {None}]
  BY <1>1, TicketsTyped DEF SniInv
<1>7. r \in 0..MaxCtx \union {None} /\ "chosen" \in Stage
  <2>1. \A t \in Usable(c) : t.of \in 0..MaxCtx
    BY <1>1, <1>6 DEF Usable
  <2> QED
    BY <1>2, <2>1 DEF Stage
<1>8. /\ TypeOK' /\ \A d \in Conn \ {c} : conn'[d] = conn[d]
      /\ conn'[c].at = "chosen" /\ conn'[c].resumed = r /\ conn'[c].parent = conn[c].parent
      /\ conn'[c].policy = conn[c].policy /\ conn'[c].done = conn[c].done
      /\ stack' = Front(stack) /\ ctx' = [ctx EXCEPT ![x0].thread = Top.saved]
  BY <1>1, <1>2, <1>6, <1>7, <1>a, <1>b, LeaveEffect
<1>9. TicketsInv'
  BY <1>1 DEF SniInv, TicketsInv
<1> QED
  BY <1>1, <1>5, <1>8, <1>9, <1>a, <1>b, LeaveStep

(* The tickets of an established connection are those of its server. *)
LEMMA FinishStep ==
  ASSUME SniInv, Finish
  PROVE  SniInv'
<1>a. PICK c : c = Top.c
  OBVIOUS
<1>b. PICK x0 : x0 = CtxOf(Top.p)
  OBVIOUS
<1>c. PICK r : r = conn[c].resumed
  OBVIOUS
<1>1. /\ stack # <<>> /\ Top.at = "start" /\ conn[c].at = "chosen" /\ UNCHANGED server
      /\ LeaveWith("up", r) /\ tickets' = tickets \union Issued(c)
  BY <1>a, <1>c DEF Finish, InFrame, Leave
<1>2. /\ c \in Conn /\ ConnOk(c) /\ Open(c)
      /\ \A i \in Setting : conn[c].policy[i] = CtxOf(conn[c].parent)
  BY <1>1, <1>a, Unmoved DEF SniInv, ConnsInv
<1>3. /\ conn[c].parent \in Server /\ CtxOf(conn[c].parent) \in Ctx
      /\ ctx[CtxOf(conn[c].parent)].kind = server[conn[c].parent].kind
  BY <1>2, OpenHasCtx
<1>4. /\ Chain \in Setting /\ Options \in Setting /\ Tickets \in Setting
  BY DEF Chain, Options, Tickets, Setting, Param
<1>5. ASSUME NEW t \in Issued(c)
      PROVE  /\ t \in [key : 0..MaxCtx, sid : 0..MaxCtx, of : 0..MaxCtx,
                       kind : Kind \union {None}, life : Kind \union {None}]
             /\ t.sid = t.of /\ t.kind \notin Silent /\ t.life = t.kind
  <2> DEFINE x == CtxOf(conn[c].parent)
  <2>1. /\ t = [key |-> conn[c].key, sid |-> Sid(conn[c].policy[Chain]), life |-> Lifetime(c),
                of |-> x, kind |-> server[conn[c].parent].kind]
        /\ ctx[conn[c].policy[Options]].kind \notin Silent
    BY DEF Issued
  <2>2. Sid(conn[c].policy[Chain]) = x /\ Lifetime(c) = ctx[x].kind /\ ctx[x].kind \notin Silent
    BY <1>2, <1>4, <2>1 DEF Sid, Lifetime
  <2>3. x \in 0..MaxCtx /\ conn[c].key \in 0..MaxCtx /\ ctx[x].kind \in Kind \union {None}
    BY <1>2, <1>3, ConnTypes, SniAssumption DEF SniInv, TypeOK, Ctx
  <2> HIDE DEF x
  <2>4. ctx[x].kind = server[conn[c].parent].kind
    BY <1>3 DEF x
  <2> QED
    BY <2>1, <2>2, <2>3, <2>4
<1>6. tickets' \subseteq [key : 0..MaxCtx, sid : 0..MaxCtx, of : 0..MaxCtx,
                          kind : Kind \union {None}, life : Kind \union {None}]
  <2>1. tickets \subseteq [key : 0..MaxCtx, sid : 0..MaxCtx, of : 0..MaxCtx,
                           kind : Kind \union {None}, life : Kind \union {None}]
    BY TicketsTyped DEF SniInv
  <2> QED
    BY <1>1, <1>5, <2>1
<1>7. TicketsInv'
  BY <1>1, <1>5 DEF SniInv, TicketsInv
<1>8. r \in 0..MaxCtx \union {None} /\ "up" \in Stage
  BY <1>2, <1>c, ConnTypes DEF SniInv, Stage
<1>9. /\ TypeOK' /\ \A d \in Conn \ {c} : conn'[d] = conn[d]
      /\ conn'[c].at = "up" /\ conn'[c].resumed = r /\ conn'[c].parent = conn[c].parent
      /\ conn'[c].policy = conn[c].policy /\ conn'[c].done = conn[c].done
      /\ stack' = Front(stack) /\ ctx' = [ctx EXCEPT ![x0].thread = Top.saved]
  BY <1>1, <1>6, <1>8, <1>a, <1>b, LeaveEffect
<1>10. r # None => r = CtxOf(conn[c].parent)
  BY <1>2, <1>c DEF ConnOk
<1> QED
  BY <1>1, <1>7, <1>9, <1>10, <1>a, <1>b, LeaveStep

-----------------------------------------------------------------------------
(* Nothing exists: the invariant holds. *)
LEMMA SniInvInit == Init => SniInv
<1> SUFFICES ASSUME Init PROVE SniInv
  OBVIOUS
<1> USE DEF Init
<1>1. TypeOK
  <2>1. Nobody \in 0..MaxServer /\ Nobody \in 0..MaxCtx
    BY SniAssumption DEF Nobody
  <2>2. \A s \in Server : server[s] \in [life : Life, kind : Kind \union {None}, ctx : 0..MaxCtx,
                                         sni : BOOLEAN, held : BOOLEAN]
    BY <2>1 DEF NoServer, Life
  <2>3. \A x \in Ctx : ctx[x] \in [life : Life, kind : Kind \union {None},
                                   cached : {"strong", "weak", "no"}, thread : Thread \union {None}]
    BY DEF NoCtx, Life
  <2>4. \A c \in Conn : conn[c] \in [at : Stage, parent : 0..MaxServer, key : 0..MaxCtx,
                          policy : [Setting -> 0..MaxCtx], done : BOOLEAN,
                          resumed : 0..MaxCtx \union {None}]
    BY <2>1 DEF NoConn, Stage
  <2>5. stack \in Seq(Frame)
    OBVIOUS
  <2> QED
    BY <2>2, <2>3, <2>4, <2>5 DEF TypeOK
<1>2. OwnersInv
  BY DEF OwnersInv, NoServer, NoConn, Open, Alive
<1>3. ConnsInv
  BY DEF ConnsInv, ConnOk, NoConn
<1>4. FramesInv /\ TicketsInv
  BY DEF FramesInv, TicketsInv
<1>5. ThreadsInv
  BY DEF ThreadsInv, Innermost, NoCtx
<1> QED
  BY <1>1, <1>2, <1>3, <1>4, <1>5 DEF SniInv

(* Every step keeps the invariant. *)
LEMMA SniInvNext == SniInv /\ [Next]_vars => SniInv'
<1> SUFFICES ASSUME SniInv, [Next]_vars PROVE SniInv'
  OBVIOUS
<1>1. ASSUME NEW k \in Kind, NEW sni \in BOOLEAN, NEW useCache \in BOOLEAN,
             NewServer(k, sni, useCache)
      PROVE  SniInv'
  BY <1>1, NewServerStep
<1>2. ASSUME NEW x \in Ctx, CollectCtx(x) PROVE SniInv'
  BY <1>2, CollectCtxStep
<1>3. ASSUME NEW x \in Ctx, NEW to \in {"weak", "no"}, Evict(x, to) PROVE SniInv'
  BY <1>3, EvictStep
<1>4. ASSUME NEW s \in Server, Drop(s) PROVE SniInv'
  BY <1>4, DropStep
<1>5. ASSUME NEW s \in Server, CollectServer(s) PROVE SniInv'
  BY <1>5, CollectServerStep
<1>6. ASSUME NEW s \in Server, ReturnServer(s) PROVE SniInv'
  BY <1>6, ReturnServerStep
<1>7. ASSUME NEW s \in Server, NEW c \in Conn, Accept(c, s) PROVE SniInv'
  BY <1>7, AcceptStep
<1>8. ASSUME NEW c \in Conn, Close(c) PROVE SniInv'
  BY <1>8, CloseStep
<1>9. ASSUME NEW c \in Conn, NEW th \in Thread, Handshake(c, th) PROVE SniInv'
  BY <1>9, HandshakeStep
<1>10. ASSUME NEW name \in {"none", "bad", "host"}, Hello(name) PROVE SniInv'
  BY <1>10, HelloStep
<1>11. CASE ReturnNil \/ ReturnError
  BY <1>11, ReturnPlainStep
<1>12. CASE WantRead
  BY <1>12, WantReadStep
<1>13. CASE Retry
  BY <1>13, RetryStep
<1>14. CASE Flight
  BY <1>14, FlightStep
<1>15. CASE Finish
  BY <1>15, FinishStep
<1>16. CASE Fail
  BY <1>16, FailStep
<1>17. CASE UNCHANGED vars
  BY <1>17 DEF vars, SniInv, TypeOK, OwnersInv, ConnsInv, ConnOk, FramesInv, FrameOk, ThreadsInv,
       TicketsInv, Innermost, Open, Alive, Alerted, Decided, CtxOf
<1> QED
  BY <1>1, <1>2, <1>3, <1>4, <1>5, <1>6, <1>7, <1>8, <1>9, <1>10, <1>11, <1>12, <1>13, <1>14,
     <1>15, <1>16, <1>17 DEF Next

(* The invariant holds in every reachable state. *)
THEOREM SniInvariant == Spec => []SniInv
BY SniInvInit, SniInvNext, PTL DEF Spec

(* The settings of a connection that goes on are those of one server,      *)
(* however many servers share a context, callbacks nest and settings fail. *)
THEOREM PolicyIsOne == Spec => []OnePolicy
<1>1. SniInv => OnePolicy
  <2> SUFFICES ASSUME SniInv PROVE OnePolicy
    OBVIOUS
  <2>1. ASSUME NEW c \in Conn, conn[c].at \in {"retry", "chosen", "up"}
        PROVE  \A i \in Setting : ctx[conn[c].policy[i]].kind = server[conn[c].parent].kind
    <3>1. ~Alerted(c)
      BY <2>1 DEF Alerted, SniInv, FramesInv, FrameOk
    <3>2. \A i \in Setting : conn[c].policy[i] = CtxOf(conn[c].parent)
      BY <2>1, <3>1 DEF SniInv, ConnsInv, ConnOk
    <3> QED
      BY <2>1, <3>2, OpenHasCtx DEF Open
  <2>2. \A i \in DOMAIN stack : stack[i].at = "callback" => conn[stack[i].c].at = "fresh"
    <3>1. DOMAIN stack = 1..Len(stack)
      BY DEF SniInv, TypeOK
    <3> QED
      BY <3>1 DEF SniInv, FramesInv, FrameOk
  <2> QED
    BY <2>1, <2>2 DEF OnePolicy, SniInv
<1> QED
  BY <1>1, SniInvariant, PTL

(* Nothing a connection or a handshake refers to is collected, and each    *)
(* context knows the coroutine of its innermost handshake.                 *)
THEOREM ServersOutlive == Spec => []NothingDangles
<1>1. SniInv => NothingDangles
  <2> SUFFICES ASSUME SniInv PROVE NothingDangles
    OBVIOUS
  <2>1. \A c \in Conn : Open(c) =>
          server[conn[c].parent].life = "alive" /\ ctx[CtxOf(conn[c].parent)].life = "alive"
    BY DEF SniInv, OwnersInv, Alive, CtxOf
  <2>2. DOMAIN stack = 1..Len(stack)
    BY DEF SniInv, TypeOK
  <2>3. \A i \in 1..Len(stack) : server[stack[i].p].life = "alive"
                               /\ (stack[i].at = "callback" => stack[i].ran = stack[i].th)
    BY DEF SniInv, FramesInv, FrameOk, Alive
  <2> QED
    BY <2>1, <2>2, <2>3 DEF NothingDangles, SniInv, ThreadsInv
<1> QED
  BY <1>1, SniInvariant, PTL

(* Tickets are issued and used in the scope of the selected server. *)
THEOREM TicketsStayScoped == Spec => []TicketsScoped
<1>1. SniInv => TicketsScoped
  BY DEF SniInv, TicketsInv, ConnsInv, ConnOk, TicketsScoped
<1> QED
  BY <1>1, SniInvariant, PTL
================================================================================
