--------------------------- MODULE LifecycleProofs ---------------------------
(***************************************************************************)
(* Descriptors and callbacks of native sockets have one owner, for every   *)
(* number of sockets, callbacks and descriptors and every depth of calls   *)
(* (socket.c, gcthread.c).                                                 *)
(***************************************************************************)
EXTENDS SocketLifecycle, SequenceTheorems, TLAPS

(* A call that carries a callback carries one, and drains nothing. *)
GoodFrame == {r \in Frame : r.fn \notin Drains => Len(r.c) = 1 /\ r.todo = <<>>}

Typed ==
  /\ state \in [Socket -> {"unborn", "live", "dead"}]
  /\ fd \in [Socket -> Fd \union {NoFd}]
  /\ thread \in [Socket -> BOOLEAN]
  /\ cbs \in [Socket -> Seq(Callback)]
  /\ stack \in Seq(GoodFrame)
  /\ DOMAIN owner \subseteq Fd /\ \A f \in DOMAIN owner : owner[f] \in Socket \union {User}
  /\ stray \in BOOLEAN
  /\ DOMAIN addr \subseteq Callback /\ \A c \in DOMAIN addr : addr[c] \in Addr
  /\ fate \in [Callback -> {"new", "building", "refused", "registered", "removed",
                            "draining", "running", "ran"}]
  /\ deleted \in Seq(Callback)

-----------------------------------------------------------------------------
(* What the three ways to change the stack do to its calls.                *)

LEMMA Pushed ==
  ASSUME NEW S, NEW st \in Seq(S), NEW x \in S
  PROVE  \E new : /\ new = Append(st, x)
                  /\ new \in Seq(S) /\ Len(new) = Len(st) + 1 /\ Len(st) \in Nat
                  /\ DOMAIN st = 1..Len(st) /\ DOMAIN new = 1..(Len(st) + 1)
                  /\ new[Len(st) + 1] = x /\ \A i \in 1..Len(st) : new[i] = st[i]
<1>1. PICK new : new = Append(st, x)
  OBVIOUS
<1>2. new \in Seq(S) /\ Len(new) = Len(st) + 1 /\ Len(st) \in Nat
  BY <1>1, AppendProperties, LenProperties
<1>3. DOMAIN st = 1..Len(st) /\ DOMAIN new = 1..(Len(st) + 1)
  BY <1>2, LenProperties
<1>4. new[Len(st) + 1] = x /\ \A i \in 1..Len(st) : new[i] = st[i]
  BY <1>1, <1>2
<1> QED
  BY <1>1, <1>2, <1>3, <1>4, Zenon

(* A part of a sequence. *)
LEMMA Sliced ==
  ASSUME NEW S, NEW q \in Seq(S), NEW m \in 1..(Len(q) + 1), NEW n \in (m - 1)..Len(q)
  PROVE  /\ SubSeq(q, m, n) \in Seq(S) /\ Len(SubSeq(q, m, n)) = n - m + 1
         /\ \A j \in 1..(n - m + 1) : SubSeq(q, m, n)[j] = q[m + j - 1]
<1>1. Len(q) \in Nat /\ m \in Int /\ n \in Int
  BY LenProperties
<1>2. \A i \in m..n : q[i] \in S
  BY <1>1, ElementOfSeq
<1>3. (IF m <= n THEN n - m + 1 ELSE 0) = n - m + 1
  BY <1>1
<1> QED
  BY <1>1, <1>2, <1>3, SubSeqProperties

LEMMA Popped ==
  ASSUME NEW S, NEW st \in Seq(S), st # <<>>
  PROVE  \E new : /\ new = SubSeq(st, 1, Len(st) - 1)
                  /\ new \in Seq(S) /\ Len(new) = Len(st) - 1 /\ Len(st) \in Nat \ {0}
                  /\ DOMAIN st = 1..Len(st) /\ DOMAIN new = 1..(Len(st) - 1)
                  /\ \A i \in 1..(Len(st) - 1) : new[i] = st[i]
<1>1. Len(st) \in Nat \ {0} /\ DOMAIN st = 1..Len(st)
  BY EmptySeq, LenProperties
<1>2. PICK new : new = SubSeq(st, 1, Len(st) - 1)
  OBVIOUS
<1>3. Len(st) - 1 \in Nat /\ \A i \in 1..(Len(st) - 1) : i \in 1..Len(st) /\ 1 + i - 1 = i
  BY <1>1
<1>4. PICK n \in Nat : n = Len(st) - 1
  BY <1>3
<1>5. /\ new \in Seq(S) /\ Len(new) = Len(st) - 1
      /\ \A i \in 1..(Len(st) - 1) : new[i] = st[i]
  <2>1. 1 \in 1..(Len(st) + 1) /\ n \in (1 - 1)..Len(st) /\ n - 1 + 1 = n
    BY <1>1, <1>4
  <2>2. /\ new \in Seq(S) /\ Len(new) = n - 1 + 1
        /\ \A i \in 1..(n - 1 + 1) : new[i] = st[1 + i - 1]
    BY <1>2, <1>4, <2>1, Sliced
  <2>3. \A i \in 1..n : 1 + i - 1 = i
    BY <1>4
  <2> QED
    BY <1>4, <2>1, <2>2, <2>3
<1>6. DOMAIN new = 1..(Len(st) - 1)
  BY <1>5, LenProperties
<1> QED
  BY <1>1, <1>2, <1>5, <1>6, Zenon

(* Taking one element out of a sequence. *)
LEMMA TakenOut ==
  ASSUME NEW S, NEW q \in Seq(S), NEW i \in 1..Len(q)
  PROVE  \E new : /\ new = RemoveAt(q, i)
                  /\ new \in Seq(S) /\ Len(new) = Len(q) - 1 /\ Len(q) \in Nat
                  /\ DOMAIN q = 1..Len(q) /\ DOMAIN new = 1..(Len(q) - 1)
                  /\ \A j \in 1..(Len(q) - 1) : new[j] = IF j < i THEN q[j] ELSE q[j + 1]
<1>1. PICK a : a = SubSeq(q, 1, i - 1)
  OBVIOUS
<1>2. PICK b : b = SubSeq(q, i + 1, Len(q))
  OBVIOUS
<1>3. Len(q) \in Nat /\ DOMAIN q = 1..Len(q)
  BY LenProperties
<1>4. a \in Seq(S) /\ Len(a) = i - 1 /\ \A j \in 1..(i - 1) : a[j] = q[j]
  <2>1. 1 \in 1..(Len(q) + 1) /\ i - 1 \in (1 - 1)..Len(q) /\ i - 1 - 1 + 1 = i - 1
    BY <1>3
  <2>2. a \in Seq(S) /\ Len(a) = i - 1 - 1 + 1 /\ \A j \in 1..(i - 1 - 1 + 1) : a[j] = q[1 + j - 1]
    BY <1>1, <2>1, Sliced
  <2> QED
    BY <1>3, <2>1, <2>2
<1>5. b \in Seq(S) /\ Len(b) = Len(q) - i /\ \A j \in 1..(Len(q) - i) : b[j] = q[i + j]
  <2>1. i + 1 \in 1..(Len(q) + 1) /\ Len(q) \in (i + 1 - 1)..Len(q)
    BY <1>3
  <2>2. /\ b \in Seq(S) /\ Len(b) = Len(q) - (i + 1) + 1
        /\ \A j \in 1..(Len(q) - (i + 1) + 1) : b[j] = q[i + 1 + j - 1]
    BY <1>2, <2>1, Sliced
  <2>3. Len(q) - (i + 1) + 1 = Len(q) - i /\ \A j \in 1..(Len(q) - i) : i + 1 + j - 1 = i + j
    BY <1>3
  <2> QED
    BY <2>2, <2>3
<1>6. a \in Seq(S)
  BY <1>4
<1>tail. b \in Seq(S)
  BY <1>5
<1>7. PICK new : new = a \o b
  OBVIOUS
<1>joined. /\ a \o b \in Seq(S) /\ Len(a \o b) = Len(a) + Len(b)
       /\ \A j \in 1..Len(a) + Len(b) : (a \o b)[j] = IF j <= Len(a) THEN a[j] ELSE b[j - Len(a)]
  BY <1>6, <1>tail, ConcatProperties, Zenon
<1>parts. /\ new \in Seq(S) /\ Len(new) = Len(a) + Len(b)
       /\ \A j \in 1..Len(a) + Len(b) : new[j] = IF j <= Len(a) THEN a[j] ELSE b[j - Len(a)]
  BY <1>7, <1>joined, Zenon
<1>same. new = RemoveAt(q, i)
  BY <1>1, <1>2, <1>7, Zenon DEF RemoveAt
<1>8. Len(new) = Len(q) - 1
  BY <1>3, <1>4, <1>5, <1>parts
<1>9. DOMAIN new = 1..(Len(q) - 1)
  BY <1>parts, <1>8, LenProperties, Zenon
<1>10. ASSUME NEW j \in 1..(Len(q) - 1), j < i PROVE new[j] = q[j]
  <2>1. j \in 1..Len(a) + Len(b) /\ j <= Len(a) /\ j \in 1..(i - 1)
    BY <1>3, <1>4, <1>5, <1>10
  <2>2. new[j] = a[j] /\ a[j] = q[j]
    BY <1>4, <1>parts, <2>1
  <2> QED
    BY <2>2
<1>11. ASSUME NEW j \in 1..(Len(q) - 1), ~(j < i) PROVE new[j] = q[j + 1]
  <2>1. PICK k \in 1..(Len(q) - i) : k = j - (i - 1)
    BY <1>3, <1>11
  <2>2. i + k = j + 1 /\ j - Len(a) = k /\ ~(j <= Len(a)) /\ j \in 1..Len(a) + Len(b)
    BY <1>3, <1>4, <1>5, <2>1
  <2>3. new[j] = b[k] /\ b[k] = q[i + k]
    BY <1>5, <1>parts, <2>2
  <2> QED
    BY <2>2, <2>3, Zenon
<1>12. \A j \in 1..(Len(q) - 1) : new[j] = IF j < i THEN q[j] ELSE q[j + 1]
  BY <1>10, <1>11
<1> QED
  BY <1>3, <1>same, <1>parts, <1>8, <1>9, <1>12, Zenon

-----------------------------------------------------------------------------
(* The stack of a step: a call is made, returns, or calls a callback.      *)

LEMMA CallStack ==
  ASSUME Typed, NEW r \in GoodFrame, stack' = Append(stack, r)
  PROVE  /\ stack' \in Seq(GoodFrame) /\ Len(stack) \in Nat
         /\ DOMAIN stack = 1..Len(stack) /\ DOMAIN stack' = 1..(Len(stack) + 1)
         /\ stack'[Len(stack) + 1] = r /\ \A i \in 1..Len(stack) : stack'[i] = stack[i]
<1>1. stack \in Seq(GoodFrame)
  BY DEF Typed
<1>2. PICK new : /\ new = Append(stack, r)
                 /\ new \in Seq(GoodFrame) /\ Len(new) = Len(stack) + 1 /\ Len(stack) \in Nat
                 /\ DOMAIN stack = 1..Len(stack) /\ DOMAIN new = 1..(Len(stack) + 1)
                 /\ new[Len(stack) + 1] = r /\ \A i \in 1..Len(stack) : new[i] = stack[i]
  BY <1>1, Pushed, Zenon
<1>3. stack' = new
  BY <1>2, Zenon
<1> QED
  BY <1>2, <1>3, Zenon

LEMMA ReturnStack ==
  ASSUME Typed, stack # <<>>, stack' = Below
  PROVE  /\ stack' \in Seq(GoodFrame) /\ Len(stack) \in Nat \ {0}
         /\ DOMAIN stack = 1..Len(stack) /\ DOMAIN stack' = 1..(Len(stack) - 1)
         /\ \A i \in 1..(Len(stack) - 1) : stack'[i] = stack[i]
<1>1. stack \in Seq(GoodFrame)
  BY DEF Typed
<1>2. PICK new : /\ new = SubSeq(stack, 1, Len(stack) - 1)
                 /\ new \in Seq(GoodFrame) /\ Len(new) = Len(stack) - 1
                 /\ Len(stack) \in Nat \ {0}
                 /\ DOMAIN stack = 1..Len(stack) /\ DOMAIN new = 1..(Len(stack) - 1)
                 /\ \A i \in 1..(Len(stack) - 1) : new[i] = stack[i]
  BY <1>1, Popped, Zenon
<1>3. stack' = new
  BY <1>2, Zenon DEF Below
<1> QED
  BY <1>2, <1>3, Zenon

LEMMA CallbackStack ==
  ASSUME Typed, stack # <<>>, NEW x \in GoodFrame, NEW y \in GoodFrame,
         stack' = Below \o <<x, y>>
  PROVE  /\ stack' \in Seq(GoodFrame) /\ Len(stack) \in Nat \ {0}
         /\ DOMAIN stack = 1..Len(stack) /\ DOMAIN stack' = 1..(Len(stack) + 1)
         /\ stack'[Len(stack)] = x /\ stack'[Len(stack) + 1] = y
         /\ \A i \in 1..(Len(stack) - 1) : stack'[i] = stack[i]
<1>0. PICK st : st = stack
  OBVIOUS
<1>01. st \in Seq(GoodFrame)
  BY <1>0 DEF Typed
<1>02. st # <<>>
  BY <1>0
<1>1. PICK front :
        /\ front = SubSeq(st, 1, Len(st) - 1)
        /\ front \in Seq(GoodFrame) /\ Len(front) = Len(st) - 1 /\ Len(st) \in Nat \ {0}
        /\ DOMAIN st = 1..Len(st) /\ DOMAIN front = 1..(Len(st) - 1)
        /\ \A i \in 1..(Len(st) - 1) : front[i] = st[i]
  BY <1>01, <1>02, Popped, Zenon
<1>2. PICK two : two = <<x, y>>
  OBVIOUS
<1>3. two \in Seq(GoodFrame) /\ Len(two) = 2 /\ two[1] = x /\ two[2] = y
  BY <1>2
<1>4. front \in Seq(GoodFrame)
  BY <1>1
<1>5. two \in Seq(GoodFrame)
  BY <1>3
<1>6. PICK new : new = front \o two
  OBVIOUS
<1>14. /\ front \o two \in Seq(GoodFrame) /\ Len(front \o two) = Len(front) + Len(two)
       /\ \A i \in 1..Len(front) + Len(two) :
            (front \o two)[i] = IF i <= Len(front) THEN front[i] ELSE two[i - Len(front)]
  BY <1>4, <1>5, ConcatProperties, Zenon
<1>15. /\ new \in Seq(GoodFrame) /\ Len(new) = Len(front) + Len(two)
       /\ \A i \in 1..Len(front) + Len(two) :
            new[i] = IF i <= Len(front) THEN front[i] ELSE two[i - Len(front)]
  BY <1>6, <1>14, Zenon
<1>7. /\ Len(front) + Len(two) = Len(st) + 1
      /\ Len(st) - Len(front) = 1 /\ Len(st) + 1 - Len(front) = 2
  BY <1>1, <1>3
<1>8. new[Len(st)] = two[1] /\ new[Len(st) + 1] = two[2]
  BY <1>1, <1>7, <1>15
<1>9. Len(new) = Len(st) + 1
  BY <1>1, <1>7, <1>15
<1>13. DOMAIN new = 1..(Len(st) + 1)
  BY <1>15, <1>9, LenProperties, Zenon
<1>10. new[Len(st)] = x /\ new[Len(st) + 1] = y
  BY <1>3, <1>8, Zenon
<1>11. ASSUME NEW i \in 1..(Len(st) - 1) PROVE new[i] = st[i]
  <2>1. i \in 1..Len(front) + Len(two) /\ i <= Len(front)
    BY <1>1, <1>3
  <2>2. new[i] = front[i] /\ front[i] = st[i]
    BY <1>1, <1>15, <2>1
  <2> QED
    BY <2>2
<1>12. new = SubSeq(st, 1, Len(st) - 1) \o <<x, y>>
  <2>1. front = SubSeq(st, 1, Len(st) - 1)
    BY <1>1
  <2> QED
    BY <2>1, <1>2, <1>6
<1>16. stack' = new
  <2>1. stack' = SubSeq(stack, 1, Len(stack) - 1) \o <<x, y>>
    BY Zenon DEF Below
  <2> QED
    BY <1>0, <1>12, <2>1, Zenon
<1>17. /\ new \in Seq(GoodFrame) /\ Len(st) \in Nat \ {0}
       /\ DOMAIN st = 1..Len(st) /\ DOMAIN new = 1..(Len(st) + 1)
       /\ new[Len(st)] = x /\ new[Len(st) + 1] = y
       /\ \A i \in 1..(Len(st) - 1) : new[i] = st[i]
  BY <1>1, <1>15, <1>13, <1>10, <1>11, Zenon
<1> QED
  BY <1>0, <1>16, <1>17, Zenon

(* The innermost call. *)
LEMMA TopIsLast ==
  ASSUME Typed, stack # <<>>
  PROVE  /\ Len(stack) \in Nat \ {0} /\ Top = stack[Len(stack)] /\ Top \in GoodFrame
         /\ Running = Top.fn
<1>1. stack \in Seq(GoodFrame)
  BY DEF Typed
<1>4. Len(stack) \in Nat \ {0}
  BY <1>1, EmptySeq, Zenon
<1>2. Len(stack) \in Nat \ {0} /\ Len(stack) \in 1..Len(stack)
  BY <1>4
<1>3. stack[Len(stack)] \in GoodFrame
  BY <1>1, <1>2, ElementOfSeq
<1> QED
  BY <1>2, <1>3 DEF Top, Running, Last

(* Every call on the stack is one the model makes. *)
LEMMA FramesAreGood ==
  ASSUME Typed
  PROVE  \A i \in DOMAIN stack : stack[i] \in GoodFrame /\ stack[i].s \in Socket
<1>1. stack \in Seq(GoodFrame)
  BY DEF Typed
<1>2. \A i \in DOMAIN stack : stack[i] \in GoodFrame
  BY <1>1, LenProperties, ElementOfSeq, Zenon
<1> QED
  BY <1>2 DEF GoodFrame, Frame

LEMMA SomethingRuns ==
  ASSUME Running # "main" PROVE stack # <<>>
BY DEF Running

(* The frames that calls put on the stack. *)
LEMMA FrameIsGood ==
  ASSUME NEW fn \in {"add", "close", "gc", "unwrap", "callback"}, NEW s \in Socket,
         NEW f \in Fd \union {NoFd}, NEW todo \in Seq(Callback), NEW c \in Seq(Callback),
         fn \notin Drains => Len(c) = 1 /\ todo = <<>>
  PROVE  [fn |-> fn, s |-> s, fd |-> f, todo |-> todo, c |-> c] \in GoodFrame
BY DEF GoodFrame, Frame

(* RunCallback in full: what it takes from the drain and what it calls.    *)
Popping(r) == [r EXCEPT !.todo = Front(@)]
Calling(r) == [fn |-> "callback", s |-> r.s, fd |-> NoFd, todo |-> <<>>,
               c |-> <<Last(r.todo)>>]

LEMMA RunCallbackFrames ==
  ASSUME NEW r \in GoodFrame, r.fn \in Drains, r.todo # <<>>
  PROVE  /\ Popping(r) \in GoodFrame /\ Calling(r) \in GoodFrame
         /\ Popping(r).fn = r.fn /\ Popping(r).s = r.s /\ Popping(r).fd = r.fd
         /\ Popping(r).c = r.c
         /\ Len(r.todo) \in Nat \ {0} /\ DOMAIN r.todo = 1..Len(r.todo)
         /\ DOMAIN Popping(r).todo = 1..(Len(r.todo) - 1)
         /\ \A j \in 1..(Len(r.todo) - 1) : Popping(r).todo[j] = r.todo[j]
         /\ Last(r.todo) = r.todo[Len(r.todo)] /\ Last(r.todo) \in Callback
         /\ Calling(r).c[1] = Last(r.todo)
<1>1. r \in Frame /\ r.todo \in Seq(Callback) /\ r.s \in Socket
  BY DEF GoodFrame, Frame
<1>10. PICK q : q = r.todo
  OBVIOUS
<1>11. q \in Seq(Callback)
  BY <1>1, <1>10
<1>12. q # <<>>
  BY <1>10
<1>13. PICK new : /\ new = SubSeq(q, 1, Len(q) - 1)
                  /\ new \in Seq(Callback) /\ Len(new) = Len(q) - 1 /\ Len(q) \in Nat \ {0}
                  /\ DOMAIN q = 1..Len(q) /\ DOMAIN new = 1..(Len(q) - 1)
                  /\ \A i \in 1..(Len(q) - 1) : new[i] = q[i]
  BY <1>11, <1>12, Popped, Zenon
<1>2. /\ new = SubSeq(r.todo, 1, Len(r.todo) - 1)
      /\ new \in Seq(Callback) /\ Len(new) = Len(r.todo) - 1 /\ Len(r.todo) \in Nat \ {0}
      /\ DOMAIN r.todo = 1..Len(r.todo) /\ DOMAIN new = 1..(Len(r.todo) - 1)
      /\ \A i \in 1..(Len(r.todo) - 1) : new[i] = r.todo[i]
  BY <1>10, <1>13, Zenon
<1>21. Front(r.todo) = new
  BY <1>2, Zenon DEF Front
<1>3. Popping(r) = [r EXCEPT !.todo = new]
  BY <1>21 DEF Popping
<1>4. /\ Popping(r) \in Frame /\ Popping(r).fn = r.fn /\ Popping(r).s = r.s
      /\ Popping(r).fd = r.fd /\ Popping(r).c = r.c /\ Popping(r).todo = new
  BY <1>1, <1>2, <1>3 DEF Frame
<1>5. Last(r.todo) = r.todo[Len(r.todo)] /\ Last(r.todo) \in Callback
  BY <1>1, <1>2, ElementOfSeq DEF Last
<1>6. <<Last(r.todo)>> \in Seq(Callback) /\ Len(<<Last(r.todo)>>) = 1 /\ <<>> \in Seq(Callback)
  BY <1>5
<1>7. Calling(r) \in GoodFrame
  BY <1>1, <1>6, FrameIsGood DEF Calling, Drains
<1>8. Calling(r).c[1] = Last(r.todo)
  BY DEF Calling
<1>9. Popping(r) \in GoodFrame
  BY <1>4 DEF GoodFrame
<1> QED
  BY <1>2, <1>4, <1>5, <1>7, <1>8, <1>9, Zenon

LEMMA RunCallbackStep ==
  ASSUME Typed, RunCallback
  PROVE  /\ stack # <<>> /\ Top.fn \in Drains /\ Top.todo # <<>>
         /\ fate' = [fate EXCEPT ![Last(Top.todo)] = "running"]
         /\ stack' = Below \o <<Popping(Top), Calling(Top)>>
<1>1. stack # <<>>
  BY SomethingRuns DEF RunCallback, Drains
<1> QED
  BY <1>1, TopIsLast DEF RunCallback, Popping, Calling

-----------------------------------------------------------------------------
(* Types.  Everything but the stack, which the lemmas above treat.         *)
RestTyped ==
  /\ state \in [Socket -> {"unborn", "live", "dead"}]
  /\ fd \in [Socket -> Fd \union {NoFd}]
  /\ thread \in [Socket -> BOOLEAN]
  /\ cbs \in [Socket -> Seq(Callback)]
  /\ DOMAIN owner \subseteq Fd /\ \A f \in DOMAIN owner : owner[f] \in Socket \union {User}
  /\ stray \in BOOLEAN
  /\ DOMAIN addr \subseteq Callback /\ \A c \in DOMAIN addr : addr[c] \in Addr
  /\ fate \in [Callback -> {"new", "building", "refused", "registered", "removed",
                            "draining", "running", "ran"}]
  /\ deleted \in Seq(Callback)

LEMMA TypedInit == Init => Typed
<1> SUFFICES ASSUME Init PROVE Typed
  OBVIOUS
<1>1. <<>> \in Seq(GoodFrame) /\ <<>> \in Seq(Callback)
  OBVIOUS
<1>2. owner = << >> /\ addr = << >> /\ DOMAIN owner = {} /\ DOMAIN addr = {}
  BY DEF Init
<1> QED
  BY <1>1, <1>2 DEF Init, Typed

LEMMA BirthTyped ==
  ASSUME Typed, NEW s \in Socket, New(s) \/ (\E t \in Socket : Pair(s, t)) \/ (\E f \in Fd : Wrap(s, f))
  PROVE  RestTyped' /\ UNCHANGED stack
<1>1. CASE New(s)
  <2>1. CASE \E f \in FreeFds : owner' = Open(f, s) /\ Born({s}, [x \in {s} |-> f])
    BY <2>1 DEF Typed, RestTyped, Born, Open, FreeFds
  <2>2. CASE owner' = owner /\ Born({s}, [x \in {s} |-> NoFd])
    BY <2>2 DEF Typed, RestTyped, Born
  <2> QED
    BY <1>1, <2>1, <2>2 DEF New
<1>2. ASSUME NEW t \in Socket, Pair(s, t) PROVE RestTyped' /\ UNCHANGED stack
  <2>1. ASSUME NEW f \in FreeFds, NEW g \in FreeFds,
               owner' = [h \in DOMAIN owner \union {f, g} |->
                           CASE h = f -> s [] h = g -> t [] OTHER -> owner[h]],
               Born({s, t}, [x \in {s, t} |-> IF x = s THEN f ELSE g])
        PROVE  RestTyped' /\ UNCHANGED stack
    BY <2>1 DEF Typed, RestTyped, Born, FreeFds
  <2>2. CASE owner' = owner /\ Born({s, t}, [x \in {s, t} |-> NoFd])
    BY <2>2 DEF Typed, RestTyped, Born
  <2> QED
    BY <1>2, <2>1, <2>2 DEF Pair
<1>3. ASSUME NEW f \in Fd, Wrap(s, f) PROVE RestTyped' /\ UNCHANGED stack
  <2>1. CASE owner' = Open(f, s) /\ Born({s}, [x \in {s} |-> f])
    BY <2>1 DEF Typed, RestTyped, Born, Open
  <2>2. CASE owner' = owner /\ Born({s}, [x \in {s} |-> NoFd])
    BY <2>2 DEF Typed, RestTyped, Born
  <2> QED
    BY <1>3, <2>1, <2>2 DEF Wrap
<1> QED
  BY <1>1, <1>2, <1>3

LEMMA BareTyped ==
  ASSUME Typed, NEW f \in Fd, AcceptFd(f) \/ CloseFd(f)
  PROVE  RestTyped' /\ UNCHANGED stack
<1>1. CASE AcceptFd(f)
  BY <1>1 DEF Typed, RestTyped, AcceptFd, Open
<1>2. CASE CloseFd(f)
  BY <1>2 DEF Typed, RestTyped, CloseFd, Shut
<1> QED
  BY <1>1, <1>2

LEMMA DetachTyped ==
  ASSUME Typed, NEW s \in Socket, NEW fn \in Drains, Detach(fn, s),
         UNCHANGED <<state, fd, owner, stray, addr, deleted>>
  PROVE  /\ RestTyped'
         /\ [fn |-> fn, s |-> s, fd |-> fd[s], todo |-> cbs[s], c |-> <<>>] \in GoodFrame
         /\ stack' = Append(stack, [fn |-> fn, s |-> s, fd |-> fd[s], todo |-> cbs[s], c |-> <<>>])
<1>1. <<>> \in Seq(Callback) /\ cbs[s] \in Seq(Callback) /\ fd[s] \in Fd \union {NoFd}
  BY DEF Typed
<1>2. RestTyped'
  BY <1>1 DEF Typed, RestTyped, Detach
<1>3. [fn |-> fn, s |-> s, fd |-> fd[s], todo |-> cbs[s], c |-> <<>>] \in GoodFrame
  BY <1>1, FrameIsGood DEF Drains
<1> QED
  BY <1>2, <1>3 DEF Detach, Call

LEMMA AddStartTyped ==
  ASSUME Typed, NEW s \in Socket, NEW c \in Callback, AddStart(s, c)
  PROVE  /\ RestTyped'
         /\ \/ UNCHANGED stack
            \/ /\ [fn |-> "add", s |-> s, fd |-> NoFd, todo |-> <<>>, c |-> <<c>>] \in GoodFrame
               /\ stack' = Append(stack, [fn |-> "add", s |-> s, fd |-> NoFd,
                                          todo |-> <<>>, c |-> <<c>>])
<1>1. <<>> \in Seq(Callback) /\ <<c>> \in Seq(Callback) /\ Len(<<c>>) = 1
  OBVIOUS
<1>2. RestTyped'
  BY DEF Typed, RestTyped, AddStart
<1>3. [fn |-> "add", s |-> s, fd |-> NoFd, todo |-> <<>>, c |-> <<c>>] \in GoodFrame
  BY <1>1, FrameIsGood DEF Drains
<1> QED
  BY <1>2, <1>3 DEF AddStart, Call

(* A frame that names a callback does so in c. *)
LEMMA NamedCallback ==
  ASSUME NEW r \in GoodFrame, r.fn \notin Drains
  PROVE  r.c[1] \in Callback /\ r.todo = <<>> /\ r.s \in Socket
<1>1. r.c \in Seq(Callback) /\ Len(r.c) = 1 /\ r.todo = <<>> /\ r.s \in Socket
  BY DEF GoodFrame, Frame
<1>2. 1 \in 1..Len(r.c)
  BY <1>1
<1> QED
  BY <1>1, <1>2, ElementOfSeq

LEMMA AddFinishTyped ==
  ASSUME Typed, AddFinish PROVE RestTyped' /\ stack # <<>> /\ stack' = Below
<1>1. stack # <<>>
  BY SomethingRuns DEF AddFinish
<1>2. Top \in GoodFrame /\ Top.fn = "add"
  BY <1>1, TopIsLast DEF AddFinish
<1>3. Top.c[1] \in Callback /\ Top.s \in Socket
  BY <1>2, NamedCallback DEF Drains
<1>4. PICK s, c : s = Top.s /\ c = Top.c[1]
  OBVIOUS
<1>7. UNCHANGED <<state, fd, thread, owner, stray, deleted>> /\ stack' = Below
  BY DEF AddFinish
<1>5. CASE /\ cbs' = [cbs EXCEPT ![s] = Append(@, c)]
           /\ fate' = [fate EXCEPT ![c] = "registered"]
           /\ \E a \in Addr \ AddrsInUse :
                addr' = [d \in DOMAIN addr \union {c} |-> IF d = c THEN a ELSE addr[d]]
  <2>1. cbs[s] \in Seq(Callback) /\ Append(cbs[s], c) \in Seq(Callback)
    BY <1>3, <1>4 DEF Typed
  <2>2. cbs' \in [Socket -> Seq(Callback)]
    BY <1>5, <2>1 DEF Typed
  <2>3. DOMAIN addr' \subseteq Callback /\ \A d \in DOMAIN addr' : addr'[d] \in Addr
    BY <1>3, <1>4, <1>5 DEF Typed
  <2> QED
    BY <1>1, <1>5, <1>7, <2>2, <2>3 DEF Typed, RestTyped
<1>6. CASE fate' = [fate EXCEPT ![c] = "refused"] /\ UNCHANGED <<cbs, addr>>
  BY <1>1, <1>6, <1>7 DEF Typed, RestTyped
<1>8. \/ /\ cbs' = [cbs EXCEPT ![s] = Append(@, c)]
         /\ fate' = [fate EXCEPT ![c] = "registered"]
         /\ \E a \in Addr \ AddrsInUse :
              addr' = [d \in DOMAIN addr \union {c} |-> IF d = c THEN a ELSE addr[d]]
      \/ fate' = [fate EXCEPT ![c] = "refused"] /\ UNCHANGED <<cbs, addr>>
  <2>1. \/ /\ cbs' = [cbs EXCEPT ![Top.s] = Append(@, Top.c[1])]
           /\ fate' = [fate EXCEPT ![Top.c[1]] = "registered"]
           /\ \E a \in Addr \ AddrsInUse :
                addr' = [d \in DOMAIN addr \union {Top.c[1]} |->
                           IF d = Top.c[1] THEN a ELSE addr[d]]
        \/ fate' = [fate EXCEPT ![Top.c[1]] = "refused"] /\ UNCHANGED <<cbs, addr>>
    BY Zenon DEF AddFinish
  <2> QED
    BY <1>4, <2>1, Zenon
<1> QED
  BY <1>1, <1>5, <1>6, <1>7, <1>8

(* What delgcfn finds. *)
LEMMA DelFinds ==
  ASSUME Typed, NEW s \in Socket, NEW c \in Callback, Del(s, c)
  PROVE  \/ UNCHANGED <<cbs, fate, deleted>>
         \/ \E i \in 1..Len(cbs[s]) :
              /\ cbs' = [cbs EXCEPT ![s] = RemoveAt(@, i)]
              /\ fate' = [fate EXCEPT ![cbs[s][i]] = "removed"]
              /\ deleted' = <<c, cbs[s][i]>>
<1>1. CASE UNCHANGED <<cbs, fate, deleted>>
  BY <1>1
<1>2. ASSUME NEW i \in Match(s, addr[c]),
             cbs' = [cbs EXCEPT ![s] = RemoveAt(@, i)],
             fate' = [fate EXCEPT ![cbs[s][i]] = "removed"],
             deleted' = <<c, cbs[s][i]>>
      PROVE  \E j \in 1..Len(cbs[s]) :
               /\ cbs' = [cbs EXCEPT ![s] = RemoveAt(@, j)]
               /\ fate' = [fate EXCEPT ![cbs[s][j]] = "removed"]
               /\ deleted' = <<c, cbs[s][j]>>
  <2>1. cbs[s] \in Seq(Callback) /\ i \in DOMAIN cbs[s]
    BY DEF Typed, Match
  <2>2. i \in 1..Len(cbs[s])
    BY <2>1, LenProperties, Zenon
  <2> QED
    BY <1>2, <2>2
<1> QED
  BY <1>1, <1>2 DEF Del

LEMMA DelTyped ==
  ASSUME Typed, NEW s \in Socket, NEW c \in Callback, Del(s, c)
  PROVE  RestTyped' /\ UNCHANGED stack
<1>1. CASE UNCHANGED <<cbs, fate, deleted>>
  BY <1>1 DEF Typed, RestTyped, Del
<1>2. ASSUME NEW i \in 1..Len(cbs[s]),
             cbs' = [cbs EXCEPT ![s] = RemoveAt(@, i)],
             fate' = [fate EXCEPT ![cbs[s][i]] = "removed"],
             deleted' = <<c, cbs[s][i]>>
      PROVE  RestTyped' /\ UNCHANGED stack
  <2>1. PICK q : q = cbs[s]
    OBVIOUS
  <2>2. q \in Seq(Callback) /\ i \in 1..Len(q)
    BY <2>1 DEF Typed
  <2>3. PICK new : new = RemoveAt(q, i) /\ new \in Seq(Callback)
    BY <2>2, TakenOut
  <2>4. cbs' = [cbs EXCEPT ![s] = new] /\ q[i] \in Callback
    BY <1>2, <2>1, <2>2, <2>3, ElementOfSeq
  <2>5. deleted' \in Seq(Callback)
    BY <1>2, <2>1, <2>4
  <2> QED
    BY <1>2, <2>1, <2>3, <2>4, <2>5 DEF Typed, RestTyped, Del
<1> QED
  BY <1>1, <1>2, DelFinds

LEMMA DrainTyped ==
  ASSUME Typed, FinishClose \/ FinishGc \/ FinishUnwrap \/ CallbackReturns
  PROVE  RestTyped' /\ stack # <<>> /\ stack' = Below
<1>1. stack # <<>>
  BY SomethingRuns DEF FinishClose, FinishGc, FinishUnwrap, CallbackReturns
<1>2. Top.s \in Socket /\ Top \in GoodFrame
  BY <1>1, TopIsLast DEF GoodFrame, Frame
<1>3. ASSUME NEW f, KernelClose(Top.s, f)
      PROVE  /\ DOMAIN owner' \subseteq Fd
             /\ \A g \in DOMAIN owner' : owner'[g] \in Socket \union {User}
             /\ stray' \in BOOLEAN
  <2>1. CASE f \in DOMAIN owner
    <3>1. owner' = [g \in DOMAIN owner \ {f} |-> owner[g]] /\ stray' \in BOOLEAN
      BY <1>3, <2>1, Zenon DEF Typed, KernelClose, Shut
    <3>2. DOMAIN owner' = DOMAIN owner \ {f} /\ \A g \in DOMAIN owner' : owner'[g] = owner[g]
      BY <3>1
    <3> QED
      BY <3>1, <3>2, Zenon DEF Typed
  <2>2. CASE f \notin DOMAIN owner
    BY <1>3, <2>2, Zenon DEF Typed, KernelClose
  <2> QED
    BY <2>1, <2>2
<1>4. CASE FinishClose
  BY <1>1, <1>3, <1>4 DEF FinishClose, Typed, RestTyped
<1>5. CASE FinishGc
  BY <1>1, <1>3, <1>5 DEF FinishGc, Typed, RestTyped
<1>6. CASE FinishUnwrap
  BY <1>1, <1>6 DEF FinishUnwrap, Typed, RestTyped, Open
<1>7. CASE CallbackReturns
  <2>1. Top.c[1] \in Callback
    BY <1>1, <1>2, <1>7, TopIsLast, NamedCallback DEF CallbackReturns, Drains
  <2> QED
    BY <1>1, <1>7, <2>1 DEF CallbackReturns, Typed, RestTyped
<1> QED
  BY <1>4, <1>5, <1>6, <1>7

LEMMA RunCallbackTyped ==
  ASSUME Typed, RunCallback
  PROVE  /\ RestTyped' /\ stack # <<>>
         /\ Popping(Top) \in GoodFrame /\ Calling(Top) \in GoodFrame
         /\ stack' = Below \o <<Popping(Top), Calling(Top)>>
<1>1. /\ stack # <<>> /\ Top.fn \in Drains /\ Top.todo # <<>>
      /\ fate' = [fate EXCEPT ![Last(Top.todo)] = "running"]
      /\ stack' = Below \o <<Popping(Top), Calling(Top)>>
  BY RunCallbackStep
<1>2. Top \in GoodFrame
  BY <1>1, TopIsLast
<1>3. Popping(Top) \in GoodFrame /\ Calling(Top) \in GoodFrame
  BY <1>1, <1>2, RunCallbackFrames
<1>4. RestTyped'
  BY DEF RunCallback, Typed, RestTyped
<1> QED
  BY <1>1, <1>3, <1>4

LEMMA TypedStep == Typed /\ [Next]_vars => Typed'
<1> SUFFICES ASSUME Typed, [Next]_vars PROVE Typed'
  OBVIOUS
<1>1. ASSUME RestTyped', stack' \in Seq(GoodFrame) PROVE Typed'
  BY <1>1 DEF RestTyped, Typed
<1>2. stack \in Seq(GoodFrame)
  BY DEF Typed
<1>3. CASE UNCHANGED vars
  BY <1>3 DEF Typed, vars
<1>4. ASSUME NEW s \in Socket,
             New(s) \/ (\E t \in Socket : Pair(s, t)) \/ (\E f \in Fd : Wrap(s, f))
      PROVE  Typed'
  BY <1>1, <1>2, <1>4, BirthTyped
<1>5. ASSUME NEW f \in Fd, AcceptFd(f) \/ CloseFd(f) PROVE Typed'
  BY <1>1, <1>2, <1>5, BareTyped
<1>6. ASSUME NEW s \in Socket, Close(s) \/ Collect(s) \/ Unwrap(s) PROVE Typed'
  <2>1. \E fn \in Drains : Detach(fn, s) /\ UNCHANGED <<state, fd, owner, stray, addr, deleted>>
    BY <1>6 DEF Close, Collect, Unwrap, Drains
  <2> QED
    BY <1>1, <2>1, DetachTyped, CallStack
<1>7. ASSUME NEW s \in Socket, NEW c \in Callback, AddStart(s, c) PROVE Typed'
  BY <1>1, <1>2, <1>7, AddStartTyped, CallStack
<1>8. ASSUME NEW s \in Socket, NEW c \in Callback, Del(s, c) PROVE Typed'
  BY <1>1, <1>2, <1>8, DelTyped
<1>9. CASE AddFinish
  BY <1>1, <1>9, AddFinishTyped, ReturnStack
<1>10. CASE FinishClose \/ FinishGc \/ FinishUnwrap \/ CallbackReturns
  BY <1>1, <1>10, DrainTyped, ReturnStack
<1>11. CASE RunCallback
  BY <1>1, <1>11, RunCallbackTyped, CallbackStack
<1> QED
  BY <1>3, <1>4, <1>5, <1>6, <1>7, <1>8, <1>9, <1>10, <1>11 DEF Next, DrainStep

(* Every variable keeps its type, whatever callbacks do. *)
LEMMA TypedImplies == Typed => TypeOK
<1> SUFFICES ASSUME Typed PROVE TypeOK
  OBVIOUS
<1>1. \A i \in DOMAIN stack : stack[i] \in Frame
  BY FramesAreGood DEF GoodFrame
<1> QED
  BY <1>1 DEF Typed, TypeOK

(* TypeOK of SocketLifecycle. *)
THEOREM LifecycleTypes == Spec => []TypeOK
<1>1. Init => Typed
  BY TypedInit
<1>2. Typed /\ [Next]_vars => Typed'
  BY TypedStep
<1>3. Typed => TypeOK
  BY TypedImplies
<1> QED
  BY <1>1, <1>2, <1>3, PTL DEF Spec

-----------------------------------------------------------------------------
(* Descriptors.  A socket that is being drained is alive, its thread is    *)
(* gone and the drain knows its descriptor.                                *)
Kept(r) ==
  /\ fd[r.s] = r.fd /\ state[r.s] = "live" /\ ~thread[r.s]
  /\ r.fn = "close" => r.fd # NoFd

(* No socket is drained twice, and a callback runs above its drain.        *)
DrainsKept ==
  /\ \A i \in DOMAIN stack : stack[i].fn \in Drains => Kept(stack[i])
  /\ \A i, j \in DOMAIN stack :
       stack[i].fn \in Drains /\ stack[j].fn \in Drains /\ stack[i].s = stack[j].s => i = j
  /\ \A i \in DOMAIN stack : stack[i].fn = "callback" =>
       i - 1 \in DOMAIN stack /\ stack[i - 1].fn \in Drains

OwnInv == Typed /\ FdOwned /\ DrainsKept

(* A step leaves the socket of drain r as it was. *)
Undisturbed(r) ==
  r.fn \in Drains =>
    fd'[r.s] = fd[r.s] /\ state'[r.s] = state[r.s] /\ thread'[r.s] = thread[r.s]

LEMMA DrainsStay ==
  ASSUME Typed, DrainsKept, UNCHANGED stack, \A i \in DOMAIN stack : Undisturbed(stack[i])
  PROVE  DrainsKept'
BY DEF DrainsKept, Undisturbed, Kept

LEMMA DrainsReturn ==
  ASSUME Typed, DrainsKept, stack # <<>>, stack' = Below,
         \A i \in 1..(Len(stack) - 1) : Undisturbed(stack[i])
  PROVE  DrainsKept'
<1>1. /\ Len(stack) \in Nat \ {0}
      /\ DOMAIN stack = 1..Len(stack) /\ DOMAIN stack' = 1..(Len(stack) - 1)
      /\ \A i \in 1..(Len(stack) - 1) : stack'[i] = stack[i]
  BY ReturnStack
<1>2. \A i \in 1..(Len(stack) - 1) : i \in 1..Len(stack)
  BY <1>1
<1>3. ASSUME NEW i \in DOMAIN stack' PROVE stack'[i].fn \in Drains => Kept(stack[i])'
  <2>1. stack'[i] = stack[i] /\ i \in DOMAIN stack /\ Undisturbed(stack[i])
    BY <1>1, <1>2, <1>3
  <2> QED
    BY <2>1 DEF DrainsKept, Undisturbed, Kept
<1>4. ASSUME NEW i \in DOMAIN stack', NEW j \in DOMAIN stack',
             stack'[i].fn \in Drains, stack'[j].fn \in Drains, stack'[i].s = stack'[j].s
      PROVE  i = j
  BY <1>1, <1>2, <1>4 DEF DrainsKept
<1>5. ASSUME NEW i \in DOMAIN stack', stack'[i].fn = "callback"
      PROVE  i - 1 \in DOMAIN stack' /\ stack'[i - 1].fn \in Drains
  <2>1. stack'[i] = stack[i] /\ i \in DOMAIN stack
    BY <1>1, <1>2, <1>5
  <2>2. i - 1 \in DOMAIN stack /\ stack[i - 1].fn \in Drains
    BY <1>5, <2>1 DEF DrainsKept
  <2>3. i - 1 \in 1..(Len(stack) - 1)
    BY <1>1, <1>5, <2>2
  <2> QED
    BY <1>1, <2>2, <2>3
<1> QED
  BY <1>3, <1>4, <1>5 DEF DrainsKept

LEMMA DrainsCall ==
  ASSUME Typed, DrainsKept, NEW r \in GoodFrame, stack' = Append(stack, r),
         r.fn # "callback",
         \A i \in DOMAIN stack : Undisturbed(stack[i]),
         r.fn \in Drains => Kept(r)',
         r.fn \in Drains => \A i \in DOMAIN stack : stack[i].fn \in Drains => stack[i].s # r.s
  PROVE  DrainsKept'
<1>1. /\ Len(stack) \in Nat
      /\ DOMAIN stack = 1..Len(stack) /\ DOMAIN stack' = 1..(Len(stack) + 1)
      /\ stack'[Len(stack) + 1] = r /\ \A i \in 1..Len(stack) : stack'[i] = stack[i]
  BY CallStack
<1>2. \A i \in DOMAIN stack' : i \in DOMAIN stack \/ i = Len(stack) + 1
  BY <1>1
<1>3. ASSUME NEW i \in DOMAIN stack', stack'[i].fn \in Drains PROVE Kept(stack[i])'
  <2>1. CASE i \in DOMAIN stack
    <3>1. stack'[i] = stack[i] /\ Undisturbed(stack[i])
      BY <1>1, <2>1
    <3> QED
      BY <1>3, <2>1, <3>1 DEF DrainsKept, Undisturbed, Kept
  <2>2. CASE i = Len(stack) + 1
    BY <1>1, <1>3, <2>2 DEF Kept
  <2> QED
    BY <1>2, <2>1, <2>2
<1>4. ASSUME NEW i \in DOMAIN stack', NEW j \in DOMAIN stack',
             stack'[i].fn \in Drains, stack'[j].fn \in Drains, stack'[i].s = stack'[j].s
      PROVE  i = j
  BY <1>1, <1>2, <1>4 DEF DrainsKept
<1>5. ASSUME NEW i \in DOMAIN stack', stack'[i].fn = "callback"
      PROVE  i - 1 \in DOMAIN stack' /\ stack'[i - 1].fn \in Drains
  <2>1. i \in DOMAIN stack /\ stack'[i] = stack[i]
    BY <1>1, <1>2, <1>5
  <2>2. i - 1 \in DOMAIN stack /\ stack[i - 1].fn \in Drains
    BY <1>5, <2>1 DEF DrainsKept
  <2>3. i - 1 \in 1..Len(stack) /\ i - 1 \in 1..(Len(stack) + 1)
    BY <1>1, <1>5, <2>2
  <2> QED
    BY <1>1, <2>2, <2>3
<1> QED
  BY <1>3, <1>4, <1>5 DEF DrainsKept

LEMMA DrainsCallback ==
  ASSUME Typed, DrainsKept, RunCallback, UNCHANGED <<fd, state, thread>>
  PROVE  DrainsKept'
<1>1. /\ stack # <<>> /\ Top.fn \in Drains /\ Top.todo # <<>>
      /\ stack' = Below \o <<Popping(Top), Calling(Top)>>
  BY RunCallbackStep
<1>2. Len(stack) \in Nat \ {0} /\ Top = stack[Len(stack)] /\ Top \in GoodFrame
  BY <1>1, TopIsLast
<1>3. /\ Popping(Top) \in GoodFrame /\ Calling(Top) \in GoodFrame
      /\ Popping(Top).fn = Top.fn /\ Popping(Top).s = Top.s /\ Popping(Top).fd = Top.fd
  BY <1>1, <1>2, RunCallbackFrames
<1>4. /\ DOMAIN stack = 1..Len(stack) /\ DOMAIN stack' = 1..(Len(stack) + 1)
      /\ stack'[Len(stack)] = Popping(Top) /\ stack'[Len(stack) + 1] = Calling(Top)
      /\ \A i \in 1..(Len(stack) - 1) : stack'[i] = stack[i]
  BY <1>1, <1>3, CallbackStack
<1>5. Calling(Top).fn = "callback"
  BY DEF Calling
<1>6. ASSUME NEW i \in DOMAIN stack', i # Len(stack) + 1
      PROVE  /\ i \in DOMAIN stack /\ stack'[i].fn = stack[i].fn
             /\ stack'[i].s = stack[i].s /\ stack'[i].fd = stack[i].fd
  <2>1. CASE i = Len(stack)
    BY <1>2, <1>3, <1>4, <2>1
  <2>2. CASE i # Len(stack)
    <3>1. i \in 1..(Len(stack) - 1) /\ i \in 1..Len(stack)
      BY <1>2, <1>4, <1>6, <2>2
    <3> QED
      BY <1>4, <3>1
  <2> QED
    BY <2>1, <2>2
<1>7. "callback" \notin Drains
  BY DEF Drains
<1>8. ASSUME NEW i \in DOMAIN stack', stack'[i].fn \in Drains PROVE Kept(stack[i])'
  <2>1. i # Len(stack) + 1
    BY <1>4, <1>5, <1>7, <1>8
  <2> QED
    BY <1>6, <1>8, <2>1 DEF DrainsKept, Kept
<1>9. ASSUME NEW i \in DOMAIN stack', NEW j \in DOMAIN stack',
             stack'[i].fn \in Drains, stack'[j].fn \in Drains, stack'[i].s = stack'[j].s
      PROVE  i = j
  <2>1. i # Len(stack) + 1 /\ j # Len(stack) + 1
    BY <1>4, <1>5, <1>7, <1>9
  <2> QED
    BY <1>6, <1>9, <2>1 DEF DrainsKept
<1>10. ASSUME NEW i \in DOMAIN stack', stack'[i].fn = "callback"
       PROVE  i - 1 \in DOMAIN stack' /\ stack'[i - 1].fn \in Drains
  <2>1. CASE i = Len(stack) + 1
    <3>1. i - 1 = Len(stack) /\ i - 1 \in 1..(Len(stack) + 1)
      BY <1>2, <2>1
    <3> QED
      BY <1>1, <1>3, <1>4, <3>1
  <2>2. CASE i # Len(stack) + 1
    <3>1. i \in DOMAIN stack /\ stack[i].fn = "callback"
      BY <1>6, <1>10, <2>2
    <3>2. i - 1 \in DOMAIN stack /\ stack[i - 1].fn \in Drains
      BY <3>1 DEF DrainsKept
    <3>3. i - 1 \in DOMAIN stack' /\ i - 1 # Len(stack) + 1
      BY <1>2, <1>4, <3>2
    <3> QED
      BY <1>6, <3>2, <3>3
  <2> QED
    BY <2>1, <2>2
<1> QED
  BY <1>8, <1>9, <1>10 DEF DrainsKept

(* A socket that was not made yet has no descriptor and no drain. *)
LEMMA UnbornIsBare ==
  ASSUME OwnInv, NEW s \in Socket, state[s] = "unborn"
  PROVE  /\ fd[s] = NoFd /\ \A f \in DOMAIN owner : owner[f] # s
         /\ \A i \in DOMAIN stack : stack[i].fn \in Drains => stack[i].s # s
BY LifecycleAssumption DEF OwnInv, FdOwned, DrainsKept, Kept, User

LEMMA FdIsNumber == NoFd \notin Fd /\ User \notin Socket
BY LifecycleAssumption DEF NoFd, User

LEMMA BornFields ==
  ASSUME Typed, NEW ss \in SUBSET Socket, NEW fds, Born(ss, fds)
  PROVE  /\ \A s \in Socket : s \in ss => state'[s] = "live" /\ fd'[s] = fds[s]
         /\ \A s \in Socket : s \notin ss =>
              state'[s] = state[s] /\ fd'[s] = fd[s] /\ thread'[s] = thread[s]
         /\ UNCHANGED <<stack, stray>>
BY DEF Born, Typed

LEMMA BornDrains ==
  ASSUME OwnInv, NEW ss \in SUBSET Socket, \A s \in ss : state[s] = "unborn",
         NEW fds, Born(ss, fds)
  PROVE  DrainsKept'
<1>1. \A i \in DOMAIN stack : stack[i].s \in Socket
  BY FramesAreGood DEF OwnInv
<1>2. ASSUME NEW i \in DOMAIN stack PROVE Undisturbed(stack[i])
  <2> SUFFICES ASSUME stack[i].fn \in Drains PROVE stack[i].s \notin ss
    BY <1>1, BornFields DEF Undisturbed, OwnInv
  <2> QED
    BY UnbornIsBare
<1>3. UNCHANGED stack
  BY DEF Born
<1> QED
  BY <1>2, <1>3, DrainsStay DEF OwnInv

(* What FdOwned and the types say of the state before a step. *)
LEMMA OwnedBefore ==
  ASSUME OwnInv
  PROVE  /\ ~stray
         /\ \A s \in Socket : fd[s] # NoFd => fd[s] \in DOMAIN owner /\ owner[fd[s]] = s
         /\ \A f \in DOMAIN owner : owner[f] # User =>
              owner[f] \in Socket /\ fd[owner[f]] = f /\ state[owner[f]] = "live"
         /\ \A f \in DOMAIN owner : f # NoFd
BY FdIsNumber DEF OwnInv, Typed, FdOwned, NoStrayClose

LEMMA NewOwned ==
  ASSUME OwnInv, NEW s \in Socket, New(s) PROVE FdOwned' /\ DrainsKept'
<1>1. state[s] = "unborn"
  BY DEF New
<1>2. /\ fd[s] = NoFd /\ \A f \in DOMAIN owner : owner[f] # s
  BY <1>1, UnbornIsBare
<1>3. {s} \in SUBSET Socket /\ \A x \in {s} : state[x] = "unborn"
  BY <1>1
<1>4. CASE \E f \in FreeFds : owner' = Open(f, s) /\ Born({s}, [x \in {s} |-> f])
  <2>1. PICK f \in FreeFds : owner' = Open(f, s) /\ Born({s}, [x \in {s} |-> f])
    BY <1>4
  <2>2. state'[s] = "live" /\ fd'[s] = f /\ UNCHANGED stray
    BY <1>3, <2>1, BornFields DEF OwnInv
  <2>3. \A t \in Socket : t # s => state'[t] = state[t] /\ fd'[t] = fd[t]
    BY <1>3, <2>1, BornFields DEF OwnInv
  <2>4. f \in Fd /\ f \notin DOMAIN owner /\ DOMAIN owner' = DOMAIN owner \union {f}
        /\ owner'[f] = s /\ \A g \in DOMAIN owner : owner'[g] = owner[g]
    BY <2>1 DEF FreeFds, Open
  <2>5. FdOwned'
    BY <1>2, <2>2, <2>3, <2>4, OwnedBefore, FdIsNumber DEF FdOwned, NoStrayClose
  <2> QED
    BY <1>3, <2>1, <2>5, BornDrains
<1>5. CASE owner' = owner /\ Born({s}, [x \in {s} |-> NoFd])
  <2>1. state'[s] = "live" /\ fd'[s] = NoFd /\ UNCHANGED stray
    BY <1>3, <1>5, BornFields DEF OwnInv
  <2>2. \A t \in Socket : t # s => state'[t] = state[t] /\ fd'[t] = fd[t]
    BY <1>3, <1>5, BornFields DEF OwnInv
  <2>3. FdOwned'
    BY <1>2, <1>5, <2>1, <2>2, OwnedBefore, FdIsNumber DEF FdOwned, NoStrayClose
  <2> QED
    BY <1>3, <1>5, <2>3, BornDrains
<1> QED
  BY <1>4, <1>5 DEF New

LEMMA PairOwned ==
  ASSUME OwnInv, NEW s \in Socket, NEW t \in Socket, Pair(s, t)
  PROVE  FdOwned' /\ DrainsKept'
<1>1. s # t /\ state[s] = "unborn" /\ state[t] = "unborn"
  BY DEF Pair
<1>2. /\ fd[s] = NoFd /\ fd[t] = NoFd
      /\ \A f \in DOMAIN owner : owner[f] # s /\ owner[f] # t
  BY <1>1, UnbornIsBare
<1>3. {s, t} \in SUBSET Socket /\ \A x \in {s, t} : state[x] = "unborn"
  BY <1>1
<1>4. ASSUME NEW f \in FreeFds, NEW g \in FreeFds, f # g,
             owner' = [h \in DOMAIN owner \union {f, g} |->
                         CASE h = f -> s [] h = g -> t [] OTHER -> owner[h]],
             Born({s, t}, [x \in {s, t} |-> IF x = s THEN f ELSE g])
      PROVE  FdOwned' /\ DrainsKept'
  <2>1. /\ state'[s] = "live" /\ state'[t] = "live"
        /\ fd'[s] = f /\ fd'[t] = g /\ UNCHANGED stray
    BY <1>1, <1>3, <1>4, BornFields DEF OwnInv
  <2>2. \A x \in Socket : x \notin {s, t} => state'[x] = state[x] /\ fd'[x] = fd[x]
    BY <1>3, <1>4, BornFields DEF OwnInv
  <2>3. /\ f \notin DOMAIN owner /\ g \notin DOMAIN owner
        /\ DOMAIN owner' = DOMAIN owner \union {f, g}
        /\ owner'[f] = s /\ owner'[g] = t /\ \A h \in DOMAIN owner : owner'[h] = owner[h]
    BY <1>4 DEF FreeFds
  <2>4. FdOwned'
    BY <1>1, <1>2, <2>1, <2>2, <2>3, OwnedBefore, FdIsNumber DEF FdOwned, NoStrayClose
  <2> QED
    BY <1>3, <1>4, <2>4, BornDrains
<1>5. CASE owner' = owner /\ Born({s, t}, [x \in {s, t} |-> NoFd])
  <2>1. /\ state'[s] = "live" /\ state'[t] = "live"
        /\ fd'[s] = NoFd /\ fd'[t] = NoFd /\ UNCHANGED stray
    BY <1>3, <1>5, BornFields DEF OwnInv
  <2>2. \A x \in Socket : x \notin {s, t} => state'[x] = state[x] /\ fd'[x] = fd[x]
    BY <1>3, <1>5, BornFields DEF OwnInv
  <2>3. FdOwned'
    BY <1>2, <1>5, <2>1, <2>2, OwnedBefore, FdIsNumber DEF FdOwned, NoStrayClose
  <2> QED
    BY <1>3, <1>5, <2>3, BornDrains
<1> QED
  BY <1>4, <1>5 DEF Pair

LEMMA WrapOwned ==
  ASSUME OwnInv, NEW s \in Socket, NEW f \in Fd, Wrap(s, f) PROVE FdOwned' /\ DrainsKept'
<1>1. state[s] = "unborn" /\ f \in DOMAIN owner /\ owner[f] = User
  BY DEF Wrap
<1>2. fd[s] = NoFd /\ \A g \in DOMAIN owner : owner[g] # s
  BY <1>1, UnbornIsBare
<1>3. {s} \in SUBSET Socket /\ \A x \in {s} : state[x] = "unborn"
  BY <1>1
<1>4. CASE owner' = Open(f, s) /\ Born({s}, [x \in {s} |-> f])
  <2>1. state'[s] = "live" /\ fd'[s] = f /\ UNCHANGED stray
    BY <1>3, <1>4, BornFields DEF OwnInv
  <2>2. \A t \in Socket : t # s => state'[t] = state[t] /\ fd'[t] = fd[t]
    BY <1>3, <1>4, BornFields DEF OwnInv
  <2>3. /\ DOMAIN owner' = DOMAIN owner /\ owner'[f] = s
        /\ \A g \in DOMAIN owner : g # f => owner'[g] = owner[g]
    BY <1>1, <1>4 DEF Open
  <2>4. FdOwned'
    BY <1>1, <1>2, <2>1, <2>2, <2>3, OwnedBefore, FdIsNumber DEF FdOwned, NoStrayClose
  <2> QED
    BY <1>3, <1>4, <2>4, BornDrains
<1>5. CASE owner' = owner /\ Born({s}, [x \in {s} |-> NoFd])
  <2>1. state'[s] = "live" /\ fd'[s] = NoFd /\ UNCHANGED stray
    BY <1>3, <1>5, BornFields DEF OwnInv
  <2>2. \A t \in Socket : t # s => state'[t] = state[t] /\ fd'[t] = fd[t]
    BY <1>3, <1>5, BornFields DEF OwnInv
  <2>3. FdOwned'
    BY <1>2, <1>5, <2>1, <2>2, OwnedBefore, FdIsNumber DEF FdOwned, NoStrayClose
  <2> QED
    BY <1>3, <1>5, <2>3, BornDrains
<1> QED
  BY <1>4, <1>5 DEF Wrap

LEMMA BareOwned ==
  ASSUME OwnInv, NEW f \in Fd, AcceptFd(f) \/ CloseFd(f) PROVE FdOwned' /\ DrainsKept'
<1>1. UNCHANGED <<state, fd, thread, stack, stray>>
  BY DEF AcceptFd, CloseFd
<1>2. DrainsKept'
  BY <1>1, DrainsStay DEF OwnInv, Undisturbed
<1>3. CASE AcceptFd(f)
  <2>1. /\ f \notin DOMAIN owner /\ DOMAIN owner' = DOMAIN owner \union {f}
        /\ owner'[f] = User /\ \A g \in DOMAIN owner : owner'[g] = owner[g]
    BY <1>3 DEF AcceptFd, Open, FreeFds
  <2> QED
    BY <1>1, <1>2, <2>1, OwnedBefore, FdIsNumber DEF FdOwned, NoStrayClose
<1>4. CASE CloseFd(f)
  <2>1. /\ owner[f] = User /\ DOMAIN owner' = DOMAIN owner \ {f}
        /\ \A g \in DOMAIN owner : g # f => owner'[g] = owner[g]
    BY <1>4 DEF CloseFd, Shut
  <2> QED
    BY <1>1, <1>2, <2>1, OwnedBefore, FdIsNumber DEF FdOwned, NoStrayClose
<1> QED
  BY <1>3, <1>4

(* Steps that touch neither a descriptor nor the state of a socket.        *)
LEMMA FdsStay ==
  ASSUME OwnInv, UNCHANGED <<state, fd, owner, stray>> PROVE FdOwned'
BY OwnedBefore DEF FdOwned, NoStrayClose

LEMMA AddDelOwned ==
  ASSUME OwnInv, NEW s \in Socket, NEW c \in Callback, AddStart(s, c) \/ Del(s, c)
  PROVE  FdOwned' /\ DrainsKept'
<1>1. UNCHANGED <<state, fd, thread, owner, stray>>
  BY DEF AddStart, Del
<1>2. FdOwned'
  BY <1>1, FdsStay
<1>3. \A i \in DOMAIN stack : Undisturbed(stack[i])
  BY <1>1 DEF Undisturbed
<1>4. CASE UNCHANGED stack
  BY <1>2, <1>3, <1>4, DrainsStay DEF OwnInv
<1>5. CASE AddStart(s, c) /\ ~UNCHANGED stack
  <2>1. PICK r : r = [fn |-> "add", s |-> s, fd |-> NoFd, todo |-> <<>>, c |-> <<c>>]
    OBVIOUS
  <2>2. r \in GoodFrame /\ stack' = Append(stack, r)
    BY <1>5, <2>1, AddStartTyped DEF OwnInv
  <2>3. r.fn = "add" /\ "add" \notin Drains
    BY <2>1 DEF Drains
  <2> QED
    BY <1>2, <1>3, <2>2, <2>3, DrainsCall DEF OwnInv
<1> QED
  BY <1>4, <1>5 DEF Del

LEMMA AddFinishOwned ==
  ASSUME OwnInv, AddFinish \/ CallbackReturns PROVE FdOwned' /\ DrainsKept'
<1>1. UNCHANGED <<state, fd, thread, owner, stray>>
  BY DEF AddFinish, CallbackReturns
<1>2. stack # <<>> /\ stack' = Below
  BY AddFinishTyped, DrainTyped DEF OwnInv
<1>3. \A i \in 1..(Len(stack) - 1) : Undisturbed(stack[i])
  BY <1>1 DEF Undisturbed
<1> QED
  BY <1>1, <1>2, <1>3, FdsStay, DrainsReturn DEF OwnInv

(* A drain begins: no other is under way for this socket.                  *)
LEMMA DetachOwned ==
  ASSUME ~NestedUnwrap, OwnInv, NEW s \in Socket, Close(s) \/ Collect(s) \/ Unwrap(s)
  PROVE  FdOwned' /\ DrainsKept'
<1>1. PICK fn \in Drains :
        /\ Detach(fn, s) /\ UNCHANGED <<state, fd, owner, stray, addr, deleted>>
        /\ fn = "close" => fd[s] # NoFd
  BY DEF Close, Collect, Unwrap, Drains
<1>2. state[s] = "live"
  BY DEF Close, Collect, Unwrap
<1>3. \A i \in DOMAIN stack : stack[i].fn \in Drains => stack[i].s # s
  <2>1. CASE Close(s)
    BY <2>1 DEF Close, OwnInv, DrainsKept, Kept
  <2>2. CASE Collect(s)
    BY <2>2 DEF Collect, OnStack
  <2>3. CASE Unwrap(s)
    BY <2>3 DEF Unwrap, Draining, Drains
  <2> QED
    BY <2>1, <2>2, <2>3
<1>4. thread' = [thread EXCEPT ![s] = FALSE]
  BY <1>1 DEF Detach
<1>5. \A i \in DOMAIN stack : Undisturbed(stack[i])
  <2>1. \A i \in DOMAIN stack : stack[i].s \in Socket
    BY FramesAreGood DEF OwnInv
  <2>2. \A t \in Socket : t # s => thread'[t] = thread[t]
    BY <1>4 DEF OwnInv, Typed
  <2> QED
    BY <1>1, <1>3, <2>1, <2>2 DEF Undisturbed
<1>6. PICK r : r = [fn |-> fn, s |-> s, fd |-> fd[s], todo |-> cbs[s], c |-> <<>>]
  OBVIOUS
<1>7. r \in GoodFrame /\ stack' = Append(stack, r)
  BY <1>1, <1>6, DetachTyped DEF OwnInv
<1>8. r.fn = fn /\ r.s = s /\ r.fd = fd[s] /\ r' = r
  BY <1>6
<1>9. Kept(r)'
  BY <1>1, <1>2, <1>4, <1>8 DEF Kept, OwnInv, Typed
<1>10. r.fn # "callback"
  BY <1>8 DEF Drains
<1>11. DrainsKept'
  BY <1>3, <1>5, <1>7, <1>8, <1>9, <1>10, DrainsCall DEF OwnInv
<1> QED
  BY <1>1, <1>11, FdsStay

(* A drain ends: its socket is still the owner of the descriptor the drain *)
(* remembered, so this is what is closed or given away.                    *)
LEMMA FinishOwned ==
  ASSUME OwnInv, FinishClose \/ FinishGc \/ FinishUnwrap PROVE FdOwned' /\ DrainsKept'
<1>1. stack # <<>> /\ stack' = Below
  BY DrainTyped DEF OwnInv
<1>2. Top.fn \in Drains
  BY <1>1, TopIsLast DEF FinishClose, FinishGc, FinishUnwrap, Drains, OwnInv
<1>3. /\ Len(stack) \in Nat \ {0} /\ Top = stack[Len(stack)] /\ Top \in GoodFrame
      /\ Running = Top.fn
  BY <1>1, TopIsLast DEF OwnInv
<1>4. /\ DOMAIN stack = 1..Len(stack)
      /\ Len(stack) \in DOMAIN stack
  BY <1>1, <1>3, ReturnStack DEF OwnInv
<1>5. PICK s \in Socket : s = Top.s
  BY <1>3 DEF GoodFrame, Frame
<1>6. fd[s] = Top.fd /\ state[s] = "live" /\ (Top.fn = "close" => Top.fd # NoFd)
  BY <1>2, <1>3, <1>4, <1>5 DEF OwnInv, DrainsKept, Kept
<1>7. fd' = [fd EXCEPT ![s] = NoFd] /\ UNCHANGED thread
  BY <1>5 DEF FinishClose, FinishGc, FinishUnwrap
<1>8. state' = state \/ state' = [state EXCEPT ![s] = "dead"]
  BY <1>5 DEF FinishClose, FinishGc, FinishUnwrap
<1>9. fd'[s] = NoFd /\ \A t \in Socket : t # s => fd'[t] = fd[t] /\ state'[t] = state[t]
  BY <1>7, <1>8 DEF OwnInv, Typed
<1>10. \A i \in DOMAIN stack : stack[i].s \in Socket
  BY FramesAreGood DEF OwnInv
<1>11. ASSUME NEW i \in 1..(Len(stack) - 1) PROVE Undisturbed(stack[i])
  <2>3. i \in 1..Len(stack) /\ i # Len(stack)
    BY <1>3
  <2>1. i \in DOMAIN stack /\ i # Len(stack)
    BY <1>4, <2>3
  <2>2. stack[i].fn \in Drains => stack[i].s # s
    BY <1>2, <1>3, <1>4, <1>5, <2>1 DEF OwnInv, DrainsKept
  <2> QED
    BY <1>7, <1>9, <1>10, <2>1, <2>2 DEF Undisturbed
<1>12. DrainsKept'
  BY <1>1, <1>11, DrainsReturn DEF OwnInv
<1>13. fd[s] # NoFd => fd[s] \in DOMAIN owner /\ owner[fd[s]] = s
  BY OwnedBefore
<1>14. \/ fd[s] = NoFd /\ UNCHANGED <<owner, stray>>
       \/ fd[s] # NoFd /\ owner' = Shut(fd[s]) /\ ~stray'
       \/ fd[s] # NoFd /\ owner' = Open(fd[s], User) /\ UNCHANGED stray
  <2>1. CASE FinishClose
    BY <1>3, <1>5, <1>6, <1>13, <2>1, OwnedBefore DEF FinishClose, KernelClose
  <2>2. CASE FinishGc
    BY <1>5, <1>13, <2>2, OwnedBefore DEF FinishGc, KernelClose
  <2>3. CASE FinishUnwrap
    <3>1. UNCHANGED stray /\ owner' = IF fd[s] \in DOMAIN owner THEN Open(fd[s], User) ELSE owner
      BY <1>6, <2>3 DEF FinishUnwrap
    <3>2. fd[s] = NoFd => fd[s] \notin DOMAIN owner
      BY OwnedBefore
    <3> QED
      BY <1>13, <3>1, <3>2
  <2> QED
    BY <2>1, <2>2, <2>3
<1>15. s # User
  BY FdIsNumber
<1>16. CASE fd[s] = NoFd /\ UNCHANGED <<owner, stray>>
  <2>1. \A f \in DOMAIN owner : owner[f] # s
    BY <1>15, <1>16, OwnedBefore
  <2>2. FdOwned'
    BY <1>9, <1>16, <2>1, OwnedBefore DEF FdOwned, NoStrayClose
  <2> QED
    BY <1>12, <2>2
<1>17. CASE fd[s] # NoFd /\ owner' = Shut(fd[s]) /\ ~stray'
  <2>1. /\ DOMAIN owner' = DOMAIN owner \ {fd[s]}
        /\ \A f \in DOMAIN owner : f # fd[s] => owner'[f] = owner[f]
    BY <1>17 DEF Shut
  <2>2. \A f \in DOMAIN owner : f # fd[s] => owner[f] # s
    BY <1>15, OwnedBefore
  <2>3. FdOwned'
    BY <1>9, <1>13, <1>17, <2>1, <2>2, OwnedBefore DEF FdOwned, NoStrayClose
  <2> QED
    BY <1>12, <2>3
<1>18. CASE fd[s] # NoFd /\ owner' = Open(fd[s], User) /\ UNCHANGED stray
  <2>1. /\ DOMAIN owner' = DOMAIN owner /\ owner'[fd[s]] = User
        /\ \A f \in DOMAIN owner : f # fd[s] => owner'[f] = owner[f]
    BY <1>13, <1>18 DEF Open
  <2>2. \A f \in DOMAIN owner : f # fd[s] => owner[f] # s
    BY <1>15, OwnedBefore
  <2>3. FdOwned'
    BY <1>9, <1>13, <1>18, <2>1, <2>2, OwnedBefore DEF FdOwned, NoStrayClose
  <2> QED
    BY <1>12, <2>3
<1> QED
  BY <1>14, <1>16, <1>17, <1>18

LEMMA OwnStep ==
  ASSUME ~NestedUnwrap, OwnInv, [Next]_vars PROVE OwnInv'
<1>1. Typed'
  BY TypedStep DEF OwnInv
<1>2. CASE UNCHANGED vars
  <2>1. UNCHANGED <<state, fd, thread, stack, owner, stray>>
    BY <1>2 DEF vars
  <2>2. DrainsKept'
    BY <2>1, DrainsStay DEF OwnInv, Undisturbed
  <2> QED
    BY <1>1, <2>1, <2>2, FdsStay DEF OwnInv
<1>3. ASSUME NEW s \in Socket, New(s) PROVE OwnInv'
  BY <1>1, <1>3, NewOwned DEF OwnInv
<1>4. ASSUME NEW s \in Socket, NEW t \in Socket, Pair(s, t) PROVE OwnInv'
  BY <1>1, <1>4, PairOwned DEF OwnInv
<1>5. ASSUME NEW s \in Socket, NEW f \in Fd, Wrap(s, f) PROVE OwnInv'
  BY <1>1, <1>5, WrapOwned DEF OwnInv
<1>6. ASSUME NEW f \in Fd, AcceptFd(f) \/ CloseFd(f) PROVE OwnInv'
  BY <1>1, <1>6, BareOwned DEF OwnInv
<1>7. ASSUME NEW s \in Socket, Close(s) \/ Collect(s) \/ Unwrap(s) PROVE OwnInv'
  BY <1>1, <1>7, DetachOwned DEF OwnInv
<1>8. ASSUME NEW s \in Socket, NEW c \in Callback, AddStart(s, c) \/ Del(s, c) PROVE OwnInv'
  BY <1>1, <1>8, AddDelOwned DEF OwnInv
<1>9. CASE AddFinish \/ CallbackReturns
  BY <1>1, <1>9, AddFinishOwned DEF OwnInv
<1>10. CASE FinishClose \/ FinishGc \/ FinishUnwrap
  BY <1>1, <1>10, FinishOwned DEF OwnInv
<1>11. CASE RunCallback
  <2>1. UNCHANGED <<state, fd, thread, owner, stray>>
    BY <1>11 DEF RunCallback
  <2> QED
    BY <1>1, <1>11, <2>1, FdsStay, DrainsCallback DEF OwnInv
<1> QED
  BY <1>2, <1>3, <1>4, <1>5, <1>6, <1>7, <1>8, <1>9, <1>10, <1>11 DEF Next, DrainStep

LEMMA OwnInit == Init => OwnInv
<1> SUFFICES ASSUME Init PROVE OwnInv
  OBVIOUS
<1>1. DOMAIN owner = {} /\ DOMAIN stack = {}
  BY DEF Init
<1> QED
  BY <1>1, TypedInit DEF Init, OwnInv, FdOwned, NoStrayClose, DrainsKept

LEMMA OwnSafe == OwnInv => FdOwned /\ CallbackSeesLiveFd
<1> SUFFICES ASSUME OwnInv PROVE CallbackSeesLiveFd
  BY DEF OwnInv
<1> SUFFICES ASSUME NEW i \in DOMAIN stack, stack[i].fn = "callback", stack[i - 1].fd # NoFd
             PROVE  /\ fd[stack[i - 1].s] = stack[i - 1].fd
                    /\ stack[i - 1].fd \in DOMAIN owner
                    /\ owner[stack[i - 1].fd] = stack[i - 1].s
  BY DEF CallbackSeesLiveFd
<1>1. PICK r : r = stack[i - 1]
  OBVIOUS
<1>2. Kept(r) /\ i - 1 \in DOMAIN stack
  BY <1>1 DEF OwnInv, DrainsKept
<1>3. r.s \in Socket
  BY <1>1, <1>2, FramesAreGood DEF OwnInv
<1> QED
  BY <1>1, <1>2, <1>3, OwnedBefore DEF Kept

(* Every open descriptor has one owner, and no close(2) hits another's,    *)
(* when no callback unwraps the socket whose drain is running it.  With    *)
(* NestedUnwrap this does not hold.                                        *)
THEOREM DescriptorsOwned ==
  ASSUME ~NestedUnwrap PROVE Spec => []FdOwned
<1>1. Init => OwnInv
  BY OwnInit
<1>2. OwnInv /\ [Next]_vars => OwnInv'
  BY OwnStep
<1>3. OwnInv => FdOwned
  BY DEF OwnInv
<1> QED
  BY <1>1, <1>2, <1>3, PTL DEF Spec

(* A callback that runs finds the descriptor its socket had, still open    *)
(* and still its own, although callbacks close, collect and make sockets   *)
(* (net_gcthread_close before close(2) in socket.c).                       *)
THEOREM CallbacksSeeTheirFd ==
  ASSUME ~NestedUnwrap PROVE Spec => []CallbackSeesLiveFd
<1>1. Init => OwnInv
  BY OwnInit
<1>2. OwnInv /\ [Next]_vars => OwnInv'
  BY OwnStep
<1>3. OwnInv => CallbackSeesLiveFd
  BY OwnSafe
<1> QED
  BY <1>1, <1>2, <1>3, PTL DEF Spec

-----------------------------------------------------------------------------
(* Callbacks.  A call names one callback at most: the one being built or   *)
(* the one running.                                                        *)
NamedOnce ==
  /\ \A k \in DOMAIN stack : stack[k].fn = "add" => fate[stack[k].c[1]] = "building"
  /\ \A k \in DOMAIN stack : stack[k].fn = "callback" => fate[stack[k].c[1]] = "running"
  /\ \A k, l \in DOMAIN stack :
       stack[k].fn \notin Drains /\ stack[l].fn \notin Drains
         /\ stack[k].c[1] = stack[l].c[1] => k = l

(* A socket has its thread from its birth to its first drain. *)
ThreadFlags ==
  /\ \A s \in Socket : ~thread[s] => cbs[s] = <<>>
  /\ \A s \in Socket : state[s] # "live" => ~thread[s]
  /\ \A k \in DOMAIN stack : stack[k].fn \in Drains =>
       ~thread[stack[k].s] /\ state[stack[k].s] # "unborn"

LedgerInv == Typed /\ RegisteredOnce /\ OwedOnce /\ NamedOnce /\ ThreadFlags

(* Which callbacks a step leaves as they were. *)
SameFate(what) == \A c \in Callback : fate'[c] = what <=> fate[c] = what

LEMMA RegisteredStay ==
  ASSUME RegisteredOnce, UNCHANGED cbs, SameFate("registered") PROVE RegisteredOnce'
BY DEF RegisteredOnce, SameFate, OnThread

LEMMA OwedStay ==
  ASSUME OwedOnce, UNCHANGED stack, SameFate("draining") PROVE OwedOnce'
BY DEF OwedOnce, SameFate, InDrain

(* What is on a thread or in a drain is a callback, with its fate. *)
LEMMA RegisteredFate ==
  ASSUME Typed, RegisteredOnce, NEW s \in Socket, NEW i \in DOMAIN cbs[s]
  PROVE  cbs[s][i] \in Callback /\ fate[cbs[s][i]] = "registered"
<1>1. cbs[s] \in Seq(Callback)
  BY DEF Typed
<1>2. cbs[s][i] \in Callback
  BY <1>1, LenProperties, ElementOfSeq, Zenon
<1> QED
  BY <1>2 DEF RegisteredOnce, OnThread

LEMMA OwedFate ==
  ASSUME Typed, OwedOnce, NEW k \in DOMAIN stack, NEW i \in DOMAIN stack[k].todo
  PROVE  stack[k].todo[i] \in Callback /\ fate[stack[k].todo[i]] = "draining"
<1>1. stack[k].todo \in Seq(Callback)
  BY FramesAreGood DEF GoodFrame, Frame
<1>2. stack[k].todo[i] \in Callback
  BY <1>1, LenProperties, ElementOfSeq, Zenon
<1> QED
  BY <1>2 DEF OwedOnce, InDrain

(* A call that owes nothing returns. *)
LEMMA OwedReturn ==
  ASSUME Typed, OwedOnce, stack # <<>>, Top.todo = <<>>, stack' = Below, SameFate("draining")
  PROVE  OwedOnce'
<1>1. /\ Len(stack) \in Nat \ {0}
      /\ DOMAIN stack = 1..Len(stack) /\ DOMAIN stack' = 1..(Len(stack) - 1)
      /\ \A i \in 1..(Len(stack) - 1) : stack'[i] = stack[i]
  BY ReturnStack
<1>2. Top = stack[Len(stack)]
  BY TopIsLast
<1>3. \A k \in DOMAIN stack : k = Len(stack) \/ k \in DOMAIN stack'
  BY <1>1
<1>4. \A k \in DOMAIN stack' : k \in DOMAIN stack /\ stack'[k] = stack[k]
  BY <1>1
<1>5. DOMAIN stack[Len(stack)].todo = {}
  BY <1>2
<1>6. \A k \in DOMAIN stack : \A i \in DOMAIN stack[k].todo :
        k \in DOMAIN stack' /\ stack'[k] = stack[k]
  BY <1>3, <1>4, <1>5
<1>7. ASSUME NEW c \in Callback
      PROVE  (\E k \in DOMAIN stack : \E i \in DOMAIN stack[k].todo : InDrain(c, k, i)) <=>
             (\E k \in DOMAIN stack' : \E i \in DOMAIN stack'[k].todo : InDrain(c, k, i)')
  BY <1>4, <1>6 DEF InDrain
<1>8. \A k, l \in DOMAIN stack' : \A i \in DOMAIN stack'[k].todo, j \in DOMAIN stack'[l].todo :
        stack'[k].todo[i] = stack'[l].todo[j] => k = l /\ i = j
  BY <1>4 DEF OwedOnce
<1> QED
  BY <1>7, <1>8 DEF OwedOnce, SameFate

(* A call is made that owes the callbacks of r.todo. *)
LEMMA OwedCall ==
  ASSUME Typed, OwedOnce, NEW r \in GoodFrame, stack' = Append(stack, r),
         \A c \in Callback : fate'[c] = "draining" <=>
           fate[c] = "draining" \/ \E j \in DOMAIN r.todo : r.todo[j] = c,
         \A j \in DOMAIN r.todo : fate[r.todo[j]] # "draining",
         \A i, j \in DOMAIN r.todo : r.todo[i] = r.todo[j] => i = j
  PROVE  OwedOnce'
<1>1. /\ Len(stack) \in Nat
      /\ DOMAIN stack = 1..Len(stack) /\ DOMAIN stack' = 1..(Len(stack) + 1)
      /\ stack'[Len(stack) + 1] = r /\ \A i \in 1..Len(stack) : stack'[i] = stack[i]
  BY CallStack
<1>2. PICK n : n = Len(stack) + 1
  OBVIOUS
<1>3. /\ n \in DOMAIN stack' /\ n \notin DOMAIN stack /\ stack'[n] = r
      /\ \A k \in DOMAIN stack' : k = n \/ k \in DOMAIN stack
      /\ \A k \in DOMAIN stack : k \in DOMAIN stack' /\ stack'[k] = stack[k]
  BY <1>1, <1>2
<1>4. ASSUME NEW c \in Callback
      PROVE  fate'[c] = "draining" <=>
               \E k \in DOMAIN stack' : \E i \in DOMAIN stack'[k].todo : InDrain(c, k, i)'
  <2>1. (\E k \in DOMAIN stack' : \E i \in DOMAIN stack'[k].todo : InDrain(c, k, i)') <=>
          \/ \E k \in DOMAIN stack : \E i \in DOMAIN stack[k].todo : InDrain(c, k, i)
          \/ \E j \in DOMAIN r.todo : r.todo[j] = c
    BY <1>3 DEF InDrain
  <2> QED
    BY <2>1 DEF OwedOnce
<1>5. ASSUME NEW k \in DOMAIN stack', NEW l \in DOMAIN stack',
             NEW i \in DOMAIN stack'[k].todo, NEW j \in DOMAIN stack'[l].todo,
             stack'[k].todo[i] = stack'[l].todo[j]
      PROVE  k = l /\ i = j
  <2>1. CASE k = n /\ l = n
    BY <1>3, <1>5, <2>1
  <2>2. CASE k \in DOMAIN stack /\ l \in DOMAIN stack
    BY <1>3, <1>5, <2>2 DEF OwedOnce
  <2>3. CASE k = n /\ l \in DOMAIN stack
    <3>1. stack'[k] = r /\ stack'[l] = stack[l]
      BY <1>3, <2>3
    <3> QED
      BY <1>5, <2>3, <3>1, OwedFate
  <2>4. CASE k \in DOMAIN stack /\ l = n
    <3>1. stack'[k] = stack[k] /\ stack'[l] = r
      BY <1>3, <2>4
    <3> QED
      BY <1>5, <2>4, <3>1, OwedFate
  <2> QED
    BY <1>3, <2>1, <2>2, <2>3, <2>4
<1> QED
  BY <1>4, <1>5 DEF OwedOnce

(* The newest callback of a drain is taken from what the drain owes. *)
LEMMA OwedCallback ==
  ASSUME Typed, OwedOnce, RunCallback PROVE OwedOnce' /\ fate[Last(Top.todo)] = "draining"
<1>1. /\ stack # <<>> /\ Top.fn \in Drains /\ Top.todo # <<>>
      /\ fate' = [fate EXCEPT ![Last(Top.todo)] = "running"]
      /\ stack' = Below \o <<Popping(Top), Calling(Top)>>
  BY RunCallbackStep
<1>2. PICK n, m : n = Len(stack) /\ m = Len(Top.todo)
  OBVIOUS
<1>3. n \in Nat \ {0} /\ Top = stack[n] /\ Top \in GoodFrame
  BY <1>1, <1>2, TopIsLast
<1>4. /\ Popping(Top) \in GoodFrame /\ Calling(Top) \in GoodFrame
      /\ m \in Nat \ {0} /\ DOMAIN Top.todo = 1..m
      /\ DOMAIN Popping(Top).todo = 1..(m - 1)
      /\ \A j \in 1..(m - 1) : Popping(Top).todo[j] = Top.todo[j]
      /\ Last(Top.todo) = Top.todo[m] /\ Last(Top.todo) \in Callback
  BY <1>1, <1>2, <1>3, RunCallbackFrames
<1>5. /\ DOMAIN stack = 1..n /\ DOMAIN stack' = 1..(n + 1)
      /\ stack'[n] = Popping(Top) /\ stack'[n + 1] = Calling(Top)
      /\ \A i \in 1..(n - 1) : stack'[i] = stack[i]
  BY <1>1, <1>2, <1>4, CallbackStack
<1>6. DOMAIN Calling(Top).todo = {}
  BY DEF Calling
<1>7. PICK c0 : c0 = Top.todo[m]
  OBVIOUS
<1>8. /\ n \in DOMAIN stack /\ DOMAIN stack[n].todo = 1..m /\ m \in 1..m /\ stack[n].todo[m] = c0
  BY <1>3, <1>4, <1>5, <1>7
<1>9. c0 \in Callback /\ fate[c0] = "draining"
  BY <1>8, OwedFate
<1>10. fate'[c0] = "running" /\ \A c \in Callback : c # c0 => fate'[c] = fate[c]
  BY <1>1, <1>4, <1>7, <1>9 DEF Typed
(* The places after the step are the places before it, but one. *)
<1>11. ASSUME NEW k \in DOMAIN stack', NEW i \in DOMAIN stack'[k].todo
       PROVE  /\ k \in DOMAIN stack /\ i \in DOMAIN stack[k].todo
              /\ stack'[k].todo[i] = stack[k].todo[i] /\ ~(k = n /\ i = m)
  <2>1. k # n + 1
    BY <1>5, <1>6, <1>11
  <2>2. CASE k = n
    <3>1. i \in 1..(m - 1)
      BY <1>4, <1>5, <1>11, <2>2
    <3>2. i \in 1..m /\ i # m
      BY <1>4, <3>1
    <3> QED
      BY <1>3, <1>4, <1>5, <1>8, <2>2, <3>1, <3>2
  <2>3. CASE k # n
    <3>1. k \in 1..(n - 1) /\ k \in 1..n
      BY <1>3, <1>5, <2>1, <2>3
    <3> QED
      BY <1>5, <1>11, <2>3, <3>1
  <2> QED
    BY <2>2, <2>3
<1>12. ASSUME NEW k \in DOMAIN stack, NEW i \in DOMAIN stack[k].todo, ~(k = n /\ i = m)
       PROVE  /\ k \in DOMAIN stack' /\ i \in DOMAIN stack'[k].todo
              /\ stack'[k].todo[i] = stack[k].todo[i]
  <2>0. k \in 1..n /\ k \in 1..(n + 1)
    BY <1>3, <1>5
  <2>2. CASE k = n
    <3>1. i \in 1..(m - 1)
      BY <1>4, <1>8, <1>12, <2>2
    <3> QED
      BY <1>3, <1>4, <1>5, <2>0, <2>2, <3>1
  <2>3. CASE k # n
    <3>1. k \in 1..(n - 1)
      BY <1>3, <2>0, <2>3
    <3> QED
      BY <1>5, <2>0, <3>1
  <2> QED
    BY <2>2, <2>3
<1>13. ASSUME NEW c \in Callback
       PROVE  fate'[c] = "draining" <=>
                \E k \in DOMAIN stack' : \E i \in DOMAIN stack'[k].todo : InDrain(c, k, i)'
  <2>1. CASE c = c0
    <3>1. ASSUME NEW k \in DOMAIN stack', NEW i \in DOMAIN stack'[k].todo
          PROVE  stack'[k].todo[i] # c0
      BY <1>8, <1>11 DEF OwedOnce
    <3> QED
      BY <1>10, <2>1, <3>1 DEF InDrain
  <2>2. CASE c # c0
    <3>1. (\E k \in DOMAIN stack' : \E i \in DOMAIN stack'[k].todo : InDrain(c, k, i)') <=>
            \E k \in DOMAIN stack : \E i \in DOMAIN stack[k].todo : InDrain(c, k, i)
      BY <1>8, <1>11, <1>12, <2>2 DEF InDrain
    <3> QED
      BY <1>10, <2>2, <3>1 DEF OwedOnce
  <2> QED
    BY <2>1, <2>2
<1>14. ASSUME NEW k \in DOMAIN stack', NEW l \in DOMAIN stack',
              NEW i \in DOMAIN stack'[k].todo, NEW j \in DOMAIN stack'[l].todo,
              stack'[k].todo[i] = stack'[l].todo[j]
       PROVE  k = l /\ i = j
  BY <1>11, <1>14 DEF OwedOnce
<1> QED
  BY <1>4, <1>7, <1>9, <1>13, <1>14 DEF OwedOnce

(* One callback goes onto the thread of s. *)
LEMMA RegisteredAdd ==
  ASSUME Typed, RegisteredOnce, NEW s \in Socket, NEW c \in Callback,
         cbs' = [cbs EXCEPT ![s] = Append(@, c)],
         fate' = [fate EXCEPT ![c] = "registered"], fate[c] # "registered"
  PROVE  RegisteredOnce'
<1>1. PICK q : q = cbs[s]
  OBVIOUS
<1>2. q \in Seq(Callback)
  BY <1>1 DEF Typed
<1>3. PICK new : /\ new = Append(q, c)
                 /\ new \in Seq(Callback) /\ Len(new) = Len(q) + 1 /\ Len(q) \in Nat
                 /\ DOMAIN q = 1..Len(q) /\ DOMAIN new = 1..(Len(q) + 1)
                 /\ new[Len(q) + 1] = c /\ \A i \in 1..Len(q) : new[i] = q[i]
  BY <1>2, Pushed, Zenon
<1>4. PICK n : n = Len(q) + 1
  OBVIOUS
<1>5. /\ n \in DOMAIN new /\ n \notin DOMAIN q /\ new[n] = c
      /\ \A i \in DOMAIN new : i = n \/ i \in DOMAIN q
      /\ \A i \in DOMAIN q : i \in DOMAIN new /\ new[i] = q[i]
  BY <1>3, <1>4
<1>6. cbs'[s] = new /\ \A t \in Socket : t # s => cbs'[t] = cbs[t]
  BY <1>1, <1>3 DEF Typed
<1>7. fate'[c] = "registered" /\ \A d \in Callback : d # c => fate'[d] = fate[d]
  BY DEF Typed
<1>8. \A t \in Socket : \A i \in DOMAIN cbs[t] : cbs[t][i] # c
  BY RegisteredFate
<1>9. ASSUME NEW d \in Callback
      PROVE  fate'[d] = "registered" <=>
               \E t \in Socket : \E i \in DOMAIN cbs'[t] : OnThread(d, t, i)'
  <2>1. CASE d = c
    BY <1>5, <1>6, <1>7, <2>1 DEF OnThread
  <2>2. CASE d # c
    <3>1. (\E t \in Socket : \E i \in DOMAIN cbs'[t] : OnThread(d, t, i)') <=>
            \E t \in Socket : \E i \in DOMAIN cbs[t] : OnThread(d, t, i)
      BY <1>1, <1>5, <1>6, <2>2 DEF OnThread
    <3> QED
      BY <1>7, <2>2, <3>1 DEF RegisteredOnce
  <2> QED
    BY <2>1, <2>2
<1>10. ASSUME NEW t \in Socket, NEW u \in Socket,
              NEW i \in DOMAIN cbs'[t], NEW j \in DOMAIN cbs'[u], cbs'[t][i] = cbs'[u][j]
       PROVE  t = u /\ i = j
  <2>1. ASSUME NEW x \in Socket, NEW k \in DOMAIN cbs'[x]
        PROVE  \/ x = s /\ k = n /\ cbs'[x][k] = c
               \/ k \in DOMAIN cbs[x] /\ cbs'[x][k] = cbs[x][k]
    BY <1>1, <1>5, <1>6, <2>1
  <2> QED
    BY <1>8, <1>10, <2>1 DEF RegisteredOnce
<1> QED
  BY <1>9, <1>10 DEF RegisteredOnce

(* The callback at place p of the thread of s is removed. *)
LEMMA RegisteredRemove ==
  ASSUME Typed, RegisteredOnce, NEW s \in Socket, NEW p \in 1..Len(cbs[s]),
         cbs' = [cbs EXCEPT ![s] = RemoveAt(@, p)],
         fate' = [fate EXCEPT ![cbs[s][p]] = "removed"]
  PROVE  RegisteredOnce'
<1>1. PICK q : q = cbs[s]
  OBVIOUS
<1>2. q \in Seq(Callback) /\ p \in 1..Len(q)
  BY <1>1 DEF Typed
<1>3. PICK new : /\ new = RemoveAt(q, p)
                 /\ new \in Seq(Callback) /\ Len(new) = Len(q) - 1 /\ Len(q) \in Nat
                 /\ DOMAIN q = 1..Len(q) /\ DOMAIN new = 1..(Len(q) - 1)
                 /\ \A j \in 1..(Len(q) - 1) : new[j] = IF j < p THEN q[j] ELSE q[j + 1]
  BY <1>2, TakenOut
(* Where a place of the new thread was before. *)
<1>4. PICK was : was = [j \in 1..(Len(q) - 1) |-> IF j < p THEN j ELSE j + 1]
  OBVIOUS
<1>5. ASSUME NEW j \in DOMAIN new
      PROVE  was[j] \in DOMAIN q /\ was[j] # p /\ new[j] = q[was[j]]
  BY <1>2, <1>3, <1>4
<1>6. ASSUME NEW i \in DOMAIN new, NEW j \in DOMAIN new, was[i] = was[j] PROVE i = j
  BY <1>2, <1>3, <1>4, <1>6
<1>7. ASSUME NEW i \in DOMAIN q, i # p PROVE \E j \in DOMAIN new : was[j] = i
  <2>1. CASE i < p
    <3>1. i \in 1..(Len(q) - 1)
      BY <1>2, <1>3, <2>1
    <3>2. was[i] = i
      BY <1>4, <2>1, <3>1
    <3> QED
      BY <1>3, <3>1, <3>2
  <2>2. CASE ~(i < p)
    <3>1. i - 1 \in 1..(Len(q) - 1) /\ ~(i - 1 < p) /\ i - 1 + 1 = i
      BY <1>2, <1>3, <1>7, <2>2
    <3>2. was[i - 1] = i
      BY <1>4, <3>1
    <3> QED
      BY <1>3, <3>1, <3>2
  <2> QED
    BY <2>1, <2>2
<1>8. cbs'[s] = new /\ \A t \in Socket : t # s => cbs'[t] = cbs[t]
  BY <1>1, <1>3 DEF Typed
<1>9. PICK c : c = q[p]
  OBVIOUS
<1>10. p \in DOMAIN cbs[s] /\ cbs[s][p] = c /\ c \in Callback
  BY <1>1, <1>2, <1>3, <1>9, ElementOfSeq
<1>11. fate'[c] = "removed" /\ \A d \in Callback : d # c => fate'[d] = fate[d]
  BY <1>10 DEF Typed
<1>12. ASSUME NEW t \in Socket, NEW i \in DOMAIN cbs'[t]
       PROVE  \E k \in DOMAIN cbs[t] :
                /\ k = (IF t = s THEN was[i] ELSE i)
                /\ cbs'[t][i] = cbs[t][k] /\ ~(t = s /\ k = p)
  <2>1. CASE t = s
    BY <1>1, <1>5, <1>8, <2>1
  <2>2. CASE t # s
    BY <1>8, <2>2
  <2> QED
    BY <2>1, <2>2
<1>13. ASSUME NEW t \in Socket, NEW k \in DOMAIN cbs[t], ~(t = s /\ k = p)
       PROVE  \E i \in DOMAIN cbs'[t] : cbs'[t][i] = cbs[t][k]
  <2>1. CASE t = s
    <3>1. PICK j \in DOMAIN new : was[j] = k
      BY <1>1, <1>7, <1>13, <2>1
    <3> QED
      BY <1>1, <1>5, <1>8, <2>1, <3>1
  <2>2. CASE t # s
    BY <1>8, <2>2
  <2> QED
    BY <2>1, <2>2
<1>14. ASSUME NEW d \in Callback
       PROVE  fate'[d] = "registered" <=>
                \E t \in Socket : \E i \in DOMAIN cbs'[t] : OnThread(d, t, i)'
  <2>1. CASE d = c
    <3>1. ASSUME NEW t \in Socket, NEW i \in DOMAIN cbs'[t] PROVE cbs'[t][i] # c
      BY <1>10, <1>12 DEF RegisteredOnce
    <3> QED
      BY <1>11, <2>1, <3>1 DEF OnThread
  <2>2. CASE d # c
    <3>1. (\E t \in Socket : \E i \in DOMAIN cbs'[t] : OnThread(d, t, i)') <=>
            \E t \in Socket : \E i \in DOMAIN cbs[t] : OnThread(d, t, i)
      <4>1. ASSUME NEW t \in Socket, NEW i \in DOMAIN cbs'[t], cbs'[t][i] = d
            PROVE  \E k \in DOMAIN cbs[t] : cbs[t][k] = d
        BY <1>12, <4>1
      <4>2. ASSUME NEW t \in Socket, NEW k \in DOMAIN cbs[t], cbs[t][k] = d
            PROVE  \E i \in DOMAIN cbs'[t] : cbs'[t][i] = d
        <5>1. ~(t = s /\ k = p)
          BY <1>10, <2>2, <4>2
        <5> QED
          BY <1>13, <4>2, <5>1
      <4> QED
        BY <4>1, <4>2 DEF OnThread
    <3> QED
      BY <1>11, <2>2, <3>1 DEF RegisteredOnce
  <2> QED
    BY <2>1, <2>2
<1>15. ASSUME NEW t \in Socket, NEW u \in Socket,
              NEW i \in DOMAIN cbs'[t], NEW j \in DOMAIN cbs'[u], cbs'[t][i] = cbs'[u][j]
       PROVE  t = u /\ i = j
  <2>1. PICK k \in DOMAIN cbs[t] :
          k = (IF t = s THEN was[i] ELSE i) /\ cbs'[t][i] = cbs[t][k]
    BY <1>12
  <2>2. PICK l \in DOMAIN cbs[u] :
          l = (IF u = s THEN was[j] ELSE j) /\ cbs'[u][j] = cbs[u][l]
    BY <1>12
  <2>3. t = u /\ k = l
    BY <1>15, <2>1, <2>2 DEF RegisteredOnce
  <2> QED
    BY <1>6, <1>8, <1>15, <2>1, <2>2, <2>3
<1> QED
  BY <1>14, <1>15 DEF RegisteredOnce

(* The thread of s is detached with all its callbacks. *)
LEMMA RegisteredDetach ==
  ASSUME Typed, RegisteredOnce, NEW s \in Socket,
         cbs' = [cbs EXCEPT ![s] = <<>>],
         fate' = [c \in Callback |->
                    IF \E i \in DOMAIN cbs[s] : cbs[s][i] = c THEN "draining" ELSE fate[c]]
  PROVE  RegisteredOnce'
<1>1. cbs'[s] = <<>> /\ \A t \in Socket : t # s => cbs'[t] = cbs[t]
  BY DEF Typed
<1>2. DOMAIN cbs'[s] = {}
  BY <1>1
<1>3. ASSUME NEW d \in Callback
      PROVE  fate'[d] = "registered" <=>
               \E t \in Socket : \E i \in DOMAIN cbs'[t] : OnThread(d, t, i)'
  <2>1. CASE \E i \in DOMAIN cbs[s] : cbs[s][i] = d
    <3>1. fate'[d] = "draining"
      BY <2>1
    <3>2. ASSUME NEW t \in Socket, NEW i \in DOMAIN cbs'[t] PROVE cbs'[t][i] # d
      BY <1>1, <1>2, <2>1 DEF RegisteredOnce
    <3> QED
      BY <3>1, <3>2 DEF OnThread
  <2>2. CASE ~\E i \in DOMAIN cbs[s] : cbs[s][i] = d
    <3>1. fate'[d] = fate[d]
      BY <2>2
    <3>2. (\E t \in Socket : \E i \in DOMAIN cbs'[t] : OnThread(d, t, i)') <=>
            \E t \in Socket : \E i \in DOMAIN cbs[t] : OnThread(d, t, i)
      BY <1>1, <1>2, <2>2 DEF OnThread
    <3> QED
      BY <3>1, <3>2 DEF RegisteredOnce
  <2> QED
    BY <2>1, <2>2
<1>4. \A t, u \in Socket : \A i \in DOMAIN cbs'[t], j \in DOMAIN cbs'[u] :
        cbs'[t][i] = cbs'[u][j] => t = u /\ i = j
  BY <1>1, <1>2 DEF RegisteredOnce
<1> QED
  BY <1>3, <1>4 DEF RegisteredOnce

(* What the calls name. *)
LEMMA NamedReturn ==
  ASSUME Typed, NamedOnce, stack # <<>>, stack' = Below,
         \A k \in 1..(Len(stack) - 1) : stack[k].fn \notin Drains =>
           fate'[stack[k].c[1]] = fate[stack[k].c[1]]
  PROVE  NamedOnce'
<1>1. /\ Len(stack) \in Nat \ {0}
      /\ DOMAIN stack = 1..Len(stack) /\ DOMAIN stack' = 1..(Len(stack) - 1)
      /\ \A i \in 1..(Len(stack) - 1) : stack'[i] = stack[i]
  BY ReturnStack
<1>2. \A k \in DOMAIN stack' : k \in DOMAIN stack /\ stack'[k] = stack[k]
  BY <1>1
<1>3. "add" \notin Drains /\ "callback" \notin Drains
  BY DEF Drains
<1> QED
  BY <1>1, <1>2, <1>3 DEF NamedOnce

LEMMA NamedStay ==
  ASSUME NamedOnce, UNCHANGED stack,
         \A k \in DOMAIN stack : stack[k].fn \notin Drains =>
           fate'[stack[k].c[1]] = fate[stack[k].c[1]]
  PROVE  NamedOnce'
BY DEF NamedOnce, Drains

LEMMA NamedCall ==
  ASSUME Typed, NamedOnce, NEW r \in GoodFrame, stack' = Append(stack, r),
         r.fn # "callback", r.fn = "add" => fate'[r.c[1]] = "building",
         r.fn \notin Drains =>
           \A k \in DOMAIN stack : stack[k].fn \notin Drains => stack[k].c[1] # r.c[1],
         \A k \in DOMAIN stack : stack[k].fn \notin Drains =>
           fate'[stack[k].c[1]] = fate[stack[k].c[1]]
  PROVE  NamedOnce'
<1>1. /\ Len(stack) \in Nat
      /\ DOMAIN stack = 1..Len(stack) /\ DOMAIN stack' = 1..(Len(stack) + 1)
      /\ stack'[Len(stack) + 1] = r /\ \A i \in 1..Len(stack) : stack'[i] = stack[i]
  BY CallStack
<1>2. PICK n : n = Len(stack) + 1
  OBVIOUS
<1>3. /\ n \in DOMAIN stack' /\ n \notin DOMAIN stack /\ stack'[n] = r
      /\ \A k \in DOMAIN stack' : k = n \/ k \in DOMAIN stack
      /\ \A k \in DOMAIN stack : k \in DOMAIN stack' /\ stack'[k] = stack[k]
  BY <1>1, <1>2
<1>4. "add" \notin Drains /\ "callback" \notin Drains
  BY DEF Drains
<1> QED
  BY <1>3, <1>4 DEF NamedOnce

(* The fate of a callback that a call names. *)
LEMMA NamedFate ==
  ASSUME Typed, NamedOnce, NEW k \in DOMAIN stack, stack[k].fn \notin Drains
  PROVE  stack[k].c[1] \in Callback /\ fate[stack[k].c[1]] \in {"building", "running"}
<1>1. stack[k] \in GoodFrame
  BY FramesAreGood
<1>2. stack[k].fn \in {"add", "callback"}
  BY <1>1 DEF GoodFrame, Frame, Drains
<1> QED
  BY <1>1, <1>2, NamedCallback DEF NamedOnce

LEMMA NamedRunCallback ==
  ASSUME Typed, NamedOnce, OwedOnce, RunCallback PROVE NamedOnce'
<1>1. /\ stack # <<>> /\ Top.fn \in Drains /\ Top.todo # <<>>
      /\ fate' = [fate EXCEPT ![Last(Top.todo)] = "running"]
      /\ stack' = Below \o <<Popping(Top), Calling(Top)>>
  BY RunCallbackStep
<1>2. PICK n, c : n = Len(stack) /\ c = Last(Top.todo)
  OBVIOUS
<1>3. n \in Nat \ {0} /\ Top = stack[n] /\ Top \in GoodFrame
  BY <1>1, <1>2, TopIsLast
<1>4. /\ Popping(Top) \in GoodFrame /\ Calling(Top) \in GoodFrame
      /\ Popping(Top).fn = Top.fn /\ c \in Callback /\ Calling(Top).c[1] = c
  BY <1>1, <1>2, <1>3, RunCallbackFrames
<1>5. /\ DOMAIN stack = 1..n /\ DOMAIN stack' = 1..(n + 1)
      /\ stack'[n] = Popping(Top) /\ stack'[n + 1] = Calling(Top)
      /\ \A i \in 1..(n - 1) : stack'[i] = stack[i]
  BY <1>1, <1>2, <1>4, CallbackStack
<1>6. Calling(Top).fn = "callback" /\ "callback" \notin Drains /\ "add" \notin Drains
  BY DEF Calling, Drains
<1>7. fate[c] = "draining"
  BY <1>2, OwedCallback
<1>8. fate'[c] = "running" /\ \A d \in Callback : d # c => fate'[d] = fate[d]
  BY <1>1, <1>2, <1>4 DEF Typed
<1>9. ASSUME NEW k \in DOMAIN stack', stack'[k].fn \notin Drains
      PROVE  \/ k = n + 1
             \/ /\ k \in DOMAIN stack /\ stack'[k] = stack[k]
                /\ stack[k].c[1] # c /\ fate'[stack[k].c[1]] = fate[stack[k].c[1]]
  <2>1. k # n
    BY <1>1, <1>4, <1>5, <1>9
  <2>2. CASE k # n + 1
    <3>1. k \in 1..(n - 1) /\ k \in 1..n
      BY <1>3, <1>5, <2>1, <2>2
    <3>2. k \in DOMAIN stack /\ stack'[k] = stack[k]
      BY <1>5, <3>1
    <3> QED
      BY <1>7, <1>8, <1>9, <3>2, NamedFate
  <2> QED
    BY <2>2
<1>10. n + 1 \in DOMAIN stack'
  BY <1>3, <1>5
<1> QED
  BY <1>4, <1>5, <1>6, <1>8, <1>9, <1>10 DEF NamedOnce

(* The top call names no callback of another call. *)
LEMMA TopNamesAlone ==
  ASSUME Typed, NamedOnce, stack # <<>>, Top.fn \notin Drains,
         NEW x, fate' = [fate EXCEPT ![Top.c[1]] = x]
  PROVE  /\ Top.c[1] \in Callback /\ Top.todo = <<>> /\ Top.s \in Socket
         /\ Top.fn = "add" => fate[Top.c[1]] = "building"
         /\ Top.fn = "callback" => fate[Top.c[1]] = "running"
         /\ fate'[Top.c[1]] = x /\ \A d \in Callback : d # Top.c[1] => fate'[d] = fate[d]
         /\ \A k \in 1..(Len(stack) - 1) : stack[k].fn \notin Drains =>
              fate'[stack[k].c[1]] = fate[stack[k].c[1]]
<1>1. Len(stack) \in Nat \ {0} /\ Top = stack[Len(stack)] /\ Top \in GoodFrame
  BY TopIsLast
<1>2. DOMAIN stack = 1..Len(stack)
  BY LenProperties DEF Typed
<1>3. Len(stack) \in DOMAIN stack
  BY <1>1, <1>2
<1>4. Top.c[1] \in Callback /\ Top.todo = <<>> /\ Top.s \in Socket
  BY <1>1, NamedCallback
<1>5. /\ Top.fn = "add" => fate[Top.c[1]] = "building"
      /\ Top.fn = "callback" => fate[Top.c[1]] = "running"
  BY <1>1, <1>3 DEF NamedOnce
<1>6. fate'[Top.c[1]] = x /\ \A d \in Callback : d # Top.c[1] => fate'[d] = fate[d]
  BY <1>4 DEF Typed
<1>7. ASSUME NEW k \in 1..(Len(stack) - 1), stack[k].fn \notin Drains
      PROVE  fate'[stack[k].c[1]] = fate[stack[k].c[1]]
  <2>1. k \in 1..Len(stack) /\ k # Len(stack)
    BY <1>1
  <2>2. k \in DOMAIN stack
    BY <1>2, <2>1
  <2>3. stack[k].c[1] # Top.c[1]
    BY <1>1, <1>3, <1>7, <2>1, <2>2 DEF NamedOnce
  <2> QED
    BY <1>6, <1>7, <2>2, <2>3, NamedFate
<1> QED
  BY <1>4, <1>5, <1>6, <1>7

-----------------------------------------------------------------------------
(* The actions.                                                            *)
Ledger == RegisteredOnce /\ OwedOnce /\ NamedOnce /\ ThreadFlags

(* What NeverAgain says of a step. *)
Irrevocable ==
  \A c \in Callback :
    /\ fate[c] \in {"ran", "removed", "refused"} => fate'[c] = fate[c]
    /\ fate'[c] = "running" => fate[c] \in {"running", "draining"}

LEMMA LedgerStays ==
  ASSUME LedgerInv, UNCHANGED <<cbs, stack, fate>>, ThreadFlags' PROVE Ledger' /\ Irrevocable
<1>1. RegisteredOnce' /\ OwedOnce'
  BY RegisteredStay, OwedStay DEF LedgerInv, SameFate
<1>2. NamedOnce'
  BY NamedStay DEF LedgerInv
<1> QED
  BY <1>1, <1>2 DEF Ledger, Irrevocable

LEMMA BirthLedger ==
  ASSUME LedgerInv, NEW s \in Socket,
         New(s) \/ (\E t \in Socket : Pair(s, t)) \/ (\E f \in Fd : Wrap(s, f))
  PROVE  Ledger' /\ Irrevocable
<1>1. \E ss \in SUBSET Socket : (\A x \in ss : state[x] = "unborn") /\ \E fds : Born(ss, fds)
  <2>1. CASE New(s)
    <3>1. \E fds : Born({s}, fds)
      BY <2>1 DEF New
    <3> QED
      BY <2>1, <3>1 DEF New
  <2>2. ASSUME NEW t \in Socket, Pair(s, t)
        PROVE  \E ss \in SUBSET Socket :
                 (\A x \in ss : state[x] = "unborn") /\ \E fds : Born(ss, fds)
    <3>1. \E fds : Born({s, t}, fds)
      BY <2>2 DEF Pair
    <3>2. {s, t} \in SUBSET Socket /\ \A x \in {s, t} : state[x] = "unborn"
      BY <2>2 DEF Pair
    <3> QED
      BY <3>1, <3>2
  <2>3. ASSUME NEW f \in Fd, Wrap(s, f)
        PROVE  \E ss \in SUBSET Socket :
                 (\A x \in ss : state[x] = "unborn") /\ \E fds : Born(ss, fds)
    <3>1. \E fds : Born({s}, fds)
      BY <2>3 DEF Wrap
    <3> QED
      BY <2>3, <3>1 DEF Wrap
  <2> QED
    BY <2>1, <2>2, <2>3
<1>2. PICK ss \in SUBSET Socket : (\A x \in ss : state[x] = "unborn") /\ \E fds : Born(ss, fds)
  BY <1>1
<1>3. UNCHANGED <<cbs, stack, fate>>
  BY <1>2 DEF Born
<1>4. /\ \A x \in Socket : x \in ss => state'[x] = "live" /\ thread'[x]
      /\ \A x \in Socket : x \notin ss => state'[x] = state[x] /\ thread'[x] = thread[x]
  <2>1. /\ state' = [x \in Socket |-> IF x \in ss THEN "live" ELSE state[x]]
        /\ thread' = [x \in Socket |-> x \in ss \/ thread[x]]
    BY <1>2, Zenon DEF Born
  <2>2. \A x \in Socket : /\ state'[x] = IF x \in ss THEN "live" ELSE state[x]
                          /\ thread'[x] = (x \in ss \/ thread[x])
    BY <2>1, Zenon
  <2>3. thread \in [Socket -> BOOLEAN]
    BY DEF LedgerInv, Typed
  <2> QED
    BY <2>2, <2>3, Zenon
<1>5. \A k \in DOMAIN stack : stack[k].s \in Socket
  BY FramesAreGood DEF LedgerInv
<1>6. ThreadFlags'
  BY <1>2, <1>3, <1>4, <1>5 DEF LedgerInv, ThreadFlags
<1> QED
  BY <1>3, <1>6, LedgerStays

LEMMA BareLedger ==
  ASSUME LedgerInv, NEW f \in Fd, AcceptFd(f) \/ CloseFd(f) PROVE Ledger' /\ Irrevocable
<1>1. UNCHANGED <<cbs, stack, fate, thread, state>>
  BY DEF AcceptFd, CloseFd
<1>2. ThreadFlags'
  BY <1>1 DEF LedgerInv, ThreadFlags
<1> QED
  BY <1>1, <1>2, LedgerStays

LEMMA AddStartLedger ==
  ASSUME LedgerInv, NEW s \in Socket, NEW c \in Callback, AddStart(s, c)
  PROVE  Ledger' /\ Irrevocable
<1>1. UNCHANGED <<cbs, thread, state>> /\ fate[c] = "new"
  BY DEF AddStart
<1>2. /\ fate'[c] \in {"refused", "building"} /\ \A d \in Callback : d # c => fate'[d] = fate[d]
  BY DEF AddStart, LedgerInv, Typed
<1>3. SameFate("registered") /\ SameFate("draining") /\ Irrevocable
  BY <1>1, <1>2 DEF SameFate, Irrevocable
<1>4. \A k \in DOMAIN stack : stack[k].fn \notin Drains =>
        stack[k].c[1] # c /\ fate'[stack[k].c[1]] = fate[stack[k].c[1]]
  BY <1>1, <1>2, NamedFate DEF LedgerInv
<1>5. RegisteredOnce'
  BY <1>1, <1>3, RegisteredStay DEF LedgerInv
<1>6. CASE UNCHANGED stack
  <2>1. OwedOnce' /\ NamedOnce'
    BY <1>3, <1>4, <1>6, OwedStay, NamedStay DEF LedgerInv
  <2>2. ThreadFlags'
    BY <1>1, <1>6 DEF LedgerInv, ThreadFlags
  <2> QED
    BY <1>3, <1>5, <2>1, <2>2 DEF Ledger
<1>7. CASE ~UNCHANGED stack
  <2>1. PICK r : r = [fn |-> "add", s |-> s, fd |-> NoFd, todo |-> <<>>, c |-> <<c>>]
    OBVIOUS
  <2>2. r \in GoodFrame /\ stack' = Append(stack, r)
    BY <1>7, <2>1, AddStartTyped DEF LedgerInv
  <2>3. r.fn = "add" /\ "add" \notin Drains /\ DOMAIN r.todo = {} /\ r.c[1] = c
    BY <2>1 DEF Drains
  <2>4. fate'[c] = "building"
    BY <1>7 DEF AddStart, LedgerInv, Typed
  <2>5. OwedOnce'
    BY <1>3, <2>2, <2>3, OwedCall DEF LedgerInv, SameFate
  <2>6. NamedOnce'
    BY <1>4, <2>2, <2>3, <2>4, NamedCall DEF LedgerInv
  <2>7. \A k \in DOMAIN stack' : stack'[k].fn \in Drains =>
          k \in DOMAIN stack /\ stack'[k] = stack[k]
    <3>1. /\ Len(stack) \in Nat
          /\ DOMAIN stack = 1..Len(stack) /\ DOMAIN stack' = 1..(Len(stack) + 1)
          /\ stack'[Len(stack) + 1] = r /\ \A i \in 1..Len(stack) : stack'[i] = stack[i]
      BY <2>2, CallStack DEF LedgerInv
    <3> QED
      BY <2>3, <3>1
  <2>8. ThreadFlags'
    BY <1>1, <2>7 DEF LedgerInv, ThreadFlags
  <2> QED
    BY <1>3, <1>5, <2>5, <2>6, <2>8 DEF Ledger
<1> QED
  BY <1>6, <1>7

LEMMA DelLedger ==
  ASSUME LedgerInv, NEW s \in Socket, NEW c \in Callback, Del(s, c) PROVE Ledger' /\ Irrevocable
<1>1. UNCHANGED <<state, thread, stack>>
  BY DEF Del
<1>2. CASE UNCHANGED <<cbs, fate>>
  <2>1. ThreadFlags'
    BY <1>1, <1>2 DEF LedgerInv, ThreadFlags
  <2> QED
    BY <1>1, <1>2, <2>1, LedgerStays
<1>3. ASSUME NEW i \in 1..Len(cbs[s]),
             cbs' = [cbs EXCEPT ![s] = RemoveAt(@, i)],
             fate' = [fate EXCEPT ![cbs[s][i]] = "removed"]
      PROVE  Ledger' /\ Irrevocable
  <2>1. RegisteredOnce'
    BY <1>3, RegisteredRemove DEF LedgerInv
  <2>2. PICK d : d = cbs[s][i]
    OBVIOUS
  <2>3. DOMAIN cbs[s] = 1..Len(cbs[s])
    BY LenProperties DEF LedgerInv, Typed
  <2>4. d \in Callback /\ fate[d] = "registered"
    BY <2>2, <2>3, RegisteredFate DEF LedgerInv
  <2>5. fate'[d] = "removed" /\ \A x \in Callback : x # d => fate'[x] = fate[x]
    BY <1>3, <2>2, <2>4 DEF LedgerInv, Typed
  <2>6. SameFate("draining") /\ Irrevocable
    BY <2>4, <2>5 DEF SameFate, Irrevocable
  <2>7. OwedOnce'
    BY <1>1, <2>6, OwedStay DEF LedgerInv
  <2>8. NamedOnce'
    BY <1>1, <2>4, <2>5, NamedStay, NamedFate DEF LedgerInv
  <2>9. thread[s]
    <3>1. cbs[s] # <<>>
      BY <2>3
    <3> QED
      BY <3>1 DEF LedgerInv, ThreadFlags
  <2>10. \A t \in Socket : t # s => cbs'[t] = cbs[t]
    BY <1>3 DEF LedgerInv, Typed
  <2>11. ThreadFlags'
    BY <1>1, <2>9, <2>10 DEF LedgerInv, ThreadFlags
  <2> QED
    BY <2>1, <2>6, <2>7, <2>8, <2>11 DEF Ledger
<1> QED
  BY <1>2, <1>3, DelFinds DEF LedgerInv

LEMMA DetachLedger ==
  ASSUME LedgerInv, NEW s \in Socket, Close(s) \/ Collect(s) \/ Unwrap(s)
  PROVE  Ledger' /\ Irrevocable
<1>1. PICK fn \in Drains :
        Detach(fn, s) /\ UNCHANGED <<state, fd, owner, stray, addr, deleted>>
  BY DEF Close, Collect, Unwrap, Drains
<1>2. state[s] = "live"
  BY DEF Close, Collect, Unwrap
<1>3. /\ thread' = [thread EXCEPT ![s] = FALSE] /\ cbs' = [cbs EXCEPT ![s] = <<>>]
      /\ fate' = [c \in Callback |->
                    IF \E i \in DOMAIN cbs[s] : cbs[s][i] = c THEN "draining" ELSE fate[c]]
  BY <1>1 DEF Detach
<1>4. RegisteredOnce'
  BY <1>3, RegisteredDetach DEF LedgerInv
<1>5. PICK r : r = [fn |-> fn, s |-> s, fd |-> fd[s], todo |-> cbs[s], c |-> <<>>]
  OBVIOUS
<1>6. r \in GoodFrame /\ stack' = Append(stack, r)
  BY <1>1, <1>5, DetachTyped DEF LedgerInv
<1>7. r.fn \in Drains /\ r.todo = cbs[s] /\ r.s = s /\ "callback" \notin Drains /\ "add" \notin Drains
  BY <1>5 DEF Drains
<1>8. \A c \in Callback : fate'[c] =
        IF \E i \in DOMAIN r.todo : r.todo[i] = c THEN "draining" ELSE fate[c]
  BY <1>3, <1>7
<1>9. \A j \in DOMAIN r.todo : r.todo[j] \in Callback /\ fate[r.todo[j]] = "registered"
  BY <1>7, RegisteredFate DEF LedgerInv
<1>10. \A i, j \in DOMAIN r.todo : r.todo[i] = r.todo[j] => i = j
  BY <1>7 DEF LedgerInv, RegisteredOnce
<1>11. \A c \in Callback : fate'[c] = "draining" <=>
         fate[c] = "draining" \/ \E j \in DOMAIN r.todo : r.todo[j] = c
  BY <1>8
<1>12. \A j \in DOMAIN r.todo : fate[r.todo[j]] # "draining"
  BY <1>9
<1>13. OwedOnce'
  BY <1>6, <1>10, <1>11, <1>12, OwedCall DEF LedgerInv
<1>14. \A k \in DOMAIN stack : stack[k].fn \notin Drains =>
         fate'[stack[k].c[1]] = fate[stack[k].c[1]]
  BY <1>8, <1>9, NamedFate DEF LedgerInv
<1>15. NamedOnce'
  BY <1>6, <1>7, <1>14, NamedCall DEF LedgerInv
<1>16. Irrevocable
  BY <1>8, <1>9 DEF Irrevocable
<1>17. /\ ~thread'[s] /\ cbs'[s] = <<>>
       /\ \A t \in Socket : t # s => thread'[t] = thread[t] /\ cbs'[t] = cbs[t]
  BY <1>3 DEF LedgerInv, Typed
<1>18. \A k \in DOMAIN stack' : stack'[k] = r \/ (k \in DOMAIN stack /\ stack'[k] = stack[k])
  <2>1. /\ Len(stack) \in Nat
        /\ DOMAIN stack = 1..Len(stack) /\ DOMAIN stack' = 1..(Len(stack) + 1)
        /\ stack'[Len(stack) + 1] = r /\ \A i \in 1..Len(stack) : stack'[i] = stack[i]
    BY <1>6, CallStack DEF LedgerInv
  <2> QED
    BY <2>1
<1>19. \A k \in DOMAIN stack : stack[k].s \in Socket
  BY FramesAreGood DEF LedgerInv
<1>20. \A k \in DOMAIN stack' : stack'[k].fn \in Drains =>
         ~thread'[stack'[k].s] /\ state[stack'[k].s] # "unborn"
  BY <1>2, <1>7, <1>17, <1>18, <1>19 DEF LedgerInv, ThreadFlags
<1>21. ThreadFlags'
  BY <1>1, <1>17, <1>20 DEF LedgerInv, ThreadFlags
<1> QED
  BY <1>4, <1>13, <1>15, <1>16, <1>21 DEF Ledger

(* The flags when a call returns. *)
LEMMA FlagsReturn ==
  ASSUME Typed, ThreadFlags, stack # <<>>, stack' = Below, UNCHANGED thread,
         \A s \in Socket : ~thread[s] => cbs'[s] = <<>>,
         \A s \in Socket : state'[s] # "live" => ~thread[s],
         \A s \in Socket : state[s] # "unborn" => state'[s] # "unborn"
  PROVE  ThreadFlags'
<1>1. \A k \in DOMAIN stack' : k \in DOMAIN stack /\ stack'[k] = stack[k]
  <2>1. /\ Len(stack) \in Nat \ {0}
        /\ DOMAIN stack = 1..Len(stack) /\ DOMAIN stack' = 1..(Len(stack) - 1)
        /\ \A i \in 1..(Len(stack) - 1) : stack'[i] = stack[i]
    BY ReturnStack
  <2> QED
    BY <2>1
<1>2. \A k \in DOMAIN stack : stack[k].s \in Socket
  BY FramesAreGood
<1> QED
  BY <1>1, <1>2 DEF ThreadFlags

LEMMA AddFinishLedger ==
  ASSUME LedgerInv, AddFinish PROVE Ledger' /\ Irrevocable
<1>1. stack # <<>> /\ stack' = Below /\ UNCHANGED <<state, thread>>
  BY AddFinishTyped DEF LedgerInv, AddFinish
<1>2. Top.fn = "add" /\ "add" \notin Drains
  BY <1>1, TopIsLast DEF AddFinish, LedgerInv, Drains
<1>3. PICK s, c : s = Top.s /\ c = Top.c[1]
  OBVIOUS
<1>4. \/ /\ thread[s] /\ cbs' = [cbs EXCEPT ![s] = Append(@, c)]
         /\ fate' = [fate EXCEPT ![c] = "registered"]
      \/ fate' = [fate EXCEPT ![c] = "refused"] /\ UNCHANGED cbs
  <2>1. \/ /\ thread[Top.s] /\ cbs' = [cbs EXCEPT ![Top.s] = Append(@, Top.c[1])]
           /\ fate' = [fate EXCEPT ![Top.c[1]] = "registered"]
        \/ fate' = [fate EXCEPT ![Top.c[1]] = "refused"] /\ UNCHANGED cbs
    BY Zenon DEF AddFinish
  <2> QED
    BY <1>3, <2>1, Zenon
<1>5. ASSUME NEW x, fate' = [fate EXCEPT ![c] = x]
      PROVE  /\ c \in Callback /\ Top.todo = <<>> /\ s \in Socket /\ fate[c] = "building"
             /\ fate'[c] = x /\ \A d \in Callback : d # c => fate'[d] = fate[d]
             /\ NamedOnce'
  <2>1. fate' = [fate EXCEPT ![Top.c[1]] = x] /\ Top.fn \notin Drains
    BY <1>2, <1>3, <1>5
  <2>2. /\ Top.c[1] \in Callback /\ Top.todo = <<>> /\ Top.s \in Socket
        /\ Top.fn = "add" => fate[Top.c[1]] = "building"
        /\ Top.fn = "callback" => fate[Top.c[1]] = "running"
        /\ fate'[Top.c[1]] = x /\ \A d \in Callback : d # Top.c[1] => fate'[d] = fate[d]
        /\ \A k \in 1..(Len(stack) - 1) : stack[k].fn \notin Drains =>
             fate'[stack[k].c[1]] = fate[stack[k].c[1]]
    BY <1>1, <2>1, TopNamesAlone DEF LedgerInv
  <2>3. NamedOnce'
    BY <1>1, <2>2, NamedReturn DEF LedgerInv
  <2> QED
    BY <1>2, <1>3, <2>2, <2>3
<1>6. CASE /\ thread[s] /\ cbs' = [cbs EXCEPT ![s] = Append(@, c)]
           /\ fate' = [fate EXCEPT ![c] = "registered"]
  <2>1. /\ c \in Callback /\ Top.todo = <<>> /\ s \in Socket /\ fate[c] = "building"
        /\ fate'[c] = "registered" /\ \A d \in Callback : d # c => fate'[d] = fate[d]
        /\ NamedOnce'
    BY <1>5, <1>6
  <2>2. SameFate("draining") /\ Irrevocable
    BY <2>1 DEF SameFate, Irrevocable
  <2>3. RegisteredOnce'
    BY <1>6, <2>1, RegisteredAdd DEF LedgerInv
  <2>4. OwedOnce'
    BY <1>1, <2>1, <2>2, OwedReturn DEF LedgerInv
  <2>5. \A t \in Socket : t # s => cbs'[t] = cbs[t]
    BY <1>6, <2>1 DEF LedgerInv, Typed
  <2>6. ThreadFlags'
    <3>1. \A t \in Socket : ~thread[t] => cbs'[t] = <<>>
      BY <1>6, <2>5 DEF LedgerInv, ThreadFlags
    <3>2. \A t \in Socket : state'[t] # "live" => ~thread[t]
      BY <1>1 DEF LedgerInv, ThreadFlags
    <3> QED
      BY <1>1, <3>1, <3>2, FlagsReturn DEF LedgerInv
  <2> QED
    BY <2>1, <2>2, <2>3, <2>4, <2>6 DEF Ledger
<1>7. CASE fate' = [fate EXCEPT ![c] = "refused"] /\ UNCHANGED cbs
  <2>1. /\ c \in Callback /\ Top.todo = <<>> /\ s \in Socket /\ fate[c] = "building"
        /\ fate'[c] = "refused" /\ \A d \in Callback : d # c => fate'[d] = fate[d]
        /\ NamedOnce'
    BY <1>5, <1>7
  <2>2. SameFate("draining") /\ SameFate("registered") /\ Irrevocable
    BY <2>1 DEF SameFate, Irrevocable
  <2>3. RegisteredOnce'
    BY <1>7, <2>2, RegisteredStay DEF LedgerInv
  <2>4. OwedOnce'
    BY <1>1, <2>1, <2>2, OwedReturn DEF LedgerInv
  <2>6. ThreadFlags'
    <3>1. \A t \in Socket : ~thread[t] => cbs'[t] = <<>>
      BY <1>7 DEF LedgerInv, ThreadFlags
    <3>2. \A t \in Socket : state'[t] # "live" => ~thread[t]
      BY <1>1 DEF LedgerInv, ThreadFlags
    <3> QED
      BY <1>1, <3>1, <3>2, FlagsReturn DEF LedgerInv
  <2> QED
    BY <2>1, <2>2, <2>3, <2>4, <2>6 DEF Ledger
<1> QED
  BY <1>4, <1>6, <1>7

LEMMA CallbackReturnsLedger ==
  ASSUME LedgerInv, CallbackReturns PROVE Ledger' /\ Irrevocable
<1>1. stack # <<>> /\ stack' = Below /\ UNCHANGED <<state, thread, cbs>>
  BY DrainTyped DEF LedgerInv, CallbackReturns
<1>2. Top.fn = "callback" /\ Top.fn \notin Drains
  BY <1>1, TopIsLast DEF CallbackReturns, LedgerInv, Drains
<1>3. fate' = [fate EXCEPT ![Top.c[1]] = "ran"]
  BY DEF CallbackReturns
<1>4. /\ Top.c[1] \in Callback /\ Top.todo = <<>> /\ Top.s \in Socket
      /\ Top.fn = "add" => fate[Top.c[1]] = "building"
      /\ Top.fn = "callback" => fate[Top.c[1]] = "running"
      /\ fate'[Top.c[1]] = "ran" /\ \A d \in Callback : d # Top.c[1] => fate'[d] = fate[d]
      /\ \A k \in 1..(Len(stack) - 1) : stack[k].fn \notin Drains =>
           fate'[stack[k].c[1]] = fate[stack[k].c[1]]
  BY <1>1, <1>2, <1>3, TopNamesAlone DEF LedgerInv
<1>5. NamedOnce'
  BY <1>1, <1>4, NamedReturn DEF LedgerInv
<1>6. SameFate("draining") /\ SameFate("registered") /\ Irrevocable
  BY <1>2, <1>4 DEF SameFate, Irrevocable
<1>7. RegisteredOnce' /\ OwedOnce'
  BY <1>1, <1>4, <1>6, RegisteredStay, OwedReturn DEF LedgerInv
<1>8. ThreadFlags'
  <2>1. \A t \in Socket : ~thread[t] => cbs'[t] = <<>>
    BY <1>1 DEF LedgerInv, ThreadFlags
  <2>2. \A t \in Socket : state'[t] # "live" => ~thread[t]
    BY <1>1 DEF LedgerInv, ThreadFlags
  <2> QED
    BY <1>1, <2>1, <2>2, FlagsReturn DEF LedgerInv
<1> QED
  BY <1>5, <1>6, <1>7, <1>8 DEF Ledger

(* A drain ends when it owes nothing. *)
LEMMA FinishLedger ==
  ASSUME LedgerInv, FinishClose \/ FinishGc \/ FinishUnwrap PROVE Ledger' /\ Irrevocable
<1>1. stack # <<>> /\ stack' = Below
  BY DrainTyped DEF LedgerInv
<1>2. UNCHANGED <<thread, cbs, fate>> /\ Top.todo = <<>> /\ Running \in Drains
  BY DEF FinishClose, FinishGc, FinishUnwrap, Drains
<1>3. /\ Len(stack) \in Nat \ {0} /\ Top = stack[Len(stack)] /\ Top \in GoodFrame
      /\ Running = Top.fn
  BY <1>1, TopIsLast DEF LedgerInv
<1>4. Len(stack) \in DOMAIN stack
  BY <1>3, LenProperties DEF LedgerInv, Typed
<1>5. Top.s \in Socket /\ ~thread[Top.s]
  BY <1>2, <1>3, <1>4, FramesAreGood DEF LedgerInv, ThreadFlags
<1>6. state' = state \/ state' = [state EXCEPT ![Top.s] = "dead"]
  BY DEF FinishClose, FinishGc, FinishUnwrap
<1>7. \A t \in Socket : state'[t] = state[t] \/ (t = Top.s /\ state'[t] = "dead")
  BY <1>5, <1>6 DEF LedgerInv, Typed
<1>8. SameFate("draining") /\ SameFate("registered") /\ Irrevocable
  BY <1>2 DEF SameFate, Irrevocable
<1>9. RegisteredOnce' /\ OwedOnce'
  BY <1>1, <1>2, <1>8, RegisteredStay, OwedReturn DEF LedgerInv
<1>10. NamedOnce'
  BY <1>1, <1>2, NamedReturn DEF LedgerInv
<1>11. ThreadFlags'
  <2>1. \A t \in Socket : ~thread[t] => cbs'[t] = <<>>
    BY <1>2 DEF LedgerInv, ThreadFlags
  <2>2. \A t \in Socket : state'[t] # "live" => ~thread[t]
    BY <1>5, <1>7 DEF LedgerInv, ThreadFlags
  <2>3. \A t \in Socket : state[t] # "unborn" => state'[t] # "unborn"
    BY <1>7
  <2> QED
    BY <1>1, <1>2, <2>1, <2>2, <2>3, FlagsReturn DEF LedgerInv
<1> QED
  BY <1>8, <1>9, <1>10, <1>11 DEF Ledger

LEMMA RunCallbackLedger ==
  ASSUME LedgerInv, RunCallback PROVE Ledger' /\ Irrevocable
<1>1. /\ stack # <<>> /\ Top.fn \in Drains /\ Top.todo # <<>>
      /\ fate' = [fate EXCEPT ![Last(Top.todo)] = "running"]
      /\ stack' = Below \o <<Popping(Top), Calling(Top)>>
  BY RunCallbackStep DEF LedgerInv
<1>2. UNCHANGED <<state, thread, cbs>>
  BY DEF RunCallback
<1>3. PICK n, c : n = Len(stack) /\ c = Last(Top.todo)
  OBVIOUS
<1>4. n \in Nat \ {0} /\ Top = stack[n] /\ Top \in GoodFrame
  BY <1>1, <1>3, TopIsLast DEF LedgerInv
<1>5. /\ Popping(Top) \in GoodFrame /\ Calling(Top) \in GoodFrame
      /\ Popping(Top).fn = Top.fn /\ Popping(Top).s = Top.s /\ c \in Callback
  BY <1>1, <1>3, <1>4, RunCallbackFrames
<1>6. /\ DOMAIN stack = 1..n /\ DOMAIN stack' = 1..(n + 1)
      /\ stack'[n] = Popping(Top) /\ stack'[n + 1] = Calling(Top)
      /\ \A i \in 1..(n - 1) : stack'[i] = stack[i]
  BY <1>1, <1>3, <1>5, CallbackStack DEF LedgerInv
<1>7. OwedOnce' /\ fate[c] = "draining"
  BY <1>3, OwedCallback DEF LedgerInv
<1>8. NamedOnce'
  BY NamedRunCallback DEF LedgerInv
<1>9. fate'[c] = "running" /\ \A d \in Callback : d # c => fate'[d] = fate[d]
  BY <1>1, <1>3, <1>5 DEF LedgerInv, Typed
<1>10. SameFate("registered") /\ Irrevocable
  BY <1>7, <1>9 DEF SameFate, Irrevocable
<1>11. RegisteredOnce'
  BY <1>2, <1>10, RegisteredStay DEF LedgerInv
<1>12. Calling(Top).fn \notin Drains
  BY DEF Calling, Drains
<1>13. ASSUME NEW k \in DOMAIN stack', stack'[k].fn \in Drains
       PROVE  k \in DOMAIN stack /\ stack'[k].fn = stack[k].fn /\ stack'[k].s = stack[k].s
  <2>1. k # n + 1
    BY <1>6, <1>12, <1>13
  <2>2. CASE k = n
    BY <1>4, <1>5, <1>6, <2>2
  <2>3. CASE k # n
    <3>1. k \in 1..(n - 1) /\ k \in 1..n
      BY <1>4, <1>6, <2>1, <2>3
    <3> QED
      BY <1>6, <3>1
  <2> QED
    BY <2>2, <2>3
<1>14. ThreadFlags'
  BY <1>2, <1>13 DEF LedgerInv, ThreadFlags
<1> QED
  BY <1>7, <1>8, <1>10, <1>11, <1>14 DEF Ledger

LEMMA LedgerStep == LedgerInv /\ [Next]_vars => LedgerInv' /\ (Irrevocable \/ UNCHANGED vars)
<1> SUFFICES ASSUME LedgerInv, [Next]_vars PROVE LedgerInv' /\ (Irrevocable \/ UNCHANGED vars)
  OBVIOUS
<1>1. Typed'
  BY TypedStep DEF LedgerInv
<1>2. ASSUME Ledger' /\ Irrevocable PROVE LedgerInv' /\ (Irrevocable \/ UNCHANGED vars)
  BY <1>1, <1>2 DEF Ledger, LedgerInv
<1>3. CASE UNCHANGED vars
  <2>1. UNCHANGED <<state, thread, cbs, stack, fate>>
    BY <1>3 DEF vars
  <2>2. ThreadFlags'
    BY <2>1 DEF LedgerInv, ThreadFlags
  <2> QED
    BY <1>2, <2>1, <2>2, LedgerStays
<1>4. ASSUME NEW s \in Socket,
             New(s) \/ (\E t \in Socket : Pair(s, t)) \/ (\E f \in Fd : Wrap(s, f))
      PROVE  Ledger' /\ Irrevocable
  BY <1>4, BirthLedger
<1>5. ASSUME NEW f \in Fd, AcceptFd(f) \/ CloseFd(f) PROVE Ledger' /\ Irrevocable
  BY <1>5, BareLedger
<1>6. ASSUME NEW s \in Socket, Close(s) \/ Collect(s) \/ Unwrap(s) PROVE Ledger' /\ Irrevocable
  BY <1>6, DetachLedger
<1>7. ASSUME NEW s \in Socket, NEW c \in Callback, AddStart(s, c) PROVE Ledger' /\ Irrevocable
  BY <1>7, AddStartLedger
<1>8. ASSUME NEW s \in Socket, NEW c \in Callback, Del(s, c) PROVE Ledger' /\ Irrevocable
  BY <1>8, DelLedger
<1>9. CASE AddFinish
  BY <1>2, <1>9, AddFinishLedger
<1>10. CASE CallbackReturns
  BY <1>2, <1>10, CallbackReturnsLedger
<1>11. CASE FinishClose \/ FinishGc \/ FinishUnwrap
  BY <1>2, <1>11, FinishLedger
<1>12. CASE RunCallback
  BY <1>2, <1>12, RunCallbackLedger
<1> QED
  BY <1>2, <1>3, <1>4, <1>5, <1>6, <1>7, <1>8, <1>9, <1>10, <1>11, <1>12 DEF Next, DrainStep

LEMMA LedgerInit == Init => LedgerInv
<1> SUFFICES ASSUME Init PROVE LedgerInv
  OBVIOUS
<1>1. DOMAIN stack = {} /\ \A s \in Socket : DOMAIN cbs[s] = {} /\ cbs[s] = <<>>
  BY DEF Init
<1>2. \A c \in Callback : fate[c] = "new"
  BY DEF Init
<1>3. RegisteredOnce /\ OwedOnce
  BY <1>1, <1>2 DEF RegisteredOnce, OwedOnce
<1>4. NamedOnce
  BY <1>1 DEF NamedOnce
<1>5. ThreadFlags
  BY <1>1 DEF Init, ThreadFlags
<1> QED
  BY <1>3, <1>4, <1>5, TypedInit DEF LedgerInv

(* CallbackLedger of SocketLifecycle: every callback is in one place,      *)
(* however calls nest.                                                     *)
THEOREM CallbacksInOnePlace == Spec => []CallbackLedger
<1>1. Init => LedgerInv
  BY LedgerInit
<1>2. LedgerInv /\ [Next]_vars => LedgerInv'
  BY LedgerStep
<1>3. LedgerInv => CallbackLedger
  BY DEF LedgerInv, CallbackLedger, ThreadFlags
<1> QED
  BY <1>1, <1>2, <1>3, PTL DEF Spec

(* NeverAgain of SocketLifecycle: a callback that ran, was removed or was  *)
(* refused stays so, and only a callback that a drain owes is run.         *)
THEOREM CallbacksRunOnce == Spec => NeverAgain
<1>1. Init => LedgerInv
  BY LedgerInit
<1>2. LedgerInv /\ [Next]_vars => LedgerInv'
  BY LedgerStep
<1>3. LedgerInv /\ [Next]_vars =>
        [\A c \in Callback :
           /\ fate[c] \in {"ran", "removed", "refused"} => fate'[c] = fate[c]
           /\ fate'[c] = "running" => fate[c] \in {"running", "draining"}]_vars
  BY LedgerStep DEF Irrevocable
<1> QED
  BY <1>1, <1>2, <1>3, PTL DEF Spec, NeverAgain
=============================================================================
