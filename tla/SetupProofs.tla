------------------------------ MODULE SetupProofs ------------------------------
(***************************************************************************)
(* Descriptors have one owner while sockets are made, connected, accepted, *)
(* paired, closed and collected, and what connect and accept answer is     *)
(* true, for every number of descriptors and addresses (socket.c,          *)
(* lib/stream.lua, lib/stream/inet.lua).                                   *)
(***************************************************************************)
EXTENDS StreamSetup, FiniteSetTheorems, TLAPS

State == {"closed", "fresh", "pending", "up", "failed"}
Object == [what : {"free", "sock", "guard"}, fd : Fd \union {NoFd}, held : BOOLEAN]
Worlds == [file : [Fd -> State], obj : [Obj -> Object]]

(* In world w, with the numbers g in the hands of the program, what is     *)
(* open is owned, once, and what is owned is open; an unused object is     *)
(* blank.                                                                  *)
Sound(w, g) ==
  /\ w \in Worlds /\ g \subseteq Fd
  /\ \A o, p \in Obj : w.obj[o].fd = w.obj[p].fd /\ w.obj[o].fd # NoFd => o = p
  /\ \A o \in Obj : w.obj[o].fd # NoFd => w.file[w.obj[o].fd] # "closed" /\ w.obj[o].fd \notin g
  /\ \A n \in g : w.file[n] # "closed"
  /\ \A n \in Fd : w.file[n] # "closed" => n \in g \/ \E o \in Obj : w.obj[o].fd = n
  /\ \A o \in Obj : w.obj[o].what = "free" => w.obj[o] = Blank

(* Every object outside S that holds no number is unused. *)
TidyBut(w, S) == \A o \in Obj \ S : w.obj[o].fd = NoFd => w.obj[o].what = "free"

-------------------------------------------------------------------------------
(* Numbers of descriptors and objects. *)
LEMMA Ranges ==
  /\ Fd \subseteq Nat /\ NoFd \notin Fd /\ NoFd \in Int
  /\ Obj \subseteq Nat /\ Obj \subseteq 0..(MaxFd + 2)
  /\ Blank \in Object /\ Blank.fd = NoFd /\ Blank.what = "free"
BY SetupAssumption DEF Fd, NoFd, Obj, Blank, Object

(* What the two ways to change a world do. *)
LEMMA AtObjType ==
  ASSUME NEW w \in Worlds, NEW o \in Obj, NEW x \in Object
  PROVE  /\ AtObj(w, o, x) \in Worlds /\ AtObj(w, o, x).file = w.file
         /\ AtObj(w, o, x).obj[o] = x
         /\ \A p \in Obj \ {o} : AtObj(w, o, x).obj[p] = w.obj[p]
<1>1. w.file \in [Fd -> State] /\ w.obj \in [Obj -> Object]
  BY DEF Worlds
<1> QED
  BY <1>1 DEF AtObj, Worlds

LEMMA AtFdType ==
  ASSUME NEW w \in Worlds, NEW n \in Fd, NEW s \in State
  PROVE  /\ AtFd(w, n, s) \in Worlds /\ AtFd(w, n, s).obj = w.obj
         /\ AtFd(w, n, s).file[n] = s
         /\ \A m \in Fd \ {n} : AtFd(w, n, s).file[m] = w.file[m]
<1>1. w.file \in [Fd -> State] /\ w.obj \in [Obj -> Object]
  BY DEF Worlds
<1> QED
  BY <1>1 DEF AtFd, Worlds

(* An object of a sound world, and what changes in it. *)
LEMMA ObjectParts ==
  ASSUME NEW x \in Object, NEW n \in Fd \union {NoFd}
  PROVE  /\ x.fd \in Fd \union {NoFd} /\ x.what \in {"free", "sock", "guard"}
         /\ [x EXCEPT !.fd = n] \in Object /\ [x EXCEPT !.fd = n].fd = n
         /\ [x EXCEPT !.fd = n].what = x.what /\ [x EXCEPT !.fd = n].held = x.held
         /\ [x EXCEPT !.held = FALSE] \in Object /\ [x EXCEPT !.held = FALSE].fd = x.fd
         /\ [x EXCEPT !.held = FALSE].what = x.what
BY DEF Object

(* An object without a number becomes another one without. *)
LEMMA EmptySound ==
  ASSUME NEW w, NEW g, Sound(w, g), NEW o \in Obj, w.obj[o].fd = NoFd,
         NEW x \in Object, x.fd = NoFd, x.what = "free" => x = Blank
  PROVE  Sound(AtObj(w, o, x), g)
<1> DEFINE v == AtObj(w, o, x)
<1>1. w \in Worlds
  BY DEF Sound
<1>2. /\ v \in Worlds /\ v.file = w.file /\ v.obj[o] = x
      /\ \A p \in Obj \ {o} : v.obj[p] = w.obj[p]
  BY <1>1, AtObjType
<1> HIDE DEF v
<1>3. \A p \in Obj : v.obj[p].fd = w.obj[p].fd
  BY <1>2
<1>4. \A p \in Obj : v.obj[p].what = "free" => v.obj[p] = Blank
  BY <1>2 DEF Sound
<1>5. Sound(v, g)
  BY <1>2, <1>3, <1>4 DEF Sound
<1> QED
  BY <1>5 DEF v

(* The holder lets go of an object that holds a number. *)
LEMMA UnheldSound ==
  ASSUME NEW w, NEW g, Sound(w, g), NEW o \in Obj, w.obj[o].fd # NoFd
  PROVE  Sound(AtObj(w, o, [w.obj[o] EXCEPT !.held = FALSE]), g)
<1> DEFINE x == [w.obj[o] EXCEPT !.held = FALSE]
           v == AtObj(w, o, x)
<1>1. w \in Worlds /\ w.obj[o] \in Object
  BY DEF Sound, Worlds
<1>2. x \in Object /\ x.fd = w.obj[o].fd /\ x.what = w.obj[o].what /\ x.what # "free"
  BY <1>1, ObjectParts, Ranges DEF Sound
<1> HIDE DEF x
<1>3. /\ v \in Worlds /\ v.file = w.file /\ v.obj[o] = x
      /\ \A p \in Obj \ {o} : v.obj[p] = w.obj[p]
  BY <1>1, <1>2, AtObjType
<1> HIDE DEF v
<1>4. \A p \in Obj : v.obj[p].fd = w.obj[p].fd
  BY <1>2, <1>3
<1>5. \A p \in Obj : v.obj[p].what = "free" => v.obj[p] = Blank
  BY <1>2, <1>3 DEF Sound
<1>6. Sound(v, g)
  BY <1>3, <1>4, <1>5 DEF Sound
<1> QED
  BY <1>6 DEF v, x

(* An object gets a number that was closed. *)
LEMMA PutSound ==
  ASSUME NEW w, NEW g, Sound(w, g), NEW o \in Obj, w.obj[o].fd = NoFd, w.obj[o].what # "free",
         NEW n \in Fd, w.file[n] = "closed", NEW s \in State \ {"closed"}
  PROVE  LET v == Put(w, o, n, s) IN
         /\ Sound(v, g) /\ v.obj[o].fd = n /\ v.file[n] = s
         /\ \A p \in Obj \ {o} : v.obj[p] = w.obj[p]
         /\ \A m \in Fd \ {n} : v.file[m] = w.file[m]
<1> DEFINE v == Put(w, o, n, s)
           x == [w.obj[o] EXCEPT !.fd = n]
<1>1. w \in Worlds /\ w.obj[o] \in Object
  BY DEF Sound, Worlds
<1>2. x \in Object /\ x.fd = n /\ x.what = w.obj[o].what
  BY <1>1, ObjectParts
<1>3. v = AtFd(AtObj(w, o, x), n, s)
  BY DEF Put
<1> HIDE DEF x, v
<1>4. /\ v \in Worlds /\ v.file[n] = s /\ \A m \in Fd \ {n} : v.file[m] = w.file[m]
      /\ v.obj[o] = x /\ \A p \in Obj \ {o} : v.obj[p] = w.obj[p]
  <2> DEFINE u == AtObj(w, o, x)
  <2>1. /\ u \in Worlds /\ u.file = w.file /\ u.obj[o] = x
        /\ \A p \in Obj \ {o} : u.obj[p] = w.obj[p]
    BY <1>1, <1>2, AtObjType
  <2>2. v = AtFd(u, n, s) /\ s \in State
    BY <1>3
  <2> HIDE DEF u
  <2>3. /\ v \in Worlds /\ v.obj = u.obj /\ v.file[n] = s
        /\ \A m \in Fd \ {n} : v.file[m] = u.file[m]
    BY <2>1, <2>2, AtFdType
  <2> QED
    BY <2>1, <2>3
<1>6. \A p \in Obj : w.obj[p].fd # n
  BY Ranges DEF Sound
<1>7. Sound(v, g)
  <2>1. \A p, q \in Obj : v.obj[p].fd = v.obj[q].fd /\ v.obj[p].fd # NoFd => p = q
    BY <1>2, <1>4, <1>6 DEF Sound
  <2>2. ASSUME NEW p \in Obj, v.obj[p].fd # NoFd
        PROVE  v.file[v.obj[p].fd] # "closed" /\ v.obj[p].fd \notin g
    <3>1. CASE p = o
      BY <1>2, <1>4, <3>1 DEF Sound
    <3>2. CASE p # o
      <4>1. v.obj[p] = w.obj[p] /\ w.obj[p].fd \in Fd /\ w.obj[p].fd # n
        BY <1>1, <1>4, <1>6, <2>2, <3>2, Ranges DEF Object, Worlds
      <4> QED
        BY <1>4, <2>2, <4>1 DEF Sound
    <3> QED
      BY <3>1, <3>2
  <2>3. \A m \in g : v.file[m] # "closed"
    BY <1>4 DEF Sound
  <2>4. ASSUME NEW m \in Fd, v.file[m] # "closed", m \notin g
        PROVE  \E p \in Obj : v.obj[p].fd = m
    <3>1. CASE m = n
      BY <1>2, <1>4, <3>1
    <3>2. CASE m # n
      <4>1. PICK p \in Obj : w.obj[p].fd = m
        BY <1>4, <2>4, <3>2 DEF Sound
      <4>2. p # o
        BY <4>1, Ranges
      <4> QED
        BY <1>4, <4>1, <4>2
    <3> QED
      BY <3>1, <3>2
  <2>5. \A p \in Obj : v.obj[p].what = "free" => v.obj[p] = Blank
    BY <1>2, <1>4 DEF Sound
  <2> QED
    BY <1>4, <2>1, <2>2, <2>3, <2>4, <2>5 DEF Sound
<1> QED
  BY <1>2, <1>4, <1>7 DEF v

(* A descriptor that is open gets into another state. *)
LEMMA StateSound ==
  ASSUME NEW w, NEW g, Sound(w, g), NEW n \in Fd, w.file[n] # "closed", NEW s \in State \ {"closed"}
  PROVE  Sound(AtFd(w, n, s), g)
<1> DEFINE v == AtFd(w, n, s)
<1>1. w \in Worlds
  BY DEF Sound
<1>2. /\ v \in Worlds /\ v.obj = w.obj /\ v.file[n] = s
      /\ \A m \in Fd \ {n} : v.file[m] = w.file[m]
  BY <1>1, AtFdType
<1> HIDE DEF v
<1>3. \A m \in Fd : v.file[m] = "closed" <=> w.file[m] = "closed"
  BY <1>2
<1>4. \A o \in Obj : w.obj[o].fd # NoFd => w.obj[o].fd \in Fd
  BY <1>1 DEF Worlds, Object
<1>5. Sound(v, g)
  BY <1>2, <1>3, <1>4 DEF Sound
<1> QED
  BY <1>5 DEF v

(* An object gives its number up, to be closed or to the program. *)
LEMMA GiveUp ==
  ASSUME NEW w, NEW g, Sound(w, g), NEW o \in Obj, w.obj[o].fd # NoFd,
         NEW v, v = AtObj(w, o, [w.obj[o] EXCEPT !.fd = NoFd])
  PROVE  /\ Sound(AtFd(v, w.obj[o].fd, "closed"), g)
         /\ Sound(v, g \union {w.obj[o].fd})
<1> DEFINE x == [w.obj[o] EXCEPT !.fd = NoFd]
           n == w.obj[o].fd
           c == AtFd(v, n, "closed")
<1>1. w \in Worlds /\ w.obj[o] \in Object /\ n \in Fd
  BY DEF Sound, Worlds, Object
<1>2. x \in Object /\ x.fd = NoFd /\ x.what = w.obj[o].what /\ x.what # "free"
  <2>1. NoFd \in Fd \union {NoFd}
    OBVIOUS
  <2>2. x \in Object /\ x.fd = NoFd /\ x.what = w.obj[o].what
    BY <1>1, <2>1, ObjectParts
  <2>3. w.obj[o].what # "free"
    BY Ranges DEF Sound
  <2> QED
    BY <2>2, <2>3
<1>3. v = AtObj(w, o, x)
  OBVIOUS
<1> HIDE DEF x
<1>4. /\ v \in Worlds /\ v.file = w.file /\ v.obj[o] = x
      /\ \A p \in Obj \ {o} : v.obj[p] = w.obj[p]
  <2>1. /\ AtObj(w, o, x) \in Worlds /\ AtObj(w, o, x).file = w.file
        /\ AtObj(w, o, x).obj[o] = x
        /\ \A p \in Obj \ {o} : AtObj(w, o, x).obj[p] = w.obj[p]
    BY <1>1, <1>2, AtObjType
  <2> QED
    BY <1>3, <2>1
<1>40. "closed" \in State
  BY DEF State
<1>5. /\ c \in Worlds /\ c.obj = v.obj /\ c.file[n] = "closed"
      /\ \A m \in Fd \ {n} : c.file[m] = w.file[m]
  BY <1>1, <1>4, <1>40, AtFdType
<1> HIDE DEF c
<1>6. \A p \in Obj \ {o} : w.obj[p].fd # n
  BY DEF Sound
<1>7. \A p \in Obj : v.obj[p].fd # NoFd =>
        p # o /\ v.obj[p].fd = w.obj[p].fd /\ v.obj[p].fd \in Fd \ {n}
  <2> SUFFICES ASSUME NEW p \in Obj, v.obj[p].fd # NoFd
               PROVE  p # o /\ v.obj[p].fd = w.obj[p].fd /\ v.obj[p].fd \in Fd \ {n}
    OBVIOUS
  <2>1. p # o
    BY <1>2, <1>4
  <2>2. v.obj[p] = w.obj[p] /\ w.obj[p] \in Object /\ w.obj[p].fd # n
    BY <1>1, <1>4, <1>6, <2>1 DEF Worlds
  <2>3. w.obj[p].fd \in Fd \union {NoFd}
    BY <2>2 DEF Object
  <2> QED
    BY <2>1, <2>2, <2>3
<1>8. \A p, q \in Obj : v.obj[p].fd = v.obj[q].fd /\ v.obj[p].fd # NoFd => p = q
  BY <1>4, <1>7 DEF Sound
<1>9. \A p \in Obj : v.obj[p].what = "free" => v.obj[p] = Blank
  BY <1>2, <1>4 DEF Sound
<1>10. ASSUME NEW m \in Fd \ {n}, w.file[m] # "closed", m \notin g
       PROVE  \E p \in Obj : v.obj[p].fd = m
  <2>1. PICK p \in Obj : w.obj[p].fd = m
    BY <1>10 DEF Sound
  <2> QED
    BY <1>4, <2>1
<1>11. Sound(v, g \union {n})
  <2>1. \A p \in Obj : v.obj[p].fd # NoFd =>
          v.file[v.obj[p].fd] # "closed" /\ v.obj[p].fd \notin g \union {n}
    BY <1>4, <1>7 DEF Sound
  <2>2. \A m \in g \union {n} : v.file[m] # "closed"
    BY <1>4 DEF Sound
  <2>3. g \union {n} \subseteq Fd
    BY <1>1 DEF Sound
  <2> QED
    BY <1>4, <1>8, <1>9, <1>10, <2>1, <2>2, <2>3 DEF Sound
<1>12. Sound(c, g)
  <2>1. \A p \in Obj : c.obj[p].fd # NoFd =>
          c.file[c.obj[p].fd] # "closed" /\ c.obj[p].fd \notin g
    BY <1>5, <1>7 DEF Sound
  <2>2. \A m \in g : c.file[m] # "closed"
    BY <1>5 DEF Sound
  <2>3. \A m \in Fd : c.file[m] # "closed" => m \in g \/ \E p \in Obj : c.obj[p].fd = m
    BY <1>5, <1>10
  <2> QED
    BY <1>5, <1>8, <1>9, <2>1, <2>2, <2>3 DEF Sound
<1> QED
  BY <1>11, <1>12 DEF c

-------------------------------------------------------------------------------
(* What a C function leaves behind: sound, and nothing but its result new.  *)
Good(w, g) == Sound(w, g) /\ TidyBut(w, {})

(* The caller and the collector let go of an object. *)
LEMMA ReleasedGood ==
  ASSUME NEW w, NEW g, Sound(w, g), NEW o \in Obj, TidyBut(w, {o})
  PROVE  Good(Released(w, o), g)
<1>1. w \in Worlds /\ w.obj[o] \in Object
  BY DEF Sound, Worlds
<1>2. CASE w.obj[o].fd = NoFd
  <2>1. Released(w, o) = AtObj(w, o, Blank)
    BY <1>2 DEF Released
  <2>2. Sound(AtObj(w, o, Blank), g)
    BY <1>2, EmptySound, Ranges
  <2>3. TidyBut(AtObj(w, o, Blank), {})
    <3>1. /\ AtObj(w, o, Blank).obj[o] = Blank
          /\ \A p \in Obj \ {o} : AtObj(w, o, Blank).obj[p] = w.obj[p]
      BY <1>1, AtObjType, Ranges
    <3>2. Blank.what = "free"
      BY Ranges
    <3> QED
      BY <3>1, <3>2 DEF TidyBut
  <2> QED
    BY <2>1, <2>2, <2>3 DEF Good
<1>3. CASE w.obj[o].fd # NoFd
  <2> DEFINE x == [w.obj[o] EXCEPT !.held = FALSE]
  <2>1. Released(w, o) = AtObj(w, o, x)
    BY <1>3 DEF Released
  <2>2. Sound(AtObj(w, o, x), g)
    BY <1>3, UnheldSound
  <2>3. x \in Object /\ x.fd # NoFd
    BY <1>1, <1>3, ObjectParts
  <2> HIDE DEF x
  <2>4. TidyBut(AtObj(w, o, x), {})
    <3>1. AtObj(w, o, x).obj[o] = x /\ \A p \in Obj \ {o} : AtObj(w, o, x).obj[p] = w.obj[p]
      BY <1>1, <2>3, AtObjType
    <3> QED
      BY <2>3, <3>1 DEF TidyBut
  <2> QED
    BY <2>1, <2>2, <2>4 DEF Good
<1> QED
  BY <1>2, <1>3

(* An object is closed, as close and the finalizers do. *)
LEMMA ClosedSound ==
  ASSUME NEW w, NEW g, Sound(w, g), NEW o \in Obj, TidyBut(w, {o})
  PROVE  Sound(Closed(w, o), g) /\ TidyBut(Closed(w, o), {o}) /\ Closed(w, o).obj[o].fd = NoFd
<1>1. CASE w.obj[o].fd = NoFd
  BY <1>1 DEF Closed
<1>2. CASE w.obj[o].fd # NoFd
  <2> DEFINE n == w.obj[o].fd
             x == [w.obj[o] EXCEPT !.fd = NoFd]
             v == AtObj(w, o, x)
  <2>1. Closed(w, o) = AtFd(v, n, "closed")
    BY <1>2 DEF Closed
  <2>2. Sound(AtFd(v, n, "closed"), g)
    BY <1>2, GiveUp
  <2>3. w \in Worlds /\ w.obj[o] \in Object /\ n \in Fd /\ NoFd \in Fd \union {NoFd} /\ "closed" \in State
    BY <1>2 DEF Sound, Worlds, Object, State
  <2>4. x \in Object /\ x.fd = NoFd
    BY <2>3, ObjectParts
  <2> HIDE DEF x, n
  <2>5. v \in Worlds /\ v.obj[o] = x /\ \A p \in Obj \ {o} : v.obj[p] = w.obj[p]
    BY <2>3, <2>4, AtObjType
  <2> HIDE DEF v
  <2>6. AtFd(v, n, "closed").obj = v.obj
    BY <2>3, <2>5, AtFdType
  <2>7. TidyBut(AtFd(v, n, "closed"), {o}) /\ AtFd(v, n, "closed").obj[o].fd = NoFd
    BY <2>4, <2>5, <2>6 DEF TidyBut
  <2> QED
    BY <2>1, <2>2, <2>7
<1> QED
  BY <1>1, <1>2

LEMMA AbandonedGood ==
  ASSUME NEW w, NEW g, Sound(w, g), NEW o \in Obj, TidyBut(w, {o})
  PROVE  Good(Abandoned(w, o), g)
BY ClosedSound, ReleasedGood DEF Abandoned

(* A finalized object is gone. *)
LEMMA FinalizedGood ==
  ASSUME NEW w, NEW g, Good(w, g), NEW o \in Obj
  PROVE  Good(AtObj(Finalized(w, o), o, Blank), g)
<1> DEFINE v == Closed(w, o)
<1>1. TidyBut(w, {o})
  BY DEF Good, TidyBut
<1>2. Sound(v, g) /\ TidyBut(v, {o}) /\ v.obj[o].fd = NoFd
  BY <1>1, ClosedSound DEF Good
<1> HIDE DEF v
<1>3. Sound(AtObj(v, o, Blank), g)
  BY <1>2, EmptySound, Ranges
<1>4. TidyBut(AtObj(v, o, Blank), {})
  <2>1. v \in Worlds /\ Blank \in Object /\ Blank.what = "free"
    BY <1>2, Ranges DEF Sound
  <2>2. /\ AtObj(v, o, Blank).obj[o] = Blank
        /\ \A p \in Obj \ {o} : AtObj(v, o, Blank).obj[p] = v.obj[p]
    BY <2>1, AtObjType
  <2> QED
    BY <1>2, <2>1, <2>2 DEF TidyBut
<1> QED
  BY <1>3, <1>4 DEF Good, Finalized, v

(* The guard of acceptfd hands its number to the program. *)
LEMMA DisarmedGood ==
  ASSUME NEW w, NEW g, Good(w, g), NEW o \in Obj, w.obj[o].fd # NoFd
  PROVE  Good(Disarmed(w, o), g \union {w.obj[o].fd})
<1> DEFINE x == [w.obj[o] EXCEPT !.fd = NoFd]
           v == AtObj(w, o, x)
<1>1. Sound(v, g \union {w.obj[o].fd})
  BY GiveUp DEF Good
<1>2. w \in Worlds /\ w.obj[o] \in Object /\ NoFd \in Fd \union {NoFd}
  BY DEF Good, Sound, Worlds
<1>3. x \in Object
  BY <1>2, ObjectParts
<1> HIDE DEF x
<1>4. \A p \in Obj \ {o} : v.obj[p] = w.obj[p]
  BY <1>2, <1>3, AtObjType
<1>5. TidyBut(v, {o})
  BY <1>4 DEF Good, TidyBut
<1> HIDE DEF v
<1>6. Good(Released(v, o), g \union {w.obj[o].fd})
  BY <1>1, <1>5, ReleasedGood
<1> QED
  BY <1>6 DEF Disarmed, v, x

(* A number goes to the program, or comes back from it to be closed. *)
LEMMA GivenGood ==
  ASSUME NEW w, NEW g, Good(w, g), NEW n \in Fd
  PROVE  /\ w.file[n] = "closed" => Good(AtFd(w, n, "up"), g \union {n})
         /\ n \in g => Good(AtFd(w, n, "closed"), g \ {n})
<1>1. w \in Worlds /\ "up" \in State /\ "closed" \in State
  BY DEF Good, Sound, State
<1>2. \A o \in Obj : w.obj[o].fd \in Fd \union {NoFd}
  BY <1>1 DEF Worlds, Object
<1>3. ASSUME w.file[n] = "closed" PROVE Good(AtFd(w, n, "up"), g \union {n})
  <2> DEFINE v == AtFd(w, n, "up")
  <2>1. /\ v \in Worlds /\ v.obj = w.obj /\ v.file[n] = "up"
        /\ \A m \in Fd \ {n} : v.file[m] = w.file[m]
    BY <1>1, AtFdType
  <2> HIDE DEF v
  <2>2. \A o \in Obj : w.obj[o].fd # n
    BY <1>3, Ranges DEF Good, Sound
  <2>3. \A o \in Obj : v.obj[o].fd # NoFd =>
          v.file[v.obj[o].fd] # "closed" /\ v.obj[o].fd \notin g \union {n}
    BY <1>2, <2>1, <2>2 DEF Good, Sound
  <2>4. Sound(v, g \union {n})
    BY <2>1, <2>3 DEF Good, Sound
  <2> QED
    BY <2>1, <2>4 DEF Good, TidyBut, v
<1>4. ASSUME n \in g PROVE Good(AtFd(w, n, "closed"), g \ {n})
  <2> DEFINE v == AtFd(w, n, "closed")
  <2>1. /\ v \in Worlds /\ v.obj = w.obj /\ v.file[n] = "closed"
        /\ \A m \in Fd \ {n} : v.file[m] = w.file[m]
    BY <1>1, AtFdType
  <2> HIDE DEF v
  <2>2. \A o \in Obj : w.obj[o].fd # n
    BY <1>4, Ranges DEF Good, Sound
  <2>3. \A o \in Obj : v.obj[o].fd # NoFd =>
          v.file[v.obj[o].fd] # "closed" /\ v.obj[o].fd \notin g \ {n}
    BY <1>2, <2>1, <2>2 DEF Good, Sound
  <2>4. Sound(v, g \ {n})
    BY <2>1, <2>3 DEF Good, Sound
  <2> QED
    BY <2>1, <2>4 DEF Good, TidyBut, v
<1> QED
  BY <1>3, <1>4

(* There is always an unused object: the others hold different numbers. *)
LEMMA FreshUnused ==
  ASSUME NEW g, Good(World, g) PROVE Fresh \in Obj /\ obj[Fresh].what = "free" /\ obj[Fresh] = Blank
<1>1. World.obj = obj /\ World \in Worlds /\ obj \in [Obj -> Object]
  BY DEF World, Good, Sound, Worlds
<1>2. Unused # {}
  <2> SUFFICES ASSUME Unused = {} PROVE FALSE
    OBVIOUS
  <2>1. \A o \in Obj : obj[o].fd \in Fd
    BY <1>1 DEF Unused, Good, TidyBut, Object
  <2> DEFINE f == [o \in Obj |-> obj[o].fd]
  <2>2. f \in [Obj -> Fd]
    BY <2>1
  <2>3. \A o, p \in Obj : f[o] = f[p] => o = p
    BY <1>1, <2>1, Ranges DEF Good, Sound
  <2>4. IsFiniteSet(Obj) /\ Cardinality(Obj) = MaxFd + 2
    BY FS_Interval, SetupAssumption DEF Obj
  <2>5. IsFiniteSet(Fd) /\ Cardinality(Fd) = MaxFd + 1
    BY FS_Interval, SetupAssumption DEF Fd
  <2>6. Cardinality(Fd) < Cardinality(Obj)
    BY <2>4, <2>5, SetupAssumption
  <2> HIDE DEF f
  <2> QED
    BY <2>2, <2>3, <2>4, <2>5, <2>6, FS_PigeonHole
<1>3. Fresh \in Unused
  BY <1>2 DEF Fresh
<1> QED
  BY <1>1, <1>3 DEF Unused, Good, Sound

(* A constructor allocates its object. *)
LEMMA MadeSound ==
  ASSUME NEW g, Good(World, g), NEW what \in {"sock", "guard"}
  PROVE  LET v == Made(World, what) IN
         /\ Sound(v, g) /\ TidyBut(v, {Fresh}) /\ Fresh \in Obj
         /\ v.obj[Fresh].fd = NoFd /\ v.obj[Fresh].what # "free" /\ v.file = file
<1> DEFINE x == [what |-> what, fd |-> NoFd, held |-> TRUE]
           v == AtObj(World, Fresh, x)
<1>1. Fresh \in Obj /\ World.obj[Fresh] = Blank /\ World.file = file /\ World \in Worlds
  BY FreshUnused DEF World, Good, Sound
<1>2. x \in Object /\ x.fd = NoFd /\ x.what # "free"
  BY DEF Object
<1> HIDE DEF x
<1>3. v.obj[Fresh] = x /\ v.file = file /\ \A p \in Obj \ {Fresh} : v.obj[p] = World.obj[p]
  BY <1>1, <1>2, AtObjType
<1>4. Sound(v, g)
  BY <1>1, <1>2, EmptySound, Ranges DEF Good
<1>5. TidyBut(v, {Fresh})
  BY <1>3 DEF Good, TidyBut
<1> HIDE DEF v
<1>6. v = Made(World, what)
  BY DEF Made, v, x
<1> QED
  BY <1>1, <1>2, <1>3, <1>4, <1>5, <1>6

LEMMA PutGood ==
  ASSUME NEW w, NEW g, Sound(w, g), NEW o \in Obj, w.obj[o].fd = NoFd, w.obj[o].what # "free",
         TidyBut(w, {o}), NEW n \in Fd, w.file[n] = "closed", NEW s \in State \ {"closed"}
  PROVE  Good(Put(w, o, n, s), g) /\ Put(w, o, n, s).obj[o].fd = n /\ Put(w, o, n, s).file[n] = s
<1> DEFINE v == Put(w, o, n, s)
<1>1. /\ Sound(v, g) /\ v.obj[o].fd = n /\ v.file[n] = s
      /\ \A p \in Obj \ {o} : v.obj[p] = w.obj[p]
  BY PutSound
<1> HIDE DEF v
<1>2. TidyBut(v, {})
  BY <1>1, Ranges DEF TidyBut
<1> QED
  BY <1>1, <1>2 DEF Good, v

LEMMA LowestType ==
  ASSUME NEW w, NEW n \in Lowest(w) PROVE n \in Fd /\ w.file[n] = "closed"
BY DEF Lowest

LEMMA NewSocketGood ==
  ASSUME NEW g, Good(World, g), NEW r \in NewSocket(World)
  PROVE  Good(r.w, g) /\ (r.end = "ok" => r.w.obj[Fresh].fd \in Fd /\ r.w.file[r.w.obj[Fresh].fd] = "fresh")
<1> DEFINE v == Made(World, "sock")
<1>1. /\ Sound(v, g) /\ TidyBut(v, {Fresh}) /\ Fresh \in Obj
      /\ v.obj[Fresh].fd = NoFd /\ v.obj[Fresh].what # "free" /\ v.file = file
  BY MadeSound
<1> HIDE DEF v
<1>2. \/ r = Ends(World, "raise") \/ r = Ends(Released(v, Fresh), "failed")
      \/ \E n \in Lowest(World) : \/ r = Ends(Put(v, Fresh, n, "fresh"), "ok")
                                  \/ r = Ends(Abandoned(Put(v, Fresh, n, "fresh"), Fresh), "failed")
  BY DEF NewSocket, v
<1>3. CASE r = Ends(World, "raise")
  BY <1>3 DEF Ends
<1>4. CASE r = Ends(Released(v, Fresh), "failed")
  BY <1>1, <1>4, ReleasedGood DEF Ends
<1>5. ASSUME NEW n \in Lowest(World),
             \/ r = Ends(Put(v, Fresh, n, "fresh"), "ok")
             \/ r = Ends(Abandoned(Put(v, Fresh, n, "fresh"), Fresh), "failed")
      PROVE  Good(r.w, g) /\ (r.end = "ok" => r.w.obj[Fresh].fd \in Fd /\ r.w.file[r.w.obj[Fresh].fd] = "fresh")
  <2> DEFINE u == Put(v, Fresh, n, "fresh")
  <2>1. n \in Fd /\ v.file[n] = "closed"
    BY <1>1, LowestType DEF World
  <2>2. "fresh" \in State \ {"closed"}
    BY DEF State
  <2>3. Good(u, g) /\ u.obj[Fresh].fd = n /\ u.file[n] = "fresh"
    BY <1>1, <2>1, <2>2, PutGood
  <2> HIDE DEF u
  <2>4. Good(Abandoned(u, Fresh), g)
    BY <1>1, <2>3, AbandonedGood DEF Good, TidyBut
  <2>5. r = Ends(u, "ok") \/ r = Ends(Abandoned(u, Fresh), "failed")
    BY <1>5 DEF u
  <2> QED
    BY <2>1, <2>3, <2>4, <2>5 DEF Ends
<1> QED
  BY <1>2, <1>3, <1>4, <1>5

LEMMA ConnectOutGood ==
  ASSUME NEW g, Good(World, g), NEW r \in ConnectOut(World)
  PROVE  Good(r.w, g)
<1>1. CASE r \in NewSocket(World)
  BY <1>1, NewSocketGood
<1>2. CASE r \notin NewSocket(World)
  <2>1. PICK m \in NewSocket(World) :
          /\ m.end = "ok"
          /\ \/ r = Ends(AtFd(m.w, m.w.obj[Fresh].fd, "up"), "now")
             \/ r = Ends(AtFd(m.w, m.w.obj[Fresh].fd, "pending"), "again")
             \/ r = Ends(Abandoned(m.w, Fresh), "failed")
             \/ r = Ends(Abandoned(m.w, Fresh), "raise")
    BY <1>2 DEF ConnectOut
  <2> DEFINE n == m.w.obj[Fresh].fd
  <2>2. Good(m.w, g) /\ n \in Fd /\ m.w.file[n] # "closed"
    BY <2>1, NewSocketGood
  <2> HIDE DEF n
  <2>3. \A s \in State \ {"closed"} : Good(AtFd(m.w, n, s), g)
    <3> SUFFICES ASSUME NEW s \in State \ {"closed"} PROVE Good(AtFd(m.w, n, s), g)
      OBVIOUS
    <3>1. Sound(AtFd(m.w, n, s), g)
      BY <2>2, StateSound DEF Good
    <3>2. AtFd(m.w, n, s).obj = m.w.obj
      BY DEF AtFd
    <3> QED
      BY <2>2, <3>1, <3>2 DEF Good, TidyBut
  <2>4. Good(Abandoned(m.w, Fresh), g)
    BY <2>2, FreshUnused, AbandonedGood DEF Good, TidyBut
  <2>5. "up" \in State \ {"closed"} /\ "pending" \in State \ {"closed"}
    BY DEF State
  <2>6. r.w \in {AtFd(m.w, n, "up"), AtFd(m.w, n, "pending"), Abandoned(m.w, Fresh)}
    BY <2>1 DEF Ends, n
  <2> QED
    BY <2>3, <2>4, <2>5, <2>6
<1> QED
  BY <1>1, <1>2

-------------------------------------------------------------------------------
(* The calls.                                                              *)
Answers == {"none", "error", "raise", "ok", "tls error", "timeout", "nothing"}
ConCalls == [at : {"idle", "try", "wait", "done", "over"}, kind : {"inet", "unix"},
             todo : 0..MaxAddr, end : Int, given : BOOLEAN, kernel : Int,
             o : Obj \union {0}, err : BOOLEAN, answer : Answers]
AccCalls == [at : {"idle", "wait", "done", "over"}, kind : {"sock", "fd", "fd with address"},
             end : Int, fd : Fd \union {NoFd}, answer : Answers]

(* A connect that tries has an address left, one that waits has a socket.  *)
ConSound(c) ==
  /\ c \in ConCalls
  /\ c.at = "try" => c.todo > 0
  /\ c.at = "wait" => c.o \in Obj

(* The inductive invariant. *)
SetupInv ==
  /\ Good(World, given)
  /\ ConSound(con)
  /\ acc \in AccCalls
  /\ queue \in 0..MaxQueue /\ now \in 0..MaxNow

LEMMA ConnectedType ==
  ASSUME NEW c \in ConCalls, NEW a \in Answers PROVE ConSound(Connected(c, a))
<1>1. [c EXCEPT !.at = "done", !.answer = a] \in ConCalls
  BY DEF ConCalls
<1>2. [c EXCEPT !.at = "done", !.answer = a].at = "done"
  BY DEF ConCalls
<1> QED
  BY <1>1, <1>2 DEF Connected, ConSound

LEMMA EditType ==
  ASSUME NEW c \in ConCalls
  PROVE  /\ [c EXCEPT !.o = 0] \in ConCalls /\ [c EXCEPT !.o = 0].todo = c.todo
         /\ [c EXCEPT !.err = TRUE] \in ConCalls /\ [c EXCEPT !.err = TRUE].todo = c.todo
<1>1. [c EXCEPT !.o = 0] \in ConCalls /\ [c EXCEPT !.o = 0].todo = c.todo
  <2>1. 0 \in Obj \union {0}
    OBVIOUS
  <2>2. ASSUME NEW x \in Obj \union {0}
        PROVE  [c EXCEPT !.o = x] \in ConCalls /\ [c EXCEPT !.o = x].todo = c.todo
    BY DEF ConCalls
  <2> QED
    BY <2>1, <2>2
<1>2. [c EXCEPT !.err = TRUE] \in ConCalls /\ [c EXCEPT !.err = TRUE].todo = c.todo
  <2>1. ASSUME NEW x \in BOOLEAN
        PROVE  [c EXCEPT !.err = x] \in ConCalls /\ [c EXCEPT !.err = x].todo = c.todo
    BY DEF ConCalls
  <2> QED
    BY <2>1
<1> QED
  BY <1>1, <1>2

LEMMA AnotherType ==
  ASSUME NEW c \in ConCalls PROVE ConSound(Another(c))
<1>1. CASE c.todo > 0
  <2>1. ASSUME NEW x \in Obj \union {0}
        PROVE  /\ [c EXCEPT !.at = "try", !.o = x] \in ConCalls
               /\ [c EXCEPT !.at = "try", !.o = x].at = "try"
               /\ [c EXCEPT !.at = "try", !.o = x].todo = c.todo
    BY DEF ConCalls
  <2>2. 0 \in Obj \union {0}
    OBVIOUS
  <2>3. /\ [c EXCEPT !.at = "try", !.o = 0] \in ConCalls
        /\ [c EXCEPT !.at = "try", !.o = 0].at = "try"
        /\ [c EXCEPT !.at = "try", !.o = 0].todo = c.todo
    BY <2>1, <2>2
  <2> QED
    BY <1>1, <2>3 DEF Another, ConSound
<1>2. CASE ~(c.todo > 0)
  <2>1. [c EXCEPT !.o = 0] \in ConCalls
    BY EditType
  <2>2. "error" \in Answers /\ "nothing" \in Answers
    BY DEF Answers
  <2> QED
    BY <1>2, <2>1, <2>2, ConnectedType DEF Another
<1> QED
  BY <1>1, <1>2

LEMMA BudgetType ==
  ASSUME NEW c \in ConCalls, now \in Int, NEW b \in Budgets(c)
  PROVE  b \in ConCalls /\ b.o = c.o
<1>1. ASSUME NEW k \in Kernel PROVE Budgeted(c, k) \in ConCalls /\ Budgeted(c, k).o = c.o
  <2>1. k \in Int /\ c.end \in Int /\ now + k - Elapsed(c) \in Int
    BY SetupAssumption DEF ConCalls, Elapsed
  <2>2. ASSUME NEW e \in Int
        PROVE  /\ [c EXCEPT !.kernel = k, !.end = e] \in ConCalls
               /\ [c EXCEPT !.kernel = k, !.end = e].o = c.o
               /\ [c EXCEPT !.kernel = k] \in ConCalls /\ [c EXCEPT !.kernel = k].o = c.o
    BY <2>1 DEF ConCalls
  <2> QED
    BY <2>1, <2>2 DEF Budgeted
<1>2. b = c \/ \E k \in Kernel : b = Budgeted(c, k)
  BY DEF Budgets
<1> QED
  BY <1>1, <1>2

LEMMA WaitType ==
  ASSUME NEW c \in ConCalls, c.o \in Obj PROVE ConSound([c EXCEPT !.at = "wait"])
<1>1. /\ [c EXCEPT !.at = "wait"] \in ConCalls /\ [c EXCEPT !.at = "wait"].at = "wait"
      /\ [c EXCEPT !.at = "wait"].o = c.o
  BY DEF ConCalls
<1> QED
  BY <1>1 DEF ConSound

-------------------------------------------------------------------------------
(* The steps of the calls.                                                 *)

(* A function leaves a good world behind. *)
LEMMA BecomesGood ==
  ASSUME NEW w, NEW g, Good(w, g), Becomes(w), given' = g
  PROVE  Good(World, given)'
<1>1. World'.file = w.file /\ World'.obj = w.obj /\ w \in Worlds
  BY DEF World, Becomes, Good, Sound
<1>2. World' \in Worlds
  BY <1>1 DEF World, Worlds
<1>3. Sound(World', g)
  BY <1>1, <1>2 DEF Good, Sound
<1>4. TidyBut(World', {})
  BY <1>1 DEF Good, TidyBut
<1> QED
  BY <1>3, <1>4 DEF Good

LEMMA SameGood ==
  ASSUME Good(World, given), UNCHANGED <<file, obj, given>> PROVE Good(World, given)'
<1>1. Becomes(World)
  BY DEF Becomes, World
<1> QED
  BY <1>1, BecomesGood

LEMMA OwnedAgain ==
  ASSUME NEW w, NEW g, Good(w, g), NEW o \in Obj
  PROVE  Good(Abandoned(w, o), g) /\ Good(Released(w, o), g)
<1>1. Sound(w, g) /\ TidyBut(w, {o})
  BY DEF Good, TidyBut
<1> QED
  BY <1>1, AbandonedGood, ReleasedGood

LEMMA EstablishedKeeps ==
  ASSUME NEW c \in ConCalls, c.o \in Obj, NEW w, Good(w, given), Established(c, w), given' = given
  PROVE  Good(World, given)' /\ ConSound(con')
<1>1. {"ok", "tls error", "raise"} \subseteq Answers /\ [c EXCEPT !.o = 0] \in ConCalls
  BY EditType DEF Answers
<1>2. Good(Abandoned(w, c.o), given) /\ Good(Released(w, c.o), given)
  BY OwnedAgain
<1>3. CASE con' = Connected(c, "ok") /\ Becomes(w)
  BY <1>1, <1>3, ConnectedType, BecomesGood
<1>4. CASE con' = Connected([c EXCEPT !.o = 0], "tls error") /\ Becomes(Abandoned(w, c.o))
  BY <1>1, <1>2, <1>4, ConnectedType, BecomesGood
<1>5. CASE con' = Connected([c EXCEPT !.o = 0], "raise") /\ Becomes(Released(w, c.o))
  BY <1>1, <1>2, <1>5, ConnectedType, BecomesGood
<1> QED
  BY <1>3, <1>4, <1>5 DEF Established

LEMMA AwaitKeeps ==
  ASSUME NEW c \in ConCalls, c.o \in Obj, NEW w, Good(w, given), Await(c, w), given' = given, now \in Int
  PROVE  Good(World, given)' /\ ConSound(con')
<1>1. {"timeout", "raise"} \subseteq Answers /\ [c EXCEPT !.o = 0] \in ConCalls
  BY EditType DEF Answers
<1>2. Good(Abandoned(w, c.o), given) /\ Good(Released(w, c.o), given)
  BY OwnedAgain
<1>3. ASSUME NEW b \in Budgets(c), con' = Connected([b EXCEPT !.o = 0], "timeout"),
             Becomes(Abandoned(w, c.o))
      PROVE  Good(World, given)' /\ ConSound(con')
  <2>1. b \in ConCalls
    BY BudgetType
  <2>2. [b EXCEPT !.o = 0] \in ConCalls
    BY <2>1, EditType
  <2> QED
    BY <1>1, <1>2, <1>3, <2>2, ConnectedType, BecomesGood
<1>4. ASSUME NEW b \in Budgets(c), con' = [b EXCEPT !.at = "wait"], Becomes(w)
      PROVE  Good(World, given)' /\ ConSound(con')
  <2>1. b \in ConCalls /\ b.o \in Obj
    BY BudgetType
  <2> QED
    BY <1>4, <2>1, WaitType, BecomesGood
<1>5. CASE con' = Connected([c EXCEPT !.o = 0], "raise") /\ Becomes(Released(w, c.o))
  BY <1>1, <1>2, <1>5, ConnectedType, BecomesGood
<1> QED
  BY <1>3, <1>4, <1>5 DEF Await

LEMMA NoConnectType == NoConnect \in ConCalls
<1>1. 0 \in 0..MaxAddr /\ Never \in Int /\ Unknown \in Int /\ 0 \in Obj \union {0}
  BY SetupAssumption DEF Never, Unknown
<1> QED
  BY <1>1 DEF NoConnect, ConCalls, Answers

LEMMA StartConnectKeeps ==
  ASSUME SetupInv, NEW kind \in {"inet", "unix"}, NEW sec \in BOOLEAN, StartConnect(kind, sec)
  PROVE  SetupInv'
<1>1. PICK n \in 1..(IF kind = "unix" THEN 1 ELSE MaxAddr), a \in {"none", "error", "raise"} :
        LET e == IF sec THEN now + Sec ELSE IF kind = "unix" THEN Never ELSE now + Preset
            c == [NoConnect EXCEPT !.kind = kind, !.given = sec, !.todo = n, !.end = e] IN
        con' = IF a = "none" THEN [c EXCEPT !.at = "try"] ELSE Connected([c EXCEPT !.todo = 0], a)
  BY DEF StartConnect
<1> DEFINE e == IF sec THEN now + Sec ELSE IF kind = "unix" THEN Never ELSE now + Preset
           c == [NoConnect EXCEPT !.kind = kind, !.given = sec, !.todo = n, !.end = e]
<1>2. n \in 1..MaxAddr /\ n > 0 /\ e \in Int /\ 0 \in 0..MaxAddr
  BY SetupAssumption DEF SetupInv, Never
<1> HIDE DEF e
<1>3. c \in ConCalls /\ c.todo = n
  <2>1. ASSUME NEW d \in ConCalls, NEW m \in 0..MaxAddr, NEW x \in Int
        PROVE  /\ [d EXCEPT !.kind = kind, !.given = sec, !.todo = m, !.end = x] \in ConCalls
               /\ [d EXCEPT !.kind = kind, !.given = sec, !.todo = m, !.end = x].todo = m
    BY DEF ConCalls
  <2>2. n \in 0..MaxAddr
    BY <1>2, SetupAssumption
  <2> QED
    BY <1>2, <2>1, <2>2, NoConnectType
<1>4. con' = IF a = "none" THEN [c EXCEPT !.at = "try"] ELSE Connected([c EXCEPT !.todo = 0], a)
  BY <1>1 DEF e
<1> HIDE DEF c
<1>5. CASE a = "none"
  <2>1. /\ [c EXCEPT !.at = "try"] \in ConCalls /\ [c EXCEPT !.at = "try"].at = "try"
        /\ [c EXCEPT !.at = "try"].todo = c.todo
    BY <1>3 DEF ConCalls
  <2> QED
    BY <1>2, <1>3, <1>4, <1>5, <2>1, SameGood DEF ConSound, SetupInv, StartConnect, rest
<1>6. CASE a # "none"
  <2>1. ASSUME NEW t \in 0..MaxAddr PROVE [c EXCEPT !.todo = t] \in ConCalls
    BY <1>3 DEF ConCalls
  <2>2. [c EXCEPT !.todo = 0] \in ConCalls /\ a \in Answers
    BY <1>2, <2>1 DEF Answers
  <2> QED
    BY <1>4, <1>6, <2>2, ConnectedType, SameGood DEF SetupInv, StartConnect, rest
<1> QED
  BY <1>5, <1>6

LEMMA AttemptKeeps == ASSUME SetupInv, Attempt PROVE SetupInv'
<1> USE DEF rest
<1>1. con \in ConCalls /\ con.todo > 0 /\ con.todo \in 0..MaxAddr /\ given' = given
  BY DEF SetupInv, ConSound, Attempt, ConCalls
<1>2. {"timeout", "raise"} \subseteq Answers
  BY DEF Answers
<1>3. CASE Spent(con)
  <2>1. con' = Connected(con, "timeout") /\ UNCHANGED <<file, obj>>
    BY <1>3 DEF Attempt
  <2> QED
    BY <1>1, <1>2, <2>1, ConnectedType, SameGood DEF SetupInv, Attempt
<1>4. CASE ~Spent(con)
  <2> DEFINE t == con.todo - 1
             c == [con EXCEPT !.todo = t, !.o = Fresh]
  <2>1. PICK r \in ConnectOut(World) :
          CASE r.end = "failed" -> con' = Another([c EXCEPT !.err = TRUE]) /\ Becomes(r.w)
            [] r.end = "raise"  -> con' = Connected([c EXCEPT !.o = 0], "raise") /\ Becomes(r.w)
            [] r.end = "now"    -> Established(c, r.w)
            [] r.end = "again"  -> Await(c, r.w)
    BY <1>4 DEF Attempt
  <2>2. t \in 0..MaxAddr /\ Fresh \in Obj
    BY <1>1, FreshUnused, SetupAssumption DEF SetupInv
  <2> HIDE DEF t
  <2>3. c \in ConCalls /\ c.o = Fresh
    BY <1>1, <2>2 DEF ConCalls
  <2>4. [c EXCEPT !.err = TRUE] \in ConCalls /\ [c EXCEPT !.o = 0] \in ConCalls
    BY <2>3, EditType
  <2> HIDE DEF c
  <2>5. Good(r.w, given)
    BY ConnectOutGood DEF SetupInv
  <2>6. r.end \in {"failed", "raise", "now", "again"}
    BY DEF ConnectOut, NewSocket, Ends
  <2>7. Good(World, given)' /\ ConSound(con')
    <3>1. CASE r.end = "failed"
      <4>1. con' = Another([c EXCEPT !.err = TRUE]) /\ Becomes(r.w)
        BY <2>1, <3>1
      <4> QED
        BY <1>1, <2>4, <2>5, <4>1, AnotherType, BecomesGood
    <3>2. CASE r.end = "raise"
      <4>1. con' = Connected([c EXCEPT !.o = 0], "raise") /\ Becomes(r.w)
        BY <2>1, <3>2
      <4> QED
        BY <1>1, <1>2, <2>4, <2>5, <4>1, ConnectedType, BecomesGood
    <3>3. CASE r.end = "now"
      <4>1. Established(c, r.w)
        BY <2>1, <3>3
      <4> QED
        BY <1>1, <2>2, <2>3, <2>5, <4>1, EstablishedKeeps
    <3>4. CASE r.end = "again"
      <4>1. Await(c, r.w)
        BY <2>1, <3>4
      <4>2. now \in Int
        BY DEF SetupInv
      <4> QED
        BY <1>1, <2>2, <2>3, <2>5, <4>1, <4>2, AwaitKeeps
    <3> QED
      BY <2>6, <3>1, <3>2, <3>3, <3>4
  <2> QED
    BY <2>7 DEF SetupInv, Attempt
<1> QED
  BY <1>3, <1>4

LEMMA ResumeConnectKeeps ==
  ASSUME SetupInv, NEW how \in {"timeout", "error", "canceled", "ready"}, ResumeConnect(how)
  PROVE  SetupInv'
<1> DEFINE closed == Abandoned(World, con.o)
<1>1. con \in ConCalls /\ con.o \in Obj /\ given' = given /\ Good(World, given)
  BY DEF SetupInv, ConSound, ResumeConnect, rest
<1>2. Good(closed, given) /\ Good(Released(World, con.o), given)
  BY <1>1, OwnedAgain
<1>3. {"timeout", "raise"} \subseteq Answers /\ [con EXCEPT !.o = 0] \in ConCalls
      /\ [con EXCEPT !.err = TRUE] \in ConCalls
  BY <1>1, EditType DEF Answers
<1>4. \/ con' = Connected([con EXCEPT !.o = 0], "timeout") /\ Becomes(closed)
      \/ con' = Another([con EXCEPT !.err = TRUE]) /\ Becomes(closed)
      \/ con' = Another(con) /\ Becomes(closed)
      \/ Established(con, World)
      \/ con' = Connected([con EXCEPT !.o = 0], "raise") /\ Becomes(Released(World, con.o))
  <2>1. CASE how = "ready"
    <3>1. PICK v \in Verdicts(obj[con.o].fd) :
            CASE v = "up"    -> Established(con, World)
              [] v = "error" -> con' = Another([con EXCEPT !.err = TRUE]) /\ Becomes(closed)
              [] v = "raise" -> /\ con' = Connected([con EXCEPT !.o = 0], "raise")
                                /\ Becomes(Released(World, con.o))
      BY <2>1 DEF ResumeConnect
    <3>2. v \in {"up", "error", "raise"}
      BY DEF Verdicts
    <3> HIDE DEF closed
    <3> QED
      BY <3>1, <3>2
  <2>2. CASE how # "ready"
    BY <2>2 DEF ResumeConnect
  <2> QED
    BY <2>1, <2>2
<1> HIDE DEF closed
<1>5. Good(World, given)' /\ ConSound(con')
  BY <1>1, <1>2, <1>3, <1>4, ConnectedType, AnotherType, EstablishedKeeps, BecomesGood
<1> QED
  BY <1>5 DEF SetupInv, ResumeConnect, rest

LEMMA AcceptedType ==
  ASSUME NEW a \in AccCalls, NEW x \in Answers
  PROVE  /\ Accepted(a, x) \in AccCalls /\ [a EXCEPT !.at = "wait"] \in AccCalls
         /\ \A n \in Fd \union {NoFd} : HandsOver(a, n) \in AccCalls
<1>1. "ok" \in Answers
  BY DEF Answers
<1> QED
  BY <1>1 DEF Accepted, HandsOver, AccCalls

LEMMA AcceptOutType ==
  ASSUME queue \in 0..MaxQueue, NEW r \in AcceptOut
  PROVE  /\ queue - r.took \in 0..MaxQueue
         /\ r.end \in {"again", "failed", "ok"}
         /\ r.end = "ok" => r.n \in Fd /\ file[r.n] = "closed"
<1>1. CASE r \in {[n |-> NoFd, end |-> e, took |-> 0] : e \in {"again", "failed"}}
  <2>1. r.took = 0 /\ r.end \in {"again", "failed"}
    BY <1>1
  <2> QED
    BY <2>1
<1>2. CASE queue # 0 /\ r \in {[n |-> NoFd, end |-> e, took |-> 1] : e \in {"again", "failed"}}
  <2>1. r.took = 1 /\ r.end \in {"again", "failed"}
    BY <1>2
  <2> QED
    BY <1>2, <2>1, SetupAssumption
<1>3. CASE queue # 0 /\ r \in {[n |-> n, end |-> "ok", took |-> 1] : n \in Lowest(World)}
  <2>1. PICK n \in Lowest(World) : r = [n |-> n, end |-> "ok", took |-> 1]
    BY <1>3
  <2>2. n \in Fd /\ file[n] = "closed"
    BY LowestType DEF World
  <2>3. r.took = 1 /\ r.end = "ok" /\ r.n = n
    BY <2>1
  <2> QED
    BY <1>3, <2>2, <2>3, SetupAssumption
<1> QED
  BY <1>1, <1>2, <1>3 DEF AcceptOut

LEMMA ServedKeeps ==
  ASSUME NEW a \in AccCalls, NEW w, Good(w, given), NEW o \in Obj, Served(a, w, o), given' = given
  PROVE  Good(World, given)' /\ acc' \in AccCalls
<1>1. {"ok", "tls error", "raise"} \subseteq Answers
  BY DEF Answers
<1>2. Good(Abandoned(w, o), given) /\ Good(Released(w, o), given)
  BY OwnedAgain
<1>3. acc' \in AccCalls
  <2>1. w.obj[o].fd \in Fd \union {NoFd}
    BY DEF Good, Sound, Worlds, Object
  <2> QED
    BY <1>1, <2>1, AcceptedType DEF Served
<1>4. Good(World, given)'
  BY <1>2, BecomesGood DEF Served
<1> QED
  BY <1>3, <1>4

(* accept(2) gave a number: it goes to a new object. *)
LEMMA AcceptPut ==
  ASSUME Good(World, given), NEW n \in Fd, file[n] = "closed", NEW what \in {"sock", "guard"}
  PROVE  LET w == Put(Made(World, what), Fresh, n, "up") IN
         Good(w, given) /\ w.obj[Fresh].fd = n /\ Fresh \in Obj
<1> DEFINE v == Made(World, what)
<1>1. /\ Sound(v, given) /\ TidyBut(v, {Fresh}) /\ Fresh \in Obj
      /\ v.obj[Fresh].fd = NoFd /\ v.obj[Fresh].what # "free" /\ v.file = file
  BY MadeSound
<1> HIDE DEF v
<1>2. "up" \in State \ {"closed"}
  BY DEF State
<1>3. Good(Put(v, Fresh, n, "up"), given) /\ Put(v, Fresh, n, "up").obj[Fresh].fd = n
  BY <1>1, <1>2, PutGood
<1> QED
  BY <1>1, <1>3 DEF v

LEMMA GiveFdKeeps ==
  ASSUME Good(World, given), NEW a \in AccCalls, NEW r, r.n \in Fd, file[r.n] = "closed", GiveFd(a, r)
  PROVE  Good(World, given)' /\ acc' \in AccCalls
<1> DEFINE n == r.n
           guarded == Put(Made(World, "guard"), Fresh, n, "up")
<1>1. Good(guarded, given) /\ guarded.obj[Fresh].fd = n /\ Fresh \in Obj
  BY AcceptPut
<1>2. {"ok", "raise"} \subseteq Answers
  BY DEF Answers
<1>3. \/ /\ acc' = HandsOver(a, n) /\ file' = [file EXCEPT ![n] = "up"]
         /\ given' = given \union {n} /\ obj' = obj
      \/ acc' = Accepted(a, "raise") /\ Becomes(Released(guarded, Fresh)) /\ given' = given
      \/ acc' = HandsOver(a, n) /\ Becomes(Disarmed(guarded, Fresh)) /\ given' = given \union {n}
  BY DEF GiveFd
<1>4. acc' \in AccCalls
  BY <1>2, <1>3, AcceptedType
<1>5. Good(AtFd(World, n, "up"), given \union {n})
  BY GivenGood DEF World
<1>6. file' = [file EXCEPT ![n] = "up"] /\ obj' = obj => Becomes(AtFd(World, n, "up"))
  BY DEF Becomes, AtFd, World
<1> HIDE DEF guarded
<1>7. Good(Released(guarded, Fresh), given)
  BY <1>1, OwnedAgain
<1>8. Good(Disarmed(guarded, Fresh), given \union {n})
  BY <1>1, DisarmedGood, Ranges
<1>9. Good(World, given)'
  BY <1>3, <1>5, <1>6, <1>7, <1>8, BecomesGood
<1> QED
  BY <1>4, <1>9

LEMMA TurnKeeps ==
  ASSUME SetupInv, NEW a \in AccCalls, Turn(a) PROVE SetupInv'
<1>1. {"raise", "error", "timeout"} \subseteq Answers
  BY DEF Answers
<1>2. CASE acc' = Accepted(a, "raise") /\ UNCHANGED <<file, obj, given, queue>>
  <2>1. Good(World, given)' /\ acc' \in AccCalls
    BY <1>1, <1>2, AcceptedType, SameGood DEF SetupInv
  <2> QED
    BY <1>2, <2>1 DEF SetupInv, Turn
<1>3. ASSUME NEW r \in AcceptOut, queue' = queue - r.took,
             IF r.end = "ok" THEN (IF a.kind = "sock" THEN GiveSocket(a, r) ELSE GiveFd(a, r))
             ELSE /\ UNCHANGED <<file, obj, given>>
                  /\ acc' = IF r.end = "failed" THEN Accepted(a, "error")
                            ELSE IF Late(a) THEN Accepted(a, "timeout")
                            ELSE [a EXCEPT !.at = "wait"]
      PROVE  SetupInv'
  <2>1. queue' \in 0..MaxQueue /\ (r.end = "ok" => r.n \in Fd /\ file[r.n] = "closed")
    BY <1>3, AcceptOutType DEF SetupInv
  <2>2. Good(World, given)' /\ acc' \in AccCalls
    <3>1. CASE r.end = "ok" /\ a.kind = "sock"
      <4> DEFINE w == Put(Made(World, "sock"), Fresh, r.n, "up")
      <4>1. Good(w, given) /\ Fresh \in Obj
        BY <2>1, <3>1, AcceptPut DEF SetupInv
      <4>2. Served(a, w, Fresh) /\ given' = given
        BY <1>3, <3>1 DEF GiveSocket
      <4> HIDE DEF w
      <4> QED
        BY <4>1, <4>2, ServedKeeps
    <3>2. CASE r.end = "ok" /\ a.kind # "sock"
      BY <1>3, <2>1, <3>2, GiveFdKeeps DEF SetupInv
    <3>3. CASE r.end # "ok"
      <4>1. acc' \in {Accepted(a, "error"), Accepted(a, "timeout"), [a EXCEPT !.at = "wait"]}
        BY <1>3, <3>3
      <4>2. Good(World, given)'
        BY <1>3, <3>3, SameGood DEF SetupInv
      <4> QED
        BY <1>1, <4>1, <4>2, AcceptedType
    <3> QED
      BY <3>1, <3>2, <3>3
  <2> QED
    BY <2>1, <2>2 DEF SetupInv, Turn
<1> QED
  BY <1>2, <1>3 DEF Turn

LEMMA Times == ASSUME SetupInv PROVE now + Sec \in Int /\ Never \in Int
<1>1. now \in 0..MaxNow
  BY DEF SetupInv
<1> QED
  BY <1>1, SetupAssumption DEF Never

LEMMA NoAcceptType == NoAccept \in AccCalls
<1>1. Never \in Int
  BY DEF Never
<1>2. NoFd \in Fd \union {NoFd}
  OBVIOUS
<1> QED
  BY <1>1, <1>2 DEF NoAccept, AccCalls, Answers

LEMMA StartAcceptKeeps ==
  ASSUME SetupInv, NEW kind \in {"sock", "fd", "fd with address"}, NEW sec \in BOOLEAN,
         StartAccept(kind, sec)
  PROVE  SetupInv'
<1> DEFINE e == IF sec THEN now + Sec ELSE Never
           a == [NoAccept EXCEPT !.kind = kind, !.end = e]
<1>1. e \in Int
  BY Times
<1>2. Turn(a)
  BY DEF StartAccept
<1> HIDE DEF e
<1>3. a \in AccCalls
  BY <1>1, NoAcceptType DEF AccCalls
<1> HIDE DEF a
<1> QED
  BY <1>2, <1>3, TurnKeeps

LEMMA ResumeAcceptKeeps ==
  ASSUME SetupInv, NEW how, ResumeAccept(how) PROVE SetupInv'
<1>1. CASE how = "ready"
  BY <1>1, TurnKeeps DEF ResumeAccept, SetupInv
<1>2. CASE how # "ready"
  <2>1. {"timeout", "error"} \subseteq Answers
    BY DEF Answers
  <2>2. /\ acc' \in {Accepted(acc, "timeout"), Accepted(acc, "error")}
        /\ UNCHANGED <<file, obj, given, con, queue, now>>
    BY <1>2 DEF ResumeAccept
  <2>3. acc' \in AccCalls
    BY <2>1, <2>2, AcceptedType DEF SetupInv
  <2> QED
    BY <2>2, <2>3, SameGood DEF SetupInv
<1> QED
  BY <1>1, <1>2

-------------------------------------------------------------------------------
(* The program, the collector, and the world around.                       *)

LEMMA ReturnKeeps == ASSUME SetupInv, Return PROVE SetupInv'
<1>1. ConSound([NoConnect EXCEPT !.at = "over"])
  <2>1. [NoConnect EXCEPT !.at = "over"] \in ConCalls /\ [NoConnect EXCEPT !.at = "over"].at = "over"
    BY NoConnectType DEF ConCalls
  <2> QED
    BY <2>1 DEF ConSound
<1>2. [NoAccept EXCEPT !.at = "over"] \in AccCalls
  BY NoAcceptType DEF AccCalls
<1>3. ConSound(con') /\ acc' \in AccCalls
  BY <1>1, <1>2 DEF Return, SetupInv
<1> QED
  BY <1>3, SameGood DEF Return, SetupInv

LEMMA ObjectKeeps ==
  ASSUME SetupInv, NEW o \in Obj, Close(o) \/ Drop(o) \/ Collect(o) PROVE SetupInv'
<1>1. Good(World, given)
  BY DEF SetupInv
<1>2. /\ Good(Abandoned(World, o), given) /\ Good(Released(World, o), given)
      /\ Good(AtObj(Finalized(World, o), o, Blank), given)
  BY <1>1, OwnedAgain, FinalizedGood
<1>3. UNCHANGED <<con, given, acc, queue, now>>
  BY DEF Close, Drop, Collect, rest
<1>4. Good(World, given)'
  BY <1>2, <1>3, BecomesGood DEF Close, Drop, Collect
<1> QED
  BY <1>3, <1>4 DEF SetupInv

LEMMA NumberKeeps ==
  ASSUME SetupInv, NEW n \in Fd, CloseGiven(n) \/ Settle(n) PROVE SetupInv'
<1>1. UNCHANGED <<con, acc, queue, now, obj>>
  BY DEF CloseGiven, Settle
<1>2. \A s : file' = [file EXCEPT ![n] = s] => Becomes(AtFd(World, n, s))
  BY <1>1 DEF Becomes, AtFd, World
<1>3. CASE CloseGiven(n)
  <2>1. Good(AtFd(World, n, "closed"), given \ {n})
    BY <1>3, GivenGood DEF CloseGiven, SetupInv
  <2>2. Good(World, given)'
    BY <1>2, <1>3, <2>1, BecomesGood DEF CloseGiven
  <2> QED
    BY <1>1, <2>2 DEF SetupInv
<1>4. CASE Settle(n)
  <2>1. PICK s \in {"up", "failed"} : file' = [file EXCEPT ![n] = s]
    BY <1>4 DEF Settle
  <2>2. s \in State \ {"closed"} /\ World.file[n] # "closed" /\ Sound(World, given)
    BY <1>4 DEF State, Settle, World, SetupInv, Good
  <2>3. Sound(AtFd(World, n, s), given)
    BY <2>2, StateSound
  <2>4. AtFd(World, n, s).obj = World.obj
    BY DEF AtFd
  <2>5. Good(AtFd(World, n, s), given)
    BY <2>3, <2>4 DEF Good, TidyBut, SetupInv
  <2>6. Good(World, given)'
    BY <1>2, <1>4, <2>1, <2>5, BecomesGood DEF Settle
  <2> QED
    BY <1>1, <2>6 DEF SetupInv
<1> QED
  BY <1>3, <1>4

(* socketpair(2): two objects, then two numbers, or none. *)
LEMMA PairKeeps == ASSUME SetupInv, Pair PROVE SetupInv'
<1> DEFINE x == [what |-> "sock", fd |-> NoFd, held |-> TRUE]
<1>1. PICK o \in Unused, p \in Unused, made \in BOOLEAN, n \in Fd, m \in Fd :
        /\ o < p
        /\ LET w == AtObj(AtObj(World, o, x), p, x) IN
           IF made THEN /\ n \in Lowest(w) /\ m \in Lowest(Put(w, o, n, "up"))
                        /\ Becomes(Put(Put(w, o, n, "up"), p, m, "up"))
           ELSE Becomes(Released(Released(w, o), p))
  BY DEF Pair
<1> DEFINE u == AtObj(World, o, x)
           w == AtObj(u, p, x)
<1>2. Sound(World, given) /\ TidyBut(World, {}) /\ World \in Worlds /\ given' = given
  BY DEF SetupInv, Good, Sound, Pair, rest
<1>3. o \in Obj /\ p \in Obj /\ o # p /\ World.obj[o].fd = NoFd /\ World.obj[p].fd = NoFd
  <2>1. o \in Obj /\ p \in Obj /\ o # p /\ World.obj[o].what = "free" /\ World.obj[p].what = "free"
    <3>1. o \in Obj /\ p \in Obj /\ obj[o].what = "free" /\ obj[p].what = "free"
      BY DEF Unused
    <3>2. o # p
      <4>1. o \in Nat /\ p \in Nat /\ o < p
        BY <1>1, <3>1, Ranges
      <4> QED
        BY <4>1
    <3> QED
      BY <3>1, <3>2 DEF World
  <2>2. World.obj[o] = Blank /\ World.obj[p] = Blank
    BY <1>2, <2>1 DEF Sound
  <2> QED
    BY <2>1, <2>2, Ranges
<1>4. x \in Object /\ x.fd = NoFd /\ x.what # "free"
  BY DEF Object
<1> HIDE DEF x
<1>5. /\ Sound(u, given) /\ u.obj[o] = x /\ u \in Worlds
      /\ \A q \in Obj \ {o} : u.obj[q] = World.obj[q]
  BY <1>2, <1>3, <1>4, EmptySound, AtObjType
<1> HIDE DEF u
<1>6. Sound(w, given) /\ w.obj[p] = x /\ \A q \in Obj \ {p} : w.obj[q] = u.obj[q]
  <2>1. u.obj[p].fd = NoFd
    BY <1>3, <1>5
  <2> QED
    BY <1>3, <1>4, <1>5, <2>1, EmptySound, AtObjType
<1>7. w.obj[o] = x /\ TidyBut(w, {o, p})
  BY <1>2, <1>3, <1>5, <1>6 DEF TidyBut
<1>8. IF made THEN /\ n \in Lowest(w) /\ m \in Lowest(Put(w, o, n, "up"))
                   /\ Becomes(Put(Put(w, o, n, "up"), p, m, "up"))
      ELSE Becomes(Released(Released(w, o), p))
  BY <1>1 DEF u
<1> HIDE DEF w
<1>9. CASE made
  <2> DEFINE v == Put(w, o, n, "up")
  <2>1. "up" \in State \ {"closed"} /\ w.file[n] = "closed" /\ v.file[m] = "closed"
    BY <1>8, <1>9, LowestType DEF State
  <2>2. /\ Sound(v, given) /\ v.obj[o].fd = n
        /\ \A q \in Obj \ {o} : v.obj[q] = w.obj[q]
    BY <1>3, <1>4, <1>6, <1>7, <2>1, PutSound
  <2> HIDE DEF v
  <2>3. v.obj[p].fd = NoFd /\ v.obj[p].what # "free" /\ TidyBut(v, {p})
    BY <1>3, <1>4, <1>6, <1>7, <2>2, Ranges DEF TidyBut
  <2>4. Good(Put(v, p, m, "up"), given)
    BY <1>3, <2>1, <2>2, <2>3, PutGood
  <2>5. Becomes(Put(v, p, m, "up"))
    BY <1>8, <1>9 DEF v
  <2>6. Good(World, given)'
    BY <1>2, <2>4, <2>5, BecomesGood
  <2> QED
    BY <2>6 DEF SetupInv, Pair, rest
<1>10. CASE ~made
  <2> DEFINE v == AtObj(w, o, Blank)
  <2>1. Released(w, o) = v
    BY <1>4, <1>7 DEF Released
  <2>2. w \in Worlds
    BY <1>6 DEF Sound
  <2>3. Sound(v, given) /\ v.obj[o] = Blank /\ \A q \in Obj \ {o} : v.obj[q] = w.obj[q]
    BY <1>3, <1>4, <1>6, <1>7, <2>2, EmptySound, AtObjType, Ranges
  <2> HIDE DEF v
  <2>4. TidyBut(v, {p})
    BY <1>7, <2>3, Ranges DEF TidyBut
  <2>5. Good(Released(v, p), given)
    BY <1>3, <2>3, <2>4, ReleasedGood
  <2>6. Good(World, given)'
    BY <1>2, <1>8, <1>10, <2>1, <2>5, BecomesGood
  <2> QED
    BY <2>6 DEF SetupInv, Pair, rest
<1> QED
  BY <1>9, <1>10

LEMMA InitSetup == Init => SetupInv
<1> SUFFICES ASSUME Init PROVE SetupInv
  OBVIOUS
<1>1. "closed" \in State
  BY DEF State
<1>2. World \in Worlds /\ World.file = file /\ World.obj = obj
  BY <1>1, Ranges DEF Init, World, Worlds
<1>3. Good(World, given)
  BY <1>2, Ranges DEF Init, Good, Sound, TidyBut
<1>4. ConSound(con)
  <2>1. con = NoConnect /\ NoConnect.at = "idle"
    BY DEF Init, NoConnect
  <2> QED
    BY <2>1, NoConnectType DEF ConSound
<1>5. acc \in AccCalls /\ queue \in 0..MaxQueue /\ now \in 0..MaxNow
  BY NoAcceptType, SetupAssumption DEF Init
<1> QED
  BY <1>3, <1>4, <1>5 DEF SetupInv

LEMMA NextSetup == SetupInv /\ [Next]_vars => SetupInv'
<1> SUFFICES ASSUME SetupInv, [Next]_vars PROVE SetupInv'
  OBVIOUS
<1>1. ASSUME NEW kind \in {"inet", "unix"}, NEW sec \in BOOLEAN, StartConnect(kind, sec)
      PROVE  SetupInv'
  BY <1>1, StartConnectKeeps
<1>2. ASSUME NEW kind \in {"sock", "fd", "fd with address"}, NEW sec \in BOOLEAN,
             StartAccept(kind, sec)
      PROVE  SetupInv'
  BY <1>2, StartAcceptKeeps
<1>3. CASE Attempt
  BY <1>3, AttemptKeeps
<1>4. ASSUME NEW o \in Obj, Close(o) \/ Drop(o) \/ Collect(o) PROVE SetupInv'
  BY <1>4, ObjectKeeps
<1>5. ASSUME NEW n \in Fd, CloseGiven(n) \/ Settle(n) PROVE SetupInv'
  BY <1>5, NumberKeeps
<1>6. CASE Pair
  BY <1>6, PairKeeps
<1>7. CASE Return
  BY <1>7, ReturnKeeps
<1>8. CASE Arrive
  <2>1. queue' \in 0..MaxQueue
    BY <1>8, SetupAssumption DEF Arrive, SetupInv
  <2> QED
    BY <1>8, <2>1, SameGood DEF Arrive, SetupInv
<1>9. CASE Tick
  <2>1. now' \in 0..MaxNow
    BY <1>9, SetupAssumption DEF Tick, SetupInv
  <2> QED
    BY <1>9, <2>1, SameGood DEF Tick, SetupInv
<1>10. CASE ConnectReady \/ ConnectTimer \/ ConnectCut
  BY <1>10, ResumeConnectKeeps DEF ConnectReady, ConnectTimer, ConnectCut, Cuts
<1>11. CASE AcceptReady \/ AcceptTimer \/ AcceptCut
  BY <1>11, ResumeAcceptKeeps DEF AcceptReady, AcceptTimer, AcceptCut
<1>12. CASE UNCHANGED vars
  BY <1>12, SameGood DEF vars, SetupInv
<1> QED
  BY <1>1, <1>2, <1>3, <1>4, <1>5, <1>6, <1>7, <1>8, <1>9, <1>10, <1>11, <1>12 DEF Next

-------------------------------------------------------------------------------
(* The worlds stay good: what is open is owned once, what is owned is      *)
(* open, and an object without a number is unused, through every failure   *)
(* of the constructors (socket.c) and the loops (lib/stream/inet.lua).     *)
THEOREM SetupInvariant == Spec => []SetupInv
<1>1. Init => SetupInv
  BY InitSetup
<1>2. SetupInv /\ [Next]_vars => SetupInv'
  BY NextSetup
<1> QED
  BY <1>1, <1>2, PTL DEF Spec

(* The owners of a number: as many as it is open, in all. *)
LEMMA CountOwners ==
  ASSUME SetupInv, NEW n \in Fd
  PROVE  Cardinality({o \in Obj : obj[o].fd = n}) + (IF n \in given THEN 1 ELSE 0)
           = (IF file[n] = "closed" THEN 0 ELSE 1)
<1> DEFINE H == {o \in Obj : obj[o].fd = n}
<1>1. Sound(World, given) /\ World.obj = obj /\ World.file = file
  BY DEF SetupInv, Good, World
<1> SUFFICES Cardinality(H) + (IF n \in given THEN 1 ELSE 0) = (IF file[n] = "closed" THEN 0 ELSE 1)
  OBVIOUS
<1>2. Cardinality({}) = 0
  BY FS_EmptySet
<1>3. CASE H = {}
  <2>1. n \in given <=> file[n] # "closed"
    BY <1>1, <1>3 DEF Sound
  <2>2. Cardinality(H) = 0
    BY <1>2, <1>3
  <2>3. (IF n \in given THEN 1 ELSE 0) = (IF file[n] = "closed" THEN 0 ELSE 1)
    BY <2>1
  <2>4. (IF file[n] = "closed" THEN 0 ELSE 1) \in Nat
    OBVIOUS
  <2> HIDE DEF H
  <2> QED
    BY <2>2, <2>3, <2>4
<1>4. CASE H # {}
  <2>1. PICK o \in Obj : obj[o].fd = n
    BY <1>4
  <2>2. n # NoFd
    BY Ranges
  <2>3. \A p \in Obj : obj[p].fd = n => p = o
    BY <1>1, <2>1, <2>2 DEF Sound
  <2>4. H = {o}
    BY <2>1, <2>3
  <2>5. file[n] # "closed" /\ n \notin given
    BY <1>1, <2>1, <2>2 DEF Sound
  <2>6. Cardinality(H) = 1
    BY <2>4, FS_Singleton
  <2>7. (IF n \in given THEN 1 ELSE 0) = 0 /\ (IF file[n] = "closed" THEN 0 ELSE 1) = 1
    BY <2>5
  <2> HIDE DEF H
  <2> QED
    BY <2>6, <2>7
<1> QED
  BY <1>3, <1>4

(* Every open descriptor has exactly one owner, a socket, a guard or the   *)
(* program, and nobody holds the number of a closed one (accept_lua,       *)
(* acceptfd_lua, pair_lua, new_net_socket, lib/stream/inet.lua).           *)
THEOREM OwnerIsAlwaysOne == Spec => []OneOwner
<1>1. SetupInv => OneOwner
  <2> SUFFICES ASSUME SetupInv PROVE OneOwner
    OBVIOUS
  <2>1. World.file = file /\ World.obj = obj /\ World \in Worlds /\ given \subseteq Fd
    BY DEF SetupInv, Good, Sound, World
  <2>2. file \in [Fd -> State] /\ obj \in [Obj -> Object]
    BY <2>1 DEF Worlds
  <2>3. con.todo \in 0..MaxAddr /\ con.o \in Obj \union {0} /\ con.end \in Int /\ acc.end \in Int
    BY DEF SetupInv, ConSound, ConCalls, AccCalls
  <2>4. con.o \in 0..(MaxFd + 2)
    BY <2>3, SetupAssumption DEF Obj
  <2>5. TypeOK
    BY <2>1, <2>2, <2>3, <2>4 DEF TypeOK, State, Object, SetupInv
  <2> QED
    BY <2>5, CountOwners DEF OneOwner
<1> QED
  BY <1>1, SetupInvariant, PTL

-------------------------------------------------------------------------------
(* What connect and accept answer.                                         *)

(* The end of the budget of a connect, which started when the clock was 0. *)
Due(c) ==
  IF c.given THEN Sec
  ELSE IF c.kind = "unix" THEN Never ELSE IF c.kernel > 0 THEN c.kernel ELSE Preset

(* A connect has its one budget, or over a path none, and one that waits   *)
(* has a socket of its own.                                                *)
InTime(c) == c.at \in {"try", "wait"} => c.end = Due(c)
Holds(w, o) == w.obj[o].held /\ w.obj[o].fd # NoFd
WaitInv == InTime(con) /\ (con.at = "wait" => Holds(World, con.o))

(* The parts of AnswersTrue. *)
ConnectTrue ==
  (con'.at = "done" /\ con.at # "done") =>
     /\ con'.answer = "ok" => obj'[con'.o].held /\ file'[obj'[con'.o].fd] = "up"
     /\ con'.answer = "timeout" => \/ con'.kind = "unix" /\ ~con'.given
                                   \/ con'.end # Never /\ now >= con'.end
     /\ con'.answer \in {"error", "nothing"} => con'.todo = 0

(* Accept call a handed over a descriptor that was not there before.       *)
NewHands(a) ==
  /\ file[a.fd] = "closed" /\ file'[a.fd] = "up"
  /\ IF a.kind = "sock"
     THEN \E o \in Obj : /\ obj[o].what = "free"
                         /\ obj'[o] = [what |-> "sock", fd |-> a.fd, held |-> TRUE]
     ELSE a.fd \in given' \ given /\ \A o \in Obj : obj'[o].fd # a.fd

AcceptTrue ==
  (acc'.at = "done" /\ acc.at # "done") =>
     /\ acc'.answer = "timeout" => acc'.end # Never /\ now >= acc'.end
     /\ acc'.answer = "ok" => NewHands(acc')

(* A function changed no objects but those of P. *)
Touched(w, P) == DOMAIN w.obj = Obj /\ \A o \in Obj \ P : w.obj[o] = obj[o]

Aside(P) == \A o \in Obj \ P : obj'[o] = obj[o]

(* What is done to an object of P touches no other. *)
LEMMA TouchedAgain ==
  ASSUME NEW w, NEW P, Touched(w, P), NEW o \in P, NEW n, NEW s, NEW x
  PROVE  /\ Touched(AtFd(w, n, s), P) /\ Touched(AtObj(w, o, x), P)
         /\ Touched(Released(w, o), P) /\ Touched(Closed(w, o), P)
         /\ Touched(Put(w, o, n, s), P)
<1>1. \A v, m, t : Touched(v, P) => Touched(AtFd(v, m, t), P)
  BY DEF Touched, AtFd
<1>2. \A v, y : Touched(v, P) => Touched(AtObj(v, o, y), P)
  BY DEF Touched, AtObj
<1>3. Touched(Released(w, o), P)
  BY <1>2 DEF Released
<1>4. Touched(Closed(w, o), P)
  BY <1>1, <1>2 DEF Closed
<1>5. Touched(Put(w, o, n, s), P)
  BY <1>1, <1>2 DEF Put
<1> QED
  BY <1>1, <1>2, <1>3, <1>4, <1>5

(* Closing and giving up, too. *)
LEMMA TouchedThen ==
  ASSUME NEW w, NEW P, Touched(w, P), NEW o \in P
  PROVE  Touched(Abandoned(w, o), P) /\ Touched(Disarmed(w, o), P)
<1>1. Touched(Closed(w, o), P) /\ Touched(AtObj(w, o, [w.obj[o] EXCEPT !.fd = NoFd]), P)
  BY TouchedAgain
<1> QED
  BY <1>1, TouchedAgain DEF Abandoned, Disarmed

(* At first nothing is touched. *)
LEMMA TouchedNone == ASSUME SetupInv, NEW P PROVE Touched(World, P)
BY DEF SetupInv, Good, Sound, Worlds, World, Touched

LEMMA BecomesAside ==
  ASSUME NEW w, Becomes(w), NEW P, Touched(w, P) PROVE Aside(P)
BY DEF Becomes, Touched, Aside

(* A connect that waits goes on waiting, if its socket is not touched. *)
LEMMA Undisturbed ==
  ASSUME SetupInv, WaitInv, con' = con, NEW P, Aside(P), con.at = "wait" => con.o \notin P
  PROVE  WaitInv' /\ ConnectTrue
<1>1. con.at = "wait" => con.o \in Obj
  BY DEF SetupInv, ConSound
<1>2. World'.obj = obj' /\ World.obj = obj
  BY DEF World
<1>3. con.at = "wait" => Holds(World', con.o)
  BY <1>1, <1>2 DEF WaitInv, Holds, Aside
<1>4. InTime(con)'
  BY DEF WaitInv, InTime, Due
<1> QED
  BY <1>3, <1>4 DEF WaitInv, ConnectTrue

(* A socket that is made is held, with its number. *)
LEMMA NewSocketHeld ==
  ASSUME SetupInv, NEW r \in NewSocket(World), r.end = "ok"
  PROVE  Holds(r.w, Fresh) /\ r.w.obj[Fresh].fd \in Fd /\ DOMAIN r.w.file = Fd
<1>1. PICK n \in Lowest(World) : r = Ends(Put(Made(World, "sock"), Fresh, n, "fresh"), "ok")
  BY DEF NewSocket, Ends
<1>2. n \in Fd /\ Fresh \in Obj /\ n # NoFd
  BY FreshUnused, LowestType, Ranges DEF SetupInv
<1>3. DOMAIN World.obj = Obj /\ DOMAIN World.file = Fd
  BY DEF SetupInv, Good, Sound, Worlds
<1>4. r.w = Put(Made(World, "sock"), Fresh, n, "fresh")
  BY <1>1 DEF Ends
<1>5. r.w.obj[Fresh] = [what |-> "sock", fd |-> n, held |-> TRUE] /\ DOMAIN r.w.file = Fd
  BY <1>2, <1>3, <1>4 DEF Put, Made, AtObj, AtFd
<1> QED
  BY <1>2, <1>5 DEF Holds

(* A socket that is connected, or about to be, is held. *)
LEMMA ConnectOutHeld ==
  ASSUME SetupInv, NEW r \in ConnectOut(World), r.end \in {"now", "again"}
  PROVE  Holds(r.w, Fresh) /\ (r.end = "now" => r.w.file[r.w.obj[Fresh].fd] = "up")
<1>1. r \notin NewSocket(World)
  BY DEF NewSocket, Ends
<1>2. PICK m \in NewSocket(World) :
        /\ m.end = "ok"
        /\ \/ r = Ends(AtFd(m.w, m.w.obj[Fresh].fd, "up"), "now")
           \/ r = Ends(AtFd(m.w, m.w.obj[Fresh].fd, "pending"), "again")
           \/ r = Ends(Abandoned(m.w, Fresh), "failed")
           \/ r = Ends(Abandoned(m.w, Fresh), "raise")
  BY <1>1 DEF ConnectOut
<1>3. Holds(m.w, Fresh) /\ m.w.obj[Fresh].fd \in Fd /\ DOMAIN m.w.file = Fd
  BY <1>2, NewSocketHeld
<1>4. \/ r = Ends(AtFd(m.w, m.w.obj[Fresh].fd, "up"), "now")
      \/ r = Ends(AtFd(m.w, m.w.obj[Fresh].fd, "pending"), "again")
  BY <1>2 DEF Ends
<1> QED
  BY <1>3, <1>4 DEF Ends, AtFd, Holds

(* A call that is over says what it says. *)
LEMMA ConnectedSays ==
  ASSUME NEW c \in ConCalls, NEW a
  PROVE  /\ Connected(c, a).at = "done" /\ Connected(c, a).answer = a
         /\ Connected(c, a).todo = c.todo /\ Connected(c, a).o = c.o /\ Connected(c, a).end = c.end
         /\ Connected(c, a).kind = c.kind /\ Connected(c, a).given = c.given
BY DEF Connected, ConCalls

(* So does one that let its socket go. *)
LEMMA LeftSays ==
  ASSUME NEW c \in ConCalls, NEW a, NEW d, d = Connected([c EXCEPT !.o = 0], a)
  PROVE  /\ d.at = "done" /\ d.answer = a /\ d.todo = c.todo /\ d.end = c.end
         /\ d.kind = c.kind /\ d.given = c.given
<1>1. d = [[c EXCEPT !.o = 0] EXCEPT !.at = "done", !.answer = a]
  BY DEF Connected
<1> QED
  BY <1>1 DEF ConCalls

(* A connect that is over with a timeout had a budget and used it, or went *)
(* over a path and had none.                                               *)
LEMMA TimeoutTrue ==
  ASSUME NEW c \in ConCalls, c.end = Due(c), con'.at = "done", con'.answer = "timeout",
         con'.kind = c.kind, con'.given = c.given, con'.end = c.end,
         c.end = Never \/ now >= c.end
  PROVE  WaitInv' /\ ConnectTrue
<1>1. c.given \in BOOLEAN /\ c.kind \in {"inet", "unix"} /\ c.kernel \in Int
  BY DEF ConCalls
<1>2. (c.kind = "unix" /\ ~c.given) \/ Due(c) \in Nat
  BY <1>1, SetupAssumption DEF Due
<1>3. \A x \in Nat : x # Never
  BY DEF Never
<1> QED
  BY <1>2, <1>3 DEF WaitInv, InTime, ConnectTrue

(* Keeping an error changes nothing else. *)
LEMMA ErrorKeeps ==
  ASSUME NEW c \in ConCalls, NEW d, d = [c EXCEPT !.err = TRUE]
  PROVE  d \in ConCalls /\ d.end = c.end /\ d.kind = c.kind /\ Due(d) = Due(c)
BY DEF ConCalls, Due

(* A connection that stands is the caller's and up; without one there is   *)
(* another answer.                                                         *)
LEMMA EstablishedTrue ==
  ASSUME NEW c \in ConCalls, NEW w, Holds(w, c.o), w.file[w.obj[c.o].fd] = "up", Established(c, w)
  PROVE  WaitInv' /\ ConnectTrue
<1>1. CASE con' = Connected(c, "ok") /\ Becomes(w)
  <2>1. con'.at = "done" /\ con'.answer = "ok" /\ con'.o = c.o
    BY <1>1, ConnectedSays
  <2>2. obj'[con'.o].held /\ file'[obj'[con'.o].fd] = "up"
    BY <1>1, <2>1 DEF Holds, Becomes
  <2> QED
    BY <2>1, <2>2 DEF WaitInv, InTime, ConnectTrue
<1>2. ASSUME NEW a, a # "ok", a # "timeout", a # "error", a # "nothing",
             con' = Connected([c EXCEPT !.o = 0], a)
      PROVE  WaitInv' /\ ConnectTrue
  <2>1. con'.at = "done" /\ con'.answer = a
    BY <1>2, LeftSays
  <2> QED
    BY <1>2, <2>1 DEF WaitInv, InTime, ConnectTrue
<1>3. CASE con' = Connected([c EXCEPT !.o = 0], "tls error")
  BY <1>2, <1>3
<1>4. CASE con' = Connected([c EXCEPT !.o = 0], "raise")
  BY <1>2, <1>4
<1> QED
  BY <1>1, <1>3, <1>4 DEF Established

(* The next address has the same budget, and without one there is an       *)
(* error, or nothing.                                                      *)
LEMMA AnotherTrue ==
  ASSUME NEW c \in ConCalls, c.end = Due(c), con' = Another(c)
  PROVE  WaitInv' /\ ConnectTrue
<1>1. CASE c.todo > 0
  <2>1. con' = [c EXCEPT !.at = "try", !.o = 0]
    BY <1>1 DEF Another
  <2>2. /\ con'.at = "try" /\ con'.kind = c.kind /\ con'.end = c.end
        /\ con'.given = c.given /\ con'.kernel = c.kernel
    BY <2>1 DEF ConCalls
  <2> QED
    BY <2>2 DEF WaitInv, InTime, Due, ConnectTrue
<1>2. CASE ~(c.todo > 0)
  <2>1. PICK a \in {"error", "nothing"} : con' = Connected([c EXCEPT !.o = 0], a)
    BY <1>2 DEF Another
  <2>2. con'.at = "done" /\ con'.answer = a /\ con'.todo = c.todo
    BY <2>1, LeftSays
  <2>3. c.todo = 0
    BY <1>2, SetupAssumption DEF ConCalls
  <2> QED
    BY <2>2, <2>3 DEF WaitInv, InTime, ConnectTrue
<1> QED
  BY <1>1, <1>2

(* The timeout of the kernel counts from the start, and is asked for once. *)
LEMMA BudgetsDue ==
  ASSUME NEW c \in ConCalls, c.end = Due(c), now \in Int, NEW b \in Budgets(c)
  PROVE  b \in ConCalls /\ b.o = c.o /\ b.kind = c.kind /\ b.end = Due(b)
<1>1. b \in ConCalls /\ b.o = c.o
  BY BudgetType
<1>2. CASE b = c
  BY <1>1, <1>2
<1>3. ASSUME NEW k \in Kernel, b = Budgeted(c, k), c.kind = "inet", ~c.given, c.kernel = Unknown
      PROVE  b.kind = c.kind /\ b.end = Due(b)
  <2>1. k \in Nat /\ Preset \in Nat
    BY SetupAssumption
  <2>2. c.end = Preset
    BY <1>3 DEF Due, Unknown
  <2>3. CASE k > 0
    <3> DEFINE e == now + k - Elapsed(c)
    <3>1. e = k
      BY <2>1, <2>2 DEF Elapsed
    <3>2. b = [c EXCEPT !.kernel = k, !.end = e]
      BY <1>3, <2>3 DEF Budgeted
    <3> HIDE DEF e
    <3>3. b.kernel = k /\ b.end = e /\ b.kind = c.kind /\ b.given = c.given
      BY <3>2 DEF ConCalls
    <3> QED
      BY <1>3, <2>3, <3>1, <3>3 DEF Due
  <2>4. CASE ~(k > 0)
    <3>1. b = [c EXCEPT !.kernel = k]
      BY <1>3, <2>4 DEF Budgeted
    <3>2. b.kernel = k /\ b.end = c.end /\ b.kind = c.kind /\ b.given = c.given
      BY <3>1 DEF ConCalls
    <3> QED
      BY <1>3, <2>2, <2>4, <3>2 DEF Due
  <2> QED
    BY <2>3, <2>4
<1>4. b = c \/ /\ c.kind # "unix" /\ ~c.given /\ c.kernel = Unknown
               /\ \E k \in Kernel : b = Budgeted(c, k)
  BY DEF Budgets
<1>5. c.kind \in {"inet", "unix"}
  BY DEF ConCalls
<1> QED
  BY <1>1, <1>2, <1>3, <1>4, <1>5

(* A call waits for its own socket within its budget, or that is spent. *)
LEMMA AwaitTrue ==
  ASSUME NEW c \in ConCalls, c.end = Due(c), now \in Int,
         NEW w, Holds(w, c.o), Await(c, w)
  PROVE  WaitInv' /\ ConnectTrue
<1>1. ASSUME NEW b \in Budgets(c), Spent(b), con' = Connected([b EXCEPT !.o = 0], "timeout")
      PROVE  WaitInv' /\ ConnectTrue
  <2>1. b \in ConCalls
    BY BudgetType
  <2>2. con'.at = "done" /\ con'.answer = "timeout" /\ con'.end = b.end
    BY <1>1, <2>1, LeftSays
  <2>3. b.end = Due(b) /\ con'.kind = b.kind /\ con'.given = b.given
    BY <1>1, <2>1, BudgetsDue, LeftSays
  <2>4. now >= b.end
    BY <1>1 DEF Spent
  <2> QED
    BY <2>1, <2>2, <2>3, <2>4, TimeoutTrue
<1>2. ASSUME NEW b \in Budgets(c), con' = [b EXCEPT !.at = "wait"], Becomes(w)
      PROVE  WaitInv' /\ ConnectTrue
  <2>1. b \in ConCalls /\ b.o = c.o /\ b.end = Due(b)
    BY BudgetsDue
  <2>2. /\ con'.at = "wait" /\ con'.o = b.o /\ con'.kind = b.kind /\ con'.end = b.end
        /\ con'.given = b.given /\ con'.kernel = b.kernel
    BY <1>2, <2>1 DEF ConCalls
  <2>3. InTime(con)'
    BY <2>1, <2>2 DEF InTime, Due
  <2>4. Holds(World', con'.o)
    BY <1>2, <2>1, <2>2 DEF Holds, World, Becomes
  <2> QED
    BY <2>2, <2>3, <2>4 DEF WaitInv, ConnectTrue
<1>3. CASE con' = Connected([c EXCEPT !.o = 0], "raise")
  <2>1. con'.at = "done" /\ con'.answer = "raise"
    BY <1>3, LeftSays
  <2> QED
    BY <2>1 DEF WaitInv, InTime, ConnectTrue
<1> QED
  BY <1>1, <1>2, <1>3 DEF Await

-------------------------------------------------------------------------------
(* The steps of connect. *)

(* The first budget is the caller's, or the default, from the clock's 0. *)
LEMMA StartConnectTrue ==
  ASSUME SetupInv, NEW kind \in {"inet", "unix"}, NEW sec \in BOOLEAN, StartConnect(kind, sec)
  PROVE  WaitInv' /\ ConnectTrue
<1> DEFINE e == IF sec THEN now + Sec ELSE IF kind = "unix" THEN Never ELSE now + Preset
<1>1. PICK n \in 1..(IF kind = "unix" THEN 1 ELSE MaxAddr), a \in {"none", "error", "raise"} :
        LET c == [NoConnect EXCEPT !.kind = kind, !.given = sec, !.todo = n, !.end = e] IN
        con' = IF a = "none" THEN [c EXCEPT !.at = "try"] ELSE Connected([c EXCEPT !.todo = 0], a)
  BY DEF StartConnect
<1>2. e = IF sec THEN Sec ELSE IF kind = "unix" THEN Never ELSE Preset
  BY SetupAssumption DEF StartConnect
<1> HIDE DEF e
<1> DEFINE c == [NoConnect EXCEPT !.kind = kind, !.given = sec, !.todo = n, !.end = e]
<1>3. /\ c \in ConCalls /\ c.kind = kind /\ c.given = sec /\ c.end = e
      /\ c.kernel = Unknown
  <2>1. ASSUME NEW d \in ConCalls, NEW m \in 0..MaxAddr, NEW x \in Int
        PROVE  LET f == [d EXCEPT !.kind = kind, !.given = sec, !.todo = m, !.end = x] IN
               /\ f \in ConCalls /\ f.kind = kind /\ f.given = sec /\ f.end = x
               /\ f.kernel = d.kernel
    BY DEF ConCalls
  <2>2. n \in 0..MaxAddr /\ e \in Int
    BY <1>2, SetupAssumption DEF Never
  <2>3. NoConnect \in ConCalls
    BY NoConnectType
  <2>4. NoConnect.kernel = Unknown
    BY DEF NoConnect
  <2> HIDE DEF c
  <2>5. /\ c \in ConCalls /\ c.kind = kind /\ c.given = sec /\ c.end = e
        /\ c.kernel = NoConnect.kernel
    <3>1. \A m \in 0..MaxAddr, x \in Int :
            LET f == [NoConnect EXCEPT !.kind = kind, !.given = sec, !.todo = m, !.end = x] IN
            /\ f \in ConCalls /\ f.kind = kind /\ f.given = sec /\ f.end = x
            /\ f.kernel = NoConnect.kernel
      BY <2>1, <2>3
    <3>2. LET f == [NoConnect EXCEPT !.kind = kind, !.given = sec, !.todo = n, !.end = e] IN
          /\ f \in ConCalls /\ f.kind = kind /\ f.given = sec /\ f.end = e
          /\ f.kernel = NoConnect.kernel
      BY <2>2, <3>1
    <3> QED
      BY <3>2 DEF c
  <2> QED
    BY <2>4, <2>5
<1>4. con' = IF a = "none" THEN [c EXCEPT !.at = "try"] ELSE Connected([c EXCEPT !.todo = 0], a)
  BY <1>1
<1> HIDE DEF c
<1>5. CASE a = "none"
  <2>1. /\ con'.at = "try" /\ con'.kind = kind /\ con'.end = e
        /\ con'.given = sec /\ con'.kernel = Unknown
    BY <1>3, <1>4, <1>5 DEF ConCalls
  <2>2. InTime(con)'
    BY <1>2, <2>1 DEF InTime, Due, Unknown
  <2> QED
    BY <2>1, <2>2 DEF WaitInv, ConnectTrue
<1>6. CASE a # "none"
  <2>1. con'.at = "done" /\ con'.answer = a /\ con'.todo = 0
    BY <1>3, <1>4, <1>6, SetupAssumption DEF Connected, ConCalls
  <2> QED
    BY <1>6, <2>1 DEF WaitInv, InTime, ConnectTrue
<1> QED
  BY <1>5, <1>6

(* An attempt keeps the budget, whatever becomes of it. *)
LEMMA AttemptTrue ==
  ASSUME SetupInv, WaitInv, Attempt
  PROVE  WaitInv' /\ ConnectTrue
<1>1. con \in ConCalls /\ con.at = "try" /\ con.end = Due(con) /\ now \in Int
  BY DEF SetupInv, ConSound, Attempt, WaitInv, InTime
<1>2. CASE Spent(con)
  <2>1. con' = Connected(con, "timeout")
    BY <1>2 DEF Attempt
  <2>2. /\ con'.at = "done" /\ con'.answer = "timeout" /\ con'.end = con.end
        /\ con'.kind = con.kind /\ con'.given = con.given
    BY <1>1, <2>1, ConnectedSays
  <2>3. now >= con.end
    BY <1>2 DEF Spent
  <2> QED
    BY <1>1, <2>2, <2>3, TimeoutTrue
<1>3. CASE ~Spent(con)
  <2> DEFINE t == con.todo - 1
             c == [con EXCEPT !.todo = t, !.o = Fresh]
  <2>1. PICK r \in ConnectOut(World) :
          CASE r.end = "failed" -> con' = Another([c EXCEPT !.err = TRUE]) /\ Becomes(r.w)
            [] r.end = "raise"  -> con' = Connected([c EXCEPT !.o = 0], "raise") /\ Becomes(r.w)
            [] r.end = "now"    -> Established(c, r.w)
            [] r.end = "again"  -> Await(c, r.w)
    BY <1>3 DEF Attempt
  <2>2. t \in 0..MaxAddr /\ Fresh \in Obj
    <3>1. con.todo \in 0..MaxAddr /\ con.todo > 0
      BY <1>1 DEF SetupInv, ConSound, ConCalls
    <3> QED
      BY <3>1, FreshUnused, SetupAssumption DEF SetupInv
  <2> HIDE DEF t
  <2>3. /\ c \in ConCalls /\ c.o = Fresh /\ c.kind = con.kind /\ c.end = con.end
        /\ c.given = con.given /\ c.kernel = con.kernel
    BY <1>1, <2>2 DEF ConCalls
  <2>4. c \in ConCalls /\ c.end = Due(c)
    BY <1>1, <2>3 DEF Due
  <2> HIDE DEF c
  <2>5. r.end \in {"failed", "raise", "now", "again"}
    BY DEF ConnectOut, NewSocket, Ends
  <2>6. CASE r.end = "failed"
    <3>1. con' = Another([c EXCEPT !.err = TRUE])
      BY <2>1, <2>6
    <3> DEFINE d == [c EXCEPT !.err = TRUE]
    <3>2. d \in ConCalls /\ d.end = Due(d)
      BY <2>4, ErrorKeeps
    <3> HIDE DEF d
    <3>3. con' = Another(d)
      BY <3>1 DEF d
    <3> QED
      BY <3>2, <3>3, AnotherTrue
  <2>7. CASE r.end = "raise"
    <3>1. con' = Connected([c EXCEPT !.o = 0], "raise")
      BY <2>1, <2>7
    <3>2. con'.at = "done" /\ con'.answer = "raise"
      BY <2>4, <3>1, LeftSays
    <3> QED
      BY <3>2 DEF WaitInv, InTime, ConnectTrue
  <2>8. CASE r.end = "now"
    <3>1. Established(c, r.w)
      BY <2>1, <2>8
    <3>2. Holds(r.w, c.o) /\ r.w.file[r.w.obj[c.o].fd] = "up"
      BY <2>3, <2>8, ConnectOutHeld
    <3> QED
      BY <2>4, <3>1, <3>2, EstablishedTrue
  <2>9. CASE r.end = "again"
    <3>1. Await(c, r.w)
      BY <2>1, <2>9
    <3>2. Holds(r.w, c.o)
      BY <2>3, <2>9, ConnectOutHeld
    <3> QED
      BY <1>1, <2>4, <3>1, <3>2, AwaitTrue
  <2> QED
    BY <2>5, <2>6, <2>7, <2>8, <2>9
<1> QED
  BY <1>2, <1>3

(* A connect that was woken answers what woke it. *)
LEMMA ResumeConnectTrue ==
  ASSUME SetupInv, WaitInv, NEW how \in {"timeout", "error", "canceled", "ready"},
         ResumeConnect(how), how = "timeout" => con.end = Never \/ now >= con.end
  PROVE  WaitInv' /\ ConnectTrue
<1>1. /\ con \in ConCalls /\ con.at = "wait" /\ con.end = Due(con)
      /\ Holds(World, con.o)
  BY DEF SetupInv, ConSound, ResumeConnect, WaitInv, InTime
<1> DEFINE d == [con EXCEPT !.err = TRUE]
<1>2. d \in ConCalls /\ d.end = Due(d)
  BY <1>1, ErrorKeeps
<1>3. \/ how = "timeout" /\ con' = Connected([con EXCEPT !.o = 0], "timeout")
      \/ con' = Another(d)
      \/ con' = Another(con)
      \/ Established(con, World) /\ file[obj[con.o].fd] = "up"
      \/ con' = Connected([con EXCEPT !.o = 0], "raise")
  <2>1. CASE how = "ready"
    <3>1. PICK v \in Verdicts(obj[con.o].fd) :
            CASE v = "up"    -> Established(con, World)
              [] v = "error" -> con' = Another([con EXCEPT !.err = TRUE])
                                  /\ Becomes(Abandoned(World, con.o))
              [] v = "raise" -> /\ con' = Connected([con EXCEPT !.o = 0], "raise")
                                /\ Becomes(Released(World, con.o))
      BY <2>1 DEF ResumeConnect
    <3>2. v \in {"up", "error", "raise"} /\ (v = "up" => file[obj[con.o].fd] = "up")
      BY DEF Verdicts
    <3> QED
      BY <3>1, <3>2
  <2>2. CASE how # "ready"
    BY <2>2 DEF ResumeConnect
  <2> QED
    BY <2>1, <2>2
<1> HIDE DEF d
<1>4. CASE how = "timeout" /\ con' = Connected([con EXCEPT !.o = 0], "timeout")
  <2>1. /\ con'.at = "done" /\ con'.answer = "timeout" /\ con'.end = con.end
        /\ con'.kind = con.kind /\ con'.given = con.given
    BY <1>1, <1>4, LeftSays
  <2> QED
    BY <1>1, <1>4, <2>1, TimeoutTrue
<1>5. CASE con' = Another(d)
  BY <1>2, <1>5, AnotherTrue
<1>6. CASE con' = Another(con)
  BY <1>1, <1>6, AnotherTrue
<1>7. CASE Established(con, World) /\ file[obj[con.o].fd] = "up"
  <2>1. World.file[World.obj[con.o].fd] = "up"
    BY <1>7 DEF World
  <2> QED
    BY <1>1, <1>7, <2>1, EstablishedTrue
<1>8. CASE con' = Connected([con EXCEPT !.o = 0], "raise")
  <2>1. con'.at = "done" /\ con'.answer = "raise"
    BY <1>1, <1>8, LeftSays
  <2> QED
    BY <2>1 DEF WaitInv, InTime, ConnectTrue
<1> QED
  BY <1>3, <1>4, <1>5, <1>6, <1>7, <1>8

-------------------------------------------------------------------------------
(* The steps of accept, of the program and of the collector. *)

(* The socket of a connect that waits is not unused. *)
LEMMA NotFresh ==
  ASSUME SetupInv, WaitInv, con.at = "wait" PROVE con.o # Fresh
<1>1. obj[Fresh].fd = NoFd
  BY FreshUnused, Ranges DEF SetupInv
<1>2. obj[con.o].fd # NoFd
  BY DEF WaitInv, Holds, World
<1> QED
  BY <1>1, <1>2

(* What accept makes is new: nothing else is touched. *)
LEMMA TurnAside ==
  ASSUME SetupInv, NEW a, Turn(a) PROVE Aside({Fresh})
<1> DEFINE P == {Fresh}
<1>1. \A what : Touched(Made(World, what), P)
  BY TouchedNone, TouchedAgain DEF Made
<1> HIDE DEF P
<1>2. Fresh \in P
  BY DEF P
<1>3. \A n, what : Touched(Put(Made(World, what), Fresh, n, "up"), P)
  BY <1>1, <1>2, TouchedAgain
<1>4. ASSUME NEW r, GiveSocket(a, r) PROVE Aside(P)
  <2> DEFINE w == Put(Made(World, "sock"), Fresh, r.n, "up")
  <2>1. Touched(w, P)
    BY <1>3
  <2>2. Served(a, w, Fresh)
    BY <1>4 DEF GiveSocket
  <2> HIDE DEF w
  <2>3. Touched(Abandoned(w, Fresh), P) /\ Touched(Released(w, Fresh), P)
    BY <1>2, <2>1, TouchedAgain, TouchedThen
  <2> QED
    BY <2>1, <2>2, <2>3, BecomesAside DEF Served
<1>5. ASSUME NEW r, GiveFd(a, r) PROVE Aside(P)
  <2> DEFINE w == Put(Made(World, "guard"), Fresh, r.n, "up")
  <2>1. Touched(w, P)
    BY <1>3
  <2>2. UNCHANGED obj \/ Becomes(Released(w, Fresh)) \/ Becomes(Disarmed(w, Fresh))
    BY <1>5 DEF GiveFd
  <2> HIDE DEF w
  <2>3. Touched(Disarmed(w, Fresh), P) /\ Touched(Released(w, Fresh), P)
    BY <1>2, <2>1, TouchedAgain, TouchedThen
  <2> QED
    BY <2>2, <2>3, BecomesAside DEF Aside
<1>6. UNCHANGED obj => Aside(P)
  BY DEF Aside
<1> QED
  BY <1>4, <1>5, <1>6 DEF Turn, P

(* A number that is closed is nobody's. *)
LEMMA Unowned ==
  ASSUME SetupInv, NEW n \in Fd, file[n] = "closed"
  PROVE  n \notin given /\ \A o \in Obj : obj[o].fd # n
<1>1. Sound(World, given) /\ World.file = file /\ World.obj = obj
  BY DEF SetupInv, Good, World
<1>2. n # NoFd
  BY Ranges
<1> QED
  BY <1>1, <1>2 DEF Sound

(* The number accept(2) gave is in a new object, and no other is touched. *)
LEMMA PutNew ==
  ASSUME SetupInv, NEW n \in Fd, file[n] = "closed", NEW what \in {"sock", "guard"}
  PROVE  LET w == Put(Made(World, what), Fresh, n, "up") IN
         /\ Fresh \in Obj /\ obj[Fresh].what = "free" /\ w.file[n] = "up"
         /\ w.obj[Fresh] = [what |-> what, fd |-> n, held |-> TRUE]
         /\ DOMAIN w.obj = Obj /\ \A o \in Obj \ {Fresh} : w.obj[o] = obj[o]
<1> DEFINE x == [what |-> what, fd |-> NoFd, held |-> TRUE]
           y == [what |-> what, fd |-> n, held |-> TRUE]
           v == Made(World, what)
           w == Put(v, Fresh, n, "up")
<1>1. Fresh \in Obj /\ obj[Fresh].what = "free"
  BY FreshUnused DEF SetupInv
<1>2. DOMAIN obj = Obj /\ DOMAIN file = Fd
  BY DEF SetupInv, Good, Sound, Worlds, World
<1>3. v.file = file /\ v.obj = [obj EXCEPT ![Fresh] = x]
  BY DEF Made, AtObj, World
<1>4. [x EXCEPT !.fd = n] = y
  <2>1. \A z \in Object : [z EXCEPT !.fd = n] = [what |-> z.what, fd |-> n, held |-> z.held]
    BY DEF Object
  <2>2. x \in Object /\ x.what = what /\ x.held = TRUE
    BY DEF Object
  <2> HIDE DEF x
  <2> QED
    BY <2>1, <2>2
<1> HIDE DEF x, y, v
<1>5. v.obj[Fresh] = x /\ DOMAIN v.obj = Obj /\ \A o \in Obj \ {Fresh} : v.obj[o] = obj[o]
  BY <1>1, <1>2, <1>3
<1>6. w.file = [file EXCEPT ![n] = "up"] /\ w.obj = [v.obj EXCEPT ![Fresh] = y]
  BY <1>3, <1>4, <1>5 DEF Put, AtFd, AtObj
<1> HIDE DEF w
<1>7. w.file[n] = "up"
  BY <1>2, <1>6
<1>8. w.obj[Fresh] = y /\ DOMAIN w.obj = Obj /\ \A o \in Obj \ {Fresh} : w.obj[o] = obj[o]
  BY <1>1, <1>5, <1>6
<1> QED
  BY <1>1, <1>7, <1>8 DEF w, v, y

LEMMA HandsOverSays ==
  ASSUME NEW a \in AccCalls, NEW n, NEW x
  PROVE  /\ HandsOver(a, n).at = "done" /\ HandsOver(a, n).answer = "ok"
         /\ HandsOver(a, n).fd = n /\ HandsOver(a, n).kind = a.kind
         /\ Accepted(a, x).answer = x /\ Accepted(a, x).end = a.end
BY DEF HandsOver, Accepted, AccCalls

(* A socket that is handed over is new and the caller's. *)
LEMMA SocketTrue ==
  ASSUME SetupInv, NEW a \in AccCalls, a.kind = "sock", NEW r, r.n \in Fd,
         file[r.n] = "closed", GiveSocket(a, r)
  PROVE  AcceptTrue
<1> DEFINE n == r.n
           w == Put(Made(World, "sock"), Fresh, n, "up")
<1>1. /\ Fresh \in Obj /\ obj[Fresh].what = "free" /\ w.file[n] = "up"
      /\ w.obj[Fresh] = [what |-> "sock", fd |-> n, held |-> TRUE]
  BY PutNew
<1>2. Served(a, w, Fresh)
  BY DEF GiveSocket
<1> HIDE DEF w
<1>3. w.obj[Fresh].fd = n
  BY <1>1
<1>4. CASE acc' = HandsOver(a, n) /\ Becomes(w)
  <2>1. acc'.answer = "ok" /\ acc'.fd = n /\ acc'.kind = "sock"
    BY <1>4, HandsOverSays
  <2>2. file'[n] = "up" /\ obj'[Fresh] = [what |-> "sock", fd |-> n, held |-> TRUE]
    BY <1>1, <1>4 DEF Becomes
  <2>3. file[acc'.fd] = "closed" /\ file'[acc'.fd] = "up"
    BY <2>1, <2>2
  <2>4. obj'[Fresh] = [what |-> "sock", fd |-> acc'.fd, held |-> TRUE]
    BY <2>1, <2>2
  <2>5. NewHands(acc')
    BY <1>1, <2>1, <2>3, <2>4 DEF NewHands
  <2> QED
    BY <2>1, <2>5 DEF AcceptTrue
<1>5. ASSUME NEW x \in {"tls error", "raise"}, acc' = Accepted(a, x) PROVE AcceptTrue
  BY <1>5, HandsOverSays DEF AcceptTrue
<1> QED
  BY <1>2, <1>3, <1>4, <1>5 DEF Served

(* A number that is handed over is the caller's, and no object has it. *)
LEMMA NumberTrue ==
  ASSUME SetupInv, NEW a \in AccCalls, a.kind # "sock", NEW r, r.n \in Fd,
         file[r.n] = "closed", GiveFd(a, r)
  PROVE  AcceptTrue
<1> DEFINE n == r.n
           w == Put(Made(World, "guard"), Fresh, n, "up")
<1>1. /\ Fresh \in Obj /\ w.file[n] = "up" /\ DOMAIN w.obj = Obj
      /\ w.obj[Fresh] = [what |-> "guard", fd |-> n, held |-> TRUE]
      /\ \A o \in Obj \ {Fresh} : w.obj[o] = obj[o]
  BY PutNew
<1>2. \/ /\ acc' = HandsOver(a, n) /\ file' = [file EXCEPT ![n] = "up"]
         /\ given' = given \union {n} /\ obj' = obj
      \/ acc' = Accepted(a, "raise")
      \/ acc' = HandsOver(a, n) /\ Becomes(Disarmed(w, Fresh)) /\ given' = given \union {n}
  BY DEF GiveFd
<1> HIDE DEF w
<1>3. n \notin given /\ \A o \in Obj : obj[o].fd # n
  BY Unowned
<1>4. ASSUME acc' = HandsOver(a, n), given' = given \union {n}, file'[n] = "up",
             \A o \in Obj : obj'[o].fd # n
      PROVE  AcceptTrue
  <2>1. acc'.answer = "ok" /\ acc'.fd = n /\ acc'.kind # "sock"
    BY <1>4, HandsOverSays
  <2>2. n \in given' \ given
    BY <1>3, <1>4
  <2> HIDE DEF n
  <2>3. file[n] = "closed"
    BY DEF n
  <2>4. NewHands(acc')
    BY <1>4, <2>1, <2>2, <2>3 DEF NewHands
  <2> QED
    BY <2>1, <2>4 DEF AcceptTrue
<1>5. CASE /\ acc' = HandsOver(a, n) /\ file' = [file EXCEPT ![n] = "up"]
           /\ given' = given \union {n} /\ obj' = obj
  <2>1. file'[n] = "up"
    BY <1>5 DEF SetupInv, Good, Sound, Worlds, World
  <2> QED
    BY <1>3, <1>4, <1>5, <2>1
<1>6. CASE acc' = HandsOver(a, n) /\ Becomes(Disarmed(w, Fresh)) /\ given' = given \union {n}
  <2> DEFINE x == [w.obj[Fresh] EXCEPT !.fd = NoFd]
             v == AtObj(w, Fresh, x)
  <2>1. x.fd = NoFd
    BY <1>1
  <2> HIDE DEF x
  <2>2. v.file = w.file /\ v.obj = [w.obj EXCEPT ![Fresh] = x]
    BY DEF AtObj
  <2> HIDE DEF v
  <2>3. v.obj[Fresh] = x /\ DOMAIN v.obj = Obj /\ \A o \in Obj \ {Fresh} : v.obj[o] = obj[o]
    BY <1>1, <2>2
  <2>4. Disarmed(w, Fresh) = AtObj(v, Fresh, Blank)
    BY <2>1, <2>3 DEF Disarmed, Released, v, x
  <2>5. file' = w.file /\ obj' = [v.obj EXCEPT ![Fresh] = Blank]
    BY <1>6, <2>2, <2>4 DEF Becomes, AtObj
  <2>6. \A o \in Obj : obj'[o].fd # n
    BY <1>1, <1>3, <2>3, <2>5, Ranges
  <2> QED
    BY <1>1, <1>4, <1>6, <2>5, <2>6
<1>7. CASE acc' = Accepted(a, "raise")
  BY <1>7, HandsOverSays DEF AcceptTrue
<1> QED
  BY <1>2, <1>5, <1>6, <1>7

(* A turn reports a timeout only when it is late. *)
LEMMA TurnTrue ==
  ASSUME SetupInv, WaitInv, NEW a \in AccCalls, Turn(a)
  PROVE  WaitInv' /\ ConnectTrue /\ AcceptTrue
<1>1. WaitInv' /\ ConnectTrue
  <2>1. Aside({Fresh}) /\ con' = con
    BY TurnAside DEF Turn
  <2> QED
    BY <2>1, NotFresh, Undisturbed
<1>2. [a EXCEPT !.at = "wait"].at = "wait"
  BY DEF AccCalls
<1>3. \/ \E x \in {"raise", "error"} : acc' = Accepted(a, x)
      \/ acc' = Accepted(a, "timeout") /\ Late(a)
      \/ acc' = [a EXCEPT !.at = "wait"]
      \/ \E r \in AcceptOut : /\ r.end = "ok"
                              /\ IF a.kind = "sock" THEN GiveSocket(a, r) ELSE GiveFd(a, r)
  BY DEF Turn
<1>4. AcceptTrue
  <2>1. ASSUME NEW r \in AcceptOut, r.end = "ok",
               IF a.kind = "sock" THEN GiveSocket(a, r) ELSE GiveFd(a, r)
        PROVE  AcceptTrue
    <3>1. r.n \in Fd /\ file[r.n] = "closed"
      BY <2>1, AcceptOutType DEF SetupInv
    <3> QED
      BY <2>1, <3>1, SocketTrue, NumberTrue
  <2>2. ASSUME NEW x \in {"raise", "error"}, acc' = Accepted(a, x) PROVE AcceptTrue
    BY <2>2, HandsOverSays DEF AcceptTrue
  <2>3. CASE acc' = Accepted(a, "timeout") /\ Late(a)
    BY <2>3, HandsOverSays DEF AcceptTrue, Late
  <2>4. CASE acc' = [a EXCEPT !.at = "wait"]
    BY <1>2, <2>4 DEF AcceptTrue
  <2> QED
    BY <1>3, <2>1, <2>2, <2>3, <2>4
<1> QED
  BY <1>1, <1>4

LEMMA StartAcceptTrue ==
  ASSUME SetupInv, WaitInv, NEW kind \in {"sock", "fd", "fd with address"}, NEW sec \in BOOLEAN,
         StartAccept(kind, sec)
  PROVE  WaitInv' /\ ConnectTrue /\ AcceptTrue
<1> DEFINE e == IF sec THEN now + Sec ELSE Never
           a == [NoAccept EXCEPT !.kind = kind, !.end = e]
<1>1. e \in Int
  BY Times
<1>2. Turn(a)
  BY DEF StartAccept
<1> HIDE DEF e
<1>3. a \in AccCalls
  BY <1>1, NoAcceptType DEF AccCalls
<1> HIDE DEF a
<1> QED
  BY <1>2, <1>3, TurnTrue

(* Only a timer of its own ends an accept with a timeout. *)
LEMMA ResumeAcceptTrue ==
  ASSUME SetupInv, WaitInv, NEW how, ResumeAccept(how),
         how = "timeout" => acc.end = Never \/ Late(acc)
  PROVE  WaitInv' /\ ConnectTrue /\ AcceptTrue
<1>1. acc \in AccCalls
  BY DEF SetupInv
<1>2. CASE how = "ready"
  <2>1. Turn(acc)
    BY <1>2 DEF ResumeAccept
  <2> QED
    BY <1>1, <2>1, TurnTrue
<1>3. CASE how # "ready"
  <2>1. /\ acc' = Accepted(acc, IF how = "timeout" /\ acc.end # Never THEN "timeout" ELSE "error")
        /\ UNCHANGED <<obj, con>>
    BY <1>3 DEF ResumeAccept
  <2>2. WaitInv' /\ ConnectTrue
    <3>1. Aside({})
      BY <2>1 DEF Aside
    <3> QED
      BY <2>1, <3>1, Undisturbed
  <2>3. /\ acc'.answer = IF how = "timeout" /\ acc.end # Never THEN "timeout" ELSE "error"
        /\ acc'.end = acc.end
    BY <1>1, <2>1 DEF Accepted, AccCalls
  <2>4. AcceptTrue
    BY <2>3 DEF AcceptTrue, Late
  <2> QED
    BY <2>2, <2>4
<1> QED
  BY <1>2, <1>3

LEMMA ReturnTrue ==
  ASSUME SetupInv, WaitInv, Return PROVE WaitInv' /\ ConnectTrue /\ AcceptTrue
<1>1. AcceptTrue
  <2>1. [NoAccept EXCEPT !.at = "over"].at = "over"
    BY DEF NoAccept
  <2>2. acc' = [NoAccept EXCEPT !.at = "over"] \/ acc' = acc
    BY DEF Return
  <2> QED
    BY <2>1, <2>2 DEF AcceptTrue
<1>2. CASE con.at = "done"
  <2>1. con' = [NoConnect EXCEPT !.at = "over"]
    BY <1>2 DEF Return
  <2>2. con'.at = "over"
    BY <2>1 DEF NoConnect
  <2> QED
    BY <1>1, <2>2 DEF WaitInv, InTime, ConnectTrue
<1>3. CASE con.at # "done"
  <2>1. con' = con /\ Aside({})
    BY <1>3 DEF Return, Aside
  <2> QED
    BY <1>1, <2>1, Undisturbed
<1> QED
  BY <1>2, <1>3

(* The socket of a connect that waits is in use and held: the program does *)
(* not close it, nor does the collector take it.                           *)
LEMMA ObjectTrue ==
  ASSUME SetupInv, WaitInv, NEW o \in Obj, Close(o) \/ Drop(o) \/ Collect(o)
  PROVE  WaitInv' /\ ConnectTrue
<1> DEFINE P == {o}
<1>1. Touched(World, P)
  BY TouchedNone
<1> HIDE DEF P
<1>2. o \in P
  BY DEF P
<1>3. Touched(Abandoned(World, o), P) /\ Touched(Released(World, o), P) /\ Touched(Closed(World, o), P)
  BY <1>1, <1>2, TouchedAgain, TouchedThen
<1>4. Touched(AtObj(Finalized(World, o), o, Blank), P)
  BY <1>2, <1>3, TouchedAgain DEF Finalized
<1>5. Aside(P)
  BY <1>3, <1>4, BecomesAside DEF Close, Drop, Collect
<1>6. con' = con
  BY DEF Close, Drop, Collect
<1>7. con.at = "wait" => con.o \notin P
  BY DEF Close, Drop, Collect, InUse, WaitInv, Holds, World, P
<1> QED
  BY <1>5, <1>6, <1>7, Undisturbed

LEMMA PairTrue ==
  ASSUME SetupInv, WaitInv, Pair PROVE WaitInv' /\ ConnectTrue
<1> DEFINE x == [what |-> "sock", fd |-> NoFd, held |-> TRUE]
<1>1. PICK o \in Unused, p \in Unused, made \in BOOLEAN, n \in Fd, m \in Fd :
        LET w == AtObj(AtObj(World, o, x), p, x) IN
        IF made THEN Becomes(Put(Put(w, o, n, "up"), p, m, "up"))
        ELSE Becomes(Released(Released(w, o), p))
  BY DEF Pair
<1> DEFINE w == AtObj(AtObj(World, o, x), p, x)
           P == {o, p}
<1>2. Touched(World, P) /\ o \in P /\ p \in P
  BY TouchedNone
<1>3. con.at = "wait" => con.o \notin P
  <2>1. \A q \in Unused : obj[q].fd = NoFd
    BY Ranges DEF SetupInv, Good, Sound, Unused, World
  <2> QED
    BY <2>1 DEF WaitInv, Holds, World
<1> HIDE DEF P, x
<1>4. Touched(AtObj(World, o, x), P)
  BY <1>2, TouchedAgain
<1>5. Touched(w, P)
  BY <1>2, <1>4, TouchedAgain
<1>6. IF made THEN Becomes(Put(Put(w, o, n, "up"), p, m, "up"))
      ELSE Becomes(Released(Released(w, o), p))
  BY <1>1 DEF x
<1> HIDE DEF w
<1>7. Touched(Put(w, o, n, "up"), P) /\ Touched(Released(w, o), P)
  BY <1>2, <1>5, TouchedAgain
<1>8. /\ Touched(Put(Put(w, o, n, "up"), p, m, "up"), P)
      /\ Touched(Released(Released(w, o), p), P)
  BY <1>2, <1>7, TouchedAgain
<1>9. Aside(P)
  BY <1>6, <1>8, BecomesAside
<1>10. con' = con
  BY DEF Pair
<1> QED
  BY <1>3, <1>9, <1>10, Undisturbed

(* Every step answers truly and keeps the waits as they should be. *)
LEMMA NextTrue ==
  SetupInv /\ WaitInv /\ [Next]_vars => WaitInv' /\ ConnectTrue /\ AcceptTrue
<1> SUFFICES ASSUME SetupInv, WaitInv, [Next]_vars PROVE WaitInv' /\ ConnectTrue /\ AcceptTrue
  OBVIOUS
<1>1. acc' = acc => AcceptTrue
  BY DEF AcceptTrue
<1>2. UNCHANGED <<obj, con>> => WaitInv' /\ ConnectTrue
  <2>1. UNCHANGED obj => Aside({})
    BY DEF Aside
  <2> QED
    BY <2>1, Undisturbed
<1>3. ASSUME NEW kind \in {"inet", "unix"}, NEW sec \in BOOLEAN, StartConnect(kind, sec)
      PROVE  WaitInv' /\ ConnectTrue /\ AcceptTrue
  BY <1>1, <1>3, StartConnectTrue DEF StartConnect, rest
<1>4. ASSUME NEW kind \in {"sock", "fd", "fd with address"}, NEW sec \in BOOLEAN,
             StartAccept(kind, sec)
      PROVE  WaitInv' /\ ConnectTrue /\ AcceptTrue
  BY <1>4, StartAcceptTrue
<1>5. CASE Attempt
  BY <1>1, <1>5, AttemptTrue DEF Attempt, rest
<1>6. ASSUME NEW o \in Obj, Close(o) \/ Drop(o) \/ Collect(o)
      PROVE  WaitInv' /\ ConnectTrue /\ AcceptTrue
  <2>1. acc' = acc
    BY <1>6 DEF Close, Drop, Collect, rest
  <2> QED
    BY <1>1, <1>6, <2>1, ObjectTrue
<1>7. ASSUME NEW n \in Fd, CloseGiven(n) \/ Settle(n)
      PROVE  WaitInv' /\ ConnectTrue /\ AcceptTrue
  BY <1>1, <1>2, <1>7 DEF CloseGiven, Settle
<1>8. CASE Pair
  BY <1>1, <1>8, PairTrue DEF Pair, rest
<1>9. CASE Return
  BY <1>9, ReturnTrue
<1>10. CASE Arrive \/ Tick \/ UNCHANGED vars
  BY <1>1, <1>2, <1>10 DEF Arrive, Tick, vars
<1>11. CASE ConnectReady \/ ConnectTimer \/ ConnectCut
  <2>1. PICK how \in {"timeout", "error", "canceled", "ready"} :
          ResumeConnect(how) /\ (how = "timeout" => con.end = Never \/ now >= con.end)
    BY <1>11 DEF ConnectReady, ConnectTimer, ConnectCut, Cuts
  <2>2. acc' = acc
    BY <2>1 DEF ResumeConnect, rest
  <2> QED
    BY <1>1, <2>1, <2>2, ResumeConnectTrue
<1>12. CASE AcceptReady \/ AcceptTimer \/ AcceptCut
  <2>1. PICK how \in {"timeout", "error", "canceled", "ready"} :
          ResumeAccept(how) /\ (how = "timeout" => acc.end = Never \/ Late(acc))
    BY <1>12 DEF AcceptReady, AcceptTimer, AcceptCut, Cuts
  <2> QED
    BY <2>1, ResumeAcceptTrue
<1> QED
  BY <1>3, <1>4, <1>5, <1>6, <1>7, <1>8, <1>9, <1>10, <1>11, <1>12 DEF Next

(* What connect and accept answer is true: what connect hands over is      *)
(* established and held, what accept hands over is established, new and    *)
(* either in a new socket the caller holds or a number nobody else has; a  *)
(* timeout means a budget that is used up, except from a connect over a    *)
(* path that has none; an error means that every address was tried, and    *)
(* the budget of a connect is counted from its start and never anew        *)
(* (lib/stream/inet.lua, lib/stream/unix.lua, lib/stream.lua, socket.c).   *)
THEOREM SetupAnswersTrue == Spec => AnswersTrue
<1> DEFINE Body ==
      /\ ConnectTrue
      /\ con'.at = "wait" =>
           con'.end = IF con'.given THEN Sec ELSE IF con'.kind = "unix" THEN Never
                      ELSE IF con'.kernel > 0 THEN con'.kernel ELSE Preset
      /\ AcceptTrue
<1>1. Init => WaitInv
  BY DEF Init, NoConnect, WaitInv, InTime
<1>2. SetupInv /\ WaitInv /\ [Next]_vars => WaitInv' /\ [Body]_vars
  <2>1. WaitInv' => (con'.at = "wait" =>
           con'.end = IF con'.given THEN Sec ELSE IF con'.kind = "unix" THEN Never
                      ELSE IF con'.kernel > 0 THEN con'.kernel ELSE Preset)
    BY DEF WaitInv, InTime, Due
  <2> QED
    BY <2>1, NextTrue
<1>3. [][Body]_vars => AnswersTrue
  BY DEF AnswersTrue, ConnectTrue, AcceptTrue, NewHands
<1> QED
  BY <1>1, <1>2, <1>3, SetupInvariant, PTL DEF Spec
===============================================================================
