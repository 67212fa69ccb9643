----------------------------- MODULE RightsProofs -----------------------------
(***************************************************************************)
(* Received descriptors have one owner and reach the program in order, for *)
(* every number of files, queues and control messages and every size of    *)
(* the arrays (scm_rights.c, and recvfd and recvmsg of socket.c).          *)
(***************************************************************************)
EXTENDS ScmRights, FiniteSetTheorems, SequenceTheorems, WellFoundedInduction, TLAPS

Held(f) == \E q \in Queue : \E i \in 1..Len(fds[q]) : fds[q][i] = f

(* No descriptor is in two slots. *)
SlotsOnce ==
  \A q, r \in Queue : \A i \in 1..Len(fds[q]), j \in 1..Len(fds[r]) :
    fds[q][i] = fds[r][j] => q = r /\ i = j

(* A descriptor is on its way, with the program, in a slot, or closed.     *)
Placed(f) ==
  /\ closed[f] \in {0, 1}
  /\ f \in flight => f \notin mine /\ ~Held(f) /\ closed[f] = 0
  /\ f \in mine => ~Held(f) /\ closed[f] = 0
  /\ Held(f) => closed[f] = 0
  /\ closed[f] = 0 => f \in flight \/ f \in mine \/ Held(f)

(* A call has a queue of its own, and a queue that nobody uses is empty.   *)
CallInv ==
  /\ call \in [todo : Seq(Lists \union {Other}), owner : SUBSET Queue, data : Seq(Queue)]
  /\ call = NoCall \/ \E o \in Queue : call.owner = {o} /\ qst[o] = "call"
  /\ \A q \in Queue : qst[q] = "free" => fds[q] = <<>>

Typed ==
  /\ flight \subseteq File /\ mine \subseteq File /\ closed \in [File -> Nat]
  /\ qst \in [Queue -> {"free", "call", "held", "garbage"}]
  /\ fds \in [Queue -> Seq(File)] /\ \A q \in Queue : Len(fds[q]) <= MaxFd
  /\ part \in [Queue -> Seq(File)] /\ taken \in [Queue -> Seq(File)]

(* The inductive invariant. *)
RightsInv == Typed /\ CallInv /\ SlotsOnce /\ \A f \in File : Placed(f)

-------------------------------------------------------------------------------
(* A list the kernel delivers is a sequence of different files. *)
LEMMA ListType ==
  ASSUME NEW l \in Lists PROVE l \in Seq(File) /\ Injective(l) /\ DOMAIN l = 1..Len(l)
<1>1. Cardinality(File) \in Nat
  BY RightsAssumption, FS_CardinalityType
<1>2. PICK m \in 0..Cardinality(File) : l \in [1..m -> File]
  BY DEF Lists, SeqOf
<1>3. m \in Nat
  BY <1>1, <1>2
<1>4. l \in Seq(File)
  BY <1>2, <1>3
<1> QED
  BY <1>4 DEF Lists

(* All the descriptors of a message are such a list. *)
LEMMA MessageType ==
  ASSUME NEW m \in Messages PROVE Rights(m) \in Lists /\ m \in Seq(Lists \union {Other})
<1>1. PICK n \in 0..MaxCmsg : m \in [1..n -> Lists \union {Other}]
  BY DEF Messages, SeqOf
<1>2. n \in Nat
  BY <1>1, RightsAssumption
<1>3. m \in Seq(Lists \union {Other})
  BY <1>1, <1>2
<1> QED
  BY <1>3 DEF Messages

(* What a queue keeps of a list, and what does not fit. *)
LEMMA FilledKeeps ==
  ASSUME NEW l \in Lists
  PROVE  LET k == IF Fits(l) THEN Len(l) ELSE MaxFd IN
         /\ k \in Nat /\ k <= MaxFd /\ k <= Len(l)
         /\ Filled(l) \in Seq(File) /\ Len(Filled(l)) = k
         /\ \A i \in 1..k : Filled(l)[i] = l[k + 1 - i]
         /\ ToSet(Excess(l)) = {l[i] : i \in (k + 1)..Len(l)}
<1> DEFINE k == IF Fits(l) THEN Len(l) ELSE MaxFd
<1>1. l \in Seq(File) /\ Len(l) \in Nat
  BY ListType
<1>2. k \in Nat /\ k <= MaxFd /\ k <= Len(l)
  BY <1>1, RightsAssumption DEF Fits
<1>3. Kept(l) = SubSeq(l, 1, k)
  BY DEF Kept
<1> HIDE DEF k
<1>4. Kept(l) \in Seq(File) /\ Len(Kept(l)) = k /\ \A i \in 1..k : Kept(l)[i] = l[i]
  BY <1>1, <1>2, <1>3
<1>5. Filled(l) = [i \in 1..k |-> Kept(l)[k - i + 1]]
  BY <1>4 DEF Filled, Reverse
<1>6. \A i \in 1..k : k - i + 1 \in 1..k /\ k - i + 1 = k + 1 - i
  BY <1>2
<1>7. \A i \in 1..k : Filled(l)[i] = l[k + 1 - i] /\ Filled(l)[i] \in File
  BY <1>1, <1>2, <1>4, <1>5, <1>6
<1>8. Filled(l) \in [1..k -> File]
  BY <1>5, <1>7
<1>9. Filled(l) \in Seq(File) /\ Len(Filled(l)) = k
  BY <1>2, <1>8
<1>10. ToSet(Excess(l)) = {l[i] : i \in (k + 1)..Len(l)}
  <2>1. CASE Fits(l)
    <3>1. k = Len(l) /\ Len(l) <= MaxFd
      BY <2>1 DEF k, Fits
    <3>2. Excess(l) = <<>>
      BY <1>1, <3>1, RightsAssumption DEF Excess
    <3>3. (k + 1)..Len(l) = {}
      BY <1>1, <3>1
    <3> QED
      BY <3>2, <3>3 DEF ToSet
  <2>2. CASE ~Fits(l)
    <3>1. k = MaxFd /\ Len(l) > MaxFd
      BY <1>1, <2>2, RightsAssumption DEF k, Fits
    <3>2. /\ Excess(l) \in Seq(File) /\ Len(Excess(l)) = Len(l) - k
          /\ \A i \in 1..(Len(l) - k) : Excess(l)[i] = l[k + i]
      BY <1>1, <1>2, <3>1 DEF Excess
    <3>3. DOMAIN Excess(l) = 1..(Len(l) - k)
      BY <3>2
    <3>4. ASSUME NEW i \in (k + 1)..Len(l) PROVE i - k \in 1..(Len(l) - k) /\ k + (i - k) = i
      BY <1>1, <1>2
    <3>5. ASSUME NEW i \in 1..(Len(l) - k) PROVE k + i \in (k + 1)..Len(l)
      BY <1>1, <1>2
    <3> QED
      BY <3>2, <3>3, <3>4, <3>5 DEF ToSet
  <2> QED
    BY <2>1, <2>2
<1> QED
  BY <1>2, <1>7, <1>9, <1>10 DEF k

(* What closing a set of descriptors counts. *)
LEMMA CloseAllCounts ==
  ASSUME Typed, NEW S PROVE
    /\ CloseAll(S) \in [File -> Nat]
    /\ \A f \in File : CloseAll(S)[f] = IF f \in S THEN closed[f] + 1 ELSE closed[f]
BY DEF Typed, CloseAll

(* The elements of a sequence. *)
LEMMA ToSetElements ==
  ASSUME NEW S, NEW s \in Seq(S) PROVE ToSet(s) = {s[i] : i \in 1..Len(s)}
BY DEF ToSet

(* The kernel's descriptors go into an empty queue; what does not fit is   *)
(* closed.                                                                 *)
LEMMA FillKeeps ==
  ASSUME RightsInv, NEW q \in Queue, fds[q] = <<>>, NEW l \in Lists, ToSet(l) \subseteq flight,
         flight' = flight \ ToSet(l), fds' = [fds EXCEPT ![q] = Filled(l)],
         closed' = CloseAll(ToSet(Excess(l))), mine' = mine
  PROVE  /\ SlotsOnce' /\ \A f \in File : Placed(f)'
         /\ fds' \in [Queue -> Seq(File)] /\ \A r \in Queue : Len(fds'[r]) <= MaxFd
         /\ closed' \in [File -> Nat] /\ flight' \subseteq File
<1> DEFINE k == IF Fits(l) THEN Len(l) ELSE MaxFd
<1>1. /\ k \in Nat /\ k <= MaxFd /\ k <= Len(l)
      /\ Filled(l) \in Seq(File) /\ Len(Filled(l)) = k
      /\ \A i \in 1..k : Filled(l)[i] = l[k + 1 - i]
      /\ ToSet(Excess(l)) = {l[i] : i \in (k + 1)..Len(l)}
  BY FilledKeeps
<1>2. l \in Seq(File) /\ Len(l) \in Nat /\ (\A i, j \in 1..Len(l) : i # j => l[i] # l[j])
  BY ListType DEF Injective
<1>3. ToSet(l) = {l[i] : i \in 1..Len(l)}
  BY <1>2, ToSetElements
<1> HIDE DEF k
<1>4. fds' \in [Queue -> Seq(File)] /\ fds'[q] = Filled(l)
        /\ \A r \in Queue \ {q} : fds'[r] = fds[r]
  BY <1>1 DEF RightsInv, Typed
<1>5. \A i \in 1..k : k + 1 - i \in 1..k /\ k + 1 - i \in 1..Len(l)
  BY <1>1, <1>2
<1>6. ASSUME NEW i \in 1..k PROVE Filled(l)[i] \in flight /\ Filled(l)[i] \in ToSet(l)
  BY <1>1, <1>3, <1>5
<1>7. \A r \in Queue : \A i \in 1..Len(fds[r]) : fds[r][i] \notin flight
  BY DEF RightsInv, Placed, Held, Typed
<1>8. SlotsOnce'
  <2> SUFFICES ASSUME NEW r \in Queue, NEW u \in Queue, NEW i \in 1..Len(fds'[r]),
                      NEW j \in 1..Len(fds'[u]), fds'[r][i] = fds'[u][j]
               PROVE  r = u /\ i = j
    BY DEF SlotsOnce
  <2>1. CASE r = q /\ u = q
    <3>1. i \in 1..k /\ j \in 1..k
      BY <1>1, <1>4, <2>1
    <3>2. l[k + 1 - i] = l[k + 1 - j]
      BY <1>1, <1>4, <2>1, <3>1
    <3>3. k + 1 - i = k + 1 - j
      BY <1>2, <1>5, <3>1, <3>2
    <3> QED
      BY <1>1, <2>1, <3>1, <3>3
  <2>2. CASE r = q /\ u # q
    BY <1>1, <1>4, <1>6, <1>7, <2>2
  <2>3. CASE r # q /\ u = q
    BY <1>1, <1>4, <1>6, <1>7, <2>3
  <2>4. CASE r # q /\ u # q
    BY <1>4, <2>4 DEF RightsInv, SlotsOnce
  <2> QED
    BY <2>1, <2>2, <2>3, <2>4
<1>9. /\ closed' \in [File -> Nat]
      /\ \A f \in File : closed'[f] = IF f \in ToSet(Excess(l)) THEN closed[f] + 1 ELSE closed[f]
  BY CloseAllCounts DEF RightsInv
<1>10. ASSUME NEW f \in File PROVE Held(f)' <=> Held(f) \/ \E i \in 1..k : Filled(l)[i] = f
  <2>1. ASSUME NEW r \in Queue, NEW i \in 1..Len(fds'[r]), fds'[r][i] = f
        PROVE  Held(f) \/ \E j \in 1..k : Filled(l)[j] = f
    BY <1>1, <1>4, <2>1 DEF Held
  <2>2. ASSUME NEW r \in Queue, NEW i \in 1..Len(fds[r]), fds[r][i] = f
        PROVE  Held(f)'
    <3>1. r # q
      BY <2>2
    <3> QED
      BY <1>4, <2>2, <3>1 DEF Held
  <2>3. ASSUME NEW i \in 1..k, Filled(l)[i] = f PROVE Held(f)'
    BY <1>1, <1>4, <2>3 DEF Held
  <2> QED
    BY <2>1, <2>2, <2>3 DEF Held
<1>11. ASSUME NEW f \in File PROVE Placed(f)'
  <2>1. Placed(f)
    BY DEF RightsInv
  <2>2. CASE f \notin ToSet(l)
    <3>1. f \notin ToSet(Excess(l))
      <4>1. \A i \in (k + 1)..Len(l) : i \in 1..Len(l)
        BY <1>1, <1>2
      <4> QED
        BY <1>1, <1>3, <2>2, <4>1
    <3>2. Held(f)' <=> Held(f)
      BY <1>6, <1>10, <2>2
    <3> QED
      BY <1>9, <2>1, <2>2, <3>1, <3>2 DEF Placed
  <2>3. CASE f \in ToSet(l)
    <3>1. f \in flight /\ closed[f] = 0 /\ f \notin mine /\ ~Held(f) /\ f \notin flight'
      BY <2>1, <2>3 DEF Placed
    <3>2. PICK i \in 1..Len(l) : f = l[i]
      BY <1>3, <2>3
    <3>3. CASE i <= k
      <4>1. k + 1 - i \in 1..k /\ Filled(l)[k + 1 - i] = l[i]
        <5>1. k + 1 - i \in 1..k /\ k + 1 - (k + 1 - i) = i
          BY <1>1, <3>2, <3>3
        <5> QED
          BY <1>1, <5>1
      <4>2. Held(f)'
        BY <1>10, <3>2, <4>1
      <4>3. f \notin ToSet(Excess(l))
        <5>1. \A j \in (k + 1)..Len(l) : j \in 1..Len(l) /\ j # i
          BY <1>1, <1>2, <3>3
        <5> QED
          BY <1>1, <1>2, <3>2, <5>1
      <4> QED
        BY <1>9, <3>1, <4>2, <4>3 DEF Placed
    <3>4. CASE i > k
      <4>1. f \in ToSet(Excess(l))
        <5>1. i \in (k + 1)..Len(l)
          BY <1>1, <1>2, <3>2, <3>4
        <5> QED
          BY <1>1, <3>2, <5>1
      <4>2. ASSUME NEW j \in 1..k PROVE Filled(l)[j] # f
        <5>1. k + 1 - j \in 1..Len(l) /\ k + 1 - j # i
          BY <1>1, <1>2, <1>5, <3>4
        <5> QED
          BY <1>1, <1>2, <3>2, <5>1
      <4>3. ~Held(f)'
        BY <1>10, <3>1, <4>2
      <4> QED
        BY <1>9, <3>1, <4>1, <4>3 DEF Placed
    <3> QED
      BY <1>1, <1>2, <3>2, <3>3, <3>4
  <2> QED
    BY <2>2, <2>3
<1>12. \A r \in Queue : Len(fds'[r]) <= MaxFd
  BY <1>1, <1>4 DEF RightsInv, Typed
<1> QED
  BY <1>4, <1>8, <1>9, <1>11, <1>12 DEF RightsInv, Typed

(* A queue closes all it has. *)
LEMMA DiscardKeeps ==
  ASSUME RightsInv, NEW q \in Queue, fds' = [fds EXCEPT ![q] = <<>>],
         closed' = CloseAll(ToSet(fds[q])), UNCHANGED <<flight, mine>>
  PROVE  /\ SlotsOnce' /\ \A f \in File : Placed(f)'
         /\ fds' \in [Queue -> Seq(File)] /\ \A r \in Queue : Len(fds'[r]) <= MaxFd
         /\ closed' \in [File -> Nat]
<1>1. /\ fds' \in [Queue -> Seq(File)] /\ fds'[q] = <<>>
      /\ \A r \in Queue \ {q} : fds'[r] = fds[r]
  BY DEF RightsInv, Typed
<1>2. /\ closed' \in [File -> Nat]
      /\ \A f \in File : closed'[f] = IF f \in ToSet(fds[q]) THEN closed[f] + 1 ELSE closed[f]
  BY CloseAllCounts DEF RightsInv
<1>3. ToSet(fds[q]) = {fds[q][i] : i \in 1..Len(fds[q])}
  BY ToSetElements DEF RightsInv, Typed
<1>4. ASSUME NEW r \in Queue, NEW i \in 1..Len(fds'[r])
      PROVE  r # q /\ fds'[r] = fds[r] /\ i \in 1..Len(fds[r])
  BY <1>1
<1>5. SlotsOnce'
  BY <1>4 DEF SlotsOnce, RightsInv
<1>6. ASSUME NEW f \in File PROVE Placed(f)'
  <2>1. Placed(f)
    BY DEF RightsInv
  <2>2. CASE f \in ToSet(fds[q])
    <3>1. PICK j \in 1..Len(fds[q]) : fds[q][j] = f
      BY <1>3, <2>2
    <3>2. ~Held(f)'
      BY <1>4, <3>1 DEF Held, RightsInv, SlotsOnce
    <3>3. Held(f)
      BY <3>1 DEF Held
    <3> QED
      BY <1>2, <2>1, <2>2, <3>2, <3>3 DEF Placed
  <2>3. CASE f \notin ToSet(fds[q])
    <3>1. Held(f)' => Held(f)
      BY <1>4 DEF Held
    <3>2. Held(f) => Held(f)'
      <4>1. ASSUME NEW r \in Queue, NEW i \in 1..Len(fds[r]), fds[r][i] = f PROVE Held(f)'
        <5>1. r # q
          BY <1>3, <2>3, <4>1
        <5> QED
          BY <1>1, <4>1, <5>1 DEF Held
      <4> QED
        BY <4>1 DEF Held
    <3> QED
      BY <1>2, <2>1, <2>3, <3>1, <3>2 DEF Placed
  <2> QED
    BY <2>2, <2>3
<1>7. \A r \in Queue : Len(fds'[r]) <= MaxFd
  BY <1>1, RightsAssumption DEF RightsInv, Typed
<1> QED
  BY <1>1, <1>2, <1>5, <1>6, <1>7

(* recvfd: all of a message, or none. *)
LEMMA RecvFdKeeps ==
  ASSUME RightsInv, NEW q \in Queue, NEW m \in Messages, RecvFd(q, m) PROVE RightsInv'
<1> DEFINE l == Rights(m)
<1>1. l \in Lists /\ l \in Seq(File) /\ ToSet(l) \subseteq flight
  BY MessageType, ListType DEF RecvFd
<1>2. fds[q] = <<>> /\ qst[q] = "free"
  BY DEF RecvFd, RightsInv, CallInv
<1>3. call' = call /\ call = NoCall /\ taken' = taken /\ mine' = mine /\ flight' = flight \ ToSet(l)
  BY DEF RecvFd
<1> HIDE DEF l
<1>4. CASE /\ Fits(l)
           /\ qst' = [qst EXCEPT ![q] = IF l = <<>> THEN "garbage" ELSE "held"]
           /\ fds' = [fds EXCEPT ![q] = Filled(l)]
           /\ part' = [part EXCEPT ![q] = l]
           /\ closed' = closed
  <2>1. ToSet(Excess(l)) = {}
    <3>1. ToSet(Excess(l)) = {l[i] : i \in (Len(l) + 1)..Len(l)}
      BY <1>1, <1>4, FilledKeeps
    <3>2. (Len(l) + 1)..Len(l) = {}
      BY <1>1
    <3> QED
      BY <3>1, <3>2
  <2>2. closed' = CloseAll(ToSet(Excess(l)))
    BY <1>4, <2>1 DEF CloseAll, RightsInv, Typed
  <2>3. /\ SlotsOnce' /\ \A f \in File : Placed(f)'
        /\ fds' \in [Queue -> Seq(File)] /\ \A r \in Queue : Len(fds'[r]) <= MaxFd
        /\ closed' \in [File -> Nat] /\ flight' \subseteq File
    BY <1>1, <1>2, <1>3, <1>4, <2>2, FillKeeps
  <2>4. Typed'
    BY <1>1, <1>3, <1>4, <2>3 DEF RightsInv, Typed
  <2>5. CallInv'
    <3>1. \A r \in Queue : qst'[r] = "free" => r # q /\ qst[r] = "free"
      BY <1>4 DEF RightsInv, Typed
    <3>2. \A r \in Queue : qst'[r] = "free" => fds'[r] = <<>>
      BY <1>4, <3>1 DEF RightsInv, Typed, CallInv
    <3> QED
      BY <1>3, <3>2 DEF RightsInv, CallInv
  <2> QED
    BY <2>3, <2>4, <2>5 DEF RightsInv
<1>5. CASE /\ qst' = [qst EXCEPT ![q] = "garbage"]
           /\ closed' = CloseAll(ToSet(l))
           /\ UNCHANGED <<fds, part>>
  <2>1. /\ closed' \in [File -> Nat]
        /\ \A f \in File : closed'[f] = IF f \in ToSet(l) THEN closed[f] + 1 ELSE closed[f]
    BY <1>5, CloseAllCounts DEF RightsInv
  <2>2. SlotsOnce' /\ \A f \in File : Held(f)' = Held(f)
    BY <1>5 DEF RightsInv, SlotsOnce, Held
  <2>3. ASSUME NEW f \in File PROVE Placed(f)'
    BY <1>1, <1>3, <2>1, <2>2 DEF Placed, RightsInv
  <2>4. Typed'
    BY <1>3, <1>5, <2>1 DEF RightsInv, Typed
  <2>5. CallInv'
    BY <1>2, <1>3, <1>5 DEF RightsInv, Typed, CallInv
  <2> QED
    BY <2>2, <2>3, <2>4, <2>5 DEF RightsInv
<1> QED
  BY <1>4, <1>5 DEF RecvFd, l

(* recvmsg(2): also with descriptors that do not fit. *)
LEMMA RecvMsgKeeps ==
  ASSUME RightsInv, NEW q \in Queue, NEW m \in Messages, RecvMsg(q, m) PROVE RightsInv'
<1> DEFINE l == Rights(m)
<1>1. l \in Lists /\ l \in Seq(File) /\ ToSet(l) \subseteq flight
        /\ m \in Seq(Lists \union {Other})
  BY MessageType, ListType DEF RecvMsg
<1>2. fds[q] = <<>> /\ qst[q] = "free"
  BY DEF RecvMsg, RightsInv, CallInv
<1>3. /\ taken' = taken /\ part' = part /\ mine' = mine /\ flight' = flight \ ToSet(l)
      /\ fds' = [fds EXCEPT ![q] = Filled(l)] /\ closed' = CloseAll(ToSet(Excess(l)))
  BY DEF RecvMsg
<1>4. \/ /\ qst' = [qst EXCEPT ![q] = "call"]
         /\ call' = [todo |-> m, owner |-> {q}, data |-> <<>>]
      \/ /\ qst' = [qst EXCEPT ![q] = "garbage"]
         /\ call' = call /\ call = NoCall
  BY DEF RecvMsg
<1> HIDE DEF l
<1>5. /\ SlotsOnce' /\ \A f \in File : Placed(f)'
      /\ fds' \in [Queue -> Seq(File)] /\ \A r \in Queue : Len(fds'[r]) <= MaxFd
      /\ closed' \in [File -> Nat] /\ flight' \subseteq File
  BY <1>1, <1>2, <1>3, FillKeeps
<1>6. Typed'
  BY <1>3, <1>4, <1>5 DEF RightsInv, Typed
<1>7. CallInv'
  <2>1. \A r \in Queue : qst'[r] = "free" => fds'[r] = <<>>
    <3>1. \A r \in Queue : qst'[r] = "free" => r # q /\ qst[r] = "free"
      BY <1>4 DEF RightsInv, Typed
    <3> QED
      BY <1>3, <3>1 DEF RightsInv, Typed, CallInv
  <2>2. CASE /\ qst' = [qst EXCEPT ![q] = "call"]
             /\ call' = [todo |-> m, owner |-> {q}, data |-> <<>>]
    <3>1. call' \in [todo : Seq(Lists \union {Other}), owner : SUBSET Queue, data : Seq(Queue)]
      BY <1>1, <2>2
    <3>2. call'.owner = {q} /\ qst'[q] = "call"
      BY <2>2 DEF RightsInv, Typed
    <3> QED
      BY <2>1, <3>1, <3>2 DEF CallInv
  <2>3. CASE qst' = [qst EXCEPT ![q] = "garbage"] /\ call' = call /\ call = NoCall
    BY <2>1, <2>3 DEF RightsInv, CallInv
  <2> QED
    BY <1>4, <2>2, <2>3
<1> QED
  BY <1>5, <1>6, <1>7 DEF RightsInv

(* A call works on one queue of its own. *)
LEMMA OwnerOwns ==
  ASSUME RightsInv, call # NoCall
  PROVE  Owner \in Queue /\ call.owner = {Owner} /\ qst[Owner] = "call"
<1>1. PICK o \in Queue : call.owner = {o} /\ qst[o] = "call"
  BY DEF RightsInv, CallInv
<1>2. Owner = o
  <2>1. \A q \in Queue : call.owner = {q} => q = o
    BY <1>1
  <2>2. \E q \in Queue : call.owner = {q}
    BY <1>1
  <2> QED
    BY <2>1, <2>2 DEF Owner
<1> QED
  BY <1>1, <1>2

(* Splitting a list moves its end to another array. *)
LEMMA SplitMoves ==
  ASSUME NEW s \in Seq(File), NEW n \in Nat, n <= Len(s)
  PROVE  /\ SplitOff(s, n) \in Seq(File) /\ Len(SplitOff(s, n)) = n
         /\ \A i \in 1..n : SplitOff(s, n)[i] = s[Len(s) - n + i]
         /\ Remaining(s, n) \in Seq(File) /\ Len(Remaining(s, n)) = Len(s) - n
         /\ \A i \in 1..(Len(s) - n) : Remaining(s, n)[i] = s[i]
<1>1. Len(s) \in Nat /\ Len(s) - n \in Nat
  OBVIOUS
<1>2. /\ Remaining(s, n) \in Seq(File) /\ Len(Remaining(s, n)) = Len(s) - n
      /\ \A i \in 1..(Len(s) - n) : Remaining(s, n)[i] = s[i]
  BY <1>1 DEF Remaining
<1>3. /\ SplitOff(s, n) \in Seq(File) /\ Len(SplitOff(s, n)) = n
      /\ \A i \in 1..n : SplitOff(s, n)[i] = s[Len(s) - n + i]
  BY <1>1 DEF SplitOff
<1> QED
  BY <1>2, <1>3

(* A split takes descriptors from one queue and gives them to another.     *)
LEMMA SplitKeeps ==
  ASSUME RightsInv, NEW o \in Queue, NEW q \in Queue, o # q, fds[q] = <<>>,
         NEW n \in Nat, n <= Len(fds[o]),
         fds' = [fds EXCEPT ![q] = SplitOff(fds[o], n), ![o] = Remaining(@, n)],
         UNCHANGED <<flight, mine, closed>>
  PROVE  /\ SlotsOnce' /\ \A f \in File : Placed(f)'
         /\ fds' \in [Queue -> Seq(File)] /\ \A r \in Queue : Len(fds'[r]) <= MaxFd
<1> DEFINE s == fds[o]  k == Len(s) - n
<1>0. s = fds[o] /\ k = Len(s) - n
  OBVIOUS
<1>1. s \in Seq(File) /\ Len(s) \in Nat /\ k \in Nat /\ Len(s) <= MaxFd
  BY DEF RightsInv, Typed
<1>2. /\ SplitOff(s, n) \in Seq(File) /\ Len(SplitOff(s, n)) = n
      /\ \A i \in 1..n : SplitOff(s, n)[i] = s[k + i]
      /\ Remaining(s, n) \in Seq(File) /\ Len(Remaining(s, n)) = k
      /\ \A i \in 1..k : Remaining(s, n)[i] = s[i]
  BY <1>1, SplitMoves
<1>3. /\ fds' \in [Queue -> Seq(File)]
      /\ fds'[q] = SplitOff(s, n) /\ fds'[o] = Remaining(s, n)
      /\ \A r \in Queue \ {o, q} : fds'[r] = fds[r]
  BY <1>2 DEF RightsInv, Typed
<1> HIDE DEF s, k
<1> DEFINE From(r) == IF r = q THEN o ELSE r
           At(r, i) == IF r = q THEN k + i ELSE i
<1>4. ASSUME NEW r \in Queue, NEW i \in 1..Len(fds'[r])
      PROVE  /\ From(r) \in Queue /\ At(r, i) \in 1..Len(fds[From(r)])
             /\ fds'[r][i] = fds[From(r)][At(r, i)]
             /\ r = o => At(r, i) <= k
             /\ r = q => At(r, i) > k
  <2>1. CASE r = q
    <3>1. i \in 1..n /\ k + i \in 1..Len(s) /\ k + i > k
      BY <1>0, <1>1, <1>2, <1>3, <2>1
    <3> QED
      BY <1>0, <1>2, <1>3, <2>1, <3>1
  <2>2. CASE r = o
    <3>1. i \in 1..k /\ i \in 1..Len(s) /\ i <= k
      BY <1>0, <1>1, <1>2, <1>3, <2>2
    <3> QED
      BY <1>0, <1>2, <1>3, <2>2, <3>1
  <2>3. CASE r # q /\ r # o
    BY <1>3, <2>3
  <2> QED
    BY <2>1, <2>2, <2>3
<1>5. SlotsOnce'
  <2> SUFFICES ASSUME NEW r \in Queue, NEW u \in Queue, NEW i \in 1..Len(fds'[r]),
                      NEW j \in 1..Len(fds'[u]), fds'[r][i] = fds'[u][j]
               PROVE  r = u /\ i = j
    BY DEF SlotsOnce
  <2>1. i \in Int /\ j \in Int
    BY <1>3
  <2> HIDE DEF From, At
  <2>0. /\ From(r) \in Queue /\ At(r, i) \in 1..Len(fds[From(r)])
        /\ From(u) \in Queue /\ At(u, j) \in 1..Len(fds[From(u)])
        /\ fds[From(r)][At(r, i)] = fds[From(u)][At(u, j)]
    BY <1>4
  <2>2. From(r) = From(u) /\ At(r, i) = At(u, j)
    BY <2>0 DEF RightsInv, SlotsOnce
  <2>3. /\ r = o => At(r, i) <= k
        /\ r = q => At(r, i) > k
        /\ u = o => At(u, j) <= k
        /\ u = q => At(u, j) > k
    BY <1>4
  <2>6. At(r, i) \in Int /\ At(u, j) \in Int /\ k \in Int
    BY <1>1, <2>1 DEF At
  <2>8. CASE r = u
    BY <1>1, <2>1, <2>2, <2>8 DEF At
  <2>4. CASE r = q /\ u = o
    BY <2>2, <2>3, <2>6, <2>4
  <2>5. CASE r = o /\ u = q
    BY <2>2, <2>3, <2>6, <2>5
  <2> QED
    BY <2>2, <2>4, <2>5, <2>8 DEF From
<1>6. ASSUME NEW f \in File PROVE Held(f)' <=> Held(f)
  <2>1. ASSUME NEW r \in Queue, NEW i \in 1..Len(fds'[r]), fds'[r][i] = f PROVE Held(f)
    <3> HIDE DEF From, At
    <3> QED
      BY <1>4, <2>1 DEF Held
  <2>2. ASSUME NEW r \in Queue, NEW i \in 1..Len(fds[r]), fds[r][i] = f PROVE Held(f)'
    <3>1. r # q
      BY <2>2
    <3>2. CASE r # o
      BY <1>3, <2>2, <3>1, <3>2 DEF Held
    <3>3. CASE r = o /\ i <= k
      <4>1. i \in 1..k
        BY <1>0, <1>1, <2>2, <3>3
      <4> QED
        BY <1>0, <1>2, <1>3, <2>2, <3>3, <4>1 DEF Held
    <3>4. CASE r = o /\ i > k
      <4>1. i \in 1..Len(s) /\ i > k
        BY <1>0, <3>4
      <4>2. i \in Int /\ k \in Int /\ n \in Int /\ i <= k + n
        BY <1>0, <1>1, <4>1
      <4>3. i - k \in 1..n /\ k + (i - k) = i
        BY <4>1, <4>2
      <4>4. fds'[q][i - k] = f
        BY <1>0, <1>2, <1>3, <2>2, <3>4, <4>3
      <4> QED
        BY <1>2, <1>3, <4>3, <4>4 DEF Held
    <3> QED
      BY <1>0, <1>1, <2>2, <3>2, <3>3, <3>4
  <2> QED
    BY <2>1, <2>2 DEF Held
<1>7. ASSUME NEW f \in File PROVE Placed(f)'
  BY <1>6 DEF Placed, RightsInv
<1>8. ASSUME NEW r \in Queue PROVE Len(fds'[r]) <= MaxFd
  <2>1. n <= MaxFd /\ k <= MaxFd
    BY <1>0, <1>1, RightsAssumption
  <2> QED
    BY <1>2, <1>3, <2>1 DEF RightsInv, Typed
<1> QED
  BY <1>3, <1>5, <1>7, <1>8

(* One control message of the answer: a queue of its own, or the call's.   *)
LEMMA PushRightsKeeps == ASSUME RightsInv, NEW q \in Queue, PushRights(q) PROVE RightsInv'
<1> DEFINE o == Owner
           l == Head(call.todo)
           n == Len(l)
           whole == n > 0 /\ n = Len(fds[o])
           p == IF whole THEN o ELSE q
<1>1. o \in Queue /\ qst[o] = "call"
  BY OwnerOwns DEF PushRights
<1>2. /\ n <= Len(fds[o]) /\ (~whole => qst[q] = "free")
      /\ qst' = [qst EXCEPT ![p] = "call"]
      /\ fds' = IF whole THEN fds
                ELSE [fds EXCEPT ![q] = SplitOff(fds[o], n), ![o] = Remaining(@, n)]
      /\ part' = [part EXCEPT ![p] = l]
      /\ call' = [call EXCEPT !.todo = Tail(@), !.data = Append(@, p)]
      /\ flight' = flight /\ mine' = mine /\ closed' = closed /\ taken' = taken
  BY DEF PushRights
<1>3. call.todo \in Seq(Lists \union {Other}) /\ call.data \in Seq(Queue) /\ call.todo # <<>>
        /\ IsRights(l)
  BY DEF PushRights, RightsInv, CallInv
<1>4. l \in Lists /\ l \in Seq(File) /\ n \in Nat
  <2>1. l \in Lists \union {Other}
    BY <1>3
  <2>2. l \in Lists
    BY <1>3, <2>1 DEF IsRights
  <2> QED
    BY <2>2, ListType
<1> HIDE DEF o, l
<1>5. p \in Queue
  BY <1>1
<1>6. /\ SlotsOnce' /\ \A f \in File : Placed(f)'
      /\ fds' \in [Queue -> Seq(File)] /\ \A r \in Queue : Len(fds'[r]) <= MaxFd
  <2>1. CASE whole
    <3>1. fds' = fds /\ flight' = flight /\ mine' = mine /\ closed' = closed
      BY <1>2, <2>1
    <3> QED
      BY <3>1 DEF RightsInv, Typed, SlotsOnce, Placed, Held
  <2>2. CASE ~whole
    <3>1. o # q /\ fds[q] = <<>>
      BY <1>1, <1>2, <2>2 DEF RightsInv, CallInv
    <3> QED
      BY <1>1, <1>2, <1>4, <2>2, <3>1, SplitKeeps
  <2> QED
    BY <2>1, <2>2
<1>7. Typed'
  BY <1>2, <1>4, <1>5, <1>6 DEF RightsInv, Typed
<1>8. CallInv'
  <2>1. call' \in [todo : Seq(Lists \union {Other}), owner : SUBSET Queue, data : Seq(Queue)]
    <3>1. Tail(call.todo) \in Seq(Lists \union {Other}) /\ Append(call.data, p) \in Seq(Queue)
      BY <1>3, <1>5
    <3> QED
      BY <1>2, <3>1 DEF RightsInv, CallInv
  <2>2. call'.owner = {o} /\ qst'[o] = "call"
    <3>1. call.owner = {o}
      BY OwnerOwns DEF PushRights, o
    <3> QED
      BY <1>1, <1>2, <1>5, <3>1 DEF RightsInv, Typed, CallInv
  <2>3. ASSUME NEW r \in Queue, qst'[r] = "free" PROVE fds'[r] = <<>>
    <3>1. r # p /\ qst[r] = "free" /\ fds[r] = <<>>
      BY <1>2, <1>5, <2>3 DEF RightsInv, Typed, CallInv
    <3>2. r # o
      BY <1>1, <3>1
    <3>3. CASE whole
      BY <1>2, <3>1, <3>3
    <3>4. CASE ~whole
      BY <1>2, <3>1, <3>2, <3>4 DEF RightsInv, Typed
    <3> QED
      BY <3>3, <3>4
  <2> QED
    BY <1>1, <2>1, <2>2, <2>3 DEF CallInv
<1> QED
  BY <1>6, <1>7, <1>8 DEF RightsInv

(* A step that only passes queues on. *)
LEMMA PassKeeps ==
  ASSUME RightsInv, UNCHANGED <<flight, mine, closed, fds, part, taken>>,
         qst' \in [Queue -> {"free", "call", "held", "garbage"}],
         \A q \in Queue : qst'[q] = "free" => qst[q] = "free",
         call' \in [todo : Seq(Lists \union {Other}), owner : SUBSET Queue, data : Seq(Queue)],
         call' = NoCall \/ \E o \in Queue : call'.owner = {o} /\ qst'[o] = "call"
  PROVE  RightsInv'
<1>1. Typed'
  BY DEF RightsInv, Typed
<1>2. CallInv'
  BY DEF RightsInv, CallInv
<1>3. SlotsOnce' /\ \A f \in File : Placed(f)'
  BY DEF RightsInv, SlotsOnce, Placed, Held
<1> QED
  BY <1>1, <1>2, <1>3 DEF RightsInv

(* There is a record for a call that does not run. *)
LEMMA NoCallType ==
  NoCall \in [todo : Seq(Lists \union {Other}), owner : SUBSET Queue, data : Seq(Queue)]
BY DEF NoCall

(* Control messages of other kinds. *)
LEMMA PushOtherKeeps == ASSUME RightsInv, PushOther PROVE RightsInv'
<1>1. call.todo \in Seq(Lists \union {Other}) /\ call.todo # <<>>
  BY DEF PushOther, RightsInv, CallInv
<1>2. Tail(call.todo) \in Seq(Lists \union {Other})
  BY <1>1
<1>3. /\ call' \in [todo : Seq(Lists \union {Other}), owner : SUBSET Queue, data : Seq(Queue)]
      /\ call'.owner = call.owner
  BY <1>2 DEF PushOther, RightsInv, CallInv
<1>4. \E o \in Queue : call'.owner = {o} /\ qst'[o] = "call"
  BY <1>3 DEF PushOther, RightsInv, CallInv
<1> QED
  BY <1>3, <1>4, PassKeeps DEF PushOther, RightsInv, Typed

(* The end of a call, with its answer or an error. *)
LEMMA EndKeeps == ASSUME RightsInv, Return \/ Fail PROVE RightsInv'
<1>1. call' = NoCall /\ UNCHANGED <<flight, mine, closed, fds, part, taken>>
  BY DEF Return, Fail
<1>2. qst' \in [Queue -> {"free", "call", "held", "garbage"}]
  BY DEF Return, Fail, RightsInv, Typed
<1>3. \A q \in Queue : qst'[q] = "free" => qst[q] = "free"
  BY DEF Return, Fail, RightsInv, Typed
<1> QED
  BY <1>1, <1>2, <1>3, NoCallType, PassKeeps

(* The program forgets a queue. *)
LEMMA DropKeeps == ASSUME RightsInv, NEW q \in Queue, Drop(q) PROVE RightsInv'
<1>1. /\ qst' \in [Queue -> {"free", "call", "held", "garbage"}]
      /\ \A r \in Queue : qst'[r] = IF r = q THEN "garbage" ELSE qst[r]
      /\ qst[q] = "held"
  BY DEF Drop, RightsInv, Typed
<1>2. call' = NoCall \/ \E o \in Queue : call'.owner = {o} /\ qst'[o] = "call"
  BY <1>1 DEF Drop, RightsInv, CallInv
<1> QED
  BY <1>1, <1>2, PassKeeps DEF Drop, RightsInv, CallInv

(* get() moves the last descriptor of an array to the program. *)
LEMMA GetKeeps == ASSUME RightsInv, NEW q \in Queue, Get(q) PROVE RightsInv'
<1> DEFINE s == fds[q]  n == Len(s)
<1>0. PICK g \in File : g = Last(s)
  BY DEF Get, RightsInv, Typed, Last
<1>1. s \in Seq(File) /\ s # <<>> /\ n \in Nat /\ n > 0 /\ g = s[n]
  BY <1>0 DEF Get, RightsInv, Typed, Last
<1>2. /\ Front(s) \in Seq(File) /\ Len(Front(s)) = n - 1
      /\ \A i \in 1..(n - 1) : Front(s)[i] = s[i]
  BY <1>1 DEF Front
<1>3. /\ fds' \in [Queue -> Seq(File)] /\ fds'[q] = Front(s)
      /\ \A r \in Queue \ {q} : fds'[r] = fds[r]
  BY <1>2 DEF Get, RightsInv, Typed
<1>4. ASSUME NEW r \in Queue, NEW i \in 1..Len(fds'[r])
      PROVE  i \in 1..Len(fds[r]) /\ fds'[r][i] = fds[r][i] /\ (r = q => i # n)
  <2>1. CASE r = q
    <3>1. i \in 1..(n - 1) /\ i \in 1..n /\ i # n
      BY <1>1, <1>2, <1>3, <2>1
    <3> QED
      BY <1>2, <1>3, <2>1, <3>1
  <2>2. CASE r # q
    BY <1>3, <2>2
  <2> QED
    BY <2>1, <2>2
<1>5. mine' = mine \union {g} /\ flight' = flight /\ closed' = closed /\ qst' = qst
        /\ call' = call /\ part' = part
  BY <1>0 DEF Get
<1>6. SlotsOnce'
  BY <1>4 DEF SlotsOnce, RightsInv
<1>7. Held(g) /\ ~Held(g)'
  <2>1. n \in 1..Len(fds[q]) /\ fds[q][n] = g
    BY <1>1
  <2>2. ~Held(g)'
    <3> HIDE DEF s, n
    <3>1. ASSUME NEW r \in Queue, NEW i \in 1..Len(fds'[r]), fds'[r][i] = g PROVE FALSE
      <4>1. i \in 1..Len(fds[r]) /\ fds[r][i] = g /\ (r = q => i # n)
        BY <1>4, <3>1
      <4> QED
        BY <2>1, <4>1 DEF RightsInv, SlotsOnce
    <3> QED
      BY <3>1 DEF Held
  <2> QED
    BY <2>1, <2>2 DEF Held
<1>8. ASSUME NEW f \in File, f # g PROVE Held(f)' <=> Held(f)
  <2>1. Held(f)' => Held(f)
    BY <1>4 DEF Held
  <2>2. ASSUME NEW r \in Queue, NEW i \in 1..Len(fds[r]), fds[r][i] = f PROVE Held(f)'
    <3>1. CASE r # q
      BY <1>3, <2>2, <3>1 DEF Held
    <3>2. CASE r = q
      <4>1. i \in 1..n /\ i # n
        BY <1>1, <1>8, <2>2, <3>2
      <4>2. i \in 1..(n - 1)
        BY <1>1, <4>1
      <4> QED
        BY <1>2, <1>3, <2>2, <3>2, <4>2 DEF Held
    <3> QED
      BY <3>1, <3>2
  <2> QED
    BY <2>1, <2>2 DEF Held
<1> HIDE DEF s, n
<1>9. ASSUME NEW f \in File PROVE Placed(f)'
  <2>1. CASE f = g
    BY <1>5, <1>7, <2>1 DEF Placed, RightsInv
  <2>2. CASE f # g
    BY <1>5, <1>8, <2>2 DEF Placed, RightsInv
  <2> QED
    BY <2>1, <2>2
<1>10. Typed'
  <2>1. taken' \in [Queue -> Seq(File)]
    <3>1. Append(taken[q], g) \in Seq(File)
      BY <1>1 DEF RightsInv, Typed
    <3>2. taken' = [taken EXCEPT ![q] = Append(@, g)]
      BY <1>0 DEF Get, s
    <3> QED
      BY <3>1, <3>2 DEF RightsInv, Typed
  <2>2. \A r \in Queue : Len(fds'[r]) <= MaxFd
    <3>1. n - 1 <= MaxFd
      BY <1>1, RightsAssumption DEF RightsInv, Typed, n, s
    <3> QED
      BY <1>2, <1>3, <3>1 DEF RightsInv, Typed
  <2> QED
    BY <1>1, <1>3, <1>5, <2>1, <2>2 DEF RightsInv, Typed
<1>11. CallInv'
  <2>1. qst[q] # "free"
    BY DEF Get
  <2> QED
    BY <1>3, <1>5, <2>1 DEF RightsInv, CallInv
<1> QED
  BY <1>6, <1>9, <1>10, <1>11 DEF RightsInv

(* close() of a queue. *)
LEMMA CloseQueueKeeps == ASSUME RightsInv, NEW q \in Queue, CloseQueue(q) PROVE RightsInv'
<1>1. /\ SlotsOnce' /\ \A f \in File : Placed(f)'
      /\ fds' \in [Queue -> Seq(File)] /\ \A r \in Queue : Len(fds'[r]) <= MaxFd
      /\ closed' \in [File -> Nat]
  BY DiscardKeeps DEF CloseQueue
<1>2. Typed'
  BY <1>1 DEF CloseQueue, RightsInv, Typed
<1>3. CallInv'
  BY DEF CloseQueue, RightsInv, Typed, CallInv
<1> QED
  BY <1>1, <1>2, <1>3 DEF RightsInv

(* The finalizer of a queue. *)
LEMMA CollectKeeps == ASSUME RightsInv, NEW q \in Queue, Collect(q) PROVE RightsInv'
<1>1. /\ SlotsOnce' /\ \A f \in File : Placed(f)'
      /\ fds' \in [Queue -> Seq(File)] /\ \A r \in Queue : Len(fds'[r]) <= MaxFd
      /\ closed' \in [File -> Nat]
  BY DiscardKeeps DEF Collect
<1>2. Typed'
  BY <1>1 DEF Collect, RightsInv, Typed
<1>3. CallInv'
  BY DEF Collect, RightsInv, Typed, CallInv
<1> QED
  BY <1>1, <1>2, <1>3 DEF RightsInv

(* The program closes a descriptor it got. *)
LEMMA CloseFdKeeps == ASSUME RightsInv, NEW g \in File, CloseFd(g) PROVE RightsInv'
<1>1. /\ closed' \in [File -> Nat]
      /\ \A f \in File : closed'[f] = IF f \in {g} THEN closed[f] + 1 ELSE closed[f]
  BY CloseAllCounts DEF CloseFd, RightsInv
<1>2. ASSUME NEW f \in File PROVE Placed(f)'
  <2>1. Placed(f) /\ (Held(f)' <=> Held(f)) /\ mine' = mine \ {g} /\ g \in mine /\ flight' = flight
    BY DEF RightsInv, CloseFd, Held
  <2> QED
    BY <1>1, <2>1 DEF Placed
<1>3. SlotsOnce' /\ CallInv'
  BY DEF CloseFd, RightsInv, SlotsOnce, CallInv
<1>4. Typed'
  BY <1>1 DEF CloseFd, RightsInv, Typed
<1> QED
  BY <1>2, <1>3, <1>4 DEF RightsInv

-------------------------------------------------------------------------------
(* In the beginning everything is on its way. *)
LEMMA InitRights == Init => RightsInv
<1> SUFFICES ASSUME Init PROVE RightsInv
  OBVIOUS
<1>1. Typed
  BY RightsAssumption DEF Init, Typed
<1>2. CallInv
  BY NoCallType DEF Init, CallInv
<1>3. SlotsOnce /\ \A f \in File : ~Held(f)
  BY DEF Init, SlotsOnce, Held
<1>4. \A f \in File : Placed(f)
  BY <1>3 DEF Init, Placed
<1> QED
  BY <1>1, <1>2, <1>3, <1>4 DEF RightsInv

(* Every step keeps the invariant. *)
LEMMA NextRights == RightsInv /\ [Next]_vars => RightsInv'
<1> SUFFICES ASSUME RightsInv, [Next]_vars PROVE RightsInv'
  OBVIOUS
<1>1. ASSUME NEW q \in Queue, NEW m \in Messages, RecvFd(q, m) \/ RecvMsg(q, m) PROVE RightsInv'
  BY <1>1, RecvFdKeeps, RecvMsgKeeps
<1>2. ASSUME NEW q \in Queue, PushRights(q) PROVE RightsInv'
  BY <1>2, PushRightsKeeps
<1>3. ASSUME NEW q \in Queue, Get(q) \/ CloseQueue(q) \/ Drop(q) \/ Collect(q) PROVE RightsInv'
  BY <1>3, GetKeeps, CloseQueueKeeps, DropKeeps, CollectKeeps
<1>4. CASE PushOther \/ Return \/ Fail
  BY <1>4, PushOtherKeeps, EndKeeps
<1>5. ASSUME NEW f \in File, CloseFd(f) PROVE RightsInv'
  BY <1>5, CloseFdKeeps
<1>6. CASE UNCHANGED vars
  BY <1>6, PassKeeps DEF vars, RightsInv, Typed, CallInv
<1> QED
  BY <1>1, <1>2, <1>3, <1>4, <1>5, <1>6 DEF Next

(* The invariant holds for every number of files, queues and messages.     *)
THEOREM RightsInvariant == Spec => []RightsInv
BY InitRights, NextRights, PTL DEF Spec

(* A descriptor that is in a slot is in exactly one. *)
LEMMA CountSlots ==
  ASSUME RightsInv, NEW f \in File
  PROVE  Cardinality(InQueue(f)) = IF Held(f) THEN 1 ELSE 0
<1>1. \A q \in Queue : Len(fds[q]) \in Nat /\ DOMAIN fds[q] = 1..Len(fds[q]) /\ Len(fds[q]) <= MaxFd
  BY DEF RightsInv, Typed
<1>2. CASE ~Held(f)
  <2>1. InQueue(f) = {}
    BY <1>1, <1>2 DEF InQueue, Slot, Held
  <2> QED
    BY <1>2, <2>1, FS_EmptySet
<1>3. CASE Held(f)
  <2>1. PICK q \in Queue : \E i \in 1..Len(fds[q]) : fds[q][i] = f
    BY <1>3 DEF Held
  <2>2. PICK i \in 1..Len(fds[q]) : fds[q][i] = f
    BY <2>1
  <2>3. i \in 1..MaxFd
    BY <1>1, RightsAssumption
  <2>4. <<q, i>> \in InQueue(f)
    BY <1>1, <2>2, <2>3 DEF InQueue, Slot
  <2>5. ASSUME NEW s \in InQueue(f) PROVE s = <<q, i>>
    <3>1. s \in Slot /\ s[1] \in Queue /\ s[2] \in 1..Len(fds[s[1]]) /\ fds[s[1]][s[2]] = f
      BY <1>1 DEF InQueue, Slot
    <3>2. s[1] = q /\ s[2] = i
      BY <2>2, <3>1 DEF RightsInv, SlotsOnce
    <3> QED
      BY <3>1, <3>2 DEF Slot
  <2>6. InQueue(f) = {<<q, i>>}
    BY <2>4, <2>5
  <2> QED
    BY <1>3, <2>6, FS_Singleton
<1> QED
  BY <1>2, <1>3

(* Every received descriptor has exactly one owner until it is closed, and *)
(* is closed once, whatever is split, fails or is collected (scm_rights.c, *)
(* recvfd_lua and recvmsg_lua of socket.c).                                *)
THEOREM OwnerIsOne == Spec => []OneOwner
<1>1. RightsInv => OneOwner
  <2> SUFFICES ASSUME RightsInv, NEW f \in File
               PROVE  (IF f \in flight THEN 1 ELSE 0) + (IF f \in mine THEN 1 ELSE 0)
                        + Cardinality(InQueue(f)) + closed[f] = 1
    BY DEF OneOwner
  <2>1. Placed(f)
    BY DEF RightsInv
  <2> QED
    BY <2>1, CountSlots DEF Placed
<1> QED
  BY <1>1, RightsInvariant, PTL

(* The arrays of the queues never hold more than they have room for, and   *)
(* the state stays within its types (net_scm_rights_fill).                 *)
THEOREM RightsTypeCorrect == Spec => []TypeOK
<1>1. RightsInv => TypeOK
  BY DEF RightsInv, Typed, CallInv, TypeOK
<1> QED
  BY <1>1, RightsInvariant, PTL

-------------------------------------------------------------------------------
(* What a message holds. *)

(* The least number of a set, which stands for induction. *)
LEMMA LeastNumber ==
  ASSUME NEW T, T \subseteq Nat, T # {}
  PROVE  \E x \in T : \A y \in T : x <= y
<1> DEFINE R == OpToRel(<, Nat)
<1>1. IsWellFoundedOn(R, Nat)
  BY NatLessThanWellFounded, Zenon
<1>2. R = {ss \in Nat \X Nat : ss[1] < ss[2]}
  BY DEF OpToRel
<1> HIDE DEF R
<1>3. PICK x \in T : \A y \in T : ~ (<<y, x>> \in R)
  BY <1>1, WFMin, Zenon
<1>4. ASSUME NEW y \in T PROVE x <= y
  <2>1. x \in Nat /\ y \in Nat
    OBVIOUS
  <2>2. y < x => <<y, x>> \in R
    BY <1>2, <2>1
  <2> QED
    BY <1>3, <2>1, <2>2
<1> QED
  BY <1>4

(* Control messages, and the recursion that collects their lists. *)
Control == Lists \union {Other}
Collects(m, f) ==
  f = [i \in 1..(Len(m) + 1) |-> IF i > Len(m) THEN <<>> ELSE Listed(m[i]) \o f[i + 1]]

LEMMA RightsAre == ASSUME NEW m PROVE Rights(m) = (CHOOSE f : Collects(m, f))[1]
BY DEF Rights, Collects

(* There is one function that collects them. *)
LEMMA CollectsOnce ==
  ASSUME NEW m \in Seq(Control), NEW f, Collects(m, f), NEW g, Collects(m, g)
  PROVE  f = g
<1> DEFINE n == Len(m)
           T == {k \in Nat : k <= n /\ f[n + 1 - k] # g[n + 1 - k]}
<1>0. n \in Nat
  OBVIOUS
<1>1. /\ DOMAIN f = 1..(n + 1) /\ DOMAIN g = 1..(n + 1)
      /\ f = [i \in 1..(n + 1) |-> f[i]] /\ g = [i \in 1..(n + 1) |-> g[i]]
  BY DEF Collects
<1>2. /\ \A i \in 1..(n + 1) : f[i] = IF i > n THEN <<>> ELSE Listed(m[i]) \o f[i + 1]
      /\ \A i \in 1..(n + 1) : g[i] = IF i > n THEN <<>> ELSE Listed(m[i]) \o g[i + 1]
  BY DEF Collects
<1> HIDE DEF n
<1>3. T = {}
  <2> SUFFICES ASSUME T # {} PROVE FALSE
    OBVIOUS
  <2>1. T \subseteq Nat
    OBVIOUS
  <2>2. PICK k \in T : \A j \in T : k <= j
    BY <2>1, LeastNumber
  <2>3. k \in Nat /\ k <= n /\ f[n + 1 - k] # g[n + 1 - k]
    OBVIOUS
  <2>4. CASE k = 0
    BY <1>0, <1>2, <2>3, <2>4
  <2>5. CASE k # 0
    <3>1. k - 1 \in Nat /\ k - 1 <= n /\ k - 1 \notin T
      BY <1>0, <2>2, <2>3, <2>5
    <3>2. f[n + 1 - (k - 1)] = g[n + 1 - (k - 1)]
      BY <3>1
    <3>3. n + 1 - (k - 1) = (n + 1 - k) + 1 /\ n + 1 - k \in 1..n
      BY <1>0, <2>3, <2>5
    <3> QED
      BY <1>0, <1>2, <2>3, <3>2, <3>3
  <2> QED
    BY <2>4, <2>5
<1>4. ASSUME NEW i \in 1..(n + 1) PROVE f[i] = g[i]
  <2>1. n + 1 - i \in Nat /\ n + 1 - i <= n /\ n + 1 - (n + 1 - i) = i
    BY <1>0
  <2> QED
    BY <1>3, <2>1
<1> QED
  BY <1>1, <1>4

(* From that of the rest of a message to that of the message. *)
LEMMA CollectsMore ==
  ASSUME NEW m \in Seq(Control), m # <<>>, NEW g, Collects(Tail(m), g)
  PROVE  \E f : Collects(m, f) /\ f[1] = Listed(Head(m)) \o g[1]
<1> DEFINE n == Len(m)
           f == [i \in 1..(n + 1) |-> IF i = 1 THEN Listed(m[1]) \o g[1] ELSE g[i - 1]]
<1>1. /\ n \in Nat /\ n > 0 /\ Len(Tail(m)) = n - 1 /\ Head(m) = m[1]
      /\ \A i \in 1..(n - 1) : Tail(m)[i] = m[i + 1]
  BY HeadTailProperties
<1>2. \A i \in 1..n : g[i] = IF i > n - 1 THEN <<>> ELSE Listed(Tail(m)[i]) \o g[i + 1]
  <2>1. 1..(Len(Tail(m)) + 1) = 1..n /\ Len(Tail(m)) = n - 1
    BY <1>1
  <2> HIDE DEF n
  <2> QED
    BY <2>1 DEF Collects
<1>3. \A i \in 1..(n + 1) : f[i] = IF i = 1 THEN Listed(m[1]) \o g[1] ELSE g[i - 1]
  OBVIOUS
<1>4. f = [i \in 1..(n + 1) |-> f[i]]
  OBVIOUS
<1> HIDE DEF n, f
<1>5. ASSUME NEW i \in 1..(n + 1)
      PROVE  f[i] = IF i > n THEN <<>> ELSE Listed(m[i]) \o f[i + 1]
  <2>1. CASE i = 1
    <3>1. i + 1 \in 1..(n + 1) /\ i + 1 # 1 /\ (i + 1) - 1 = 1 /\ ~(i > n)
      BY <1>1, <2>1
    <3>2. f[i + 1] = g[1] /\ f[i] = Listed(m[i]) \o g[1]
      BY <1>3, <2>1, <3>1
    <3> QED
      BY <3>1, <3>2
  <2>2. CASE i # 1
    <3>1. i - 1 \in 1..n /\ (i - 1) + 1 = i
      BY <1>1, <2>2
    <3>2. f[i] = g[i - 1]
      BY <1>3, <2>2
    <3>3. i <= n => f[i + 1] = g[i]
      <4>1. i <= n => i + 1 \in 1..(n + 1) /\ i + 1 # 1 /\ (i + 1) - 1 = i
        BY <1>1, <2>2
      <4> QED
        BY <1>3, <4>1
    <3>4. i <= n => Tail(m)[i - 1] = m[i]
      BY <1>1, <2>2
    <3>5. g[i - 1] = IF i - 1 > n - 1 THEN <<>> ELSE Listed(Tail(m)[i - 1]) \o g[(i - 1) + 1]
      BY <1>2, <3>1
    <3> QED
      BY <1>1, <3>1, <3>2, <3>3, <3>4, <3>5
  <2> QED
    BY <2>1, <2>2
<1>6. f = [i \in 1..(n + 1) |-> IF i > n THEN <<>> ELSE Listed(m[i]) \o f[i + 1]]
  BY <1>5, <1>4
<1>7. f[1] = Listed(Head(m)) \o g[1]
  <2>1. 1 \in 1..(n + 1)
    BY <1>1
  <2> QED
    BY <1>1, <1>3, <2>1
<1>8. Collects(m, f)
  BY <1>6 DEF Collects, n
<1> QED
  BY <1>7, <1>8

(* The recursion is well-founded. *)
LEMMA CollectsExists ==
  ASSUME NEW m \in Seq(Control) PROVE \E f : Collects(m, f)
<1> DEFINE Bad(l) == l \in Seq(Control) /\ ~ \E f : Collects(l, f)
           T == {k \in Nat : \E l \in Seq(Control) : Len(l) = k /\ Bad(l)}
<1> HIDE DEF Bad
<1>1. T = {}
  <2> SUFFICES ASSUME T # {} PROVE FALSE
    OBVIOUS
  <2>1. T \subseteq Nat
    OBVIOUS
  <2>2. PICK k \in T : \A j \in T : k <= j
    BY <2>1, LeastNumber
  <2>3. PICK l \in Seq(Control) : Len(l) = k /\ Bad(l)
    OBVIOUS
  <2>4. CASE l = <<>>
    <3>1. Collects(l, [i \in 1..1 |-> <<>>])
      BY <2>4 DEF Collects
    <3> QED
      BY <2>3, <3>1 DEF Bad
  <2>5. CASE l # <<>>
    <3>1. Tail(l) \in Seq(Control) /\ Len(Tail(l)) = k - 1 /\ k - 1 \in Nat /\ k \in Nat
      BY <2>3, <2>5, HeadTailProperties
    <3>2. ~ Bad(Tail(l))
      <4>1. k - 1 \notin T
        BY <2>2, <3>1
      <4> QED
        BY <3>1, <4>1
    <3>3. PICK g : Collects(Tail(l), g)
      BY <3>1, <3>2 DEF Bad
    <3> QED
      BY <2>3, <2>5, <3>3, CollectsMore DEF Bad
  <2> QED
    BY <2>4, <2>5
<1>2. Len(m) \in Nat
  OBVIOUS
<1> QED
  BY <1>1, <1>2 DEF Bad

(* The descriptors of a message are those of its first part and those of   *)
(* the rest.                                                               *)
LEMMA RightsUnfold ==
  ASSUME NEW m \in Seq(Control)
  PROVE  Rights(m) = IF m = <<>> THEN <<>> ELSE Listed(Head(m)) \o Rights(Tail(m))
<1> DEFINE f == CHOOSE h : Collects(m, h)
<1>1. Collects(m, f) /\ Rights(m) = f[1]
  BY CollectsExists, RightsAre
<1> HIDE DEF f
<1>2. CASE m = <<>>
  BY <1>1, <1>2 DEF Collects
<1>3. CASE m # <<>>
  <2> DEFINE g == CHOOSE h : Collects(Tail(m), h)
  <2>1. Tail(m) \in Seq(Control)
    BY <1>3
  <2>2. Collects(Tail(m), g) /\ Rights(Tail(m)) = g[1]
    BY <2>1, CollectsExists, RightsAre
  <2> HIDE DEF g
  <2>3. PICK h : Collects(m, h) /\ h[1] = Listed(Head(m)) \o g[1]
    BY <1>3, <2>2, CollectsMore
  <2>4. f = h
    BY <1>1, <2>3, CollectsOnce
  <2> QED
    BY <1>1, <1>3, <2>2, <2>3, <2>4
<1> QED
  BY <1>2, <1>3

(* They are a sequence of files. *)
LEMMA RightsType ==
  ASSUME NEW m \in Seq(Control) PROVE Rights(m) \in Seq(File)
<1> DEFINE Bad(l) == l \in Seq(Control) /\ Rights(l) \notin Seq(File)
           T == {k \in Nat : \E l \in Seq(Control) : Len(l) = k /\ Bad(l)}
<1> HIDE DEF Bad
<1>1. T = {}
  <2> SUFFICES ASSUME T # {} PROVE FALSE
    OBVIOUS
  <2>1. T \subseteq Nat
    OBVIOUS
  <2>2. PICK k \in T : \A j \in T : k <= j
    BY <2>1, LeastNumber
  <2>3. PICK l \in Seq(Control) : Len(l) = k /\ Bad(l)
    OBVIOUS
  <2>4. CASE l = <<>>
    <3>1. Rights(l) = <<>>
      BY <2>4, RightsUnfold
    <3> QED
      BY <2>3, <3>1 DEF Bad
  <2>5. CASE l # <<>>
    <3>1. /\ Tail(l) \in Seq(Control) /\ Len(Tail(l)) = k - 1 /\ k - 1 \in Nat /\ k \in Nat
          /\ Head(l) \in Control
      BY <2>3, <2>5, HeadTailProperties
    <3>2. ~ Bad(Tail(l))
      <4>1. k - 1 \notin T
        BY <2>2, <3>1
      <4> QED
        BY <3>1, <4>1
    <3>3. Rights(Tail(l)) \in Seq(File)
      BY <3>1, <3>2 DEF Bad
    <3>4. Listed(Head(l)) \in Seq(File)
      BY <3>1, ListType DEF Control, Listed, IsRights
    <3>5. Rights(l) = Listed(Head(l)) \o Rights(Tail(l))
      BY <2>5, RightsUnfold
    <3>6. Rights(l) \in Seq(File)
      BY <3>3, <3>4, <3>5
    <3> QED
      BY <2>3, <3>6 DEF Bad
  <2> QED
    BY <2>4, <2>5
<1>2. Len(m) \in Nat
  OBVIOUS
<1> QED
  BY <1>1, <1>2 DEF Bad

-------------------------------------------------------------------------------
(* Lists that are reversed, taken from and split. *)

LEMMA ReverseBack ==
  ASSUME NEW S, NEW s \in Seq(S)
  PROVE  /\ Reverse(s) \in Seq(S) /\ Len(Reverse(s)) = Len(s)
         /\ \A i \in 1..Len(s) : Reverse(s)[i] = s[Len(s) + 1 - i]
         /\ Reverse(Reverse(s)) = s
         /\ Reverse(s) = <<>> <=> s = <<>>
<1> DEFINE n == Len(s)
           r == Reverse(s)
<1>1. n \in Nat /\ \A i \in 1..n : s[i] \in S
  BY ElementOfSeq
<1>2. r = [i \in 1..n |-> s[(n - i) + 1]]
  BY DEF Reverse
<1>3. \A i \in 1..n : (n - i) + 1 \in 1..n /\ (n - i) + 1 = n + 1 - i
  BY <1>1
<1> HIDE DEF n, r
<1>4. r \in [1..n -> S]
  BY <1>1, <1>2, <1>3
<1>5. r \in Seq(S) /\ Len(r) = n /\ \A i \in 1..n : r[i] = s[n + 1 - i]
  <2>1. r \in Seq(S)
    BY <1>1, <1>4, SeqDef
  <2>2. Len(r) = n
    BY <1>1, <1>4, <2>1, LenProperties
  <2> QED
    BY <1>2, <1>3, <2>1, <2>2
<1>6. Reverse(r) = s
  <2>1. Reverse(r) = [i \in 1..n |-> r[(n - i) + 1]]
    BY <1>5 DEF Reverse
  <2>2. ASSUME NEW i \in 1..n PROVE r[(n - i) + 1] = s[i]
    <3>1. (n - i) + 1 \in 1..n /\ n + 1 - ((n - i) + 1) = i
      BY <1>1
    <3> QED
      BY <1>5, <3>1
  <2>3. s = [i \in 1..n |-> s[i]]
    BY LenProperties DEF n
  <2> QED
    BY <2>1, <2>2, <2>3
<1>7. r = <<>> <=> s = <<>>
  <2>1. n = 0 <=> s = <<>>
    BY EmptySeq DEF n
  <2>2. n = 0 <=> r = <<>>
    BY <1>5, EmptySeq
  <2> QED
    BY <2>1, <2>2
<1> QED
  BY <1>5, <1>6, <1>7 DEF n, r

(* A list that fits is in the array as it came. *)
LEMMA FilledWhole ==
  ASSUME NEW l \in Seq(File), Fits(l) PROVE Reverse(Filled(l)) = l
<1>1. Kept(l) = l
  BY SubSeqFull DEF Kept
<1> QED
  BY <1>1, ReverseBack DEF Filled

(* A list without its last element. *)
LEMMA FrontIs ==
  ASSUME NEW s \in Seq(File), s # <<>>
  PROVE  /\ Front(s) \in Seq(File) /\ Len(Front(s)) = Len(s) - 1
         /\ \A i \in 1..(Len(s) - 1) : Front(s)[i] = s[i]
<1>1. Len(s) \in Nat /\ 1 \in Nat /\ 1 <= Len(s)
  BY EmptySeq
<1>2. /\ Remaining(s, 1) \in Seq(File) /\ Len(Remaining(s, 1)) = Len(s) - 1
      /\ \A i \in 1..(Len(s) - 1) : Remaining(s, 1)[i] = s[i]
  BY <1>1, SplitMoves
<1>3. Front(s) = Remaining(s, 1)
  BY DEF Front, Remaining
<1> QED
  BY <1>2, <1>3

(* get() takes what comes next. *)
LEMMA GetNext ==
  ASSUME NEW s \in Seq(File), s # <<>>, NEW t \in Seq(File)
  PROVE  t \o Reverse(s) = Append(t, Last(s)) \o Reverse(Front(s))
<1> DEFINE n == Len(s)
           f == Front(s)
           x == Last(s)
           a == t \o Reverse(s)
           b == Append(t, x) \o Reverse(f)
<1>1. n \in Nat /\ n > 0 /\ x = s[n] /\ x \in File
  BY EmptySeq DEF Last
<1>2. f \in Seq(File) /\ Len(f) = n - 1 /\ \A i \in 1..(n - 1) : f[i] = s[i]
  BY FrontIs
<1>3. /\ Reverse(s) \in Seq(File) /\ Len(Reverse(s)) = n
      /\ \A i \in 1..n : Reverse(s)[i] = s[n + 1 - i]
  BY ReverseBack
<1> HIDE DEF f, x
<1>4. /\ Reverse(f) \in Seq(File) /\ Len(Reverse(f)) = n - 1
      /\ \A i \in 1..(n - 1) : Reverse(f)[i] = f[n - i]
  <2>1. /\ Reverse(f) \in Seq(File) /\ Len(Reverse(f)) = Len(f)
        /\ \A i \in 1..Len(f) : Reverse(f)[i] = f[Len(f) + 1 - i]
    BY <1>2, ReverseBack
  <2>2. \A i \in 1..(n - 1) : Len(f) + 1 - i = n - i
    BY <1>1, <1>2
  <2> QED
    BY <1>2, <2>1, <2>2
<1>5. /\ Append(t, x) \in Seq(File) /\ Len(Append(t, x)) = Len(t) + 1 /\ Len(t) \in Nat
      /\ \A i \in 1..Len(t) : Append(t, x)[i] = t[i]
      /\ Append(t, x)[Len(t) + 1] = x
  BY <1>1, AppendProperties
<1> HIDE DEF n
<1>6. /\ a \in Seq(File) /\ Len(a) = Len(t) + n
      /\ \A i \in 1..(Len(t) + n) : a[i] = IF i <= Len(t) THEN t[i] ELSE Reverse(s)[i - Len(t)]
  BY <1>3, ConcatProperties
<1>7. /\ b \in Seq(File) /\ Len(b) = Len(t) + n
      /\ \A i \in 1..(Len(t) + n) :
           b[i] = IF i <= Len(t) + 1 THEN Append(t, x)[i] ELSE Reverse(f)[i - (Len(t) + 1)]
  <2>1. /\ b \in Seq(File) /\ Len(b) = Len(Append(t, x)) + Len(Reverse(f))
        /\ \A i \in 1..(Len(Append(t, x)) + Len(Reverse(f))) :
             b[i] = IF i <= Len(Append(t, x)) THEN Append(t, x)[i]
                    ELSE Reverse(f)[i - Len(Append(t, x))]
    BY <1>4, <1>5, ConcatProperties
  <2>2. Len(Append(t, x)) + Len(Reverse(f)) = Len(t) + n
    BY <1>1, <1>4, <1>5
  <2> QED
    BY <1>5, <2>1, <2>2
<1> HIDE DEF a, b
<1>8. ASSUME NEW i \in 1..(Len(t) + n) PROVE a[i] = b[i]
  <2>1. CASE i <= Len(t)
    <3>1. i \in 1..Len(t) /\ i <= Len(t) + 1
      BY <1>5, <2>1
    <3> QED
      BY <1>5, <1>6, <1>7, <2>1, <3>1
  <2>2. CASE i = Len(t) + 1
    <3>1. ~(i <= Len(t)) /\ i - Len(t) = 1 /\ i <= Len(t) + 1 /\ 1 \in 1..n /\ n + 1 - 1 = n
      BY <1>1, <1>5, <2>2
    <3>2. Reverse(s)[1] = x
      BY <1>1, <1>3, <3>1
    <3> QED
      BY <1>5, <1>6, <1>7, <2>2, <3>1, <3>2
  <2>3. CASE i > Len(t) + 1
    <3> DEFINE j == i - Len(t)
    <3>1. /\ ~(i <= Len(t)) /\ ~(i <= Len(t) + 1) /\ i - (Len(t) + 1) = j - 1
          /\ j \in 1..n /\ j - 1 \in 1..(n - 1) /\ n - (j - 1) = n + 1 - j
          /\ n + 1 - j \in 1..(n - 1)
      BY <1>1, <1>5, <2>3
    <3>2. a[i] = Reverse(s)[j]
      BY <1>6, <3>1
    <3>3. b[i] = Reverse(f)[j - 1]
      BY <1>7, <3>1
    <3> HIDE DEF j
    <3>4. Reverse(s)[j] = s[n + 1 - j] /\ Reverse(f)[j - 1] = f[n + 1 - j]
      BY <1>3, <1>4, <3>1
    <3> QED
      BY <1>2, <3>1, <3>2, <3>3, <3>4
  <2> QED
    BY <1>5, <2>1, <2>2, <2>3
<1>9. a = b
  BY <1>6, <1>7, <1>8, SeqEqual
<1> QED
  BY <1>9 DEF a, b, f, x

(* A reversed array is split into two lists. *)
Halves(s, l, r) == Reverse(SplitOff(s, Len(l))) = l /\ Reverse(Remaining(s, Len(l))) = r

(* The descriptors at the end of an array are the first of the message,    *)
(* and the others stay in their order.                                     *)
LEMMA SplitOrder ==
  ASSUME NEW s \in Seq(File), NEW l \in Seq(File), NEW r \in Seq(File), Reverse(s) = l \o r
  PROVE  /\ Len(l) \in Nat /\ Len(r) \in Nat /\ Len(s) = Len(l) + Len(r)
         /\ Halves(s, l, r)
<1> DEFINE k == Len(l)  n == Len(s)
           u == SplitOff(s, k)
           v == Remaining(s, k)
<1>1. /\ k \in Nat /\ Len(r) \in Nat /\ n \in Nat /\ n = k + Len(r)
      /\ \A i \in 1..n : (l \o r)[i] = IF i <= k THEN l[i] ELSE r[i - k]
      /\ \A i \in 1..n : (l \o r)[i] = s[n + 1 - i]
  <2>1. /\ Len(l \o r) = k + Len(r)
        /\ \A i \in 1..(k + Len(r)) : (l \o r)[i] = IF i <= k THEN l[i] ELSE r[i - k]
    BY ConcatProperties
  <2>2. Len(Reverse(s)) = n /\ \A i \in 1..n : Reverse(s)[i] = s[n + 1 - i]
    BY ReverseBack
  <2>3. k \in Nat /\ Len(r) \in Nat /\ n \in Nat
    OBVIOUS
  <2> HIDE DEF k, n
  <2>4. n = k + Len(r)
    BY <2>1, <2>2
  <2> QED
    BY <2>1, <2>2, <2>3, <2>4
<1> HIDE DEF n, k
<1>2. k <= n
  BY <1>1
<1>3. /\ u \in Seq(File) /\ Len(u) = k /\ \A i \in 1..k : u[i] = s[n - k + i]
      /\ v \in Seq(File) /\ Len(v) = n - k /\ \A i \in 1..(n - k) : v[i] = s[i]
  BY <1>1, <1>2, SplitMoves DEF n
<1> HIDE DEF u, v
<1>4. /\ Reverse(u) \in Seq(File) /\ Len(Reverse(u)) = k
      /\ \A i \in 1..k : Reverse(u)[i] = u[k + 1 - i]
  BY <1>3, ReverseBack
<1>5. /\ Reverse(v) \in Seq(File) /\ Len(Reverse(v)) = n - k
      /\ \A i \in 1..(n - k) : Reverse(v)[i] = v[n - k + 1 - i]
  <2>1. /\ Reverse(v) \in Seq(File) /\ Len(Reverse(v)) = Len(v)
        /\ \A i \in 1..Len(v) : Reverse(v)[i] = v[Len(v) + 1 - i]
    BY <1>3, ReverseBack
  <2> QED
    BY <1>3, <2>1
<1>6. Reverse(u) = l
  <2>1. ASSUME NEW i \in 1..k PROVE Reverse(u)[i] = l[i]
    <3>1. k + 1 - i \in 1..k /\ n - k + (k + 1 - i) = n + 1 - i /\ i \in 1..n /\ i <= k
      BY <1>1, <1>2
    <3>2. Reverse(u)[i] = s[n + 1 - i]
      BY <1>3, <1>4, <3>1
    <3> QED
      BY <1>1, <3>1, <3>2
  <2>2. Len(l) = k
    BY DEF k
  <2> QED
    BY <1>4, <2>1, <2>2, SeqEqual
<1>7. Reverse(v) = r
  <2>1. n - k = Len(r)
    BY <1>1
  <2>2. ASSUME NEW i \in 1..(n - k) PROVE Reverse(v)[i] = r[i]
    <3>1. /\ n - k + 1 - i \in 1..(n - k) /\ k + i \in 1..n /\ ~(k + i <= k) /\ (k + i) - k = i
          /\ n + 1 - (k + i) = n - k + 1 - i
      BY <1>1
    <3>2. Reverse(v)[i] = s[n - k + 1 - i]
      BY <1>3, <1>5, <3>1
    <3>3. (l \o r)[k + i] = s[n + 1 - (k + i)] /\ (l \o r)[k + i] = r[(k + i) - k]
      BY <1>1, <3>1
    <3> QED
      BY <3>1, <3>2, <3>3
  <2> QED
    BY <1>5, <2>1, <2>2, SeqEqual
<1> QED
  BY <1>1, <1>6, <1>7 DEF u, v, k, n, Halves

-------------------------------------------------------------------------------
(* The order of what is received. *)

(* What a queue the program holds has left follows what it gave out, and   *)
(* only such a queue gives out.                                            *)
InOrder(q) == qst[q] = "held" /\ fds[q] # <<>> => taken[q] \o Reverse(fds[q]) = part[q]
Untouched(q) == qst[q] \in {"free", "call"} => taken[q] = <<>>

(* The queues of the answer so far are different, and each one has the     *)
(* list it was made for.                                                   *)
AnswerInv ==
  /\ Injective(call.data)
  /\ \A i \in DOMAIN call.data :
       qst[call.data[i]] = "call" /\ Reverse(fds[call.data[i]]) = part[call.data[i]]

(* The queue of the call has what the control messages that are left list, *)
(* unless it is in the answer: then they list nothing.                     *)
OwnerInv ==
  \A o \in Queue : call.owner = {o} =>
    IF o \in ToSet(call.data) THEN Rights(call.todo) = <<>>
                              ELSE Reverse(fds[o]) = Rights(call.todo)

(* With RightsInv, an inductive invariant. *)
OrderInv == (\A q \in Queue : InOrder(q) /\ Untouched(q)) /\ AnswerInv /\ OwnerInv

(* The queue of a call is in use by it. *)
LEMMA OwnerInCall ==
  ASSUME RightsInv, NEW o \in Queue, call.owner = {o}
  PROVE  call # NoCall /\ qst[o] = "call" /\ Owner = o
<1>1. NoCall.owner = {}
  BY DEF NoCall
<1>2. call # NoCall
  BY <1>1
<1>3. Owner \in Queue /\ call.owner = {Owner} /\ qst[Owner] = "call"
  BY <1>2, OwnerOwns
<1>4. Owner = o
  BY <1>3
<1> QED
  BY <1>2, <1>3, <1>4

(* A step at a queue that the call does not use. *)
LEMMA Elsewhere ==
  ASSUME RightsInv, OrderInv, NEW q \in Queue, qst[q] # "call", call' = call,
         \A r \in Queue \ {q} : /\ qst'[r] = qst[r] /\ fds'[r] = fds[r]
                                /\ part'[r] = part[r] /\ taken'[r] = taken[r],
         InOrder(q)', Untouched(q)'
  PROVE  OrderInv'
<1>1. ASSUME NEW r \in Queue PROVE InOrder(r)' /\ Untouched(r)'
  BY DEF OrderInv, InOrder, Untouched
<1>2. AnswerInv'
  <2>1. \A i \in DOMAIN call.data : call.data[i] \in Queue \ {q}
    <3>1. call.data \in Seq(Queue)
      BY DEF RightsInv, CallInv
    <3>2. \A i \in DOMAIN call.data : call.data[i] \in Queue
      BY <3>1
    <3> QED
      BY <3>2 DEF OrderInv, AnswerInv
  <2> QED
    BY <2>1 DEF OrderInv, AnswerInv
<1>3. OwnerInv'
  <2> SUFFICES ASSUME NEW o \in Queue, call.owner = {o}
               PROVE  IF o \in ToSet(call.data) THEN Rights(call.todo) = <<>>
                                                ELSE Reverse(fds'[o]) = Rights(call.todo)
    BY DEF OwnerInv
  <2>1. o # q
    BY OwnerInCall
  <2> QED
    BY <2>1 DEF OrderInv, OwnerInv
<1> QED
  BY <1>1, <1>2, <1>3 DEF OrderInv

(* What recvfd(2) returns with. *)
LEMMA RecvFdOrder ==
  ASSUME RightsInv, OrderInv, NEW q \in Queue, NEW m \in Messages, RecvFd(q, m) PROVE OrderInv'
<1> DEFINE l == Rights(m)
<1>1. l \in Seq(File)
  BY MessageType, ListType
<1>2. qst[q] = "free" /\ taken[q] = <<>> /\ call' = call /\ taken' = taken
  BY DEF RecvFd, OrderInv, Untouched
<1>3. \/ /\ Fits(l)
         /\ qst' = [qst EXCEPT ![q] = IF l = <<>> THEN "garbage" ELSE "held"]
         /\ fds' = [fds EXCEPT ![q] = Filled(l)]
         /\ part' = [part EXCEPT ![q] = l]
      \/ /\ qst' = [qst EXCEPT ![q] = "garbage"]
         /\ UNCHANGED <<fds, part>>
  BY DEF RecvFd
<1> HIDE DEF l
<1>4. \A r \in Queue \ {q} : /\ qst'[r] = qst[r] /\ fds'[r] = fds[r]
                             /\ part'[r] = part[r] /\ taken'[r] = taken[r]
  BY <1>2, <1>3 DEF RightsInv, Typed
<1>5. qst'[q] \in {"garbage", "held"}
  BY <1>3 DEF RightsInv, Typed
<1>6. Untouched(q)'
  BY <1>5 DEF Untouched
<1>7. InOrder(q)'
  <2> SUFFICES ASSUME qst'[q] = "held" PROVE taken'[q] \o Reverse(fds'[q]) = part'[q]
    BY DEF InOrder
  <2>1. Fits(l) /\ fds'[q] = Filled(l) /\ part'[q] = l
    BY <1>3 DEF RightsInv, Typed
  <2>2. Reverse(fds'[q]) = l
    BY <1>1, <2>1, FilledWhole
  <2> QED
    BY <1>1, <1>2, <2>1, <2>2
<1> QED
  BY <1>2, <1>4, <1>6, <1>7, Elsewhere

(* What recvmsg(2) returns with. *)
LEMMA RecvMsgOrder ==
  ASSUME RightsInv, OrderInv, NEW q \in Queue, NEW m \in Messages, RecvMsg(q, m) PROVE OrderInv'
<1> DEFINE l == Rights(m)
<1>1. l \in Seq(File)
  BY MessageType, ListType
<1>2. qst[q] = "free" /\ taken[q] = <<>> /\ taken' = taken /\ part' = part
        /\ fds' = [fds EXCEPT ![q] = Filled(l)]
  BY DEF RecvMsg, OrderInv, Untouched
<1>3. \/ /\ Fits(l)
         /\ qst' = [qst EXCEPT ![q] = "call"]
         /\ call' = [todo |-> m, owner |-> {q}, data |-> <<>>]
      \/ qst' = [qst EXCEPT ![q] = "garbage"] /\ call' = call
  BY DEF RecvMsg
<1> HIDE DEF l
<1>4. \A r \in Queue \ {q} : /\ qst'[r] = qst[r] /\ fds'[r] = fds[r]
                             /\ part'[r] = part[r] /\ taken'[r] = taken[r]
  BY <1>2, <1>3 DEF RightsInv, Typed
<1>5. CASE qst' = [qst EXCEPT ![q] = "garbage"] /\ call' = call
  <2>1. qst'[q] = "garbage"
    BY <1>5 DEF RightsInv, Typed
  <2>2. Untouched(q)' /\ InOrder(q)'
    BY <2>1 DEF Untouched, InOrder
  <2> QED
    BY <1>2, <1>4, <1>5, <2>2, Elsewhere
<1>6. CASE /\ Fits(l) /\ qst' = [qst EXCEPT ![q] = "call"]
           /\ call' = [todo |-> m, owner |-> {q}, data |-> <<>>]
  <2>1. qst'[q] = "call" /\ fds'[q] = Filled(l) /\ taken'[q] = <<>>
    BY <1>2, <1>6 DEF RightsInv, Typed
  <2>2. ASSUME NEW r \in Queue PROVE InOrder(r)' /\ Untouched(r)'
    BY <1>4, <2>1 DEF OrderInv, InOrder, Untouched
  <2>3. call'.todo = m /\ call'.owner = {q} /\ call'.data = <<>>
    BY <1>6
  <2>4. AnswerInv'
    BY <2>3 DEF AnswerInv, Injective
  <2>5. OwnerInv'
    <3>1. Reverse(fds'[q]) = Rights(m)
      BY <1>1, <1>6, <2>1, FilledWhole DEF l
    <3>2. ToSet(call'.data) = {}
      BY <2>3 DEF ToSet
    <3> QED
      BY <2>3, <3>1, <3>2 DEF OwnerInv
  <2> QED
    BY <2>2, <2>4, <2>5 DEF OrderInv
<1> QED
  BY <1>3, <1>5, <1>6

(* get() *)
LEMMA GetOrder == ASSUME RightsInv, OrderInv, NEW q \in Queue, Get(q) PROVE OrderInv'
<1> DEFINE s == fds[q]  t == taken[q]
<1>1. s \in Seq(File) /\ s # <<>> /\ t \in Seq(File) /\ qst[q] = "held"
  BY DEF Get, RightsInv, Typed
<1>2. fds' = [fds EXCEPT ![q] = Front(s)] /\ taken' = [taken EXCEPT ![q] = Append(t, Last(s))]
        /\ qst' = qst /\ part' = part /\ call' = call
  BY DEF Get
<1>3. t \o Reverse(s) = part[q]
  BY <1>1 DEF OrderInv, InOrder
<1> HIDE DEF s, t
<1>4. fds'[q] = Front(s) /\ taken'[q] = Append(t, Last(s))
  BY <1>2 DEF RightsInv, Typed
<1>5. t \o Reverse(s) = Append(t, Last(s)) \o Reverse(Front(s))
  BY <1>1, GetNext
<1>6. InOrder(q)' /\ Untouched(q)'
  BY <1>1, <1>2, <1>3, <1>4, <1>5 DEF InOrder, Untouched
<1>7. \A r \in Queue \ {q} : /\ qst'[r] = qst[r] /\ fds'[r] = fds[r]
                             /\ part'[r] = part[r] /\ taken'[r] = taken[r]
  BY <1>2 DEF RightsInv, Typed
<1> QED
  BY <1>1, <1>2, <1>6, <1>7, Elsewhere

(* A queue is closed, forgotten or collected. *)
LEMMA DiscardOrder ==
  ASSUME RightsInv, OrderInv, NEW q \in Queue, CloseQueue(q) \/ Drop(q) \/ Collect(q)
  PROVE  OrderInv'
<1>1. CASE CloseQueue(q)
  <2>1. qst[q] = "held" /\ qst' = qst /\ fds' = [fds EXCEPT ![q] = <<>>]
          /\ call' = call /\ part' = part /\ taken' = taken
    BY <1>1 DEF CloseQueue
  <2>2. InOrder(q)' /\ Untouched(q)'
    BY <2>1 DEF InOrder, Untouched, RightsInv, Typed
  <2>3. \A r \in Queue \ {q} : /\ qst'[r] = qst[r] /\ fds'[r] = fds[r]
                               /\ part'[r] = part[r] /\ taken'[r] = taken[r]
    BY <2>1 DEF RightsInv, Typed
  <2> QED
    BY <2>1, <2>2, <2>3, Elsewhere
<1>2. CASE Drop(q)
  <2>1. qst[q] = "held" /\ qst' = [qst EXCEPT ![q] = "garbage"]
          /\ fds' = fds /\ call' = call /\ part' = part /\ taken' = taken
    BY <1>2 DEF Drop
  <2>2. InOrder(q)' /\ Untouched(q)'
    BY <2>1 DEF InOrder, Untouched, RightsInv, Typed
  <2>3. \A r \in Queue \ {q} : /\ qst'[r] = qst[r] /\ fds'[r] = fds[r]
                               /\ part'[r] = part[r] /\ taken'[r] = taken[r]
    BY <2>1 DEF RightsInv, Typed
  <2> QED
    BY <2>1, <2>2, <2>3, Elsewhere
<1>3. CASE Collect(q)
  <2>1. qst[q] = "garbage" /\ qst' = [qst EXCEPT ![q] = "free"]
          /\ fds' = [fds EXCEPT ![q] = <<>>] /\ call' = call
          /\ part' = [part EXCEPT ![q] = <<>>] /\ taken' = [taken EXCEPT ![q] = <<>>]
    BY <1>3 DEF Collect
  <2>2. qst'[q] = "free" /\ taken'[q] = <<>>
    BY <2>1 DEF RightsInv, Typed
  <2>3. InOrder(q)' /\ Untouched(q)'
    BY <2>2 DEF InOrder, Untouched
  <2>4. \A r \in Queue \ {q} : /\ qst'[r] = qst[r] /\ fds'[r] = fds[r]
                               /\ part'[r] = part[r] /\ taken'[r] = taken[r]
    BY <2>1 DEF RightsInv, Typed
  <2> QED
    BY <2>1, <2>3, <2>4, Elsewhere
<1> QED
  BY <1>1, <1>2, <1>3

(* One more queue in the answer. *)
LEMMA OneMore ==
  ASSUME NEW d \in Seq(Queue), NEW p \in Queue, Injective(d), p \notin ToSet(d)
  PROVE  /\ Injective(Append(d, p)) /\ ToSet(Append(d, p)) = ToSet(d) \union {p}
         /\ \A i \in DOMAIN Append(d, p) :
              Append(d, p)[i] = p \/ (i \in DOMAIN d /\ Append(d, p)[i] = d[i])
<1> DEFINE n == Len(d)  e == Append(d, p)
<1>1. /\ n \in Nat /\ DOMAIN d = 1..n /\ DOMAIN e = 1..(n + 1)
      /\ \A i \in 1..n : e[i] = d[i]
      /\ e[n + 1] = p
  BY AppendProperties
<1> HIDE DEF n, e
<1>2. \A i \in 1..(n + 1) : i \in 1..n \/ i = n + 1
  BY <1>1
<1>3. \A i \in 1..n : d[i] # p
  BY <1>1 DEF ToSet
<1>4. Injective(e)
  <2> SUFFICES ASSUME NEW i \in 1..(n + 1), NEW j \in 1..(n + 1), i # j PROVE e[i] # e[j]
    BY <1>1 DEF Injective
  <2>1. CASE i \in 1..n /\ j \in 1..n
    BY <1>1, <2>1 DEF Injective
  <2>2. CASE i = n + 1 /\ j \in 1..n
    BY <1>1, <1>3, <2>2
  <2>3. CASE i \in 1..n /\ j = n + 1
    BY <1>1, <1>3, <2>3
  <2> QED
    BY <1>2, <2>1, <2>2, <2>3
<1>5. ToSet(e) = ToSet(d) \union {p}
  <2>1. 1..n \subseteq 1..(n + 1) /\ n + 1 \in 1..(n + 1)
    BY <1>1
  <2> QED
    BY <1>1, <1>2, <2>1 DEF ToSet
<1>6. \A i \in DOMAIN e : e[i] = p \/ (i \in DOMAIN d /\ e[i] = d[i])
  BY <1>1, <1>2
<1> QED
  BY <1>4, <1>5, <1>6 DEF e

(* Parts of a list that lists nothing list nothing. *)
LEMMA NothingInside ==
  ASSUME NEW l \in Seq(File), NEW r \in Seq(File), l \o r = <<>> PROVE l = <<>> /\ r = <<>>
<1>1. Len(l \o r) = Len(l) + Len(r) /\ Len(l) \in Nat /\ Len(r) \in Nat
  BY ConcatProperties
<1>2. Len(l \o r) = 0
  OBVIOUS
<1>3. Len(l) = 0 /\ Len(r) = 0
  BY <1>1, <1>2
<1> QED
  BY <1>3, EmptySeq

(* What is listed by the next control message. *)
LEMMA NextListed ==
  ASSUME RightsInv, call.todo # <<>>
  PROVE  /\ Head(call.todo) \in Control /\ Tail(call.todo) \in Seq(Control)
         /\ Listed(Head(call.todo)) \in Seq(File) /\ Rights(Tail(call.todo)) \in Seq(File)
         /\ Rights(call.todo) = Listed(Head(call.todo)) \o Rights(Tail(call.todo))
<1>1. call.todo \in Seq(Control)
  BY DEF RightsInv, CallInv, Control
<1>2. Head(call.todo) \in Control /\ Tail(call.todo) \in Seq(Control)
  BY <1>1, HeadTailProperties
<1>3. Listed(Head(call.todo)) \in Seq(File)
  BY <1>2, ListType DEF Control, Listed, IsRights
<1>4. Rights(Tail(call.todo)) \in Seq(File)
  BY <1>2, RightsType
<1> QED
  BY <1>1, <1>2, <1>3, <1>4, RightsUnfold

(* Another kind of control message lists nothing. *)
LEMMA PushOtherOrder == ASSUME RightsInv, OrderInv, PushOther PROVE OrderInv'
<1>1. /\ call.todo # <<>> /\ ~IsRights(Head(call.todo))
      /\ call' = [call EXCEPT !.todo = Tail(@)]
      /\ UNCHANGED <<qst, fds, part, taken>>
  BY DEF PushOther
<1>2. Rights(call.todo) = Rights(Tail(call.todo))
  <2>1. Listed(Head(call.todo)) = <<>>
    BY <1>1 DEF Listed
  <2>2. /\ Rights(Tail(call.todo)) \in Seq(File)
        /\ Rights(call.todo) = Listed(Head(call.todo)) \o Rights(Tail(call.todo))
    BY <1>1, NextListed, Zenon
  <2>3. ASSUME NEW r \in Seq(File) PROVE <<>> \o r = r
    OBVIOUS
  <2> QED
    BY <2>1, <2>2, <2>3
<1>3. call'.todo = Tail(call.todo) /\ call'.owner = call.owner /\ call'.data = call.data
  BY <1>1 DEF RightsInv, CallInv
<1>4. \A q \in Queue : InOrder(q)' /\ Untouched(q)'
  BY <1>1 DEF OrderInv, InOrder, Untouched
<1>5. AnswerInv'
  BY <1>1, <1>3 DEF OrderInv, AnswerInv
<1>6. OwnerInv'
  BY <1>1, <1>2, <1>3 DEF OrderInv, OwnerInv
<1> QED
  BY <1>4, <1>5, <1>6 DEF OrderInv

(* The call ends: what is in its answer is complete. *)
LEMMA EndOrder == ASSUME RightsInv, OrderInv, Return \/ Fail PROVE OrderInv'
<1>1. call' = NoCall /\ UNCHANGED <<fds, part, taken>>
  BY DEF Return, Fail
<1>2. ASSUME NEW q \in Queue
      PROVE  /\ qst'[q] = "held" => qst[q] = "held" \/ (qst[q] = "call" /\ q \in ToSet(call.data))
             /\ qst'[q] = "free" => qst[q] = "free"
             /\ qst'[q] # "call"
  BY DEF Return, Fail, RightsInv, Typed
<1>3. ASSUME NEW q \in Queue PROVE InOrder(q)' /\ Untouched(q)'
  <2>1. Untouched(q)'
    BY <1>1, <1>2 DEF OrderInv, Untouched
  <2>2. InOrder(q)'
    <3>1. CASE qst[q] = "held"
      BY <1>1, <3>1 DEF OrderInv, InOrder
    <3>2. CASE qst[q] = "call" /\ q \in ToSet(call.data)
      <4>1. PICK i \in DOMAIN call.data : call.data[i] = q
        BY <3>2 DEF ToSet
      <4>2. Reverse(fds[q]) = part[q] /\ taken[q] = <<>>
        BY <3>2, <4>1 DEF OrderInv, AnswerInv, Untouched
      <4>3. taken[q] \o Reverse(fds[q]) = part[q]
        BY <4>2 DEF RightsInv, Typed
      <4> QED
        BY <1>1, <4>3 DEF InOrder
    <3> QED
      BY <1>2, <3>1, <3>2 DEF InOrder
  <2> QED
    BY <2>1, <2>2
<1>4. AnswerInv' /\ OwnerInv'
  <2>1. call'.data = <<>> /\ call'.owner = {}
    BY <1>1 DEF NoCall
  <2>2. AnswerInv'
    BY <2>1 DEF AnswerInv, Injective
  <2>3. OwnerInv'
    BY <2>1 DEF OwnerInv
  <2> QED
    BY <2>2, <2>3
<1> QED
  BY <1>3, <1>4 DEF OrderInv

(* A list that is all the call's queue has left, and one that is not.      *)
LEMMA WholeSplit ==
  ASSUME NEW s \in Seq(File), NEW l \in Seq(File), NEW r \in Seq(File), Reverse(s) = l \o r,
         Len(l) = Len(s)
  PROVE  Reverse(s) = l /\ r = <<>>
<1>1. Len(r) \in Nat /\ Len(l) \in Nat /\ Len(s) = Len(l) + Len(r)
  BY SplitOrder
<1>2. Len(r) = 0
  BY <1>1
<1>3. r = <<>>
  BY <1>2, EmptySeq
<1> QED
  BY <1>3

LEMMA EmptySplit ==
  ASSUME NEW s \in Seq(File) PROVE Reverse(SplitOff(s, 0)) = <<>> /\ Remaining(s, 0) = s
<1>1. Len(s) \in Nat /\ 0 <= Len(s) /\ Len(s) - 0 = Len(s)
  OBVIOUS
<1>2. SplitOff(s, 0) \in Seq(File) /\ Len(SplitOff(s, 0)) = 0
        /\ Remaining(s, 0) \in Seq(File) /\ Len(Remaining(s, 0)) = Len(s)
        /\ \A i \in 1..Len(s) : Remaining(s, 0)[i] = s[i]
  <2>1. 0 \in Nat
    OBVIOUS
  <2>2. /\ SplitOff(s, 0) \in Seq(File) /\ Len(SplitOff(s, 0)) = 0
        /\ Remaining(s, 0) \in Seq(File) /\ Len(Remaining(s, 0)) = Len(s) - 0
        /\ \A i \in 1..(Len(s) - 0) : Remaining(s, 0)[i] = s[i]
    BY <1>1, <2>1, SplitMoves, Zenon
  <2> QED
    BY <1>1, <2>2
<1>3. SplitOff(s, 0) = <<>>
  BY <1>2, EmptySeq
<1>4. Remaining(s, 0) = s
  BY <1>2, SeqEqual
<1>5. Reverse(SplitOff(s, 0)) = <<>>
  BY <1>2, <1>3, ReverseBack, Zenon
<1> QED
  BY <1>4, <1>5

(* Each list of the message gets a queue that has it. *)
LEMMA PushRightsOrder ==
  ASSUME RightsInv, OrderInv, NEW q \in Queue, PushRights(q) PROVE OrderInv'
<1> DEFINE o == Owner
           l == Head(call.todo)
           rest == Rights(Tail(call.todo))
           n == Len(l)
           whole == n > 0 /\ n = Len(fds[o])
           p == IF whole THEN o ELSE q
<1>1. o \in Queue /\ qst[o] = "call" /\ call.owner = {o}
  BY OwnerOwns DEF PushRights
<1>2. /\ n <= Len(fds[o]) /\ (~whole => qst[q] = "free")
      /\ qst' = [qst EXCEPT ![p] = "call"]
      /\ fds' = IF whole THEN fds
                ELSE [fds EXCEPT ![q] = SplitOff(fds[o], n), ![o] = Remaining(@, n)]
      /\ part' = [part EXCEPT ![p] = l]
      /\ call' = [call EXCEPT !.todo = Tail(@), !.data = Append(@, p)]
      /\ taken' = taken
  BY DEF PushRights
<1>3. call.todo # <<>> /\ IsRights(l) /\ call.data \in Seq(Queue)
  BY DEF PushRights, RightsInv, CallInv
<1>4. l \in Seq(File) /\ rest \in Seq(File) /\ Rights(call.todo) = l \o rest /\ n \in Nat
  <2>1. Listed(l) = l
    BY <1>3 DEF Listed
  <2>2. /\ Listed(l) \in Seq(File) /\ rest \in Seq(File)
        /\ Rights(call.todo) = Listed(l) \o rest
    BY <1>3, NextListed, Zenon
  <2> HIDE DEF l, rest
  <2> QED
    BY <2>1, <2>2
<1>5. call'.todo = Tail(call.todo) /\ call'.owner = {o} /\ call'.data = Append(call.data, p)
  BY <1>1, <1>2 DEF RightsInv, CallInv
<1>6. fds[o] \in Seq(File)
  BY <1>1 DEF RightsInv, Typed
<1>7. Rights(call'.todo) = rest
  BY <1>5
<1> HIDE DEF o, l, rest
<1>8. IF o \in ToSet(call.data) THEN l \o rest = <<>> ELSE Reverse(fds[o]) = l \o rest
  BY <1>1, <1>4 DEF OrderInv, OwnerInv
<1>9. o \in ToSet(call.data) => l = <<>> /\ rest = <<>> /\ n = 0
  BY <1>4, <1>8, NothingInside
<1>10. p \in Queue
  BY <1>1
<1>11. p \notin ToSet(call.data)
  <2>1. CASE whole
    BY <1>9, <2>1
  <2>2. CASE ~whole
    BY <1>2, <2>2 DEF OrderInv, AnswerInv, ToSet
  <2> QED
    BY <2>1, <2>2
<1>12. /\ \A r \in Queue : qst'[r] = IF r = p THEN "call" ELSE qst[r]
       /\ \A r \in Queue : part'[r] = IF r = p THEN l ELSE part[r]
  BY <1>2, <1>10 DEF RightsInv, Typed
<1>13. /\ \A r \in Queue \ {o, p} : fds'[r] = fds[r]
       /\ Reverse(fds'[p]) = l /\ taken[p] = <<>>
       /\ o \in ToSet(call.data) => rest = <<>> /\ fds'[o] = fds[o]
       /\ o \notin ToSet(call.data) => Reverse(fds'[o]) = rest \/ (p = o /\ rest = <<>>)
  <2>1. CASE whole
    <3>1. fds' = fds /\ p = o /\ Len(l) = Len(fds[o])
      BY <1>2, <2>1
    <3>2. o \notin ToSet(call.data)
      BY <1>9, <2>1
    <3>3. Reverse(fds[o]) = l /\ rest = <<>>
      BY <1>4, <1>6, <1>8, <3>1, <3>2, WholeSplit
    <3>4. taken[p] = <<>>
      BY <1>1, <3>1 DEF OrderInv, Untouched
    <3> QED
      BY <3>1, <3>2, <3>3, <3>4
  <2>2. CASE ~whole
    <3>1. p = q /\ qst[q] = "free" /\ q # o /\ taken[p] = <<>>
      BY <1>1, <1>2, <2>2 DEF OrderInv, Untouched
    <3>2. fds' = [fds EXCEPT ![q] = SplitOff(fds[o], n), ![o] = Remaining(@, n)]
      BY <1>2, <2>2
    <3>3. /\ fds'[q] = SplitOff(fds[o], n) /\ fds'[o] = Remaining(fds[o], n)
          /\ \A r \in Queue \ {o, q} : fds'[r] = fds[r]
      BY <1>1, <3>1, <3>2 DEF RightsInv, Typed
    <3>4. CASE o \in ToSet(call.data)
      <4>1. n = 0 /\ l = <<>> /\ rest = <<>>
        BY <1>9, <3>4
      <4>2. Reverse(SplitOff(fds[o], 0)) = <<>> /\ Remaining(fds[o], 0) = fds[o]
        BY <1>6, EmptySplit
      <4>3. fds'[q] = SplitOff(fds[o], 0) /\ fds'[o] = fds[o]
        BY <3>3, <4>1, <4>2
      <4> QED
        BY <3>1, <3>3, <3>4, <4>1, <4>2, <4>3
    <3>5. CASE o \notin ToSet(call.data)
      <4>0. Reverse(fds[o]) = l \o rest
        BY <1>8, <3>5
      <4>1. Reverse(SplitOff(fds[o], n)) = l /\ Reverse(Remaining(fds[o], n)) = rest
        <5>1. Halves(fds[o], l, rest)
          BY <1>4, <1>6, <4>0, SplitOrder
        <5> QED
          BY <5>1 DEF Halves
      <4> QED
        BY <3>1, <3>3, <3>5, <4>1
    <3> QED
      BY <3>4, <3>5
  <2> QED
    BY <2>1, <2>2
<1> HIDE DEF p, whole, n
<1>14. ASSUME NEW r \in Queue PROVE InOrder(r)' /\ Untouched(r)'
  <2>1. CASE r = p
    <3>1. qst'[r] = "call" /\ taken'[r] = <<>>
      BY <1>2, <1>12, <1>13, <2>1
    <3> QED
      BY <3>1 DEF InOrder, Untouched
  <2>2. CASE r = o /\ r # p
    BY <1>1, <1>2, <1>12, <2>2 DEF OrderInv, InOrder, Untouched
  <2>3. CASE r # o /\ r # p
    <3>1. qst'[r] = qst[r] /\ taken'[r] = taken[r] /\ part'[r] = part[r] /\ fds'[r] = fds[r]
      BY <1>2, <1>12, <1>13, <2>3
    <3>2. InOrder(r) /\ Untouched(r)
      BY DEF OrderInv
    <3> QED
      BY <3>1, <3>2 DEF InOrder, Untouched
  <2> QED
    BY <2>1, <2>2, <2>3
<1>15. Injective(call.data) /\ \A i \in DOMAIN call.data : call.data[i] \in ToSet(call.data)
  BY DEF OrderInv, AnswerInv, ToSet
<1>16. /\ Injective(call'.data) /\ ToSet(call'.data) = ToSet(call.data) \union {p}
       /\ \A i \in DOMAIN call'.data :
            call'.data[i] = p \/ (i \in DOMAIN call.data /\ call'.data[i] = call.data[i])
  BY <1>3, <1>5, <1>10, <1>11, <1>15, OneMore
<1>17. ASSUME NEW r \in Queue, r \in ToSet(call.data)
       PROVE  qst'[r] = "call" /\ Reverse(fds'[r]) = part'[r]
  <2>1. PICK i \in DOMAIN call.data : call.data[i] = r
    BY <1>17 DEF ToSet
  <2>2. qst[r] = "call" /\ Reverse(fds[r]) = part[r]
    BY <2>1 DEF OrderInv, AnswerInv
  <2>3. r # p
    BY <1>11, <1>17
  <2>4. fds'[r] = fds[r]
    BY <1>13, <1>17, <2>3
  <2> QED
    BY <1>12, <2>2, <2>3, <2>4
<1>18. AnswerInv'
  <2> SUFFICES ASSUME NEW i \in DOMAIN call'.data
               PROVE  qst'[call'.data[i]] = "call"
                      /\ Reverse(fds'[call'.data[i]]) = part'[call'.data[i]]
    BY <1>16 DEF AnswerInv
  <2>1. CASE call'.data[i] = p
    BY <1>10, <1>12, <1>13, <2>1
  <2>2. CASE i \in DOMAIN call.data /\ call'.data[i] = call.data[i]
    <3>1. call.data[i] \in Queue /\ call.data[i] \in ToSet(call.data)
      BY <1>3, <1>15, <2>2
    <3> QED
      BY <1>17, <2>2, <3>1
  <2> QED
    BY <1>16, <2>1, <2>2
<1>19. OwnerInv'
  <2> SUFFICES IF o \in ToSet(call'.data) THEN rest = <<>> ELSE Reverse(fds'[o]) = rest
    BY <1>5, <1>7 DEF OwnerInv
  <2>1. CASE o \in ToSet(call.data)
    BY <1>13, <1>16, <2>1
  <2>2. CASE o \notin ToSet(call.data) /\ p = o
    <3>1. whole
      BY <1>1, <1>2, <2>2 DEF p
    <3>2. Len(l) = Len(fds[o]) /\ Reverse(fds[o]) = l \o rest
      BY <1>8, <2>2, <3>1 DEF whole, n
    <3>3. rest = <<>>
      BY <1>4, <1>6, <3>2, WholeSplit
    <3> QED
      BY <1>16, <2>2, <3>3
  <2>3. CASE o \notin ToSet(call.data) /\ p # o
    BY <1>13, <1>16, <2>3
  <2> QED
    BY <2>1, <2>2, <2>3
<1> QED
  BY <1>14, <1>18, <1>19 DEF OrderInv

(* The program closes a descriptor, or nothing happens. *)
LEMMA SameOrder ==
  ASSUME OrderInv, UNCHANGED <<qst, fds, call, part, taken>> PROVE OrderInv'
<1>1. \A q \in Queue : InOrder(q)' /\ Untouched(q)'
  BY DEF OrderInv, InOrder, Untouched
<1>2. AnswerInv' /\ OwnerInv'
  BY DEF OrderInv, AnswerInv, OwnerInv
<1> QED
  BY <1>1, <1>2 DEF OrderInv

LEMMA InitOrder == Init => OrderInv
<1> SUFFICES ASSUME Init PROVE OrderInv
  OBVIOUS
<1>1. \A q \in Queue : InOrder(q) /\ Untouched(q)
  BY DEF Init, InOrder, Untouched
<1>2. call.data = <<>> /\ call.owner = {}
  BY DEF Init, NoCall
<1>3. AnswerInv /\ OwnerInv
  BY <1>2 DEF AnswerInv, Injective, OwnerInv
<1> QED
  BY <1>1, <1>3 DEF OrderInv

LEMMA NextOrder == RightsInv /\ OrderInv /\ [Next]_vars => OrderInv'
<1> SUFFICES ASSUME RightsInv, OrderInv, [Next]_vars PROVE OrderInv'
  OBVIOUS
<1>1. ASSUME NEW q \in Queue, NEW m \in Messages, RecvFd(q, m) \/ RecvMsg(q, m) PROVE OrderInv'
  BY <1>1, RecvFdOrder, RecvMsgOrder
<1>2. ASSUME NEW q \in Queue, PushRights(q) PROVE OrderInv'
  BY <1>2, PushRightsOrder
<1>3. ASSUME NEW q \in Queue, Get(q) \/ CloseQueue(q) \/ Drop(q) \/ Collect(q) PROVE OrderInv'
  BY <1>3, GetOrder, DiscardOrder
<1>4. CASE PushOther \/ Return \/ Fail
  BY <1>4, PushOtherOrder, EndOrder
<1>5. ASSUME NEW f \in File, CloseFd(f) PROVE OrderInv'
  BY <1>5, SameOrder DEF CloseFd
<1>6. CASE UNCHANGED vars
  BY <1>6, SameOrder DEF vars
<1> QED
  BY <1>1, <1>2, <1>3, <1>4, <1>5, <1>6 DEF Next

(* What a queue has left, what was taken out of it, and what a call in     *)
(* progress still has to hand out make up what the peer sent.              *)
THEOREM OrderInvariant == Spec => []OrderInv
<1>1. RightsInv /\ RightsInv' /\ OrderInv /\ [Next]_vars => OrderInv'
  BY NextOrder
<1> QED
  BY <1>1, InitOrder, RightsInvariant, PTL DEF Spec

(* Each list of a message reaches the program complete, in a queue of its  *)
(* own and in the order it was sent, however the message was split, and    *)
(* the queue of the call keeps none (net_scm_rights_fill, get and          *)
(* push_rights_data).                                                      *)
THEOREM DescriptorsInOrder == Spec => []DeliveredInOrder
<1>1. RightsInv /\ OrderInv => DeliveredInOrder
  <2> SUFFICES ASSUME RightsInv, OrderInv PROVE DeliveredInOrder
    OBVIOUS
  <2>1. \A q \in Queue : qst[q] = "held" /\ fds[q] # <<>> =>
          taken[q] \o Reverse(fds[q]) = part[q]
    BY DEF OrderInv, InOrder
  <2>2. ASSUME call # NoCall, call.todo = <<>>, Owner \notin ToSet(call.data)
        PROVE  fds[Owner] = <<>>
    <3>1. Owner \in Queue /\ call.owner = {Owner} /\ fds[Owner] \in Seq(File)
      BY <2>2, OwnerOwns DEF RightsInv, Typed
    <3>2. Rights(call.todo) = <<>>
      BY <2>2, RightsUnfold DEF RightsInv, CallInv, Control
    <3>3. Reverse(fds[Owner]) = <<>>
      BY <2>2, <3>1, <3>2 DEF OrderInv, OwnerInv
    <3> QED
      BY <3>1, <3>3, ReverseBack
  <2> QED
    BY <2>1, <2>2 DEF DeliveredInOrder, OrderInv, AnswerInv
<1> QED
  BY <1>1, RightsInvariant, OrderInvariant, PTL
===============================================================================
