---------------------------- MODULE MessageStream ----------------------------
(***************************************************************************)
(* What the synchronized calls of net.Socket (writesync, sendsync,         *)
(* sendmsgsync, sendfilesync, ...) promise together: on every connection   *)
(* the bytes of one call stand together, from its first byte on, in order  *)
(* and once each, and descriptors travel with the first byte.              *)
(***************************************************************************)
EXTENDS Naturals, Sequences, FiniteSets

CONSTANTS
  Writer,   \* calls, each of which sends one message
  Carries,  \* those whose message comes with descriptors
  Sock,     \* connections
  Size,     \* bytes of the longest message
  None      \* no call

VARIABLES
  speaker,  \* speaker[s]: the call whose message is going out on s
  stream    \* stream[s]: what the peer of s gets, in order

vars == <<speaker, stream>>

(* The bytes i .. j of the message of w. *)
Bytes(w, i, j) ==
  [k \in 1..(j - i + 1) |-> [by |-> w, at |-> i + k - 1, fds |-> w \in Carries /\ i + k = 2]]

(* How many bytes of w went out on s. *)
Said(w, s) == Cardinality({i \in DOMAIN stream[s] : stream[s][i].by = w})

Init ==
  /\ speaker = [s \in Sock |-> None]
  /\ stream = [s \in Sock |-> <<>>]

(* w goes on where it stopped, and keeps the connection or leaves it. *)
Speak(w, s) ==
  /\ \E n \in 0..Size :
       stream' = [stream EXCEPT ![s] = @ \o Bytes(w, Said(w, s) + 1, Said(w, s) + n)]
  /\ \E next \in {w, None} : speaker' = [speaker EXCEPT ![s] = next]

(* A call that said nothing yet takes a connection nobody speaks on. *)
Begin(w, s) ==
  /\ speaker[s] = None
  /\ \A c \in Sock : Said(w, c) = 0
  /\ Speak(w, s)

GoOn(s) == speaker[s] # None /\ Speak(speaker[s], s)

Next == \E s \in Sock : GoOn(s) \/ \E w \in Writer : Begin(w, s)

Spec == Init /\ [][Next]_vars
=============================================================================
