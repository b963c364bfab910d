-------------------------------- MODULE Channels -------------------------------
(****************************************************************************)
(* The two tokio channels the tasks talk through, as the code under src/    *)
(* uses them.  mpsc::channel(n) is a sequence of at most n messages: send   *)
(* waits for room.  broadcast::channel(n), seen by one receiver, keeps the  *)
(* last n messages: send never waits but overwrites the oldest, and the     *)
(* receiver's next recv returns Lagged once before it reads what is left.   *)
(****************************************************************************)
EXTENDS Naturals, Sequences

Quiet == [buf |-> <<>>, lagged |-> FALSE]

IsChannel(ch, Messages, n) ==
  /\ Len(ch.buf) <= n /\ \A i \in DOMAIN ch.buf : ch.buf[i] \in Messages
  /\ ch.lagged \in BOOLEAN

Full(ch, n) == Len(ch.buf) = n

(* Mutant: the oldest message is kept. *)
PublishedBeyond(ch, n, m) == [ch EXCEPT !.buf = Append(@, m)]

Published(ch, n, m) ==
  IF Full(ch, n) THEN [buf |-> Append(Tail(ch.buf), m), lagged |-> TRUE]
                 ELSE [ch EXCEPT !.buf = Append(@, m)]

(* The message a send overwrites, if it does. *)
Overwritten(ch, n) == IF Full(ch, n) THEN {Head(ch.buf)} ELSE {}

(* What recv would return now: a message, Lagged, or nothing yet. *)
HasMessage(ch) == ~ch.lagged /\ ch.buf # <<>>
HasLagged(ch)  == ch.lagged

Taken(ch)     == [ch EXCEPT !.buf = Tail(@)]
LagSeen(ch)   == [ch EXCEPT !.lagged = FALSE]

--------------------------------------------------------------------------------
(* A message is its kind and its number.  Of the messages in C: the numbers *)
(* of those in a set and in a sequence, and whether they are in the order   *)
(* of their numbers, each once.                                             *)
SetNumbers(M, C) == {m[2] : m \in M \cap C}
Numbers(s, C)    == {s[i][2] : i \in {k \in DOMAIN s : s[k] \in C}}
Rising(s, C) ==
  \A i, j \in DOMAIN s : i < j /\ s[i] \in C /\ s[j] \in C => s[i][2] < s[j][2]
================================================================================
