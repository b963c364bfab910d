-------------------------- MODULE RequestClientProofs --------------------------
(****************************************************************************)
(* The invariants of RequestClient, for any number of requests, slots and   *)
(* timeouts, and any setting of the clock.                                  *)
(*                                                                          *)
(* TableInv says what a slot may hold: an id that was drawn, and no id      *)
(* twice.  WaitInv ties the table, the mailbox and the caller together.     *)
(* AgeInv is about a caller that lets its requests end (steady): whatever   *)
(* it left in the table has reached its timeout, and one tick of the next   *)
(* wait makes it old enough to be purged.                                   *)
(****************************************************************************)
EXTENDS RequestClient, FiniteSetTheorems, SequenceTheorems, WellFoundedInduction, TLAPS

Occupied == {i \in Slots : queue[i] # NoRequest}

(* The ids drawn so far are the first of Draws.                             *)
UsedInv ==
  /\ IsFiniteSet(used)
  /\ Cardinality(used) \in 0..Len(Draws)
  /\ used = {Draws[k] : k \in 1..Cardinality(used)}

TableInv ==
  /\ \A i \in Occupied : queue[i].id \in used /\ queue[i].timeout \in Timeouts
  /\ \A i, j \in Occupied : queue[i].id = queue[j].id => i = j

(* The request in progress has its slot until its answer is in the mailbox. *)
WaitInv ==
  /\ state # "idle" => current \in used /\ timeout \in Timeouts
  /\ state # "idle" /\ mailbox = <<>> => \E i \in Occupied : queue[i].id = current
  /\ mailbox # <<>> => /\ mailbox = <<current>> /\ current \in responses
                       /\ \A i \in Occupied : queue[i].id # current
  /\ state # "idle" => \A i \in Occupied : queue[i].id = current => queue[i].timeout = timeout

(* Left i: the slot of a request that is no longer in progress.             *)
Left(i)    == i \in Occupied /\ (state = "idle" \/ queue[i].id # current)
Expired(i) == queue[i].age > queue[i].timeout

AgeInv ==
  /\ result # "Busy" /\ peer_up
  /\ \A i \in Slots : queue[i].age >= 0
  /\ \A i \in Slots : Left(i) => queue[i].age >= queue[i].timeout
  /\ \A i, j \in Slots : Left(i) /\ Left(j) /\ ~Expired(i) /\ ~Expired(j) => i = j
  /\ state \in {"waiting", "looked"} =>
       /\ \A i \in Occupied : queue[i].id = current => queue[i].age >= slept
       /\ slept > 0 => \A i \in Slots : Left(i) => Expired(i)

Inv == TypeOK /\ UsedInv /\ TableInv /\ WaitInv

SteadyInv == steady /\ ~cancelled => AgeInv

Entry == [id : Ids \cup {"none"}, age : -MaxBack..AgeLimit, timeout : Timeouts \cup {0}]

--------------------------------------------------------------------------------
(* Min, and what the operators on the table give.                           *)
LEMMA MinIsMember ==
  ASSUME NEW S, S \subseteq Nat, S # {}
  PROVE  Min(S) \in S
<1> DEFINE R == OpToRel(<, Nat)
<1>1. IsWellFoundedOn(R, Nat)
  BY NatLessThanWellFounded
<1> HIDE DEF R
<1>2. PICK x \in S : \A y \in S : ~(<<y, x>> \in R)
  BY <1>1, WFMin, Zenon
<1>3. \A y \in S : ~(y < x)
  BY <1>2 DEF R, OpToRel
<1>4. \A y \in S : x <= y
  BY <1>3
<1>5. QED
  BY <1>4 DEF Min

LEMMA NatConstants ==
  /\ Q \in Nat \ {0} /\ MaxTimeout \in Nat /\ AgeLimit \in Nat /\ MaxBack = 1
  /\ \A t \in Timeouts : t \in Nat /\ t > 0 /\ t < AgeLimit
  /\ Slots \subseteq Nat /\ Ids \cap {"none", "Busy", "SocketError", "Timeout", "dropped"} = {}
  BY RequestAssumption DEF AgeLimit, MaxBack, Slots, Ids

LEMMA Clipped ==
  ASSUME NEW a \in Int
  PROVE  /\ Clip(a) \in -MaxBack..AgeLimit
         /\ a >= 0 => Clip(a) >= 0
         /\ \A t \in 0..AgeLimit : a >= t => Clip(a) >= t
         /\ \A t \in Nat : t < AgeLimit /\ a > t => Clip(a) > t
  BY NatConstants DEF Clip

LEMMA OccupiedIds ==
  ASSUME TypeOK, TableInv, UsedInv
  PROVE  /\ queue \in [Slots -> Entry] /\ NoRequest \in Entry
         /\ \A i \in Occupied : queue[i].id \in Ids /\ queue[i].id # "none"
<1>1. queue \in [Slots -> Entry] /\ used \subseteq Ids
  BY DEF TypeOK, Entry
<1>2. NoRequest \in Entry
  BY NatConstants DEF NoRequest, Entry
<1>3. QED
  BY <1>1, <1>2, NatConstants DEF TableInv

(* The clock moves ages and nothing else.                                   *)
LEMMA AgedTable ==
  ASSUME TypeOK, TableInv, UsedInv, NEW by \in Int, queue' = Aged(by)
  PROVE  /\ queue' \in [Slots -> Entry] /\ Occupied' = Occupied
         /\ \A i \in Slots \ Occupied : queue'[i] = NoRequest
         /\ \A i \in Occupied : /\ queue'[i].id = queue[i].id
                                /\ queue'[i].timeout = queue[i].timeout
                                /\ queue'[i].age = Clip(queue[i].age + by)
                                /\ queue[i].age \in Int
<1>1. queue \in [Slots -> Entry] /\ NoRequest \in Entry
  BY OccupiedIds
<1>2. \A i \in Slots \ Occupied : queue'[i] = NoRequest
  BY DEF Aged, Occupied
<1>3. ASSUME NEW i \in Occupied
      PROVE  /\ queue'[i] \in Entry /\ queue'[i] # NoRequest
             /\ queue'[i].id = queue[i].id
             /\ queue'[i].timeout = queue[i].timeout
             /\ queue'[i].age = Clip(queue[i].age + by)
             /\ queue[i].age \in Int
  <2>1. i \in Slots /\ queue[i] \in Entry /\ queue[i].id # "none"
    BY <1>1, <1>3, OccupiedIds DEF Occupied
  <2>2. queue'[i] = [queue[i] EXCEPT !.age = Clip(queue[i].age + by)]
    BY <1>3, <2>1 DEF Aged, Occupied
  <2>3. queue[i].age \in Int
    BY <2>1, NatConstants DEF Entry
  <2>4. Clip(queue[i].age + by) \in -MaxBack..AgeLimit
    BY <2>3, Clipped
  <2>5. queue'[i] \in Entry /\ queue'[i].id = queue[i].id
        /\ queue'[i].timeout = queue[i].timeout /\ queue'[i].age = Clip(queue[i].age + by)
    BY <2>1, <2>2, <2>4 DEF Entry
  <2>6. QED
    BY <2>1, <2>3, <2>5 DEF NoRequest
<1>4. DOMAIN queue' = Slots /\ queue' = [i \in Slots |-> queue'[i]]
  BY DEF Aged
<1>5. queue' \in [Slots -> Entry]
  BY <1>1, <1>2, <1>3, <1>4
<1>6. QED
  BY <1>2, <1>3, <1>5 DEF Occupied

LEMMA PurgedTable ==
  ASSUME TypeOK, TableInv, UsedInv
  PROVE  /\ Purged \in [Slots -> Entry]
         /\ \A i \in Slots : \/ Purged[i] = NoRequest
                             \/ Purged[i] = queue[i] /\ ~Expired(i)
<1>1. queue \in [Slots -> Entry] /\ NoRequest \in Entry
  BY OccupiedIds
<1>2. ASSUME NEW i \in Slots
      PROVE  /\ Purged[i] \in Entry
             /\ Purged[i] = NoRequest \/ (Purged[i] = queue[i] /\ ~Expired(i))
  BY <1>1, <1>2 DEF Purged, Expired
<1>3. QED
  BY <1>1, <1>2 DEF Purged

(* Client::request draws an id that no slot holds, and takes a free slot if *)
(* there is one.                                                            *)
LEMMA NextDraw ==
  ASSUME UsedInv, Cardinality(used) < Len(Draws),
         NEW id, id = Draws[Cardinality(used) + 1], used' = used \cup {id}
  PROVE  id \in Ids /\ id \notin used /\ UsedInv'
<1> DEFINE n == Cardinality(used)
<1>1. /\ n \in Nat /\ n < Len(Draws) /\ DOMAIN Draws = 1..Len(Draws) /\ Len(Draws) \in Nat
      /\ used = {Draws[k] : k \in 1..n}
  BY RequestAssumption, LenProperties DEF UsedInv
<1>2. n + 1 \in DOMAIN Draws /\ id \in Ids
  BY <1>1 DEF Ids, Range
<1>3. id \notin used
  <2>1. ASSUME NEW k \in 1..n, id = Draws[k] PROVE FALSE
    <3>1. k \in DOMAIN Draws /\ k # n + 1
      BY <1>1
    <3>2. QED
      BY <1>2, <2>1, <3>1, RequestAssumption DEF IsInjective
  <2>2. QED
    BY <1>1, <2>1
<1>4. IsFiniteSet(used') /\ Cardinality(used') = n + 1
  BY <1>3, FS_AddElement DEF UsedInv
<1>5. used' = {Draws[k] : k \in 1..(n + 1)}
  <2>1. 1..(n + 1) = (1..n) \cup {n + 1}
    BY <1>1
  <2>2. QED
    BY <1>1, <2>1
<1>6. n + 1 \in 0..Len(Draws)
  BY <1>1
<1>7. QED
  BY <1>2, <1>3, <1>4, <1>5, <1>6 DEF UsedInv

LEMMA RequestMade ==
  ASSUME TypeOK, TableInv, UsedInv, NEW t \in Timeouts, Request(t)
  PROVE  \E id \in Ids \ used :
           /\ state = "idle" /\ used' = used \cup {id} /\ UsedInv'
           /\ current' = id /\ timeout' = t /\ mailbox' = <<>>
           /\ UNCHANGED <<steady, slept, wire, tasks>>
           /\ \/ /\ Free(Purged) = {} /\ queue' = Purged
                 /\ result' = "Busy" /\ state' = "idle"
              \/ \E s \in Slots :
                   /\ Purged[s] = NoRequest /\ state' = "sending" /\ result' = result
                   /\ queue' = [Purged EXCEPT ![s] = [id |-> id, age |-> 0, timeout |-> t]]
<1> DEFINE id == Draws[Cardinality(used) + 1]
           slot == Min(Free(Purged))
<1>1. /\ state = "idle" /\ used' = used \cup {id} /\ Cardinality(used) < Len(Draws)
      /\ current' = id /\ timeout' = t /\ mailbox' = <<>>
      /\ UNCHANGED <<steady, slept, wire, tasks>>
  BY DEF Request
<1>2. id \in Ids \ used /\ UsedInv'
  BY <1>1, NextDraw
<1>3. CASE Free(Purged) = {}
  <2>1. queue' = Purged /\ result' = "Busy" /\ state' = "idle"
    BY <1>1, <1>3 DEF Request
  <2>2. QED
    BY <1>1, <1>2, <1>3, <2>1
<1>4. CASE Free(Purged) # {}
  <2>1. /\ state' = "sending" /\ result' = result
        /\ queue' = [Purged EXCEPT ![slot] = [id |-> id, age |-> 0, timeout |-> t]]
    BY <1>4 DEF Request
  <2>2. slot \in Free(Purged)
    BY <1>4, MinIsMember, NatConstants DEF Free
  <2>3. slot \in Slots /\ Purged[slot] = NoRequest
    BY <2>2 DEF Free
  <2>4. QED
    BY <1>1, <1>2, <2>1, <2>3
<1>5. QED
  BY <1>3, <1>4

(* manage_responses takes the only slot with the answer's id.               *)
LEMMA ResponseTaken ==
  ASSUME TypeOK, TableInv, UsedInv, NEW id \in Ids, Receive(id)
  PROVE  /\ UNCHANGED <<steady, caller, wire, tasks>> /\ id \in received
         /\ \/ UNCHANGED <<queue, mailbox>>
            \/ \E s \in Occupied :
                 /\ queue[s].id = id /\ queue' = [queue EXCEPT ![s] = NoRequest]
                 /\ mailbox' = IF state # "idle" /\ id = current /\ mailbox = <<>>
                               THEN <<id>> ELSE mailbox
<1> DEFINE slot == Min(Waiting(id))
<1>1. UNCHANGED <<steady, caller, wire, tasks>> /\ id \in received
  BY DEF Receive
<1>2. CASE Waiting(id) = {}
  BY <1>1, <1>2 DEF Receive
<1>3. CASE Waiting(id) # {}
  <2>1. slot \in Waiting(id)
    BY <1>3, MinIsMember, NatConstants DEF Waiting
  <2>2. slot \in Occupied /\ queue[slot].id = id
    BY <2>1 DEF Waiting, Occupied
  <2>3. /\ queue' = [queue EXCEPT ![slot] = NoRequest]
        /\ mailbox' = IF state # "idle" /\ queue[slot].id = current /\ mailbox = <<>>
                      THEN <<id>> ELSE mailbox
    BY <1>3 DEF Receive
  <2>4. QED
    BY <1>1, <2>2, <2>3
<1>4. QED
  BY <1>2, <1>3

(* Every step keeps the types, the ids that were drawn and the table.       *)
LEMMA TypeStep ==
  ASSUME TypeOK, UsedInv, TableInv, WaitInv, [Next]_vars
  PROVE  TypeOK'
<1>1. /\ queue \in [Slots -> Entry] /\ NoRequest \in Entry
      /\ AgeLimit \in Nat /\ \A t \in Timeouts : t \in Nat /\ t > 0 /\ t < AgeLimit
  BY OccupiedIds, NatConstants
<1>2. ASSUME NEW t \in Timeouts, Request(t) PROVE TypeOK'
  <2>1. PICK id \in Ids \ used :
           /\ state = "idle" /\ used' = used \cup {id}
           /\ current' = id /\ timeout' = t /\ mailbox' = <<>>
           /\ UNCHANGED <<steady, slept, wire, tasks>>
           /\ \/ queue' = Purged /\ result' = "Busy" /\ state' = "idle"
              \/ \E s \in Slots :
                   /\ state' = "sending" /\ result' = result
                   /\ queue' = [Purged EXCEPT ![s] = [id |-> id, age |-> 0, timeout |-> t]]
    BY <1>2, RequestMade
  <2>2. [id |-> id, age |-> 0, timeout |-> t] \in Entry
    BY <1>1, NatConstants DEF Entry
  <2>3. queue' \in [Slots -> Entry]
    BY <2>1, <2>2, PurgedTable
  <2>4. /\ result' \in {result, "Busy"} /\ state' \in {"idle", "sending"}
    BY <2>1
  <2>5. QED
    BY <2>1, <2>3, <2>4 DEF TypeOK, Entry, wire, tasks
<1>3. CASE Send
  BY <1>1, <1>3 DEF TypeOK, WaitInv, Send, tasks
<1>4. CASE Answer
  BY <1>1, <1>4 DEF TypeOK, Answer, wire, tasks, caller
<1>5. CASE NoAnswerYet
  BY <1>1, <1>5 DEF TypeOK, NoAnswerYet, wire, tasks, caller
<1>6. CASE LookAtTimer
  BY <1>1, <1>6 DEF TypeOK, LookAtTimer, wire, tasks, caller
<1>7. CASE Drop
  BY <1>1, <1>7 DEF TypeOK, Drop, wire, tasks, caller
<1>8. ASSUME NEW id \in Ids, Serve(id) PROVE TypeOK'
  BY <1>1, <1>8 DEF TypeOK, Serve, wire, tasks, caller
<1>9. ASSUME NEW id \in Ids, PeerReceive(id) PROVE TypeOK'
  BY <1>1, <1>9 DEF TypeOK, PeerReceive, wire, tasks, caller
<1>10. ASSUME NEW id \in Ids, Receive(id) PROVE TypeOK'
  <2>1. queue' \in [Slots -> Entry]
    BY <1>1, <1>10, ResponseTaken
  <2>2. mailbox' \in {mailbox, <<id>>} /\ UNCHANGED <<steady, caller, wire, tasks>>
    BY <1>10, ResponseTaken
  <2>3. QED
    BY <2>1, <2>2 DEF TypeOK, Entry, caller, wire, tasks
<1>11. CASE Tick
  <2>1. queue' \in [Slots -> Entry]
    BY <1>11, AgedTable DEF Tick
  <2>2. slept' \in 0..AgeLimit
    BY <1>1, <1>11 DEF Tick, TypeOK, WaitInv
  <2>3. QED
    BY <1>11, <2>1, <2>2 DEF Tick, TypeOK, Entry, wire, tasks
<1>12. CASE SetClock
  <2>1. PICK by \in Steps : queue' = Aged(by)
    BY <1>12 DEF SetClock
  <2>2. queue' \in [Slots -> Entry]
    BY <2>1, AgedTable, RequestAssumption
  <2>3. QED
    BY <1>12, <2>2 DEF SetClock, TypeOK, Entry, caller, wire, tasks
<1>13. CASE Cancel
  BY <1>1, <1>13 DEF TypeOK, Cancel, wire, tasks, caller
<1>14. CASE PeerStops
  BY <1>1, <1>14 DEF TypeOK, PeerStops, wire, tasks, caller
<1>15. CASE ListenerStops
  BY <1>1, <1>15 DEF TypeOK, ListenerStops, wire, tasks, caller
<1>16. CASE UNCHANGED vars
  BY <1>1, <1>16 DEF TypeOK, vars, wire, tasks, caller
<1>17. QED
  BY <1>2, <1>3, <1>4, <1>5, <1>6, <1>7, <1>8, <1>9, <1>10, <1>11, <1>12, <1>13,
     <1>14, <1>15, <1>16 DEF Next, Poll

LEMMA TableStep ==
  ASSUME TypeOK, UsedInv, TableInv, [Next]_vars
  PROVE  UsedInv' /\ TableInv'
<1>1. ASSUME UNCHANGED <<queue, used>> PROVE UsedInv' /\ TableInv'
  BY <1>1 DEF UsedInv, TableInv, Occupied
<1>2. /\ queue \in [Slots -> Entry]
      /\ \A i \in Occupied : queue[i].id \in Ids /\ queue[i].id # "none"
  BY OccupiedIds
<1>3. ASSUME NEW t \in Timeouts, Request(t) PROVE UsedInv' /\ TableInv'
  <2>1. PICK id \in Ids \ used :
           /\ used' = used \cup {id} /\ UsedInv'
           /\ \/ queue' = Purged
              \/ \E s \in Slots :
                   queue' = [Purged EXCEPT ![s] = [id |-> id, age |-> 0, timeout |-> t]]
    BY <1>3, RequestMade
  <2>2. \A i \in Slots : Purged[i] # NoRequest => i \in Occupied /\ Purged[i] = queue[i]
    BY PurgedTable DEF Occupied
  <2>3. ASSUME queue' = Purged PROVE TableInv'
    BY <2>1, <2>2, <2>3 DEF TableInv, Occupied
  <2>4. ASSUME NEW s \in Slots,
               queue' = [Purged EXCEPT ![s] = [id |-> id, age |-> 0, timeout |-> t]]
        PROVE  TableInv'
    <3>1. /\ queue'[s].id = id /\ queue'[s].timeout = t
          /\ \A i \in Slots : i # s => queue'[i] = Purged[i]
      BY <2>4, PurgedTable
    <3>2. \A i \in Occupied' : i # s => i \in Occupied /\ queue'[i] = queue[i]
      BY <2>2, <3>1 DEF Occupied
    <3>3. \A i \in Occupied' : i # s => queue'[i].id # id
      BY <2>1, <3>2 DEF TableInv
    <3>4. QED
      BY <2>1, <3>1, <3>2, <3>3 DEF TableInv
  <2>5. QED
    BY <2>1, <2>3, <2>4
<1>4. CASE Send
  BY <1>1, <1>4 DEF Send, caller
<1>5. CASE Answer
  BY <1>1, <1>5 DEF Answer, caller
<1>6. CASE NoAnswerYet
  BY <1>1, <1>6 DEF NoAnswerYet, caller
<1>7. CASE LookAtTimer
  BY <1>1, <1>7 DEF LookAtTimer, caller
<1>8. CASE Drop
  BY <1>1, <1>8 DEF Drop, caller
<1>9. ASSUME NEW id \in Ids, Serve(id) PROVE UsedInv' /\ TableInv'
  BY <1>1, <1>9 DEF Serve, caller
<1>10. ASSUME NEW id \in Ids, PeerReceive(id) PROVE UsedInv' /\ TableInv'
  BY <1>1, <1>10 DEF PeerReceive, caller
<1>11. ASSUME NEW id \in Ids, Receive(id) PROVE UsedInv' /\ TableInv'
  <2>1. used' = used /\ \A i \in Slots : queue'[i] = NoRequest \/ queue'[i] = queue[i]
    BY <1>2, <1>11, ResponseTaken DEF caller
  <2>2. \A i \in Occupied' : i \in Occupied /\ queue'[i] = queue[i]
    BY <2>1 DEF Occupied
  <2>3. QED
    BY <2>1, <2>2 DEF UsedInv, TableInv
<1>12. CASE Tick
  <2>1. /\ used' = used /\ Occupied' = Occupied
        /\ \A i \in Occupied : queue'[i].id = queue[i].id /\ queue'[i].timeout = queue[i].timeout
    BY <1>12, AgedTable DEF Tick
  <2>2. QED
    BY <2>1 DEF UsedInv, TableInv
<1>13. CASE SetClock
  <2>1. PICK by \in Steps : queue' = Aged(by)
    BY <1>13 DEF SetClock
  <2>2. /\ used' = used /\ Occupied' = Occupied
        /\ \A i \in Occupied : queue'[i].id = queue[i].id /\ queue'[i].timeout = queue[i].timeout
    BY <1>13, <2>1, AgedTable, RequestAssumption DEF SetClock, caller
  <2>3. QED
    BY <2>2 DEF UsedInv, TableInv
<1>14. CASE Cancel
  BY <1>1, <1>14 DEF Cancel, caller
<1>15. CASE PeerStops
  BY <1>1, <1>15 DEF PeerStops, caller
<1>16. CASE ListenerStops
  BY <1>1, <1>16 DEF ListenerStops, caller
<1>17. CASE UNCHANGED vars
  BY <1>1, <1>17 DEF vars, caller
<1>18. QED
  BY <1>3, <1>4, <1>5, <1>6, <1>7, <1>8, <1>9, <1>10, <1>11, <1>12, <1>13,
     <1>14, <1>15, <1>16, <1>17 DEF Next, Poll

(* Every step keeps the caller's slot, until its answer is in the mailbox.  *)
LEMMA WaitStep ==
  ASSUME TypeOK, UsedInv, TableInv, WaitInv, [Next]_vars
  PROVE  WaitInv'
<1>1. ASSUME UNCHANGED <<queue, used, current, timeout, mailbox>>, responses \subseteq responses',
             state' # "idle" => state # "idle"
      PROVE  WaitInv'
  BY <1>1 DEF WaitInv, Occupied
<1>2. /\ queue \in [Slots -> Entry] /\ received \subseteq responses
      /\ \A i \in Occupied : queue[i].id \in Ids /\ queue[i].id # "none"
  BY OccupiedIds DEF TypeOK
<1>3. ASSUME NEW t \in Timeouts, Request(t) PROVE WaitInv'
  <2>1. PICK id \in Ids \ used :
           /\ used' = used \cup {id} /\ current' = id /\ timeout' = t /\ mailbox' = <<>>
           /\ \/ state' = "idle"
              \/ \E s \in Slots :
                   queue' = [Purged EXCEPT ![s] = [id |-> id, age |-> 0, timeout |-> t]]
    BY <1>3, RequestMade
  <2>2. ASSUME state' = "idle" PROVE WaitInv'
    BY <2>1, <2>2 DEF WaitInv
  <2>3. ASSUME NEW s \in Slots,
               queue' = [Purged EXCEPT ![s] = [id |-> id, age |-> 0, timeout |-> t]]
        PROVE  WaitInv'
    <3>1. /\ queue'[s].id = id /\ queue'[s].timeout = t
          /\ \A i \in Slots : i # s => queue'[i] = Purged[i]
      BY <2>3, PurgedTable
    <3>2. s \in Occupied'
      BY <2>1, <3>1, NatConstants DEF Occupied, NoRequest
    <3>3. ASSUME NEW i \in Occupied', i # s PROVE queue'[i].id # id
      <4>1. i \in Occupied /\ queue'[i] = queue[i]
        BY <3>1, <3>3, PurgedTable DEF Occupied
      <4>2. QED
        BY <2>1, <4>1 DEF TableInv
    <3>4. QED
      BY <2>1, <3>1, <3>2, <3>3 DEF WaitInv
  <2>4. QED
    BY <2>1, <2>2, <2>3
<1>4. CASE Send
  BY <1>1, <1>4 DEF Send, caller, wire
<1>5. CASE Answer
  BY <1>1, <1>5 DEF Answer, wire
<1>6. CASE NoAnswerYet
  BY <1>1, <1>6 DEF NoAnswerYet, caller, wire
<1>7. CASE LookAtTimer
  BY <1>1, <1>7 DEF LookAtTimer, caller, wire
<1>8. CASE Drop
  BY <1>1, <1>8 DEF Drop, caller, wire
<1>9. ASSUME NEW id \in Ids, Serve(id) PROVE WaitInv'
  BY <1>1, <1>9 DEF Serve, caller, wire
<1>10. ASSUME NEW id \in Ids, PeerReceive(id) PROVE WaitInv'
  BY <1>1, <1>10 DEF PeerReceive, caller, wire
<1>11. ASSUME NEW id \in Ids, Receive(id) PROVE WaitInv'
  <2>1. UNCHANGED <<steady, caller, wire, tasks>> /\ id \in responses
    BY <1>2, <1>11, ResponseTaken
  <2>2. CASE UNCHANGED <<queue, mailbox>>
    BY <1>1, <2>1, <2>2 DEF caller, wire
  <2>3. ASSUME NEW s \in Occupied, queue[s].id = id, queue' = [queue EXCEPT ![s] = NoRequest],
               mailbox' = IF state # "idle" /\ id = current /\ mailbox = <<>>
                          THEN <<id>> ELSE mailbox
        PROVE  WaitInv'
    <3>1. /\ \A i \in Occupied' : i \in Occupied /\ i # s /\ queue'[i] = queue[i]
          /\ \A i \in Occupied : i # s => i \in Occupied' /\ queue'[i] = queue[i]
      BY <1>2, <2>3 DEF Occupied
    <3>2. CASE state # "idle" /\ id = current /\ mailbox = <<>>
      <4>1. mailbox' = <<current>> /\ \A i \in Occupied' : queue'[i].id # current
        BY <2>3, <3>1, <3>2 DEF TableInv
      <4>2. QED
        BY <2>1, <3>1, <3>2, <4>1 DEF WaitInv, caller, wire
    <3>3. CASE ~(state # "idle" /\ id = current /\ mailbox = <<>>)
      <4>1. mailbox' = mailbox
        BY <2>3, <3>3
      <4>2. QED
        BY <2>1, <2>3, <3>1, <3>3, <4>1 DEF WaitInv, caller, wire
    <3>4. QED
      BY <3>2, <3>3
  <2>4. QED
    BY <1>11, <2>2, <2>3, ResponseTaken
<1>12. CASE Tick
  <2>1. queue' = Aged(1)
    BY <1>12 DEF Tick
  <2>2. /\ Occupied' = Occupied
        /\ \A i \in Occupied : queue'[i].id = queue[i].id /\ queue'[i].timeout = queue[i].timeout
    BY <2>1, AgedTable
  <2>3. QED
    BY <1>12, <2>2 DEF Tick, WaitInv, wire
<1>13. CASE SetClock
  <2>1. PICK by \in Int : queue' = Aged(by)
    BY <1>13, RequestAssumption DEF SetClock
  <2>2. /\ Occupied' = Occupied
        /\ \A i \in Occupied : queue'[i].id = queue[i].id /\ queue'[i].timeout = queue[i].timeout
    BY <2>1, AgedTable
  <2>3. QED
    BY <1>13, <2>2 DEF SetClock, WaitInv, wire, caller
<1>14. CASE Cancel
  BY <1>1, <1>14 DEF Cancel, caller, wire
<1>15. CASE PeerStops
  BY <1>1, <1>15 DEF PeerStops, caller, wire
<1>16. CASE ListenerStops
  BY <1>1, <1>16 DEF ListenerStops, caller, wire
<1>17. CASE UNCHANGED vars
  BY <1>1, <1>17 DEF vars, caller, wire
<1>18. QED
  BY <1>3, <1>4, <1>5, <1>6, <1>7, <1>8, <1>9, <1>10, <1>11, <1>12, <1>13,
     <1>14, <1>15, <1>16, <1>17 DEF Next, Poll

(* Every step keeps the ages: what a steady caller left in the table has    *)
(* reached its timeout, and only the last of it can still hold a slot.      *)
LEMMA AgeStep ==
  ASSUME Q >= 2, TypeOK, UsedInv, TableInv, WaitInv, SteadyInv, [Next]_vars
  PROVE  SteadyInv'
<1> SUFFICES ASSUME steady', ~cancelled' PROVE AgeInv'
  BY DEF SteadyInv
<1>1. AgeInv /\ steady /\ ~cancelled
  <2>1. steady' = steady
    BY DEF Next, Poll, Request, Send, Answer, NoAnswerYet, LookAtTimer, Drop, Serve,
       PeerReceive, Receive, Tick, SetClock, Cancel, PeerStops, ListenerStops, vars
  <2>2. cancelled' = cancelled \/ cancelled' = TRUE
    BY DEF Next, Poll, Request, Send, Answer, NoAnswerYet, LookAtTimer, Drop, Serve,
       PeerReceive, Receive, Tick, SetClock, Cancel, PeerStops, ListenerStops, vars, tasks
  <2>3. QED
    BY <2>1, <2>2 DEF SteadyInv
<1>2. /\ queue \in [Slots -> Entry]
      /\ \A i \in Occupied : queue[i].id \in Ids /\ queue[i].id # "none"
  BY OccupiedIds
<1>3. ASSUME UNCHANGED <<queue, state, current, timeout, slept, result, peer_up>> PROVE AgeInv'
  <2>1. Occupied' = Occupied
        /\ \A i \in Slots : Left(i)' = Left(i) /\ Expired(i)' = Expired(i)
    BY <1>3 DEF Left, Expired, Occupied
  <2>2. QED
    BY <1>1, <1>3, <2>1 DEF AgeInv
<1>4. ASSUME NEW t \in Timeouts, Request(t) PROVE AgeInv'
  <2>1. PICK id \in Ids \ used :
           /\ state = "idle" /\ current' = id /\ UNCHANGED tasks
           /\ \/ /\ Free(Purged) = {} /\ queue' = Purged
                 /\ result' = "Busy" /\ state' = "idle"
              \/ \E s \in Slots :
                   /\ Purged[s] = NoRequest /\ state' = "sending" /\ result' = result
                   /\ queue' = [Purged EXCEPT ![s] = [id |-> id, age |-> 0, timeout |-> t]]
    BY <1>4, RequestMade
  <2>2. \A i \in Slots : Purged[i] # NoRequest =>
                           Left(i) /\ ~Expired(i) /\ Purged[i] = queue[i]
    BY <2>1, PurgedTable DEF Left, Occupied
  <2>3. Free(Purged) # {}
    <3>1. 1 \in Slots /\ 2 \in Slots
      BY NatConstants DEF Slots
    <3>2. Purged[1] = NoRequest \/ Purged[2] = NoRequest
      BY <1>1, <2>2, <3>1 DEF AgeInv
    <3>3. QED
      BY <3>1, <3>2 DEF Free
  <2>4. PICK s \in Slots :
           /\ state' = "sending" /\ result' = result
           /\ queue' = [Purged EXCEPT ![s] = [id |-> id, age |-> 0, timeout |-> t]]
    BY <2>1, <2>3
  <2>5. /\ queue'[s].id = id /\ queue'[s].age = 0
        /\ \A i \in Slots : i # s => queue'[i] = Purged[i]
    BY <2>4, PurgedTable
  <2>6. ASSUME NEW i \in Slots PROVE queue'[i].age >= 0
    BY <1>1, <2>2, <2>5, <2>6 DEF AgeInv, NoRequest
  <2>7. ASSUME NEW i \in Slots, Left(i)'
        PROVE  Left(i) /\ queue'[i] = queue[i] /\ ~Expired(i)
    <3>1. i # s /\ queue'[i] # NoRequest
      BY <2>1, <2>4, <2>5, <2>7 DEF Left, Occupied
    <3>2. QED
      BY <2>2, <2>5, <3>1
  <2>8. \A i \in Slots : Left(i)' => queue'[i].age >= queue'[i].timeout
    BY <1>1, <2>7 DEF AgeInv
  <2>9. \A i, j \in Slots : Left(i)' /\ Left(j)' => i = j
    BY <1>1, <2>7 DEF AgeInv
  <2>10. QED
    BY <1>1, <2>1, <2>4, <2>6, <2>8, <2>9 DEF AgeInv, tasks
<1>5. CASE Send
  <2>1. /\ state = "sending" /\ state' = "waiting" /\ slept' = 0
        /\ UNCHANGED <<queue, current, result, peer_up>>
    BY <1>1, <1>5 DEF Send, AgeInv, tasks
  <2>2. \A i \in Slots : Left(i)' = Left(i) /\ Expired(i)' = Expired(i)
    BY <2>1 DEF Left, Expired, Occupied
  <2>3. \A i \in Occupied' : i \in Slots
    BY DEF Occupied
  <2>4. QED
    BY <1>1, <2>1, <2>2, <2>3 DEF AgeInv
<1>6. CASE Answer
  <2>1. /\ state # "idle" /\ state' = "idle" /\ result' = current /\ current \in Ids
        /\ UNCHANGED <<queue, current, peer_up>>
        /\ \A i \in Occupied : queue[i].id # current
    BY <1>6 DEF Answer, WaitInv, TypeOK, tasks
  <2>2. \A i \in Slots : Left(i)' = Left(i) /\ Expired(i)' = Expired(i)
    BY <2>1 DEF Left, Expired, Occupied
  <2>3. result' # "Busy"
    BY <2>1, NatConstants
  <2>4. QED
    BY <1>1, <2>1, <2>2, <2>3 DEF AgeInv
<1>7. CASE NoAnswerYet
  <2>1. /\ state = "waiting" /\ state' = "looked"
        /\ UNCHANGED <<queue, current, slept, result, peer_up>>
    BY <1>7 DEF NoAnswerYet, tasks
  <2>2. \A i \in Slots : Left(i)' = Left(i) /\ Expired(i)' = Expired(i)
    BY <2>1 DEF Left, Expired, Occupied
  <2>3. Occupied' = Occupied
    BY <2>1 DEF Occupied
  <2>4. QED
    BY <1>1, <2>1, <2>2, <2>3 DEF AgeInv
<1>8. CASE LookAtTimer
  <2>1. state = "looked" /\ UNCHANGED <<queue, current, timeout, slept, peer_up>>
    BY <1>8 DEF LookAtTimer, tasks
  <2>2. \A i \in Slots : Expired(i)' = Expired(i)
    BY <2>1 DEF Expired
  <2>3. Occupied' = Occupied /\ Occupied \subseteq Slots
    BY <2>1 DEF Occupied
  <2>4. CASE slept >= timeout
    <3>1. state' = "idle" /\ result' = "Timeout" /\ slept > 0
      BY <1>8, <2>1, <2>4, NatConstants DEF LookAtTimer, WaitInv, TypeOK
    <3>2. ASSUME NEW i \in Slots, Left(i)'
          PROVE  /\ i \in Occupied /\ (queue[i].id = current \/ Expired(i))
                 /\ queue[i].age >= queue[i].timeout
      <4>1. i \in Occupied
        BY <2>3, <3>2 DEF Left
      <4>2. CASE queue[i].id = current
        <5>1. queue[i].timeout = timeout /\ queue[i].age >= slept
          BY <1>1, <2>1, <4>1, <4>2 DEF AgeInv, WaitInv
        <5>2. timeout \in Nat /\ slept \in Nat /\ queue[i].age \in Int
          BY <1>2, <2>3, <4>1, NatConstants DEF TypeOK, Entry
        <5>3. QED
          BY <2>4, <4>1, <4>2, <5>1, <5>2
      <4>3. CASE queue[i].id # current
        BY <1>1, <2>1, <3>1, <4>1, <4>3 DEF AgeInv, Left
      <4>4. QED
        BY <4>2, <4>3
    <3>3. \A i, j \in Slots : Left(i)' /\ Left(j)' /\ ~Expired(i) /\ ~Expired(j) => i = j
      BY <3>2 DEF TableInv
    <3>4. QED
      BY <1>1, <2>1, <2>2, <3>1, <3>2, <3>3 DEF AgeInv
  <2>5. CASE ~(slept >= timeout)
    <3>1. state' = "waiting" /\ result' = result
      BY <1>8, <2>5 DEF LookAtTimer
    <3>2. \A i \in Slots : Left(i)' = Left(i)
      BY <2>1, <2>3, <3>1 DEF Left
    <3>3. QED
      BY <1>1, <2>1, <2>2, <2>3, <3>1, <3>2 DEF AgeInv
  <2>6. QED
    BY <2>4, <2>5
<1>9. CASE Drop
  BY <1>1, <1>9 DEF Drop
<1>10. ASSUME NEW id \in Ids, Serve(id) PROVE AgeInv'
  BY <1>3, <1>10 DEF Serve, caller, wire, tasks
<1>11. ASSUME NEW id \in Ids, PeerReceive(id) PROVE AgeInv'
  BY <1>3, <1>11 DEF PeerReceive, caller, wire, tasks
<1>12. ASSUME NEW id \in Ids, Receive(id) PROVE AgeInv'
  <2>1. UNCHANGED <<state, current, slept, result, peer_up, timeout>>
    BY <1>12, ResponseTaken DEF caller, tasks
  <2>2. CASE UNCHANGED queue
    BY <1>3, <2>1, <2>2
  <2>3. ASSUME NEW s \in Occupied, queue' = [queue EXCEPT ![s] = NoRequest] PROVE AgeInv'
    <3>1. \A i \in Slots : /\ queue'[i] = IF i = s THEN NoRequest ELSE queue[i]
                           /\ i \in Occupied' => i \in Occupied /\ queue'[i] = queue[i]
      BY <1>2, <2>3 DEF Occupied
    <3>2. \A i \in Slots : queue'[i].age >= 0
      BY <1>1, <3>1 DEF AgeInv, NoRequest
    <3>3. \A i \in Slots : Left(i)' => Left(i) /\ queue'[i] = queue[i]
                                       /\ Expired(i)' = Expired(i)
      BY <2>1, <3>1 DEF Left, Expired
    <3>4. \A i \in Occupied' : i \in Slots /\ i \in Occupied /\ queue'[i] = queue[i]
      BY <3>1 DEF Occupied
    <3>5. QED
      BY <1>1, <2>1, <3>2, <3>3, <3>4 DEF AgeInv
  <2>4. QED
    BY <1>12, <2>2, <2>3, ResponseTaken
<1>13. CASE Tick
  <2>1. PICK by \in Int : by = 1 /\ queue' = Aged(by)
    BY <1>13 DEF Tick
  <2>2. /\ UNCHANGED <<state, current, result, peer_up, timeout>>
        /\ slept' = slept \/ (slept' = slept + 1 /\ slept <= timeout /\ by = 1)
        /\ slept' > 0 => slept > 0 \/ by > 0
    BY <2>1, <1>13 DEF Tick, TypeOK, tasks, caller
  <2>3. /\ Occupied' = Occupied /\ Occupied \subseteq Slots
        /\ \A i \in Slots \ Occupied : queue'[i] = NoRequest
        /\ \A i \in Occupied : /\ queue'[i].id = queue[i].id
                               /\ queue'[i].timeout = queue[i].timeout
                               /\ queue'[i].age = Clip(queue[i].age + by)
                               /\ queue[i].age \in Int
    BY <2>1, AgedTable DEF Occupied
  <2>4. \A i \in Slots : Left(i)' = Left(i)
    BY <2>2, <2>3 DEF Left
  <2>5. ASSUME NEW i \in Occupied
        PROVE  /\ queue'[i].age >= 0
               /\ Expired(i) => Expired(i)'
               /\ Left(i) => Expired(i)' /\ queue'[i].age >= queue'[i].timeout
    <3>1. /\ queue[i].timeout \in Nat /\ queue[i].timeout < AgeLimit
          /\ queue[i].age \in Int /\ queue[i].age >= 0
      BY <1>1, <2>3, <2>5, NatConstants DEF TableInv, AgeInv
    <3>2. /\ queue[i].age > queue[i].timeout => Clip(queue[i].age + by) > queue[i].timeout
          /\ queue[i].age >= queue[i].timeout => Clip(queue[i].age + by) > queue[i].timeout
          /\ Clip(queue[i].age + by) >= 0 /\ Clip(queue[i].age + by) \in Int
      BY <2>1, <3>1, Clipped, NatConstants
    <3>3. Left(i) => queue[i].age >= queue[i].timeout
      BY <1>1, <2>3, <2>5 DEF AgeInv
    <3>4. QED
      BY <2>3, <2>5, <3>1, <3>2, <3>3 DEF Expired
  <2>6. \A i \in Slots : queue'[i].age >= 0
    BY <2>3, <2>5 DEF NoRequest
  <2>7. \A i \in Slots : Left(i)' => Expired(i)' /\ queue'[i].age >= queue'[i].timeout
    BY <2>4, <2>5 DEF Left
  <2>8. ASSUME state \in {"waiting", "looked"}, NEW i \in Occupied, queue[i].id = current
        PROVE  queue'[i].age >= slept'
    <3>1. queue[i].age >= slept /\ queue[i].age \in Int /\ slept \in 0..AgeLimit
      BY <1>1, <2>3, <2>8 DEF AgeInv, TypeOK
    <3>2. timeout \in Nat /\ timeout < AgeLimit
      BY <2>8, NatConstants DEF WaitInv
    <3>3. slept' \in 0..AgeLimit /\ queue[i].age + by >= slept'
      BY <2>1, <2>2, <3>1, <3>2, NatConstants
    <3>4. QED
      BY <2>1, <2>3, <3>1, <3>3, Clipped
  <2>9. QED
    BY <1>1, <2>2, <2>3, <2>6, <2>7, <2>8 DEF AgeInv
<1>14. CASE SetClock
  <2>1. PICK by \in Int : by > 0 /\ queue' = Aged(by)
    BY <1>1, <1>14, RequestAssumption DEF SetClock
  <2>2. /\ UNCHANGED <<state, current, result, peer_up, timeout>>
        /\ slept' = slept \/ (slept' = slept + 1 /\ slept <= timeout /\ by = 1)
        /\ slept' > 0 => slept > 0 \/ by > 0
    BY <2>1, <1>14 DEF SetClock, TypeOK, tasks, caller
  <2>3. /\ Occupied' = Occupied /\ Occupied \subseteq Slots
        /\ \A i \in Slots \ Occupied : queue'[i] = NoRequest
        /\ \A i \in Occupied : /\ queue'[i].id = queue[i].id
                               /\ queue'[i].timeout = queue[i].timeout
                               /\ queue'[i].age = Clip(queue[i].age + by)
                               /\ queue[i].age \in Int
    BY <2>1, AgedTable DEF Occupied
  <2>4. \A i \in Slots : Left(i)' = Left(i)
    BY <2>2, <2>3 DEF Left
  <2>5. ASSUME NEW i \in Occupied
        PROVE  /\ queue'[i].age >= 0
               /\ Expired(i) => Expired(i)'
               /\ Left(i) => Expired(i)' /\ queue'[i].age >= queue'[i].timeout
    <3>1. /\ queue[i].timeout \in Nat /\ queue[i].timeout < AgeLimit
          /\ queue[i].age \in Int /\ queue[i].age >= 0
      BY <1>1, <2>3, <2>5, NatConstants DEF TableInv, AgeInv
    <3>2. /\ queue[i].age > queue[i].timeout => Clip(queue[i].age + by) > queue[i].timeout
          /\ queue[i].age >= queue[i].timeout => Clip(queue[i].age + by) > queue[i].timeout
          /\ Clip(queue[i].age + by) >= 0 /\ Clip(queue[i].age + by) \in Int
      BY <2>1, <3>1, Clipped, NatConstants
    <3>3. Left(i) => queue[i].age >= queue[i].timeout
      BY <1>1, <2>3, <2>5 DEF AgeInv
    <3>4. QED
      BY <2>3, <2>5, <3>1, <3>2, <3>3 DEF Expired
  <2>6. \A i \in Slots : queue'[i].age >= 0
    BY <2>3, <2>5 DEF NoRequest
  <2>7. \A i \in Slots : Left(i)' => Expired(i)' /\ queue'[i].age >= queue'[i].timeout
    BY <2>4, <2>5 DEF Left
  <2>8. ASSUME state \in {"waiting", "looked"}, NEW i \in Occupied, queue[i].id = current
        PROVE  queue'[i].age >= slept'
    <3>1. queue[i].age >= slept /\ queue[i].age \in Int /\ slept \in 0..AgeLimit
      BY <1>1, <2>3, <2>8 DEF AgeInv, TypeOK
    <3>2. timeout \in Nat /\ timeout < AgeLimit
      BY <2>8, NatConstants DEF WaitInv
    <3>3. slept' \in 0..AgeLimit /\ queue[i].age + by >= slept'
      BY <2>1, <2>2, <3>1, <3>2, NatConstants
    <3>4. QED
      BY <2>1, <2>3, <3>1, <3>3, Clipped
  <2>9. QED
    BY <1>1, <2>2, <2>3, <2>6, <2>7, <2>8 DEF AgeInv
<1>15. CASE Cancel
  BY <1>15 DEF Cancel
<1>16. CASE PeerStops
  BY <1>1, <1>16 DEF PeerStops
<1>17. CASE ListenerStops
  BY <1>1, <1>17 DEF ListenerStops
<1>18. CASE UNCHANGED vars
  BY <1>3, <1>18 DEF vars, caller, wire, tasks
<1>19. QED
  BY <1>4, <1>5, <1>6, <1>7, <1>8, <1>9, <1>10, <1>11, <1>12, <1>13, <1>14,
     <1>15, <1>16, <1>17, <1>18 DEF Next, Poll

--------------------------------------------------------------------------------
LEMMA InitInv == Init => Inv /\ SteadyInv
<1> SUFFICES ASSUME Init PROVE Inv /\ SteadyInv
  OBVIOUS
<1>1. Occupied = {} /\ queue \in [Slots -> Entry] /\ \A i \in Slots : queue[i].age = 0
  BY NatConstants DEF Init, Occupied, NoRequest, Entry
<1>2. TypeOK
  <2>1. 0 \in 0..AgeLimit
    BY NatConstants
  <2>2. requests \subseteq used /\ responses \subseteq requests /\ received \subseteq responses
    BY DEF Init
  <2>3. QED
    BY <1>1, <2>1, <2>2 DEF Init, TypeOK, Entry
<1>3. UsedInv
  <2>1. used = {} /\ IsFiniteSet(used) /\ Cardinality(used) = 0 /\ Len(Draws) \in Nat
    BY FS_EmptySet, RequestAssumption DEF Init
  <2>2. QED
    BY <2>1 DEF UsedInv
<1>4. TableInv /\ WaitInv
  BY <1>1 DEF Init, TableInv, WaitInv
<1>5. SteadyInv
  BY <1>1 DEF Init, SteadyInv, AgeInv, Left
<1>6. QED
  BY <1>2, <1>3, <1>4, <1>5 DEF Inv

LEMMA InvStep == Inv /\ [Next]_vars => Inv'
  BY TypeStep, TableStep, WaitStep DEF Inv

LEMMA InvCorrect == Spec => []Inv
  BY InitInv, InvStep, PTL DEF Spec

(* The types of RequestClient's state.                                      *)
THEOREM TypeCorrect == Spec => []TypeOK
<1>1. Inv => TypeOK
  BY DEF Inv
<1>2. QED
  BY <1>1, InvCorrect, PTL

(* While a request waits unanswered exactly one slot of the table holds its *)
(* id, whatever the wall clock does: RequestQueue purges only when the next *)
(* request is made.                                                         *)
THEOREM SlotKept == Spec => []KeepsItsSlot
<1>1. Inv => KeepsItsSlot
  <2> SUFFICES ASSUME Inv, state # "idle", mailbox = <<>>
               PROVE  Cardinality(Waiting(current)) = 1
    BY DEF KeepsItsSlot
  <2>1. PICK i \in Occupied : queue[i].id = current
    BY DEF Inv, WaitInv
  <2>2. Waiting(current) = {i}
    BY <2>1 DEF Inv, TableInv, Waiting, Occupied
  <2>3. QED
    BY <2>2, FS_Singleton
<1>2. QED
  BY <1>1, InvCorrect, PTL

(* A request that ends with an answer ends with its own, which the server   *)
(* sent: a late answer finds no channel, and a later request that uses the  *)
(* same slot has another id.                                                *)
LEMMA EndsWithItsAnswer ==
  ASSUME Inv, [Next]_vars, state # "idle", state' = "idle", result' \in Ids
  PROVE  result' = current /\ current \in responses
<1>1. ASSUME NEW t \in Timeouts, Request(t) PROVE FALSE
  BY <1>1 DEF Request
<1>2. CASE Send
  BY <1>2, NatConstants DEF Send
<1>3. CASE Answer
  BY <1>3 DEF Answer, Inv, WaitInv
<1>4. CASE LookAtTimer
  BY <1>4, NatConstants DEF LookAtTimer
<1>5. CASE Drop
  BY <1>5, NatConstants DEF Drop
<1>6. QED
  BY <1>1, <1>2, <1>3, <1>4, <1>5
  DEF Next, Poll, NoAnswerYet, Serve, PeerReceive, Receive, Tick, SetClock, Cancel,
      PeerStops, ListenerStops, vars, caller

(* A request that ends with an answer ends with its own: an answer to one   *)
(* that timed out or was dropped never reaches a later one, even when both  *)
(* have used the same slot.                                                 *)
THEOREM OwnAnswer == Spec => AnswersItsRequest
<1>1. Inv /\ [Next]_vars
        => [state # "idle" /\ state' = "idle" /\ result' \in Ids
              => result' = current /\ current \in responses]_vars
  BY EndsWithItsAnswer
<1>2. QED
  BY <1>1, InvCorrect, PTL DEF Spec, AnswersItsRequest

(* With two slots, a caller that lets each of its requests end never finds  *)
(* the table full, however many requests it makes and whatever timeouts it  *)
(* chooses: what a request leaves in the table has reached its timeout, and *)
(* the ticks of the next wait take it past that.                            *)
THEOREM RoomForTheNext ==
  ASSUME Q >= 2
  PROVE  Spec => []NeverBusy
<1>1. Inv /\ SteadyInv /\ [Next]_vars => (Inv /\ SteadyInv)'
  BY InvStep, AgeStep DEF Inv
<1>2. Inv /\ SteadyInv => NeverBusy
  BY DEF SteadyInv, AgeInv, NeverBusy
<1>3. QED
  BY InitInv, <1>1, <1>2, PTL DEF Spec

================================================================================
