----------------------------- MODULE RequestClient -----------------------------
(****************************************************************************)
(* Requests and their answers at a client: the table of requests in         *)
(* progress (kaonic-net/src/request.rs), Client::request and                *)
(* manage_responses (kaonic-ctrl/src/client.rs), and the wait for an answer *)
(* or a timeout (AsyncRequest and AsyncResponder, kaonic-ctrl/src/peer.rs). *)
(*                                                                          *)
(* Client::request takes &mut self, so one client makes one request at a    *)
(* time, but a request that has timed out leaves its slot behind and its    *)
(* answer may still come.  A message is its id; the caller draws a random   *)
(* one for each request, and they are assumed to differ.                    *)
(*                                                                          *)
(* The table measures time by the wall clock, the wait by the monotonic     *)
(* one.  Of both only differences are kept: age is the wall clock less the  *)
(* start_time of a slot, slept is the time spent in the wait.  Both stop    *)
(* counting where no timeout can tell the values beyond apart.              *)
(****************************************************************************)
EXTENDS Integers, Sequences, FiniteSetsExt, Functions

CONSTANTS
  Draws,        \* the random ids the requests draw, in order
  Q,            \* slots of the table (16 in client.rs:19)
  Timeouts,     \* the timeouts callers use (set_timeout), in ticks
  MaxTimeout,   \* bound: the longest
  Steps         \* how far the wall clock may be set, back or forward

ASSUME RequestAssumption ==
  /\ Q \in Nat \ {0}
  /\ MaxTimeout \in Nat /\ Timeouts \subseteq 1..MaxTimeout
  /\ Steps \subseteq Int
  /\ Draws \in Seq(Range(Draws)) /\ IsInjective(Draws)
  /\ Range(Draws) \cap {"none", "Busy", "SocketError", "Timeout", "dropped"} = {}

VARIABLES
  steady,       \* requests are let to end, and the clock is not set back
  queue,        \* RequestQueue: the slots
  used,         \* ids drawn so far
  state,        \* where the caller is in Client::request
  current,      \* the id of the request in progress, or of the last one
  timeout,      \* its timeout
  slept,        \* monotonic time since the wait began
  mailbox,      \* its channel, mpsc::channel(1)
  result,       \* what the last request returned
  requests,     \* requests handed to the peer
  responses,    \* answers the server has sent
  received,     \* answers the peer has put into its broadcast channel
  cancelled, peer_up, listener_up   \* the token and the two tasks that watch it

wire   == <<requests, responses, received>>
tasks  == <<cancelled, peer_up, listener_up>>
caller == <<used, state, current, timeout, slept, result>>
vars   == <<steady, queue, caller, mailbox, wire, tasks>>

Ids       == Range(Draws)
Slots     == 1..Q
NoRequest == [id |-> "none", age |-> 0, timeout |-> 0]
AgeLimit  == MaxTimeout + 1

(* Ages beyond what a timeout can tell apart are one; MaxBack is the bound  *)
(* on how far the clock may be set back in all.                             *)
MaxBack  == 1
Clip(a)  == IF a > AgeLimit THEN AgeLimit ELSE IF a < -MaxBack THEN -MaxBack ELSE a
Aged(by) ==
  [i \in Slots |-> IF queue[i] = NoRequest THEN NoRequest
                   ELSE [queue[i] EXCEPT !.age = Clip(@ + by)]]

(* Mutant: a slot lives one tick longer. *)
PurgedLate ==
  [i \in Slots |-> IF queue[i].age > queue[i].timeout + 1 THEN NoRequest ELSE queue[i]]

(* RequestQueue. *)
Purged ==
  [i \in Slots |-> IF queue[i].age > queue[i].timeout THEN NoRequest ELSE queue[i]]

Free(table) == {i \in Slots : table[i] = NoRequest}

(* Mutant: the id is not compared. *)
WaitingAny(id) == {i \in Slots : queue[i] # NoRequest}

Waiting(id) == {i \in Slots : queue[i] # NoRequest /\ queue[i].id = id}

--------------------------------------------------------------------------------
Init ==
  /\ steady \in BOOLEAN
  /\ queue = [i \in Slots |-> NoRequest]
  /\ used = {} /\ current = "none" /\ timeout = 0 /\ slept = 0
  /\ state = "idle" /\ result = "none" /\ mailbox = <<>>
  /\ requests = {} /\ responses = {} /\ received = {}
  /\ cancelled = FALSE /\ peer_up = TRUE /\ listener_up = TRUE

(* Client::request up to the lock's release.  The mailbox is a new channel. *)
Request(t) ==
  LET id == Draws[Cardinality(used) + 1]
  IN
  /\ state = "idle"
  /\ Cardinality(used) < Len(Draws)
  /\ used' = used \cup {id}
  /\ current' = id
  /\ timeout' = t
  /\ mailbox' = <<>>
  /\ IF Free(Purged) = {}
     THEN /\ queue' = Purged
          /\ result' = "Busy"
          /\ UNCHANGED state
     ELSE /\ queue' = [Purged EXCEPT ![Min(Free(Purged))] =
                                       [id |-> id, age |-> 0, timeout |-> t]]
          /\ state' = "sending"
          /\ UNCHANGED result
  /\ UNCHANGED <<steady, slept, wire, tasks>>

(* send_to_server; a failure leaves the slot in the table.  The wait for    *)
(* room in the peer's channel is the time before this step: the slot ages   *)
(* in it, and the peer, which transmits all it is given, ends it.           *)
Send ==
  /\ state = "sending"
  /\ slept' = 0
  /\ IF peer_up THEN state' = "waiting" /\ requests' = requests \cup {current}
                      /\ UNCHANGED result
                ELSE state' = "idle" /\ result' = "SocketError"
                      /\ UNCHANGED requests
  /\ UNCHANGED <<steady, queue, used, current, timeout, mailbox, responses, received, tasks>>

(* The biased select of AsyncRequest::response looks at the channel first   *)
(* and then at the timer; an answer may come between the two.               *)
Answer ==
  /\ state = "waiting"
  /\ mailbox # <<>>
  /\ result' = Head(mailbox)
  /\ state' = "idle"
  /\ UNCHANGED <<steady, queue, used, current, timeout, slept, mailbox, wire, tasks>>

NoAnswerYet ==
  /\ state = "waiting"
  /\ mailbox = <<>>
  /\ state' = "looked"
  /\ UNCHANGED <<steady, queue, used, current, timeout, slept, result, mailbox, wire, tasks>>

(* Mutant: every poll starts a new sleep. *)
LookAtNewTimer ==
  /\ state = "looked"
  /\ IF slept >= timeout THEN state' = "idle" /\ result' = "Timeout" /\ UNCHANGED slept
                         ELSE state' = "waiting" /\ slept' = 0 /\ UNCHANGED result
  /\ UNCHANGED <<steady, queue, used, current, timeout, mailbox, wire, tasks>>

LookAtTimer ==
  /\ state = "looked"
  /\ IF slept >= timeout THEN state' = "idle" /\ result' = "Timeout"
                         ELSE state' = "waiting" /\ UNCHANGED result
  /\ UNCHANGED <<steady, queue, used, current, timeout, slept, mailbox, wire, tasks>>

(* The future of a request dropped at one of its awaits. *)
Drop ==
  /\ ~steady
  /\ state \in {"sending", "waiting"}
  /\ state' = "idle"
  /\ result' = "dropped"
  /\ UNCHANGED <<steady, queue, used, current, timeout, slept, mailbox, wire, tasks>>

(* Mutant: the server answers with an id of its own choice. *)
ServeAnyId(id) ==
  /\ requests # {}
  /\ responses' = responses \cup {id}
  /\ UNCHANGED <<steady, queue, caller, mailbox, requests, received, tasks>>

(* The server answers each request it receives, with the request's id       *)
(* (handle_message clones the request).  Messages stay in their sets: a lost *)
(* one is never taken, a duplicated one is taken again.                     *)
Serve(id) ==
  /\ id \in requests
  /\ responses' = responses \cup {id}
  /\ UNCHANGED <<steady, queue, caller, mailbox, requests, received, tasks>>

(* The peer's receive branch. *)
PeerReceive(id) ==
  /\ peer_up
  /\ id \in responses
  /\ received' = received \cup {id}
  /\ UNCHANGED <<steady, queue, caller, mailbox, requests, responses, tasks>>

(* Mutant: a response also purges the table. *)
ReceivePurging(id) ==
  /\ listener_up
  /\ id \in received
  /\ queue' = Purged
  /\ mailbox' = IF state # "idle" /\ id = current /\ mailbox = <<>> THEN <<id>> ELSE mailbox
  /\ UNCHANGED <<steady, caller, wire, tasks>>

(* A turn of manage_responses: the slot with the id is taken and its        *)
(* responder try_sends to the channel of the request that filled it, which  *)
(* is gone unless that request is still in progress.                        *)
Receive(id) ==
  /\ listener_up
  /\ id \in received
  /\ LET slot == Min(Waiting(id))
         open == state # "idle" /\ queue[slot].id = current /\ mailbox = <<>>
     IN  IF Waiting(id) = {}
         THEN UNCHANGED <<queue, mailbox>>
         ELSE /\ queue' = [queue EXCEPT ![slot] = NoRequest]
              /\ mailbox' = IF open THEN <<id>> ELSE mailbox
  /\ UNCHANGED <<steady, caller, wire, tasks>>

Tick ==
  /\ queue' = Aged(1)
  /\ slept' = IF state \in {"waiting", "looked"} /\ slept <= timeout THEN slept + 1 ELSE slept
  /\ UNCHANGED <<steady, used, state, current, timeout, result, mailbox, wire, tasks>>

SetClock ==
  /\ \E by \in Steps : (steady => by > 0) /\ queue' = Aged(by)
  /\ UNCHANGED <<steady, caller, mailbox, wire, tasks>>

(* The token, and the peer and manage_responses that stop at it, each when  *)
(* its select next picks the token.                                         *)
Cancel ==
  /\ ~cancelled
  /\ cancelled' = TRUE
  /\ UNCHANGED <<steady, queue, caller, mailbox, wire, peer_up, listener_up>>

PeerStops ==
  /\ cancelled /\ peer_up
  /\ peer_up' = FALSE
  /\ UNCHANGED <<steady, queue, caller, mailbox, wire, cancelled, listener_up>>

ListenerStops ==
  /\ cancelled /\ listener_up
  /\ listener_up' = FALSE
  /\ UNCHANGED <<steady, queue, caller, mailbox, wire, cancelled, peer_up>>

Poll == Answer \/ NoAnswerYet \/ LookAtTimer

Next ==
  \/ \E t \in Timeouts : Request(t)
  \/ Send \/ Poll \/ Drop
  \/ \E id \in Ids : Serve(id) \/ PeerReceive(id) \/ Receive(id)
  \/ Tick \/ SetClock
  \/ Cancel \/ PeerStops \/ ListenerStops

Spec == Init /\ [][Next]_vars

(* Time passes and the runtime polls a task that is ready. *)
FairSpec == Spec /\ WF_vars(Tick) /\ WF_vars(Send) /\ WF_vars(Poll)

--------------------------------------------------------------------------------
TypeOK ==
  /\ steady \in BOOLEAN
  /\ queue \in [Slots -> [id : Ids \cup {"none"}, age : -MaxBack..AgeLimit,
                          timeout : Timeouts \cup {0}]]
  /\ used \subseteq Ids
  /\ state \in {"idle", "sending", "waiting", "looked"}
  /\ current \in Ids \cup {"none"}
  /\ timeout \in Timeouts \cup {0}
  /\ slept \in 0..AgeLimit
  /\ mailbox \in {<<>>} \cup {<<id>> : id \in Ids}
  /\ result \in Ids \cup {"none", "Busy", "SocketError", "Timeout", "dropped"}
  /\ requests \subseteq used /\ responses \subseteq requests /\ received \subseteq responses
  /\ cancelled \in BOOLEAN /\ peer_up \in BOOLEAN /\ listener_up \in BOOLEAN

(* A request that ends with an answer ends with its own: an answer to a     *)
(* request that timed out or was dropped earlier never reaches a later one, *)
(* even when the later one uses the same slot.                              *)
AnswersItsRequest ==
  [][state # "idle" /\ state' = "idle" /\ result' \in Ids
       => result' = current /\ current \in responses]_vars

(* While a request waits unanswered its slot is in the table, so an answer  *)
(* that comes in time is not thrown away: whatever the wall clock does,     *)
(* slots are only purged by the next request.                               *)
KeepsItsSlot ==
  state # "idle" /\ mailbox = <<>> => Cardinality(Waiting(current)) = 1

(* A caller that makes its requests one after the other and lets them end   *)
(* never finds the table full, with two slots or more: of the requests that *)
(* timed out only the last can still hold a slot, because the test is       *)
(* strict.  (Dropped requests, failed sends and a clock set back leave      *)
(* slots behind.)                                                           *)
NeverBusy == steady /\ result = "Busy" => cancelled

(* Every request ends: with its answer, or by its timeout if the answer is  *)
(* lost, the client is cancelled, or the wall clock is set.                 *)
EveryRequestEnds == state # "idle" ~> state = "idle"
================================================================================
