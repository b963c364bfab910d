------------------------------ MODULE ClientEvents ------------------------------
(****************************************************************************)
(* The client's side: messages from the server through the receive branch   *)
(* of Peer::serve (kaonic-ctrl/src/peer.rs), manage_responses               *)
(* (kaonic-ctrl/src/client.rs) and listen_events (kaonic-ctrl/src/radio.rs) *)
(* to a subscriber of module_receive.                                       *)
(*                                                                          *)
(* A message is its kind, a radio frame or the response to a request, and   *)
(* its number in the order of arrival.  The capacities are constants: 128,  *)
(* 16 and 300 in the code, which tokio rounds up to 512.                    *)
(****************************************************************************)
EXTENDS Channels

CONSTANTS
  Count,         \* bound: messages that arrive
  PeerCap,       \* the peer's messages, broadcast (peer.rs:134)
  ClientCap,     \* rx_send, broadcast (client.rs:61)
  ModuleCap      \* module_rx_send, broadcast (radio.rs:60)

ASSUME ClientCapsAssumption ==
  /\ Count \in Nat
  /\ {PeerCap, ClientCap, ModuleCap} \subseteq Nat \ {0}

VARIABLES
  arrived,       \* messages that arrived (history)
  peer_rx,       \* messages for manage_responses
  deaf,          \* manage_responses waits for its cancellation only
  client_rx,     \* messages for listen_events
  module_rx,     \* frames for the subscriber
  answered,      \* responses handed to the request table
  yielded,       \* frames the subscriber got, in order
  lost           \* messages overwritten in a channel (history)

vars == <<arrived, peer_rx, deaf, client_rx, module_rx, answered, yielded, lost>>

Kinds    == {"frame", "response"}
Messages == Kinds \X (1..Count)
Number(m) == m[2]

--------------------------------------------------------------------------------
Init ==
  /\ arrived = <<>> /\ peer_rx = Quiet /\ deaf = FALSE
  /\ client_rx = Quiet /\ module_rx = Quiet
  /\ answered = {} /\ yielded = <<>> /\ lost = {}

PeerReceive(kind) ==
  /\ Len(arrived) < Count
  /\ LET m == <<kind, Len(arrived) + 1>>
     IN  /\ arrived' = Append(arrived, m)
         /\ peer_rx' = Published(peer_rx, PeerCap, m)
  /\ lost' = lost \cup Overwritten(peer_rx, PeerCap)
  /\ UNCHANGED <<deaf, client_rx, module_rx, answered, yielded>>

(* manage_responses: the request table looks at every message, and          *)
(* listen_events gets every message.                                        *)
ManageResponse ==
  /\ ~deaf
  /\ HasMessage(peer_rx)
  /\ LET m == Head(peer_rx.buf)
     IN  /\ answered' = IF m[1] = "response" THEN answered \cup {m} ELSE answered
         /\ client_rx' = Published(client_rx, ClientCap, m)
  /\ peer_rx' = Taken(peer_rx)
  /\ lost' = lost \cup Overwritten(client_rx, ClientCap)
  /\ UNCHANGED <<arrived, deaf, module_rx, yielded>>

(* Lagged does not match the pattern Ok(rx), and the other branch of the    *)
(* select is the cancellation.                                              *)
MeetLag ==
  /\ ~deaf
  /\ HasLagged(peer_rx)
  /\ deaf' = TRUE
  /\ peer_rx' = LagSeen(peer_rx)
  /\ UNCHANGED <<arrived, client_rx, module_rx, answered, yielded, lost>>

(* listen_events. *)
ListenEvent ==
  /\ HasMessage(client_rx)
  /\ LET m == Head(client_rx.buf)
     IN  IF m[1] = "frame"
         THEN /\ module_rx' = Published(module_rx, ModuleCap, m)
              /\ lost' = lost \cup Overwritten(module_rx, ModuleCap)
         ELSE UNCHANGED <<module_rx, lost>>
  /\ client_rx' = Taken(client_rx)
  /\ UNCHANGED <<arrived, peer_rx, deaf, answered, yielded>>

(* Mutant: listen_events does the same. *)
ListenLagAndSkip ==
  /\ HasLagged(client_rx)
  /\ client_rx' = Taken(LagSeen(client_rx))
  /\ UNCHANGED <<arrived, peer_rx, deaf, module_rx, answered, yielded, lost>>

ListenLag ==
  /\ HasLagged(client_rx)
  /\ client_rx' = LagSeen(client_rx)
  /\ UNCHANGED <<arrived, peer_rx, deaf, module_rx, answered, yielded, lost>>

(* A subscriber that goes on at Lagged, as the client of kaonic-iperf does  *)
(* (its server, and the receive task of the GUI, end there).                *)
Yield ==
  /\ HasMessage(module_rx)
  /\ yielded' = Append(yielded, Head(module_rx.buf))
  /\ module_rx' = Taken(module_rx)
  /\ UNCHANGED <<arrived, peer_rx, deaf, client_rx, answered, lost>>

SubscriberLag ==
  /\ HasLagged(module_rx)
  /\ module_rx' = LagSeen(module_rx)
  /\ UNCHANGED <<arrived, peer_rx, deaf, client_rx, answered, yielded, lost>>

Managing   == ManageResponse \/ MeetLag
Listening  == ListenEvent \/ ListenLag
Subscriber == Yield \/ SubscriberLag

Next ==
  \/ \E kind \in Kinds : PeerReceive(kind)
  \/ Managing \/ Listening \/ Subscriber

Spec == Init /\ [][Next]_vars

(* The runtime polls every task that is ready. *)
FairSpec == Spec /\ WF_vars(Managing) /\ WF_vars(Listening) /\ WF_vars(Subscriber)

--------------------------------------------------------------------------------
FrameMessages == {"frame"} \X (1..Count)

TypeOK ==
  /\ \A i \in DOMAIN arrived : arrived[i] \in Kinds \X {i}
  /\ Len(arrived) <= Count
  /\ IsChannel(peer_rx, Messages, PeerCap)
  /\ IsChannel(client_rx, Messages, ClientCap)
  /\ IsChannel(module_rx, FrameMessages, ModuleCap)
  /\ deaf \in BOOLEAN
  /\ answered \subseteq {"response"} \X (1..Count)
  /\ lost \subseteq Messages

(* Every frame that arrived is yielded, on its way, or was overwritten by a *)
(* newer message: one of the three, once, and those that are not lost in    *)
(* the order they arrived.                                                  *)
FramePath == yielded \o module_rx.buf \o client_rx.buf \o peer_rx.buf

FramesAccountedFor ==
  LET kept == Numbers(FramePath, FrameMessages)
      over == SetNumbers(lost, FrameMessages)
  IN  /\ Rising(FramePath, FrameMessages)
      /\ kept \cap over = {}
      /\ kept \cup over = Numbers(arrived, FrameMessages)

(* A client that is not deaf has handed every response it was sent to the   *)
(* request table, or still will: the channels behind manage_responses may   *)
(* lag, an application may stop reading, and requests are still answered.   *)
ResponsesAnswered ==
  ~deaf =>
    \A i \in DOMAIN arrived :
      arrived[i][1] = "response" =>
        \/ arrived[i] \in answered
        \/ \E k \in DOMAIN peer_rx.buf : peer_rx.buf[k] = arrived[i]
        \/ arrived[i] \in lost

(* Both kinds of message through the three channels. *)
MessagesAccountedFor == FramesAccountedFor /\ ResponsesAnswered

(* The last message of a burst, if it is a frame, reaches the subscriber    *)
(* unless manage_responses is deaf: the channels behind it may lag, but     *)
(* what they overwrite is older than the last message.  (A burst of Count,  *)
(* with any pauses in it.)                                                  *)
LastFrameStays(n) == <>[](Len(arrived) = n /\ arrived[n] = <<"frame", n>>)
Yielded(n)        == \E i \in DOMAIN yielded : Number(yielded[i]) = n

YieldedUnlessDeaf ==
  LastFrameStays(Count) => <>(deaf \/ Yielded(Count))

(* "Returns a broadcast receiver that yields incoming [`ReceiveModule`]     *)
(* frames" (radio.rs:96): so it is after any burst.                         *)
LatestFrameYielded ==
  \A n \in 1..Count : LastFrameStays(n) => <>Yielded(n)
================================================================================
