------------------------------- MODULE ServerLoop ------------------------------
(****************************************************************************)
(* The daemon's side of the UDP protocol between the radios and the socket: *)
(* frames that manage_radio publishes, manage_module_receive that wraps     *)
(* them (kaonic-commd/src/radio_server.rs), the server's manage_requests    *)
(* that serves requests and broadcasts frames (kaonic-ctrl/src/server.rs),  *)
(* and the two branches of Peer::serve (kaonic-ctrl/src/peer.rs).           *)
(*                                                                          *)
(* A message is its kind and its number, in the order it came in.  The      *)
(* capacities are constants: 256, 16, 128 and 128 in the code.              *)
(****************************************************************************)
EXTENDS Channels, SequencesExt

CONSTANTS
  Frames,        \* bound: radio frames told apart; later ones share a number
  Requests,      \* bound: requests received from clients
  RadioCap,      \* module_rx, broadcast (radio_server.rs)
  ClientCap,     \* client_send, mpsc (main.rs:36)
  PeerRxCap,     \* the peer's requests, broadcast (peer.rs:134)
  PeerTxCap      \* the peer's messages to send, mpsc (peer.rs:133)

ASSUME CapsAssumption ==
  /\ Frames \in Nat /\ Requests \in Nat
  /\ {RadioCap, ClientCap, PeerRxCap, PeerTxCap} \subseteq Nat \ {0}

VARIABLES
  frames,        \* frames received so far
  requests,      \* requests received so far
  module_rx,     \* frames for manage_module_receive
  forwarding,    \* what manage_module_receive waits to send: at most one
  client_chan,   \* frames for manage_requests
  peer_rx,       \* requests for manage_requests
  manager,       \* manage_requests: "select", "deaf" or "sending"
  sending,       \* what it waits to send: at most one
  peer_tx,       \* messages for Peer::serve to send
  sent,          \* messages sent (history)
  lost           \* messages overwritten in a broadcast channel (history)

source  == <<frames, requests>>
forward == <<module_rx, forwarding, client_chan>>
manage  == <<peer_rx, manager, sending>>
vars    == <<source, forward, manage, peer_tx, sent, lost>>

Frame(n)   == <<"frame", n>>
Request(n) == <<"request", n>>    \* and the response to it
Messages   == {Frame(n) : n \in 1..(Frames + 1)} \cup {Request(n) : n \in 1..Requests}

--------------------------------------------------------------------------------
Init ==
  /\ frames = 0 /\ requests = 0
  /\ module_rx = Quiet /\ forwarding = <<>> /\ client_chan = <<>>
  /\ peer_rx = Quiet /\ manager = "select" /\ sending = <<>>
  /\ peer_tx = <<>> /\ sent = {} /\ lost = {}

(* manage_radio: receive returned a frame. *)
RadioFrame ==
  /\ frames' = IF frames <= Frames THEN frames + 1 ELSE frames
  /\ module_rx' = Published(module_rx, RadioCap, Frame(frames'))
  /\ lost' = lost \cup Overwritten(module_rx, RadioCap)
  /\ UNCHANGED <<requests, forwarding, client_chan, manage, peer_tx, sent>>

(* manage_module_receive: a turn of its loop, and the end of the send it    *)
(* then waits in.                                                           *)
TakeFrame ==
  /\ forwarding = <<>>
  /\ HasMessage(module_rx)
  /\ forwarding' = <<Head(module_rx.buf)>>
  /\ module_rx' = Taken(module_rx)
  /\ UNCHANGED <<source, client_chan, manage, peer_tx, sent, lost>>

(* Mutant: the message after Lagged is skipped too. *)
SkipLagAndMessage ==
  /\ forwarding = <<>>
  /\ HasLagged(module_rx)
  /\ module_rx' = Taken(LagSeen(module_rx))
  /\ UNCHANGED <<source, forwarding, client_chan, manage, peer_tx, sent, lost>>

SkipLag ==
  /\ forwarding = <<>>
  /\ HasLagged(module_rx)
  /\ module_rx' = LagSeen(module_rx)
  /\ UNCHANGED <<source, forwarding, client_chan, manage, peer_tx, sent, lost>>

ForwardFrame ==
  /\ forwarding # <<>>
  /\ Len(client_chan) < ClientCap
  /\ client_chan' = client_chan \o forwarding
  /\ forwarding' = <<>>
  /\ UNCHANGED <<source, module_rx, manage, peer_tx, sent, lost>>

(* Peer::serve, receive branch: a request came. *)
PeerReceive ==
  /\ requests < Requests
  /\ requests' = requests + 1
  /\ peer_rx' = Published(peer_rx, PeerRxCap, Request(requests + 1))
  /\ lost' = lost \cup Overwritten(peer_rx, PeerRxCap)
  /\ UNCHANGED <<frames, forward, manager, sending, peer_tx, sent>>

(* manage_requests: the biased select.  The branches are polled in order.   *)
(* Lagged does not match the first branch's pattern, which is then disabled *)
(* until the select ends: only a frame, or cancellation, ends it.           *)
TakeRequest ==
  /\ manager = "select"
  /\ HasMessage(peer_rx)
  /\ sending' = <<Head(peer_rx.buf)>>
  /\ peer_rx' = Taken(peer_rx)
  /\ manager' = "sending"
  /\ UNCHANGED <<source, forward, peer_tx, sent, lost>>

MeetLag ==
  /\ manager = "select"
  /\ HasLagged(peer_rx)
  /\ peer_rx' = LagSeen(peer_rx)
  /\ manager' = "deaf"
  /\ UNCHANGED <<source, forward, sending, peer_tx, sent, lost>>

(* Mutant: the second branch is disabled by Lagged too. *)
BroadcastFrameUnlessDeaf ==
  /\ manager = "select" /\ ~HasMessage(peer_rx) /\ ~HasLagged(peer_rx)
  /\ client_chan # <<>>
  /\ sending' = <<Head(client_chan)>>
  /\ client_chan' = Tail(client_chan)
  /\ manager' = "sending"
  /\ UNCHANGED <<source, module_rx, forwarding, peer_rx, peer_tx, sent, lost>>

BroadcastFrame ==
  /\ \/ manager = "select" /\ ~HasMessage(peer_rx) /\ ~HasLagged(peer_rx)
     \/ manager = "deaf"
  /\ client_chan # <<>>
  /\ sending' = <<Head(client_chan)>>
  /\ client_chan' = Tail(client_chan)
  /\ manager' = "sending"
  /\ UNCHANGED <<source, module_rx, forwarding, peer_rx, peer_tx, sent, lost>>

(* Mutant: a send that does not wait for room. *)
QueueWithoutRoom ==
  /\ manager = "sending"
  /\ peer_tx' = peer_tx \o sending
  /\ sending' = <<>>
  /\ manager' = "select"
  /\ UNCHANGED <<source, forward, peer_rx, sent, lost>>

(* The end of handle_request or send_broadcast. *)
QueueForPeer ==
  /\ manager = "sending"
  /\ Len(peer_tx) < PeerTxCap
  /\ peer_tx' = peer_tx \o sending
  /\ sending' = <<>>
  /\ manager' = "select"
  /\ UNCHANGED <<source, forward, peer_rx, sent, lost>>

(* Peer::serve, transmit branch.  Sent is handed to the socket: a message   *)
(* that is not serialized, or that send_to fails for, is logged and done    *)
(* with as one that went out.                                               *)
PeerTransmit ==
  /\ peer_tx # <<>>
  /\ sent' = sent \cup {Head(peer_tx)}
  /\ peer_tx' = Tail(peer_tx)
  /\ UNCHANGED <<source, forward, manage, lost>>

Forwarding == TakeFrame \/ SkipLag \/ ForwardFrame
Managing   == TakeRequest \/ MeetLag \/ BroadcastFrame \/ QueueForPeer

Next == RadioFrame \/ Forwarding \/ PeerReceive \/ Managing \/ PeerTransmit

Spec == Init /\ [][Next]_vars

(* The runtime polls every task that is ready.  The two branches of the     *)
(* peer's select are taken in random order, so neither starves.  After      *)
(* Lagged, manage_module_receive reads again in the same poll, so frames    *)
(* that keep coming do not keep it from taking one (strong fairness).       *)
(* Neither radio nor clients need to send anything more, at any time.       *)
FairSpec ==
  /\ Spec
  /\ WF_vars(Forwarding) /\ WF_vars(Managing)
  /\ SF_vars(TakeFrame) /\ WF_vars(PeerTransmit)

--------------------------------------------------------------------------------
TypeOK ==
  /\ frames \in 0..(Frames + 1) /\ requests \in 0..Requests
  /\ IsChannel(module_rx, Messages, RadioCap)
  /\ forwarding \in {<<>>} \cup {<<m>> : m \in Messages}
  /\ client_chan \in BoundedSeq(Messages, ClientCap)
  /\ IsChannel(peer_rx, Messages, PeerRxCap)
  /\ manager \in {"select", "deaf", "sending"}
  /\ sending \in {<<>>} \cup {<<m>> : m \in Messages}
  /\ manager = "sending" <=> sending # <<>>
  /\ peer_tx \in BoundedSeq(Messages, PeerTxCap)
  /\ sent \subseteq Messages /\ lost \subseteq Messages

(* What has come in of one kind is sent, in the pipeline in its order, or   *)
(* overwritten by a newer message: never twice, never out of order, never   *)
(* dropped by a task that meets Lagged or by a select that drops a recv     *)
(* another branch has overtaken.                                            *)
AccountedFor(counted, n, pipeline) ==
  LET out   == SetNumbers(sent, counted)
      over  == SetNumbers(lost, counted)
      inner == Numbers(pipeline, counted)
  IN  /\ Rising(pipeline, counted)
      /\ \A a \in out, b \in inner : a < b
      /\ over \cap (out \cup inner) = {}
      /\ over \cup out \cup inner = 1..n

FrameMessages   == {Frame(n) : n \in 1..Frames}
RequestMessages == {Request(n) : n \in 1..Requests}

FramePath   == peer_tx \o sending \o client_chan \o forwarding \o module_rx.buf
RequestPath == peer_tx \o sending \o peer_rx.buf

NothingLostButByLag ==
  /\ AccountedFor(FrameMessages, IF frames <= Frames THEN frames ELSE Frames, FramePath)
  /\ AccountedFor(RequestMessages, requests, RequestPath)

(* The last frame, or a newer one, is sent, however many requests come and  *)
(* whichever of the channels lags, also when the radio falls silent after   *)
(* it: a frame is overwritten only by a newer one, and nothing stays parked *)
(* in a channel.                                                            *)
LatestFrameSent ==
  \A n \in 1..(Frames + 1) :
    frames = n ~> \E k \in n..(Frames + 1) : Frame(k) \in sent

(* The same of requests, if frames keep coming: a frame is what makes a     *)
(* deaf manage_requests listen again.                                       *)
FramesKeepComing == WF_vars(RadioFrame)

LatestRequestAnswered ==
  FramesKeepComing =>
    \A n \in 1..Requests : requests = n ~> \E k \in n..Requests : Request(k) \in sent
================================================================================
