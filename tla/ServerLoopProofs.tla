---------------------------- MODULE ServerLoopProofs ---------------------------
(****************************************************************************)
(* What the daemon's pipeline promises, for channels of any capacity and    *)
(* any number of frames and requests: what came in is sent, on its way in   *)
(* its order, or was overwritten in a broadcast channel.                    *)
(*                                                                          *)
(* The argument looks at the path of each kind as one sequence.  A task     *)
(* that passes a message on leaves the sequence as it was; what it takes    *)
(* between the two steps is in forwarding or sending, not out of it.  The   *)
(* messages of the other kind on the same path do not count, and for that   *)
(* TypeInv says which channel holds which kind.                             *)
(****************************************************************************)
EXTENDS ServerLoop, ChannelsProofs

AllFrames == {Frame(n) : n \in 1..(Frames + 1)}
Single(M) == {<<>>} \cup {<<m>> : m \in M}

TypeInv ==
  /\ frames \in 0..(Frames + 1) /\ requests \in 0..Requests
  /\ module_rx \in ChannelOf(AllFrames, RadioCap)
  /\ forwarding \in Single(AllFrames)
  /\ client_chan \in Seq(AllFrames) /\ Len(client_chan) <= ClientCap
  /\ peer_rx \in ChannelOf(RequestMessages, PeerRxCap)
  /\ manager \in {"select", "deaf", "sending"}
  /\ sending \in Single(Messages)
  /\ manager = "sending" <=> sending # <<>>
  /\ peer_tx \in Seq(Messages) /\ Len(peer_tx) <= PeerTxCap
  /\ sent \subseteq Messages /\ lost \subseteq Messages

Counted == IF frames <= Frames THEN frames ELSE Frames

FramesInv   == AccountedFor(FrameMessages, Counted, FramePath)
RequestsInv == AccountedFor(RequestMessages, requests, RequestPath)

--------------------------------------------------------------------------------
LEMMA Kinds ==
  /\ AllFrames \subseteq Messages /\ RequestMessages \subseteq Messages
  /\ FrameMessages \subseteq AllFrames
  /\ \A m \in AllFrames : m \notin RequestMessages
  /\ \A m \in RequestMessages : m \notin FrameMessages
  /\ \A m \in FrameMessages : m[2] \in 1..Frames
  /\ \A m \in RequestMessages : m[2] \in 1..Requests
<1>1. \A m \in AllFrames : m[1] = "frame"
  BY DEF AllFrames, Frame
<1>2. \A m \in RequestMessages : m[1] = "request" /\ m[2] \in 1..Requests
  BY DEF RequestMessages, Request
<1>3. \A m \in FrameMessages : m[2] \in 1..Frames
  BY DEF FrameMessages, Frame
<1>4. FrameMessages \subseteq AllFrames
  BY CapsAssumption DEF FrameMessages, AllFrames
<1>5. AllFrames \subseteq Messages /\ RequestMessages \subseteq Messages
  BY DEF AllFrames, Messages, RequestMessages
<1>6. (\A m \in AllFrames : m \notin RequestMessages)
      /\ (\A m \in RequestMessages : m \notin FrameMessages)
  BY <1>1, <1>2, <1>4
<1>7. QED
  BY <1>2, <1>3, <1>4, <1>5, <1>6

(* The pieces of the two paths are sequences of messages.                   *)
LEMMA Pieces ==
  ASSUME TypeInv
  PROVE  /\ peer_tx \in Seq(Messages) /\ sending \in Seq(Messages)
         /\ client_chan \in Seq(Messages) /\ forwarding \in Seq(Messages)
         /\ module_rx.buf \in Seq(Messages) /\ peer_rx.buf \in Seq(Messages)
         /\ module_rx.buf \in Seq(AllFrames) /\ peer_rx.buf \in Seq(RequestMessages)
<1>1. module_rx.buf \in Seq(AllFrames) /\ peer_rx.buf \in Seq(RequestMessages)
  BY DEF TypeInv, ChannelOf
<1>2. module_rx.buf \in Seq(Messages) /\ peer_rx.buf \in Seq(Messages)
  BY <1>1, Kinds, SeqMonotonic
<1>3. client_chan \in Seq(Messages) /\ peer_tx \in Seq(Messages)
  BY Kinds, SeqMonotonic DEF TypeInv
<1>4. ASSUME NEW s \in Single(Messages) PROVE s \in Seq(Messages)
  <2>1. CASE s = <<>>
    BY <2>1, EmptySeq
  <2>2. CASE s # <<>>
    <3>1. PICK m \in Messages : s = <<m>>
      BY <1>4, <2>2 DEF Single
    <3>2. <<m>> \in Seq(Messages)
      OBVIOUS
    <3>3. QED
      BY <3>1, <3>2
  <2>3. QED
    BY <2>1, <2>2
<1>5. forwarding \in Single(Messages) /\ sending \in Single(Messages)
  BY Kinds DEF TypeInv, Single
<1>6. QED
  BY <1>1, <1>2, <1>3, <1>4, <1>5

LEMMA EmptyTyped ==
  ASSUME NEW S, NEW n \in Nat
  PROVE  Quiet \in ChannelOf(S, n) /\ <<>> \in Seq(S) /\ Len(<<>>) = 0
BY EmptySeq DEF Quiet, ChannelOf

--------------------------------------------------------------------------------
LEMMA TypeInit == Init => TypeInv
<1> SUFFICES ASSUME Init PROVE TypeInv
  OBVIOUS
<1>1. /\ Frames \in Nat /\ Requests \in Nat /\ RadioCap \in Nat
      /\ ClientCap \in Nat /\ PeerRxCap \in Nat /\ PeerTxCap \in Nat
  BY CapsAssumption
<1>2. /\ module_rx \in ChannelOf(AllFrames, RadioCap)
      /\ peer_rx \in ChannelOf(RequestMessages, PeerRxCap)
  BY <1>1, EmptyTyped DEF Init
<1>3. /\ client_chan \in Seq(AllFrames) /\ Len(client_chan) <= ClientCap
      /\ peer_tx \in Seq(Messages) /\ Len(peer_tx) <= PeerTxCap
  BY <1>1, EmptyTyped DEF Init
<1>4. /\ forwarding \in Single(AllFrames) /\ sending \in Single(Messages)
      /\ manager = "select" /\ sending = <<>>
  BY DEF Init, Single
<1>5. frames \in 0..(Frames + 1) /\ requests \in 0..Requests
  BY <1>1 DEF Init
<1>6. sent \subseteq Messages /\ lost \subseteq Messages
  BY DEF Init
<1>7. manager \in {"select", "deaf", "sending"} /\ (manager = "sending" <=> sending # <<>>)
  BY <1>4
<1>8. QED
  BY <1>2, <1>3, <1>4, <1>5, <1>6, <1>7 DEF TypeInv

LEMMA TypeStep ==
  ASSUME TypeInv, Next
  PROVE  TypeInv'
<1> USE DEF forward, manage, source
<1>0. /\ Frames \in Nat /\ Requests \in Nat /\ RadioCap \in Nat \ {0}
      /\ ClientCap \in Nat /\ PeerRxCap \in Nat \ {0} /\ PeerTxCap \in Nat
  BY CapsAssumption
<1>t. /\ module_rx \in ChannelOf(AllFrames, RadioCap) /\ forwarding \in Single(AllFrames)
      /\ client_chan \in Seq(AllFrames) /\ Len(client_chan) <= ClientCap
      /\ peer_rx \in ChannelOf(RequestMessages, PeerRxCap)
      /\ sending \in Single(Messages) /\ lost \subseteq Messages /\ sent \subseteq Messages
      /\ peer_tx \in Seq(Messages) /\ Len(peer_tx) <= PeerTxCap
  BY DEF TypeInv
<1>1. CASE RadioFrame
  <2>1. frames' \in 1..(Frames + 1)
    BY <1>0, <1>1 DEF RadioFrame, TypeInv
  <2>2. Frame(frames') \in AllFrames
    BY <2>1 DEF AllFrames
  <2>3. /\ module_rx' \in ChannelOf(AllFrames, RadioCap)
        /\ Overwritten(module_rx, RadioCap) \subseteq AllFrames
    BY <1>0, <1>1, <1>t, <2>2, PublishedTyped DEF RadioFrame
  <2>4. lost' \subseteq Messages
    BY <1>1, <1>t, <2>3, Kinds DEF RadioFrame
  <2>5. QED
    BY <1>0, <1>1, <2>1, <2>3, <2>4 DEF RadioFrame, TypeInv
<1>2. CASE TakeFrame
  <2>1. /\ module_rx' \in ChannelOf(AllFrames, RadioCap)
        /\ Head(module_rx.buf) \in AllFrames
    BY <1>0, <1>2, <1>t, TakenChannel DEF TakeFrame, HasMessage
  <2>2. forwarding' \in Single(AllFrames)
    BY <1>2, <2>1 DEF TakeFrame, Single
  <2>3. QED
    BY <1>2, <2>1, <2>2 DEF TakeFrame, TypeInv
<1>3. CASE SkipLag
  <2>1. module_rx' \in ChannelOf(AllFrames, RadioCap)
    BY <1>0, <1>3, <1>t, TakenChannel DEF SkipLag
  <2>2. QED
    BY <1>3, <2>1 DEF SkipLag, TypeInv
<1>4. CASE ForwardFrame
  <2>1. PICK m \in AllFrames : forwarding = <<m>>
    BY <1>4, <1>t DEF ForwardFrame, Single
  <2>2. client_chan' = Append(client_chan, m)
    BY <1>4, <1>t, <2>1, AppendIsConcat DEF ForwardFrame
  <2>3. client_chan' \in Seq(AllFrames) /\ Len(client_chan') = Len(client_chan) + 1
    BY <1>t, <2>2, AppendProperties
  <2>4. Len(client_chan) \in Nat /\ Len(client_chan) < ClientCap
    BY <1>4, <1>t, LenProperties DEF ForwardFrame
  <2>5. Len(client_chan') <= ClientCap
    BY <1>0, <2>3, <2>4
  <2>6. forwarding' \in Single(AllFrames)
    BY <1>4 DEF ForwardFrame, Single
  <2>7. QED
    BY <1>4, <2>3, <2>5, <2>6 DEF ForwardFrame, TypeInv
<1>5. CASE PeerReceive
  <2>1. requests' \in 1..Requests /\ requests' = requests + 1
    BY <1>0, <1>5 DEF PeerReceive, TypeInv
  <2>2. Request(requests + 1) \in RequestMessages
    BY <2>1 DEF RequestMessages
  <2>3. /\ peer_rx' \in ChannelOf(RequestMessages, PeerRxCap)
        /\ Overwritten(peer_rx, PeerRxCap) \subseteq RequestMessages
    BY <1>0, <1>5, <1>t, <2>2, PublishedTyped DEF PeerReceive
  <2>4. lost' \subseteq Messages
    BY <1>5, <1>t, <2>3, Kinds DEF PeerReceive
  <2>5. QED
    BY <1>0, <1>5, <2>1, <2>3, <2>4 DEF PeerReceive, TypeInv
<1>6. CASE TakeRequest
  <2>1. /\ peer_rx' \in ChannelOf(RequestMessages, PeerRxCap)
        /\ Head(peer_rx.buf) \in RequestMessages
    BY <1>0, <1>6, <1>t, TakenChannel DEF TakeRequest, HasMessage
  <2>2. sending' \in Single(Messages) /\ sending' # <<>>
    BY <1>6, <2>1, Kinds DEF TakeRequest, Single
  <2>3. QED
    BY <1>6, <2>1, <2>2 DEF TakeRequest, TypeInv
<1>7. CASE MeetLag
  <2>1. peer_rx' \in ChannelOf(RequestMessages, PeerRxCap)
    BY <1>0, <1>7, <1>t, TakenChannel DEF MeetLag
  <2>2. QED
    BY <1>7, <2>1 DEF MeetLag, TypeInv
<1>8. CASE BroadcastFrame
  <2>1. /\ Head(client_chan) \in AllFrames /\ client_chan' \in Seq(AllFrames)
        /\ Len(client_chan') = Len(client_chan) - 1 /\ Len(client_chan) \in Nat
    BY <1>8, <1>t, HeadTailProperties, LenProperties DEF BroadcastFrame
  <2>2. Len(client_chan') <= ClientCap
    BY <1>0, <1>t, <2>1
  <2>3. sending' \in Single(Messages) /\ sending' # <<>>
    BY <1>8, <2>1, Kinds DEF BroadcastFrame, Single
  <2>4. QED
    BY <1>8, <2>1, <2>2, <2>3 DEF BroadcastFrame, TypeInv
<1>9. CASE QueueForPeer
  <2>1. PICK m \in Messages : sending = <<m>>
    BY <1>9, <1>t DEF QueueForPeer, Single, TypeInv
  <2>2. peer_tx' = Append(peer_tx, m)
    BY <1>9, <1>t, <2>1, AppendIsConcat DEF QueueForPeer
  <2>3. peer_tx' \in Seq(Messages) /\ Len(peer_tx') = Len(peer_tx) + 1
    BY <1>t, <2>2, AppendProperties
  <2>4. Len(peer_tx) \in Nat /\ Len(peer_tx) < PeerTxCap
    BY <1>9, <1>t, LenProperties DEF QueueForPeer
  <2>5. Len(peer_tx') <= PeerTxCap
    BY <1>0, <2>3, <2>4
  <2>6. sending' \in Single(Messages) /\ sending' = <<>>
    BY <1>9 DEF QueueForPeer, Single
  <2>7. QED
    BY <1>9, <2>3, <2>5, <2>6 DEF QueueForPeer, TypeInv
<1>10. CASE PeerTransmit
  <2>1. /\ Head(peer_tx) \in Messages /\ peer_tx' \in Seq(Messages)
        /\ Len(peer_tx') = Len(peer_tx) - 1 /\ Len(peer_tx) \in Nat
    BY <1>10, <1>t, HeadTailProperties, LenProperties DEF PeerTransmit
  <2>2. Len(peer_tx') <= PeerTxCap
    BY <1>0, <1>t, <2>1
  <2>3. sent' \subseteq Messages
    BY <1>10, <1>t, <2>1 DEF PeerTransmit
  <2>4. QED
    BY <1>10, <2>1, <2>2, <2>3 DEF PeerTransmit, TypeInv
<1>11. QED
  BY <1>1, <1>2, <1>3, <1>4, <1>5, <1>6, <1>7, <1>8, <1>9, <1>10
     DEF Next, Forwarding, Managing

LEMMA TypeStutter == ASSUME TypeInv, UNCHANGED vars PROVE TypeInv'
BY DEF TypeInv, vars, source, forward, manage

LEMMA TypeAlways == Spec => []TypeInv
<1>1. TypeInv /\ [Next]_vars => TypeInv'
  BY TypeStep, TypeStutter
<1>2. QED
  BY <1>1, TypeInit, PTL DEF Spec

LEMMA Bounded ==
  ASSUME NEW S, NEW n \in Nat, NEW s \in Seq(S), Len(s) <= n
  PROVE  s \in BoundedSeq(S, n)
<1>1. Len(s) \in 0..n /\ s \in [1..Len(s) -> S]
  BY LenProperties
<1>2. QED
  BY <1>1 DEF BoundedSeq, SeqOf

(* The channels hold messages, no more than their capacities, and a task    *)
(* waits to send exactly when it holds something to send.                   *)
THEOREM TypeCorrect == Spec => []TypeOK
<1>1. TypeInv => TypeOK
  <2> SUFFICES ASSUME TypeInv PROVE TypeOK
    OBVIOUS
  <2>1. ClientCap \in Nat /\ PeerTxCap \in Nat /\ RadioCap \in Nat /\ PeerRxCap \in Nat
    BY CapsAssumption
  <2>2. IsChannel(module_rx, Messages, RadioCap) /\ IsChannel(peer_rx, Messages, PeerRxCap)
    BY <2>1, Kinds, Widened, ChannelTyped DEF TypeInv
  <2>3. client_chan \in BoundedSeq(Messages, ClientCap)
    BY <2>1, Pieces, Bounded DEF TypeInv
  <2>4. peer_tx \in BoundedSeq(Messages, PeerTxCap)
    BY <2>1, Pieces, Bounded DEF TypeInv
  <2>5. /\ forwarding \in {<<>>} \cup {<<m>> : m \in Messages}
        /\ sending \in {<<>>} \cup {<<m>> : m \in Messages}
    BY Kinds DEF TypeInv, Single
  <2>6. QED
    BY <2>2, <2>3, <2>4, <2>5 DEF TypeInv, TypeOK
<1>2. QED
  BY <1>1, TypeAlways, PTL

--------------------------------------------------------------------------------
(* AccountedFor of a set of messages sent, a set of messages lost and a     *)
(* path, so that it can be said of two states.                              *)
Accounted(C, n, out, over, path) ==
  /\ Rising(path, C)
  /\ Below(SetNumbers(out, C), Numbers(path, C))
  /\ SetNumbers(over, C) \cap (SetNumbers(out, C) \cup Numbers(path, C)) = {}
  /\ SetNumbers(over, C) \cup SetNumbers(out, C) \cup Numbers(path, C) = 1..n

(* A path whose counted messages stay as they were.                         *)
LEMMA PassedOn ==
  ASSUME NEW C, NEW n, NEW out, NEW over, NEW p, NEW q, SameOrder(p, q, C),
         Accounted(C, n, out, over, p)
  PROVE  Accounted(C, n, out, over, q)
<1>1. Numbers(q, C) = Numbers(p, C) /\ (Rising(p, C) <=> Rising(q, C))
  BY DEF SameOrder
<1>2. QED
  BY <1>1 DEF Accounted

(* The oldest message of a path is sent.                                    *)
LEMMA SentOn ==
  ASSUME NEW S, NEW q \in Seq(S), NEW h \in S, NEW C, \A m \in C : m[2] \in Nat,
         NEW n, NEW out, NEW over, Accounted(C, n, out, over, <<h>> \o q)
  PROVE  Accounted(C, n, out \cup {h}, over, q)
<1> DEFINE s == <<h>>
           H == SetNumbers({h}, C)
           O == SetNumbers(out, C)
           L == SetNumbers(over, C)
           Q == Numbers(q, C)
           P == Numbers(s \o q, C)
<1>1. s \in Seq(S)
  OBVIOUS
<1>2. Numbers(s, C) = H /\ Rising(s, C)
  BY FewMessages
<1>3. Rising(s \o q, C) /\ Below(O, P) /\ L \cap (O \cup P) = {} /\ L \cup O \cup P = 1..n
  BY DEF Accounted
<1>4. SetNumbers(out \cup {h}, C) = O \cup H
  BY JoinedNumbers
<1> HIDE DEF s, H, O, L, Q, P
<1>5. /\ Numbers(s \o q, C) = Numbers(s, C) \cup Numbers(q, C)
      /\ Rising(s \o q, C) <=> /\ Rising(s, C) /\ Rising(q, C)
                               /\ Below(Numbers(s, C), Numbers(q, C))
  BY <1>1, ConcatOrder
<1>6. P = H \cup Q /\ Below(H, Q) /\ Rising(q, C)
  BY <1>2, <1>3, <1>5 DEF P, Q
<1>7. Below(O \cup H, Q)
  BY <1>3, <1>6 DEF Below
<1>8. L \cap (O \cup H \cup Q) = {} /\ L \cup (O \cup H) \cup Q = 1..n
  BY <1>3, <1>6
<1>9. QED
  BY <1>4, <1>6, <1>7, <1>8 DEF Accounted, L, Q

(* A message comes in at the end of a path.                                 *)
LEMMA CameIn ==
  ASSUME NEW S, NEW cap \in Nat \ {0}, NEW ch \in ChannelOf(S, cap), NEW m \in S,
         NEW f \in Seq(S), NEW C, \A x \in C : x[2] \in Nat, NEW n \in Nat, NEW k,
         NEW out, NEW over, Accounted(C, n, out, over, f \o ch.buf),
         m \in C => m[2] = n + 1 /\ k = n + 1,
         m \notin C => k = n
  PROVE  Accounted(C, k, out, over \cup Overwritten(ch, cap), f \o Published(ch, cap, m).buf)
<1> DEFINE new  == Published(ch, cap, m)
           G == SetNumbers(Overwritten(ch, cap), C)
           M == SetNumbers({m}, C)
           O == SetNumbers(out, C)
           L == SetNumbers(over, C)
           P == Numbers(f \o ch.buf, C)
           Q == Numbers(f \o new.buf, C)
<1>1. /\ Rising(f \o ch.buf, C)
      /\ Below(O, P) /\ L \cap (O \cup P) = {} /\ L \cup O \cup P = 1..n
  BY DEF Accounted
<1>2. m \in C => \A a \in P : a < m[2]
  BY <1>1
<1>p. /\ Rising(f \o ch.buf, C)
      /\ m \in C => \A a \in Numbers(f \o ch.buf, C) : a < m[2]
  BY <1>1, <1>2
<1>3. /\ Rising(f \o new.buf, C) /\ Q = (P \ G) \cup M /\ G \subseteq P
  <2> HIDE DEF G, M, P, Q, new
  <2>1. /\ Rising(f \o Published(ch, cap, m).buf, C)
        /\ Renewed(Numbers(f \o ch.buf, C), SetNumbers(Overwritten(ch, cap), C),
                   SetNumbers({m}, C), Numbers(f \o Published(ch, cap, m).buf, C))
    BY <1>p, PublishedOrder
  <2>2. QED
    BY <2>1 DEF Renewed, new, G, M, P, Q
<1>4. SetNumbers(over \cup Overwritten(ch, cap), C) = L \cup G
  BY JoinedNumbers
<1>5. (m \in C => M = {n + 1} /\ k = n + 1) /\ (m \notin C => M = {} /\ k = n)
  BY DEF SetNumbers
<1> HIDE DEF new, G, M, O, L, P, Q
<1>6. CASE m \in C
  <2>1. M = {n + 1} /\ k = n + 1
    BY <1>5, <1>6
  <2>2. \A x \in L \cup O \cup P : x \in 1..n
    BY <1>1
  <2>3. Below(O, Q)
    BY <1>1, <1>3, <2>1, <2>2 DEF Below
  <2>4. 1..k = (1..n) \cup {n + 1} /\ n + 1 \notin 1..n
    BY <2>1
  <2>5. (L \cup G) \cap (O \cup Q) = {}
    <3>1. G \cap O = {}
      BY <1>1, <1>3, <2>2 DEF Below
    <3>2. QED
      BY <1>1, <1>3, <2>1, <2>2, <2>4, <3>1
  <2>6. (L \cup G) \cup O \cup Q = 1..k
    BY <1>1, <1>3, <2>1, <2>4
  <2>7. QED
    BY <1>3, <1>4, <2>3, <2>5, <2>6 DEF Accounted, O, Q, new
<1>7. CASE m \notin C
  <2>1. M = {} /\ k = n
    BY <1>5, <1>7
  <2>2. \A x \in L \cup O \cup P : x \in 1..n
    BY <1>1
  <2>3. Below(O, Q)
    BY <1>1, <1>3, <2>1 DEF Below
  <2>4. (L \cup G) \cap (O \cup Q) = {}
    <3>1. G \cap O = {}
      BY <1>1, <1>3, <2>2 DEF Below
    <3>2. QED
      BY <1>1, <1>3, <2>1, <3>1
  <2>5. (L \cup G) \cup O \cup Q = 1..k
    BY <1>1, <1>3, <2>1
  <2>6. QED
    BY <1>3, <1>4, <2>3, <2>4, <2>5 DEF Accounted, O, Q, new
<1>8. QED
  BY <1>6, <1>7

(* A message of the other kind is overwritten.                              *)
LEMMA OthersLost ==
  ASSUME NEW C, NEW n, NEW out, NEW over, NEW path, NEW gone, gone \cap C = {},
         Accounted(C, n, out, over, path)
  PROVE  Accounted(C, n, out, over \cup gone, path)
<1>1. SetNumbers(over \cup gone, C) = SetNumbers(over, C)
  <2>1. SetNumbers(gone, C) = {}
    BY JoinedNumbers
  <2>2. SetNumbers(over \cup gone, C) = SetNumbers(over, C) \cup SetNumbers(gone, C)
    BY JoinedNumbers
  <2>3. QED
    BY <2>1, <2>2
<1>2. QED
  BY <1>1 DEF Accounted

--------------------------------------------------------------------------------
LEMMA Numbered ==
  /\ \A m \in FrameMessages : m[2] \in Nat
  /\ \A m \in RequestMessages : m[2] \in Nat
BY Kinds

LEMMA SameAsItWas == ASSUME NEW s, NEW C PROVE SameOrder(s, s, C)
BY DEF SameOrder

(* A task passes a message on, or takes one of the other kind: every step   *)
(* that brings no message in and sends none keeps the order of both paths.  *)
Inner == TakeFrame \/ SkipLag \/ ForwardFrame \/ Managing

LEMMA InnerSteps ==
  ASSUME TypeInv, Inner
  PROVE  /\ UNCHANGED <<frames, requests, sent, lost>>
         /\ SameOrder(FramePath, FramePath', FrameMessages)
         /\ SameOrder(RequestPath, RequestPath', RequestMessages)
<1> USE DEF forward, manage, source
<1> DEFINE T  == peer_tx
           X  == sending
           K  == client_chan
           W  == forwarding
           B  == module_rx.buf
           R  == peer_rx.buf
<1>0. /\ RadioCap \in Nat /\ PeerRxCap \in Nat
  BY CapsAssumption
<1>s. /\ T \in Seq(Messages) /\ X \in Seq(Messages) /\ K \in Seq(Messages)
      /\ W \in Seq(Messages) /\ B \in Seq(Messages) /\ R \in Seq(Messages)
  BY Pieces
<1>c. /\ module_rx \in ChannelOf(AllFrames, RadioCap)
      /\ peer_rx \in ChannelOf(RequestMessages, PeerRxCap)
      /\ K \in Seq(AllFrames)
  BY DEF TypeInv
<1>p. /\ FramePath = (((T \o X) \o K) \o W) \o B
      /\ RequestPath = (T \o X) \o R
      /\ FramePath' = (((T' \o X') \o K') \o W') \o B'
      /\ RequestPath' = (T' \o X') \o R'
  BY DEF FramePath, RequestPath
<1> HIDE DEF T, X, K, W, B, R
<1>o. /\ T \o X \in Seq(Messages) /\ (T \o X) \o K \in Seq(Messages)
      /\ ((T \o X) \o K) \o W \in Seq(Messages)
  BY <1>s, ConcatProperties
<1>1. CASE TakeFrame
  <2>1. B # <<>> /\ W = <<>> /\ W' = <<Head(B)>> /\ B' = Tail(B)
    BY <1>0, <1>1, <1>c, TakenChannel DEF TakeFrame, HasMessage, W, B
  <2>2. UNCHANGED <<T, X, K, R>>
    BY <1>1 DEF TakeFrame, T, X, K, R
  <2>3. ((T \o X) \o K) \o W = (T \o X) \o K
    BY <1>o, <2>1, ConcatEmptySeq
  <2>4. FramePath' = FramePath
    <3> DEFINE F == (T \o X) \o K
    <3>1. F \in Seq(Messages)
      BY <1>o
    <3>2. FramePath = F \o B /\ FramePath' = (F \o <<Head(B)>>) \o Tail(B)
      BY <1>p, <2>1, <2>2, <2>3
    <3> HIDE DEF F
    <3>3. (F \o <<Head(B)>>) \o Tail(B) = F \o B
      BY <1>s, <2>1, <3>1, Passed
    <3>4. QED
      BY <3>2, <3>3
  <2>5. RequestPath' = RequestPath
    BY <1>p, <2>2
  <2>6. QED
    BY <1>1, <2>4, <2>5, SameAsItWas DEF TakeFrame
<1>2. CASE SkipLag
  <2>1. UNCHANGED <<T, X, K, W, B, R>>
    BY <1>0, <1>2, <1>c, TakenChannel DEF SkipLag, T, X, K, W, B, R
  <2>2. FramePath' = FramePath /\ RequestPath' = RequestPath
    BY <1>p, <2>1
  <2>3. QED
    BY <1>2, <2>2, SameAsItWas DEF SkipLag
<1>3. CASE ForwardFrame
  <2>1. W' = <<>> /\ K' = K \o W
    BY <1>3 DEF ForwardFrame, W, K
  <2>2. UNCHANGED <<T, X, B, R>>
    BY <1>3 DEF ForwardFrame, T, X, B, R
  <2>3. (T \o X) \o K' = ((T \o X) \o K) \o W
    <3> DEFINE F == T \o X
    <3>1. F \in Seq(Messages) /\ K \in Seq(Messages) /\ W \in Seq(Messages)
      BY <1>o, <1>s
    <3> HIDE DEF F
    <3>2. (F \o K) \o W = F \o (K \o W)
      <4>1. \A s, t, u \in Seq(Messages) : (s \o t) \o u = s \o (t \o u)
        BY ConcatAssociative
      <4>2. QED
        BY <3>1, <4>1
    <3>3. QED
      BY <2>1, <3>2 DEF F
  <2>4. ((T' \o X') \o K') \o W' = ((T \o X) \o K) \o W
    BY <1>o, <2>1, <2>2, <2>3, ConcatEmptySeq
  <2>5. FramePath' = FramePath /\ RequestPath' = RequestPath
    BY <1>p, <2>2, <2>4
  <2>6. QED
    BY <1>3, <2>5, SameAsItWas DEF ForwardFrame
<1>4. CASE TakeRequest
  <2>1. /\ R # <<>> /\ X = <<>> /\ X' = <<Head(R)>> /\ R' = Tail(R)
        /\ Head(R) \in RequestMessages
    BY <1>0, <1>4, <1>c, TakenChannel DEF TakeRequest, HasMessage, TypeInv, X, R
  <2>2. UNCHANGED <<T, K, W, B>>
    BY <1>4 DEF TakeRequest, T, K, W, B
  <2>3. T \o X = T
    BY <1>s, <2>1, ConcatEmptySeq
  <2>4. RequestPath' = RequestPath
    <3>1. (T \o <<Head(R)>>) \o Tail(R) = T \o R
      BY <1>s, <2>1, Passed
    <3>2. QED
      BY <1>p, <2>1, <2>2, <2>3, <3>1
  <2>5. T \o X' \in Seq(Messages) /\ SameOrder(T, T \o X', FrameMessages)
    <3> DEFINE h == Head(R)
    <3>1. h \in Messages /\ h \notin FrameMessages
      BY <2>1, Kinds
    <3> HIDE DEF h
    <3>2. SameOrder(T, T \o <<h>>, FrameMessages) /\ <<h>> \in Seq(Messages)
      BY <1>s, <3>1, UncountedMessage
    <3>3. T \o <<h>> \in Seq(Messages)
      BY <1>s, <3>2, ConcatProperties
    <3>4. QED
      BY <2>1, <3>2, <3>3 DEF h
  <2>6. SameOrder(FramePath, FramePath', FrameMessages)
    <3> DEFINE A == T \o X'
    <3>1. A \in Seq(Messages) /\ SameOrder(T, A, FrameMessages)
      BY <2>5
    <3> HIDE DEF A
    <3>2. /\ SameOrder(T \o K, A \o K, FrameMessages)
          /\ T \o K \in Seq(Messages) /\ A \o K \in Seq(Messages)
      BY <1>s, <3>1, SameOrderConcat, ConcatProperties
    <3>3. /\ SameOrder((T \o K) \o W, (A \o K) \o W, FrameMessages)
          /\ (T \o K) \o W \in Seq(Messages) /\ (A \o K) \o W \in Seq(Messages)
      BY <1>s, <3>2, SameOrderConcat, ConcatProperties
    <3>4. SameOrder(((T \o K) \o W) \o B, ((A \o K) \o W) \o B, FrameMessages)
      BY <1>s, <3>3, SameOrderConcat
    <3>5. QED
      BY <1>p, <2>2, <2>3, <3>4 DEF A
  <2>7. QED
    BY <1>4, <2>4, <2>6, SameAsItWas DEF TakeRequest
<1>5. CASE MeetLag
  <2>1. UNCHANGED <<T, X, K, W, B, R>>
    BY <1>0, <1>5, <1>c, TakenChannel DEF MeetLag, T, X, K, W, B, R
  <2>2. FramePath' = FramePath /\ RequestPath' = RequestPath
    BY <1>p, <2>1
  <2>3. QED
    BY <1>5, <2>2, SameAsItWas DEF MeetLag
<1>6. CASE BroadcastFrame
  <2>1. /\ K # <<>> /\ X = <<>> /\ X' = <<Head(K)>> /\ K' = Tail(K)
        /\ Head(K) \in AllFrames
    BY <1>6, <1>c, HeadTailProperties DEF BroadcastFrame, TypeInv, X, K
  <2>2. UNCHANGED <<T, W, B, R>>
    BY <1>6 DEF BroadcastFrame, T, W, B, R
  <2>3. T \o X = T
    BY <1>s, <2>1, ConcatEmptySeq
  <2>4. (T' \o X') \o K' = (T \o X) \o K
    BY <1>s, <2>1, <2>2, <2>3, Passed
  <2>5. FramePath' = FramePath
    BY <1>p, <2>2, <2>4
  <2>6. SameOrder(RequestPath, RequestPath', RequestMessages)
    <3> DEFINE h == Head(K)
    <3>1. h \in Messages /\ h \notin RequestMessages
      BY <2>1, Kinds
    <3> HIDE DEF h
    <3>2. SameOrder(T, T \o <<h>>, RequestMessages) /\ <<h>> \in Seq(Messages)
      BY <1>s, <3>1, UncountedMessage
    <3>3. T \o <<h>> \in Seq(Messages)
      BY <1>s, <3>2, ConcatProperties
    <3>4. SameOrder(T \o R, (T \o <<h>>) \o R, RequestMessages)
      BY <1>s, <3>2, <3>3, SameOrderConcat
    <3>5. QED
      BY <1>p, <2>1, <2>2, <2>3, <3>4 DEF h
  <2>7. QED
    BY <1>6, <2>5, <2>6, SameAsItWas DEF BroadcastFrame
<1>7. CASE QueueForPeer
  <2>1. X' = <<>> /\ T' = T \o X
    BY <1>7 DEF QueueForPeer, X, T
  <2>2. UNCHANGED <<K, W, B, R>>
    BY <1>7 DEF QueueForPeer, K, W, B, R
  <2>3. T' \o X' = T \o X
    BY <1>o, <2>1, ConcatEmptySeq
  <2>4. FramePath' = FramePath /\ RequestPath' = RequestPath
    BY <1>p, <2>2, <2>3
  <2>5. QED
    BY <1>7, <2>4, SameAsItWas DEF QueueForPeer
<1>8. QED
  BY <1>1, <1>2, <1>3, <1>4, <1>5, <1>6, <1>7 DEF Inner, Managing

LEMMA FramesSaid == FramesInv <=> Accounted(FrameMessages, Counted, sent, lost, FramePath)
BY DEF FramesInv, AccountedFor, Accounted, Below

LEMMA RequestsSaid ==
  RequestsInv <=> Accounted(RequestMessages, requests, sent, lost, RequestPath)
BY DEF RequestsInv, AccountedFor, Accounted, Below

LEMMA FramesSaidNext ==
  FramesInv' <=> Accounted(FrameMessages, Counted', sent', lost', FramePath')
BY DEF FramesInv, AccountedFor, Accounted, Below

LEMMA RequestsSaidNext ==
  RequestsInv' <=> Accounted(RequestMessages, requests', sent', lost', RequestPath')
BY DEF RequestsInv, AccountedFor, Accounted, Below

LEMMA PathsInit == Init => FramesInv /\ RequestsInv
<1> SUFFICES ASSUME Init PROVE FramesInv /\ RequestsInv
  OBVIOUS
<1>1. /\ Frames \in Nat /\ frames = 0 /\ requests = 0 /\ sent = {} /\ lost = {}
      /\ peer_tx = <<>> /\ sending = <<>> /\ client_chan = <<>> /\ forwarding = <<>>
      /\ module_rx.buf = <<>> /\ peer_rx.buf = <<>>
  BY CapsAssumption DEF Init, Quiet
<1>2. <<>> \o <<>> = <<>>
  BY EmptySeq, ConcatEmptySeq
<1>3. FramePath = <<>> /\ RequestPath = <<>>
  BY <1>1, <1>2 DEF FramePath, RequestPath
<1>4. \A C : Numbers(<<>>, C) = {} /\ Rising(<<>>, C) /\ SetNumbers({}, C) = {}
  BY FewMessages DEF SetNumbers
<1>5. Counted = 0 /\ 1..0 = {}
  BY <1>1 DEF Counted
<1>6. ASSUME NEW C PROVE Accounted(C, 0, {}, {}, <<>>)
  BY <1>4, <1>5 DEF Accounted, Below
<1>7. QED
  BY <1>1, <1>3, <1>5, <1>6, FramesSaid, RequestsSaid

LEMMA PathsStep ==
  ASSUME TypeInv, FramesInv, RequestsInv, Next
  PROVE  FramesInv' /\ RequestsInv'
<1> USE DEF forward, manage, source
<1>0. /\ Frames \in Nat /\ Requests \in Nat /\ RadioCap \in Nat \ {0}
      /\ PeerRxCap \in Nat \ {0}
  BY CapsAssumption
<1>f. Accounted(FrameMessages, Counted, sent, lost, FramePath)
  BY FramesSaid
<1>r. Accounted(RequestMessages, requests, sent, lost, RequestPath)
  BY RequestsSaid
<1>n. /\ frames \in Nat /\ requests \in Nat /\ Counted \in Nat
      /\ frames \in 0..(Frames + 1)
  BY <1>0 DEF TypeInv, Counted
<1>c. /\ module_rx \in ChannelOf(AllFrames, RadioCap)
      /\ peer_rx \in ChannelOf(RequestMessages, PeerRxCap)
      /\ module_rx \in ChannelOf(Messages, RadioCap)
      /\ peer_rx \in ChannelOf(Messages, PeerRxCap)
  BY <1>0, Kinds, Widened DEF TypeInv
<1>s. /\ peer_tx \in Seq(Messages) /\ sending \in Seq(Messages)
      /\ client_chan \in Seq(Messages) /\ forwarding \in Seq(Messages)
      /\ module_rx.buf \in Seq(Messages) /\ peer_rx.buf \in Seq(Messages)
  BY Pieces
<1>o. /\ peer_tx \o sending \in Seq(Messages)
      /\ (peer_tx \o sending) \o client_chan \in Seq(Messages)
      /\ ((peer_tx \o sending) \o client_chan) \o forwarding \in Seq(Messages)
  BY <1>s, ConcatProperties
<1>1. CASE RadioFrame
  <2> DEFINE m == Frame(frames')
             ahead == ((peer_tx \o sending) \o client_chan) \o forwarding
  <2>1. /\ frames' = IF frames <= Frames THEN frames + 1 ELSE frames
        /\ frames' \in 1..(Frames + 1) /\ m[2] = frames'
    BY <1>0, <1>1, <1>n DEF RadioFrame, Frame
  <2>2. m \in AllFrames /\ m \in Messages
    BY <2>1, Kinds DEF AllFrames
  <2>3. m \in FrameMessages <=> frames' <= Frames
    BY <1>0, <2>1 DEF FrameMessages, Frame
  <2>4. /\ m \in FrameMessages => m[2] = Counted + 1 /\ Counted' = Counted + 1
        /\ m \notin FrameMessages => Counted' = Counted
    BY <1>0, <1>n, <2>1, <2>3 DEF Counted
  <2>5. /\ module_rx' = Published(module_rx, RadioCap, m)
        /\ lost' = lost \cup Overwritten(module_rx, RadioCap)
        /\ UNCHANGED <<requests, peer_tx, sending, client_chan, forwarding, peer_rx, sent>>
    BY <1>1 DEF RadioFrame
  <2>6. /\ FramePath = ahead \o module_rx.buf
        /\ FramePath' = ahead \o Published(module_rx, RadioCap, m).buf
        /\ RequestPath' = RequestPath
    BY <2>5 DEF FramePath, RequestPath
  <2>7. ahead \in Seq(Messages)
    BY <1>o
  <2>8. Overwritten(module_rx, RadioCap) \cap RequestMessages = {}
    BY <1>0, <1>c, <2>2, PublishedTyped, Kinds
  <2> HIDE DEF m, ahead
  <2>9. Accounted(FrameMessages, Counted, sent, lost, ahead \o module_rx.buf)
    BY <1>f, <2>6
  <2>10. Accounted(FrameMessages, Counted', sent, lost \cup Overwritten(module_rx, RadioCap),
                   ahead \o Published(module_rx, RadioCap, m).buf)
    BY <1>0, <1>c, <1>n, <2>2, <2>4, <2>7, <2>9, Numbered, CameIn
  <2>11. Accounted(RequestMessages, requests, sent,
                   lost \cup Overwritten(module_rx, RadioCap), RequestPath)
    BY <1>r, <2>8, OthersLost
  <2>12. FramesInv'
    BY <2>5, <2>6, <2>10, FramesSaidNext
  <2>13. RequestsInv'
    BY <2>5, <2>6, <2>11, RequestsSaidNext
  <2>14. QED
    BY <2>12, <2>13
<1>2. CASE PeerReceive
  <2> DEFINE m == Request(requests + 1)
             ahead == peer_tx \o sending
  <2>1. /\ requests' = requests + 1 /\ requests + 1 \in 1..Requests /\ m[2] = requests + 1
    BY <1>0, <1>2, <1>n DEF PeerReceive, Request
  <2>2. m \in RequestMessages /\ m \in Messages
    BY <2>1, Kinds DEF RequestMessages
  <2>3. /\ peer_rx' = Published(peer_rx, PeerRxCap, m)
        /\ lost' = lost \cup Overwritten(peer_rx, PeerRxCap)
        /\ UNCHANGED <<frames, peer_tx, sending, client_chan, forwarding, module_rx, sent>>
    BY <1>2 DEF PeerReceive
  <2>4. /\ RequestPath = ahead \o peer_rx.buf
        /\ RequestPath' = ahead \o Published(peer_rx, PeerRxCap, m).buf
        /\ FramePath' = FramePath /\ Counted' = Counted
    BY <2>3 DEF FramePath, RequestPath, Counted
  <2>5. ahead \in Seq(Messages)
    BY <1>o
  <2>6. Overwritten(peer_rx, PeerRxCap) \cap FrameMessages = {}
    BY <1>0, <1>c, <2>2, PublishedTyped, Kinds
  <2> HIDE DEF m, ahead
  <2>7. Accounted(RequestMessages, requests, sent, lost, ahead \o peer_rx.buf)
    BY <1>r, <2>4
  <2>8. Accounted(RequestMessages, requests', sent, lost \cup Overwritten(peer_rx, PeerRxCap),
                  ahead \o Published(peer_rx, PeerRxCap, m).buf)
    BY <1>0, <1>c, <1>n, <2>1, <2>2, <2>5, <2>7, Numbered, CameIn
  <2>9. Accounted(FrameMessages, Counted, sent,
                  lost \cup Overwritten(peer_rx, PeerRxCap), FramePath)
    BY <1>f, <2>6, OthersLost
  <2>10. RequestsInv'
    BY <2>3, <2>4, <2>8, RequestsSaidNext
  <2>11. FramesInv'
    BY <2>3, <2>4, <2>9, FramesSaidNext
  <2>12. QED
    BY <2>10, <2>11
<1>3. CASE PeerTransmit
  <2> DEFINE h  == Head(peer_tx)
             hd == <<h>>
             t  == Tail(peer_tx)
             r1 == t \o sending
             r2 == r1 \o client_chan
             r3 == r2 \o forwarding
  <2>1. /\ h \in Messages /\ t \in Seq(Messages) /\ hd \in Seq(Messages)
        /\ hd \o t = peer_tx
    BY <1>3, <1>s, HeadFirst DEF PeerTransmit
  <2>2. /\ peer_tx' = t /\ sent' = sent \cup {h}
        /\ UNCHANGED <<frames, requests, sending, client_chan, forwarding, module_rx, peer_rx, lost>>
    BY <1>3 DEF PeerTransmit
  <2>9. FramePath' = r3 \o module_rx.buf /\ RequestPath' = r1 \o peer_rx.buf
    BY <2>2 DEF FramePath, RequestPath
  <2> HIDE DEF h, hd, t
  <2>3. /\ r1 \in Seq(Messages) /\ r2 \in Seq(Messages) /\ r3 \in Seq(Messages)
        /\ r3 \o module_rx.buf \in Seq(Messages) /\ r1 \o peer_rx.buf \in Seq(Messages)
    BY <1>s, <2>1, ConcatProperties
  <2>a. ASSUME NEW p, NEW r \in Seq(Messages), p = hd \o r, NEW q \in Seq(Messages)
        PROVE  p \o q = hd \o (r \o q)
    <3>1. hd \in Seq(Messages)
      BY <2>1
    <3>2. \A s, u, v \in Seq(Messages) : (s \o u) \o v = s \o (u \o v)
      BY ConcatAssociative
    <3>3. (hd \o r) \o q = hd \o (r \o q)
      BY <3>1, <3>2
    <3>4. QED
      BY <2>a, <3>3
  <2>4. peer_tx \o sending = hd \o r1
    BY <1>s, <2>1, <2>a
  <2> HIDE DEF r1
  <2>5. (peer_tx \o sending) \o client_chan = hd \o r2
    BY <1>s, <2>3, <2>4, <2>a
  <2> HIDE DEF r2
  <2>6. ((peer_tx \o sending) \o client_chan) \o forwarding = hd \o r3
    BY <1>s, <2>3, <2>5, <2>a
  <2> HIDE DEF r3
  <2>7. FramePath = <<h>> \o (r3 \o module_rx.buf)
    BY <1>s, <2>3, <2>6, <2>a DEF FramePath, hd
  <2>8. RequestPath = <<h>> \o (r1 \o peer_rx.buf)
    BY <1>s, <2>3, <2>4, <2>a DEF RequestPath, hd
  <2>10. Counted' = Counted
    BY <2>2 DEF Counted
  <2>11. Accounted(FrameMessages, Counted, sent \cup {h}, lost, r3 \o module_rx.buf)
    BY <1>f, <2>1, <2>3, <2>7, Numbered, SentOn
  <2>12. Accounted(RequestMessages, requests, sent \cup {h}, lost, r1 \o peer_rx.buf)
    BY <1>r, <2>1, <2>3, <2>8, Numbered, SentOn
  <2>13. FramesInv'
    BY <2>2, <2>9, <2>10, <2>11, FramesSaidNext
  <2>14. RequestsInv'
    BY <2>2, <2>9, <2>12, RequestsSaidNext
  <2>15. QED
    BY <2>13, <2>14
<1>4. CASE Inner
  <2>1. /\ UNCHANGED <<frames, requests, sent, lost>>
        /\ SameOrder(FramePath, FramePath', FrameMessages)
        /\ SameOrder(RequestPath, RequestPath', RequestMessages)
    BY <1>4, InnerSteps
  <2>2. Counted' = Counted
    BY <2>1 DEF Counted
  <2>3. Accounted(FrameMessages, Counted, sent, lost, FramePath')
    BY <1>f, <2>1, PassedOn
  <2>4. Accounted(RequestMessages, requests, sent, lost, RequestPath')
    BY <1>r, <2>1, PassedOn
  <2>5. FramesInv'
    BY <2>1, <2>2, <2>3, FramesSaidNext
  <2>6. RequestsInv'
    BY <2>1, <2>4, RequestsSaidNext
  <2>7. QED
    BY <2>5, <2>6
<1>5. QED
  BY <1>1, <1>2, <1>3, <1>4 DEF Next, Forwarding, Inner

LEMMA PathsStutter ==
  ASSUME FramesInv, RequestsInv, UNCHANGED vars
  PROVE  FramesInv' /\ RequestsInv'
<1>1. UNCHANGED <<Counted, requests, sent, lost, FramePath, RequestPath>>
  BY DEF vars, source, forward, manage, Counted, FramePath, RequestPath
<1>2. QED
  BY <1>1, FramesSaid, RequestsSaid, FramesSaidNext, RequestsSaidNext

(* What came in of one kind is sent, on its path in its order, or was       *)
(* overwritten: for channels of any capacity, and whether or not a client,  *)
(* the runtime or the frames that keep coming let a task run.               *)
THEOREM NothingLost == Spec => []NothingLostButByLag
<1>1. FramesInv /\ RequestsInv => NothingLostButByLag
  BY DEF FramesInv, RequestsInv, NothingLostButByLag, Counted
<1>2. TypeInv /\ FramesInv /\ RequestsInv /\ [Next]_vars => FramesInv' /\ RequestsInv'
  BY PathsStep, PathsStutter
<1>3. QED
  BY <1>1, <1>2, PathsInit, TypeAlways, PTL DEF Spec

================================================================================
